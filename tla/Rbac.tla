-------------------------------- MODULE Rbac --------------------------------
(***************************************************************************)
(* RBACBuilder (context/rbac.rs) and Context::apply_rbac                   *)
(* (context/network.rs), used by several tests that may name the same      *)
(* service account or the same role.                                       *)
(*                                                                         *)
(* The builder turns what a test asks for - verbs on resources - into      *)
(* policy rules; a rule grants each of its verbs on each of its resources  *)
(* in each of its API groups.  apply_rbac is three applies in a row: the   *)
(* account, the role, the binding.  Each may fail, before or after it took *)
(* effect, and the next is then not sent.  The API server does not let a   *)
(* binding change its role.                                                *)
(***************************************************************************)
EXTENDS Naturals

CONSTANTS Grantors,
          Accounts,     \* names of service accounts
          CustomRoles,  \* names given to with_role
          NoRole,       \* the account has no binding
          Nobody,       \* no caller has applied the role
          Verbs, Resources,
          VerbLists, ResourceLists,  \* what one call of the builder names
          CustomGroups, \* API groups given to for_api_group
          MaxCalls      \* bound: permissions asked for, over all builders

ASSUME NamesAssumption ==
  /\ NoRole \notin CustomRoles \cup (Accounts \X {"role"})
  /\ Nobody \notin Grantors
  /\ VerbLists \subseteq SUBSET Verbs /\ ResourceLists \subseteq SUBSET Resources
  /\ MaxCalls \in Nat

DefaultRole(a) == <<a, "role">>
RoleNames == {DefaultRole(a) : a \in Accounts} \cup CustomRoles

-----------------------------------------------------------------------------
(* Permissions.                                                            *)

InApps == {"deployments", "statefulsets", "daemonsets", "replicasets",
           "controllerrevisions"}
InBatch == {"jobs", "cronjobs"}
InNetworking == {"ingresses", "networkpolicies", "ingressclasses"}
InRbac == {"roles", "rolebindings", "clusterroles", "clusterrolebindings"}

(* api_group_for_resource: whatever is not listed is taken for core.       *)
ApiGroup(r) ==
  CASE r \in InApps -> "apps"
    [] r \in InBatch -> "batch"
    [] r \in InNetworking -> "networking.k8s.io"
    [] r \in InRbac -> "rbac.authorization.k8s.io"
    [] r = "horizontalpodautoscalers" -> "autoscaling"
    [] r = "poddisruptionbudgets" -> "policy"
    [] OTHER -> "core"

Groups == {ApiGroup(r) : r \in Resources} \cup CustomGroups
Rule == [verbs : SUBSET Verbs, groups : SUBSET Groups, resources : SUBSET Resources]
Permission == Verbs \X Groups \X Resources

(* External: what the API server reads into rules.                         *)
Grants(R) == {p \in Permission : \E r \in R : /\ p[1] \in r.verbs
                                              /\ p[2] \in r.groups
                                              /\ p[3] \in r.resources}

(* add_rule: one rule for each API group.                                  *)
RulesByGroup(vs, rs) ==
  {[verbs |-> vs, groups |-> {g}, resources |-> {r \in rs : ApiGroup(r) = g}] :
     g \in {ApiGroup(r) : r \in rs}}

-----------------------------------------------------------------------------
VARIABLES stage,                   \* per caller: building, or its next apply
          account, role, rules, \* per caller: the builder, then the bundle
          asked,                \* history, per caller: the permissions asked for
          calls,                \* bound
          accounts,             \* the service accounts that exist
          roles,                \* per role name: its rules
          binding,              \* per account: the role it is bound to
          writer                \* history, per role name: who applied it last

builder == <<account, role, rules, asked, calls>>
cluster == <<accounts, roles, binding, writer>>
rbacVars == <<stage, builder, cluster>>

RbacInit ==
  /\ stage = [c \in Grantors |-> "building"]
  /\ account \in [Grantors -> Accounts]
  /\ role = [c \in Grantors |-> DefaultRole(account[c])]
  /\ rules = [c \in Grantors |-> {}]
  /\ asked = [c \in Grantors |-> {}]
  /\ calls = 0
  /\ accounts = {}
  /\ roles = [n \in RoleNames |-> {}]
  /\ binding = [a \in Accounts |-> NoRole]
  /\ writer = [n \in RoleNames |-> Nobody]

MoveTo(c, label) == stage' = [stage EXCEPT ![c] = label]

WithRole(c, n) ==
  /\ stage[c] = "building"
  /\ role' = [role EXCEPT ![c] = n]
  /\ UNCHANGED <<stage, account, rules, asked, calls, cluster>>

Ask(c, newRules, permissions) ==
  /\ stage[c] = "building" /\ calls < MaxCalls
  /\ calls' = calls + 1
  /\ rules' = [rules EXCEPT ![c] = @ \cup newRules]
  /\ asked' = [asked EXCEPT ![c] = @ \cup permissions]
  /\ UNCHANGED <<stage, account, role, cluster>>

(* can, and can_get, ..., can_all, which are can with fixed verbs.         *)
Can(c, vs, rs) ==
  Ask(c, RulesByGroup(vs, rs), {p \in Permission : /\ p[1] \in vs
                                                   /\ p[3] \in rs
                                                   /\ p[2] = ApiGroup(p[3])})

ForApiGroup(c, g, vs, rs) ==
  Ask(c, {[verbs |-> vs, groups |-> {g}, resources |-> rs]},
      {p \in Permission : p[1] \in vs /\ p[2] = g /\ p[3] \in rs})

Build(c) ==
  /\ stage[c] = "building"
  /\ MoveTo(c, "account")
  /\ UNCHANGED <<builder, cluster>>

-----------------------------------------------------------------------------
(* apply_rbac.  An apply that took effect is either answered, or its       *)
(* answer is lost and the call ends with an error.                         *)
After(c, label) == \E l \in {label, "error"} : MoveTo(c, l)

ApplyAccount(c) ==
  /\ stage[c] = "account"
  /\ accounts' = accounts \cup {account[c]}
  /\ After(c, "role")
  /\ UNCHANGED <<builder, roles, binding, writer>>

(* Mutation: the binding is applied although the role was not.             *)
ApplyRoleOrGoOn(c) ==
  /\ stage[c] = "role"
  /\ \/ /\ roles' = [roles EXCEPT ![role[c]] = rules[c]]
        /\ writer' = [writer EXCEPT ![role[c]] = c]
     \/ UNCHANGED <<roles, writer>>
  /\ MoveTo(c, "binding")
  /\ UNCHANGED <<builder, accounts, binding>>

ApplyRole(c) ==
  /\ stage[c] = "role"
  /\ roles' = [roles EXCEPT ![role[c]] = rules[c]]
  /\ writer' = [writer EXCEPT ![role[c]] = c]
  /\ After(c, "binding")
  /\ UNCHANGED <<builder, accounts, binding>>

(* Mutation: a binding that is there already is good enough.               *)
BindOrReuse(c) ==
  /\ stage[c] = "binding"
  /\ binding' = [binding EXCEPT ![account[c]] = IF @ = NoRole THEN role[c] ELSE @]
  /\ After(c, "ok")
  /\ UNCHANGED <<builder, accounts, roles, writer>>

ApplyBinding(c) ==
  /\ stage[c] = "binding"
  /\ binding[account[c]] \in {NoRole, role[c]}
  /\ binding' = [binding EXCEPT ![account[c]] = role[c]]
  /\ After(c, "ok")
  /\ UNCHANGED <<builder, accounts, roles, writer>>

(* An apply that fails without effect: at any time for want of a           *)
(* connection, for certain when the binding would change its role.         *)
ApplyFails(c) ==
  /\ stage[c] \in {"account", "role", "binding"}
  /\ MoveTo(c, "error")
  /\ UNCHANGED <<builder, cluster>>

(* The test applies the same bundle again, or builds another.              *)
Retry(c) ==
  /\ stage[c] \in {"ok", "error"}
  /\ MoveTo(c, "account")
  /\ UNCHANGED <<builder, cluster>>

Renew(c, a) ==
  /\ stage[c] \in {"ok", "error"}
  /\ MoveTo(c, "building")
  /\ account' = [account EXCEPT ![c] = a]
  /\ role' = [role EXCEPT ![c] = DefaultRole(a)]
  /\ rules' = [rules EXCEPT ![c] = {}]
  /\ asked' = [asked EXCEPT ![c] = {}]
  /\ UNCHANGED <<calls, cluster>>

Grantor(c) ==
  \/ \E n \in CustomRoles : WithRole(c, n)
  \/ \E vs \in VerbLists, rs \in ResourceLists :
       Can(c, vs, rs) \/ \E g \in CustomGroups : ForApiGroup(c, g, vs, rs)
  \/ Build(c)
  \/ ApplyAccount(c) \/ ApplyRole(c) \/ ApplyBinding(c) \/ ApplyFails(c)
  \/ Retry(c) \/ \E a \in Accounts : Renew(c, a)

RbacNext == \E c \in Grantors : Grantor(c)

RbacSpec == RbacInit /\ [][RbacNext]_rbacVars

-----------------------------------------------------------------------------
RbacTypeOK ==
  /\ stage \in [Grantors -> {"building", "account", "role", "binding", "ok", "error"}]
  /\ account \in [Grantors -> Accounts]
  /\ role \in [Grantors -> RoleNames]
  /\ rules \in [Grantors -> SUBSET Rule]
  /\ asked \in [Grantors -> SUBSET Permission]
  /\ calls \in Nat
  /\ accounts \subseteq Accounts
  /\ roles \in [RoleNames -> SUBSET Rule]
  /\ binding \in [Accounts -> RoleNames \cup {NoRole}]
  /\ writer \in [RoleNames -> Grantors \cup {Nobody}]

(* What an account may do.                                                 *)
Allowed(a) == IF binding[a] = NoRole THEN {} ELSE Grants(roles[binding[a]])

(* The builder's rules grant exactly what was asked for, call by call:     *)
(* resources of several API groups in one call, or several calls, never    *)
(* add up to a permission nobody asked for.                                *)
RulesGrantWhatWasAsked == \A c \in Grantors : Grants(rules[c]) = asked[c]

(* A binding's account and role exist, whichever calls failed half way and *)
(* whatever they share: an account never waits for a role that may come.   *)
BindingNeverDangles ==
  \A a \in Accounts :
    binding[a] # NoRole => a \in accounts /\ writer[binding[a]] # Nobody

(* After an apply_rbac that returned Ok the account may do exactly what    *)
(* the bundle asks for - no more, although the role may have held more     *)
(* before - until somebody else applies the role.                          *)
OkMeansGranted ==
  \A c \in Grantors :
    (stage[c] = "ok" /\ writer[role[c]] = c) => Allowed(account[c]) = asked[c]
=============================================================================

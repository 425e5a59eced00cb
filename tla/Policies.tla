------------------------------ MODULE Policies ------------------------------
(***************************************************************************)
(* Context::isolate and allow_from (context/network.rs): network policies  *)
(* named after a hash of the labels they are about (label_suffix,          *)
(* context/parsing.rs), so that a policy is found again - and another one  *)
(* of the same hash is overwritten.                                        *)
(***************************************************************************)
EXTENDS Naturals

CONSTANTS Selectors,  \* sets of labels that the calls name
          PodLabels,  \* the pods of the namespace, each by its labels
          Suffix      \* label_suffix: eight hexadecimal digits of a hash

ASSUME PoliciesAssumption == Selectors \subseteq DOMAIN Suffix

VARIABLES policies,   \* the policies in the namespace
          isolated,   \* history: the selectors isolated and not released
          allowed     \* history: the pairs that were allowed

policyVars == <<policies, isolated, allowed>>

PoliciesInit == policies = {} /\ isolated = {} /\ allowed = {}

IsolateName(s) == <<"seppo-isolate", Suffix[s]>>

(* Mutation: the name of the source is forgotten.                          *)
AllowNameShort(t, f) == <<"seppo-allow", Suffix[t]>>
AllowName(t, f) == <<"seppo-allow", Suffix[t], "from", Suffix[f]>>

(* Both calls end with apply, which replaces what has the same name.       *)
Put(policy) == policies' = {p \in policies : p.name # policy.name} \cup {policy}

(* No rule at all, in both directions: everything is denied.               *)
Isolate(s) ==
  /\ Put([name |-> IsolateName(s), pods |-> s, denies |-> {"in", "out"}, from |-> {}])
  /\ isolated' = isolated \cup {s}
  /\ UNCHANGED allowed

AllowFrom(t, f) ==
  /\ Put([name |-> AllowName(t, f), pods |-> t, denies |-> {"in"}, from |-> {f}])
  /\ allowed' = allowed \cup {<<t, f>>}
  /\ UNCHANGED isolated

(* ctx.delete with the name of the returned policy: the isolation ends     *)
(* early.                                                                  *)
Release(s) ==
  /\ s \in isolated
  /\ policies' = {p \in policies : p.name # IsolateName(s)}
  /\ isolated' = isolated \ {s}
  /\ UNCHANGED allowed

PoliciesNext ==
  \/ \E s \in Selectors : Isolate(s) \/ Release(s)
  \/ \E t, f \in Selectors : AllowFrom(t, f)

PoliciesSpec == PoliciesInit /\ [][PoliciesNext]_policyVars

-----------------------------------------------------------------------------
(* External: what the network makes of the policies.  A pod that no policy *)
(* selects for a direction is open, one that is selected is as open as all *)
(* of them together make it.                                               *)
About(pod, direction) == {p \in policies : p.pods \subseteq pod /\ direction \in p.denies}
LetsOut(pod) == About(pod, "out") = {}
LetsIn(pod, other) ==
  About(pod, "in") = {} \/ \E p \in About(pod, "in") : \E f \in p.from : f \subseteq other
Reaches(a, b) == LetsOut(a) /\ LetsIn(b, a)

OwnSuffix(s) == \A o \in Selectors : Suffix[o] = Suffix[s] => o = s

(* However isolate, allow_from and releases are mixed: what an isolated    *)
(* pod sends reaches nobody, and what reaches it comes from where an       *)
(* allow_from lets it; and an allowed source gets through unless its own   *)
(* side is isolated.  Labels with the hash of others are not so sure.      *)
IsolationHolds ==
  /\ \A s \in isolated, a, b \in PodLabels :
       OwnSuffix(s) /\ Reaches(a, b) =>
         /\ ~ s \subseteq a
         /\ s \subseteq b => \E x \in allowed : x[1] \subseteq b /\ x[2] \subseteq a
  /\ \A x \in allowed, a, b \in PodLabels :
       OwnSuffix(x[1]) /\ OwnSuffix(x[2]) /\ x[1] \subseteq b /\ x[2] \subseteq a =>
         Reaches(a, b) \/ \E s \in isolated : s \subseteq a
=============================================================================

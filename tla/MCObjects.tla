----------------------------- MODULE MCObjects ------------------------------
(* What a Context does to single objects: DynamicApply, Requests, Secrets, *)
(* Policies and Rbac.  The five share no state, so a behaviour is of one   *)
(* part only, picked at the start.                                         *)
EXTENDS DynamicApply, Requests, Secrets, Policies, Rbac, TLC

VARIABLE part

MCInit ==
  /\ Init /\ RequestsInit /\ SecretsInit /\ PoliciesInit /\ RbacInit
  /\ part \in {"dynamic", "requests", "secrets", "policies", "rbac"}
  /\ part # "rbac" => \A c, d \in Grantors : account[c] = account[d]
  /\ part # "secrets" => \A k \in Keys : sources[k] = Missing

MCNext ==
  /\ UNCHANGED part
  /\ IF part = "dynamic" THEN Next ELSE UNCHANGED vars
  /\ IF part = "requests" THEN RequestsNext ELSE UNCHANGED requestVars
  /\ IF part = "secrets" THEN SecretsNext ELSE UNCHANGED secretVars
  /\ IF part = "policies" THEN PoliciesNext ELSE UNCHANGED policyVars
  /\ IF part = "rbac" THEN RbacNext ELSE UNCHANGED rbacVars

MCSpec ==
  MCInit /\ [][MCNext]_<<vars, requestVars, secretVars, policyVars, rbacVars, part>>

(* One set of names stands for callers and for contents, another for       *)
(* accounts and bodies, so that three swaps are all the symmetry there is. *)
Symmetry == Permutations(Callers) \cup Permutations(Accounts) \cup Permutations(Verbs)

MCQuotes == {{}, {"not_found"}, {"timeout"}}

(* The second and the third of the label sets have the same hash.          *)
MCSelectors == {{"a"}, {"b"}, {"a", "b"}}
MCSuffix == [s \in MCSelectors |-> IF s = {"a"} THEN 1 ELSE 2]
MCPodLabels == MCSelectors \cup {{}}

(* A core resource and one of the apps group, asked for together; verbs    *)
(* one at a time.                                                          *)
MCResources == {"pods", "deployments"}
MCResourceLists == {MCResources}
MCVerbLists == {{v} : v \in Verbs}
=============================================================================

----------------------------- MODULE MCRollout ------------------------------
(* A deployment and what a test asserts of objects: Workload with two      *)
(* clients on its spec, two images, the replica counts 0 and 1 and one     *)
(* that is refused; Rollout on up to two replicas; Observe and Ingress.    *)
(* The four share no state, so a behaviour is of one part only, picked at  *)
(* the start.                                                              *)
EXTENDS Workload, Rollout, Observe, Ingress, TLC

VARIABLE part

Symmetry == Permutations(Clients)
MCAsked == {-1, 0, 1}

MCInit ==
  /\ WorkloadInit /\ Init /\ ObserveInit /\ IngressInit
  /\ part \in {"workload", "rollout", "observe", "ingress"}
  /\ part # "rollout" => replicas = 1
  /\ part # "observe" => thing = [kind |-> "daemonset", desired |-> 0, ready |-> 0]
  /\ part # "ingress" => \A rule \in ingress.rules : rule.paths = {}

(* The deployment was deleted for the last time of the bound, and nothing  *)
(* is left of it.                                                          *)
Spent ==
  /\ ~Exists /\ lastUid = MaxUid /\ replicaSets = {}
  /\ \A c \in Clients : stage[c] = "idle"
  /\ UNCHANGED workloadVars

MCNext ==
  /\ UNCHANGED part
  /\ IF part = "workload" THEN WorkloadNext \/ Spent ELSE UNCHANGED workloadVars
  /\ IF part = "rollout" THEN Next ELSE UNCHANGED vars
  /\ IF part = "observe" THEN ObserveNext ELSE UNCHANGED observeVars
  /\ IF part = "ingress" THEN IngressNext ELSE UNCHANGED ingressVars

MCSpec ==
  MCInit /\ [][MCNext]_<<workloadVars, vars, observeVars, ingressVars, part>>

(* Paths: /, /api and /api/v1.  Ingresses: of one host, with two of four   *)
(* entries, a catch-all, a prefix, one that ends in a slash and an exact   *)
(* one; the same entries for any host next to a rule of the host for /;    *)
(* and TLS for one host, or for none.                                      *)
AtPath(segments, slash) == [segments |-> segments, slash |-> slash]
MCPaths == {AtPath(<<>>, TRUE), AtPath(<<"api">>, FALSE), AtPath(<<"api", "v1">>, FALSE)}

MCIngresses ==
  LET entry(path, backend, exact) == [path |-> path, backend |-> backend, exact |-> exact]
      entries == {entry(AtPath(<<>>, FALSE), "web", FALSE),
                  entry(AtPath(<<"api">>, FALSE), "api", FALSE),
                  entry(AtPath(<<"api">>, TRUE), "api", FALSE),
                  entry(AtPath(<<"api">>, FALSE), "web", TRUE)}
      ruleOf(host, paths) == [host |-> host, paths |-> paths]
      home == ruleOf("h1", {entry(AtPath(<<>>, TRUE), "web", FALSE)})
      ofHost(hosts) == {[secret |-> "s1", hosts |-> hosts]}
  IN  {[rules |-> {ruleOf("h1", ps)}, tls |-> ofHost({"h1"}), there |-> TRUE] :
         ps \in kSubset(2, entries)}
      \cup {[rules |-> {ruleOf(Anyhost, ps), home}, tls |-> {}, there |-> TRUE] :
              ps \in kSubset(2, entries)}
      \cup {[rules |-> {ruleOf(Anyhost, {})}, tls |-> ofHost({}), there |-> TRUE]}
=============================================================================

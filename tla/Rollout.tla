------------------------------ MODULE Rollout -------------------------------
(***************************************************************************)
(* One test against the PODS of its deployment: wait_ready                 *)
(* (context/readiness.rs), kill, scale and restart (context/workload.rs),  *)
(* test_scaling and test_self_healing (context/scenarios.rs), next to the  *)
(* deployment controller and the kubelets.                                 *)
(*                                                                         *)
(* What the test sees of the pods is status.readyReplicas, a number the    *)
(* controller reports now and then; what wait_ready compares it with is    *)
(* spec.replicas of the same object.  The polling itself is WaitLoop; here *)
(* a wait is one poll after another until one succeeds or time is up.      *)
(***************************************************************************)
EXTENDS Integers, FiniteSets

CONSTANTS Counts,       \* replica counts the test asks for
          MaxPods,      \* bound: pods created in all
          MaxVersion    \* bound: pod templates, counting the first

ASSUME RolloutAssumption ==
  /\ Counts \subseteq Nat
  /\ MaxPods \in Nat
  /\ MaxVersion \in Nat \ {0}

VARIABLES replicas, version,   \* spec: replicas, and which template it has
          readyReplicas,       \* status
          pods, created,       \* the pods, and how many there ever were
          op, pc, target,      \* the test: its call, where it is, its victim
          result,
          peak,                \* history: most pods ever ready together
          peakSince,           \* ... since the call's change
          peakNew,             \* ... of the current template
          fresh                \* history: the status was reported since then

spec == <<replicas, version>>
test == <<op, pc, target, result>>
history == <<peak, peakSince, peakNew, fresh>>
vars == <<spec, readyReplicas, pods, created, test, history>>

Pod == [id : Nat, version : Nat, ready : BOOLEAN]

Ready(P) == {p \in P : p.ready}
Of(P, v) == {p \in P : p.version = v}
Larger(a, b) == IF a >= b THEN a ELSE b

(* `ready_replicas >= spec_replicas`: all that wait_ready looks at.        *)
(* Mutation: some replica is ready.                                        *)
SomeReplicaIsReady == readyReplicas > 0
DeploymentIsReady == readyReplicas >= replicas

Init ==
  /\ replicas \in Counts /\ version = 1
  /\ readyReplicas = 0
  /\ pods = {} /\ created = 0
  /\ op = "none" /\ pc = "idle" /\ target = 0 /\ result = "none"
  /\ peak = 0 /\ peakSince = 0 /\ peakNew = 0
  /\ fresh = FALSE

(* A call begins to count from the pods as they are after its change.      *)
Mark(P) == peakSince' = Cardinality(Ready(P)) /\ fresh' = FALSE

-----------------------------------------------------------------------------
Begin(o, label) ==
  /\ pc = "idle"
  /\ op' = o /\ pc' = label /\ result' = "none"

(* The merge patch of spec.replicas; test_scaling goes on to wait.         *)
Scale(n, o) ==
  /\ Begin(o, IF o = "test_scaling" THEN "waiting" ELSE "idle")
  /\ replicas' = n
  /\ Mark(pods)
  /\ UNCHANGED <<version, readyReplicas, pods, created, target, peak, peakNew>>

Restart ==
  /\ Begin("restart", "idle")
  /\ version < MaxVersion
  /\ version' = version + 1
  /\ peakNew' = 0
  /\ Mark(pods)
  /\ UNCHANGED <<replicas, readyReplicas, pods, created, target, peak>>

WaitReady ==
  /\ Begin("wait_ready", "waiting")
  /\ UNCHANGED <<spec, readyReplicas, pods, created, target, history>>

(* test_self_healing lists the pods and takes the first - any, as far as   *)
(* the order of a list goes - or fails when there are none.                *)
PickVictim ==
  /\ Begin("test_self_healing", "killing")
  /\ \E p \in pods : target' = p.id
  /\ UNCHANGED <<spec, readyReplicas, pods, created, peak, peakSince, peakNew, fresh>>

NoVictim ==
  /\ pc = "idle" /\ pods = {}
  /\ op' = "test_self_healing" /\ result' = "error"
  /\ UNCHANGED <<spec, readyReplicas, pods, created, pc, target, history>>

(* kill deletes with grace period 0: the pod is gone when it returns.      *)
Kill ==
  /\ pc = "killing"
  /\ \E p \in pods : p.id = target
  /\ pods' = {p \in pods : p.id # target}
  /\ Mark(pods')
  /\ pc' = "waiting"
  /\ UNCHANGED <<spec, readyReplicas, created, op, target, result, peak, peakNew>>

(* The pod went between the list and the delete: 404, and no wait.         *)
KillFails ==
  /\ pc = "killing"
  /\ \A p \in pods : p.id # target
  /\ pc' = "idle" /\ result' = "error"
  /\ UNCHANGED <<spec, readyReplicas, pods, created, op, target, history>>

Return(r) ==
  /\ pc = "waiting"
  /\ pc' = "idle" /\ result' = r
  /\ UNCHANGED <<spec, readyReplicas, pods, created, op, target, history>>

WaitSucceeds == DeploymentIsReady /\ Return("ok")
WaitTimesOut == ~DeploymentIsReady /\ Return("timeout")

Test ==
  \/ \E n \in Counts : Scale(n, "scale") \/ Scale(n, "test_scaling")
  \/ Restart \/ WaitReady
  \/ PickVictim \/ NoVictim \/ Kill \/ KillFails
  \/ WaitSucceeds \/ WaitTimesOut

-----------------------------------------------------------------------------
(* External: the controller and the kubelets.  A rolling update with the   *)
(* default strategy at a few replicas: one pod more than asked for, none   *)
(* fewer ready.                                                            *)

CreatePod ==
  /\ created < MaxPods
  /\ Cardinality(Of(pods, version)) < replicas
  /\ Cardinality(pods) <= replicas
  /\ created' = created + 1
  /\ pods' = pods \cup {[id |-> created', version |-> version, ready |-> FALSE]}
  /\ UNCHANGED <<spec, readyReplicas, test, history>>

RemovePod(p) ==
  /\ Cardinality(pods) > replicas
  /\ IF p.version = version
     THEN pods = Of(pods, version)
     ELSE p.ready => Cardinality(Ready(pods)) > replicas
  /\ pods' = pods \ {p}
  /\ UNCHANGED <<spec, readyReplicas, created, test, history>>

Turn(p, r) ==
  /\ p.ready # r
  /\ pods' = (pods \ {p}) \cup {[p EXCEPT !.ready = r]}
  /\ peak' = Larger(peak, Cardinality(Ready(pods')))
  /\ peakSince' = Larger(peakSince, Cardinality(Ready(pods')))
  /\ peakNew' = Larger(peakNew, Cardinality(Ready(Of(pods', version))))
  /\ UNCHANGED <<spec, readyReplicas, created, test, fresh>>

Report ==
  /\ readyReplicas # Cardinality(Ready(pods)) \/ ~fresh
  /\ readyReplicas' = Cardinality(Ready(pods))
  /\ fresh' = TRUE
  /\ UNCHANGED <<spec, pods, created, test, peak, peakSince, peakNew>>

Cluster ==
  \/ CreatePod \/ Report
  \/ \E p \in pods : RemovePod(p) \/ Turn(p, TRUE) \/ Turn(p, FALSE)

Next == Test \/ Cluster

Spec == Init /\ [][Next]_vars

-----------------------------------------------------------------------------
TypeOK ==
  /\ replicas \in Nat /\ version \in Nat /\ readyReplicas \in Nat
  /\ pods \subseteq Pod /\ created \in Nat
  /\ op \in {"none", "scale", "test_scaling", "restart", "wait_ready",
             "test_self_healing"}
  /\ pc \in {"idle", "killing", "waiting"}
  /\ target \in Nat
  /\ result \in {"none", "ok", "timeout", "error"}
  /\ peak \in Nat /\ peakSince \in Nat /\ peakNew \in Nat
  /\ fresh \in BOOLEAN

(* No wait succeeds for a count that was never reached: whoever scales     *)
(* beyond all the pods there ever were, and waits, knows that they came.   *)
SuccessIsWitnessed == result = "ok" => peak >= replicas

(* A wait that reads a status reported after the call's own change is      *)
(* right: since that change the count was reached.                         *)
FreshSuccessIsTrue ==
  [][WaitSucceeds /\ fresh => peakSince >= replicas]_vars

(* workload.rs, restart: `wait_ready` is how to "wait for the restart to   *)
(* complete", that is for the replicas to run the new template.            *)
RestartIsComplete ==
  [][WaitSucceeds /\ op = "wait_ready" => peakNew >= replicas]_vars
=============================================================================

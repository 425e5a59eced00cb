---------------------------- MODULE RolloutProofs ---------------------------
(* Proofs about what a successful wait shows, for any replica counts and   *)
(* any bounds (Rollout), and about what a test asserts of an object        *)
(* (Observe) and of an ingress (Ingress), whatever these are.              *)
EXTENDS Rollout, Observe, Ingress, TLAPS, FiniteSetTheorems, SequenceTheorems

(* The status is a count that was once true, and the histories are upper   *)
(* bounds of the counts they remember.                                     *)
Counted ==
  /\ IsFiniteSet(pods)
  /\ Cardinality(Ready(pods)) <= peak
  /\ Cardinality(Ready(pods)) <= peakSince
  /\ readyReplicas <= peak
  /\ fresh => readyReplicas <= peakSince

IInv == TypeOK /\ Counted /\ SuccessIsWitnessed

LEMMA ReadyIsFinite ==
  ASSUME NEW P, IsFiniteSet(P)
  PROVE  IsFiniteSet(Ready(P)) /\ Cardinality(Ready(P)) \in Nat
<1>1. Ready(P) \subseteq P BY DEF Ready
<1> QED BY <1>1, FS_Subset, FS_CardinalityType

(* Taking pods away, or adding one that is not ready, does not raise the   *)
(* count of ready pods.                                                    *)
LEMMA FewerReady ==
  ASSUME NEW P, NEW Q, IsFiniteSet(P), Ready(Q) \subseteq Ready(P)
  PROVE  Cardinality(Ready(Q)) <= Cardinality(Ready(P))
BY ReadyIsFinite, FS_Subset

LEMMA InitIInv == Init => IInv
<1> SUFFICES ASSUME Init PROVE IInv
  OBVIOUS
<1>1. Ready(pods) = {} /\ IsFiniteSet(pods) /\ Cardinality(Ready(pods)) = 0
  BY FS_EmptySet DEF Init, Ready
<1>2. TypeOK
  BY RolloutAssumption DEF Init, TypeOK
<1>3. Counted /\ SuccessIsWitnessed
  BY <1>1 DEF Init, Counted, SuccessIsWitnessed
<1> QED BY <1>2, <1>3 DEF IInv

(* The calls that leave the pods alone.                                    *)
LEMMA ScaleStep ==
  ASSUME IInv, NEW n \in Counts, NEW o \in {"scale", "test_scaling"}, Scale(n, o)
  PROVE  IInv'
<1>1. Cardinality(Ready(pods)) \in Nat
  BY ReadyIsFinite DEF IInv, Counted
<1>2. TypeOK'
  BY <1>1, RolloutAssumption DEF IInv, TypeOK, Scale, Begin, Mark
<1>3. Counted'
  BY <1>1 DEF IInv, TypeOK, Counted, Scale, Mark
<1>4. SuccessIsWitnessed'
  BY DEF SuccessIsWitnessed, Scale, Begin
<1> QED BY <1>2, <1>3, <1>4 DEF IInv

LEMMA RestartStep == IInv /\ Restart => IInv'
<1> SUFFICES ASSUME IInv, Restart PROVE IInv'
  OBVIOUS
<1>1. Cardinality(Ready(pods)) \in Nat
  BY ReadyIsFinite DEF IInv, Counted
<1>2. TypeOK'
  <2>1. version' \in Nat
    BY DEF IInv, TypeOK, Restart
  <2>2. fresh' \in BOOLEAN
    BY DEF IInv, TypeOK, Restart, Mark
  <2> QED BY <1>1, <2>1, <2>2 DEF IInv, TypeOK, Restart, Begin, Mark
<1>3. Counted'
  BY <1>1 DEF IInv, TypeOK, Counted, Restart, Mark
<1>4. SuccessIsWitnessed'
  BY DEF SuccessIsWitnessed, Restart, Begin
<1> QED BY <1>2, <1>3, <1>4 DEF IInv

LEMMA WaitReadyStep == IInv /\ WaitReady => IInv'
BY DEF IInv, TypeOK, Counted, SuccessIsWitnessed, WaitReady, Begin, spec, history

LEMMA PickVictimStep == IInv /\ PickVictim => IInv'
<1> SUFFICES ASSUME IInv, PickVictim PROVE IInv'
  OBVIOUS
<1>1. target' \in Nat
  BY DEF IInv, TypeOK, PickVictim, Pod
<1>2. TypeOK'
  BY <1>1 DEF IInv, TypeOK, PickVictim, Begin, spec
<1>3. Counted' /\ SuccessIsWitnessed'
  BY DEF IInv, Counted, SuccessIsWitnessed, PickVictim, Begin, spec
<1> QED BY <1>2, <1>3 DEF IInv

LEMMA FailStep == IInv /\ (NoVictim \/ KillFails) => IInv'
BY DEF IInv, TypeOK, Counted, SuccessIsWitnessed, NoVictim, KillFails, spec, history

LEMMA KillStep == IInv /\ Kill => IInv'
<1> SUFFICES ASSUME IInv, Kill PROVE IInv'
  OBVIOUS
<1>1. pods' \subseteq pods /\ IsFiniteSet(pods')
  BY FS_Subset DEF IInv, Counted, Kill
<1>2. /\ Cardinality(Ready(pods')) \in Nat
      /\ Cardinality(Ready(pods')) <= Cardinality(Ready(pods))
  BY <1>1, ReadyIsFinite, FewerReady DEF IInv, Counted, Ready
<1>3. TypeOK'
  BY <1>1, <1>2 DEF IInv, TypeOK, Kill, Mark, spec
<1>4. Counted'
  <2>1. Ready(pods)' = Ready(pods')
    BY DEF Ready
  <2> QED BY <1>1, <1>2, <2>1, ReadyIsFinite DEF IInv, TypeOK, Counted, Kill, Mark, spec
<1> QED BY <1>3, <1>4 DEF IInv, SuccessIsWitnessed, Kill, spec

LEMMA ReturnStep == IInv /\ (WaitSucceeds \/ WaitTimesOut) => IInv'
BY DEF IInv, TypeOK, Counted, SuccessIsWitnessed, WaitSucceeds, WaitTimesOut,
       Return, DeploymentIsReady, spec, history

LEMMA CreatePodStep == IInv /\ CreatePod => IInv'
<1> SUFFICES ASSUME IInv, CreatePod PROVE IInv'
  OBVIOUS
<1>1. /\ created' \in Nat
      /\ pods' = pods \cup {[id |-> created', version |-> version, ready |-> FALSE]}
  BY DEF IInv, TypeOK, CreatePod
<1>2. pods' \subseteq Pod
  <2>1. version \in Nat /\ pods \subseteq Pod
    BY DEF IInv, TypeOK
  <2>2. [id |-> created', version |-> version, ready |-> FALSE] \in Pod
    BY <1>1, <2>1, Zenon DEF Pod
  <2> QED BY <1>1, <2>1, <2>2
<1>3. IsFiniteSet(pods')
  BY <1>1, FS_AddElement DEF IInv, Counted
<1>4. Ready(pods)' = Ready(pods)
  BY <1>1 DEF Ready
<1>5. TypeOK'
  BY <1>1, <1>2 DEF IInv, TypeOK, CreatePod, spec, test, history
<1>6. Counted' /\ SuccessIsWitnessed'
  BY <1>3, <1>4 DEF IInv, Counted, SuccessIsWitnessed, CreatePod, spec, test, history
<1> QED BY <1>5, <1>6 DEF IInv

LEMMA RemovePodStep ==
  ASSUME IInv, NEW p \in pods, RemovePod(p)
  PROVE  IInv'
<1>1. pods' \subseteq pods /\ IsFiniteSet(pods')
  BY FS_Subset DEF IInv, Counted, RemovePod
<1>2. /\ Cardinality(Ready(pods')) \in Nat
      /\ Cardinality(Ready(pods')) <= Cardinality(Ready(pods))
  BY <1>1, ReadyIsFinite, FewerReady DEF IInv, Counted, Ready
<1>3. Ready(pods)' = Ready(pods')
  BY DEF Ready
<1>4. Cardinality(Ready(pods)) \in Nat
  BY ReadyIsFinite DEF IInv, Counted
<1> QED BY <1>1, <1>2, <1>3, <1>4
        DEF IInv, TypeOK, Counted, SuccessIsWitnessed, RemovePod, spec, test, history

LEMMA TurnStep ==
  ASSUME IInv, NEW p \in pods, NEW r \in BOOLEAN, Turn(p, r)
  PROVE  IInv'
<1>1. pods' \subseteq Pod /\ IsFiniteSet(pods')
  BY FS_AddElement, FS_RemoveElement DEF IInv, TypeOK, Counted, Turn, Pod
<1>2. /\ Cardinality(Ready(pods')) \in Nat
      /\ Cardinality(Ready(Of(pods', version))) \in Nat
  <2>1. IsFiniteSet(Of(pods', version))
    BY <1>1, FS_Subset DEF Of
  <2> QED BY <1>1, <2>1, ReadyIsFinite
<1>3. Ready(pods)' = Ready(pods')
  BY DEF Ready
<1>4. TypeOK'
  BY <1>1, <1>2 DEF IInv, TypeOK, Turn, spec, test, Larger
<1>5. Counted' /\ SuccessIsWitnessed'
  BY <1>1, <1>2, <1>3
     DEF IInv, TypeOK, Counted, SuccessIsWitnessed, Turn, spec, test, Larger
<1> QED BY <1>4, <1>5 DEF IInv

LEMMA ReportStep == IInv /\ Report => IInv'
<1> SUFFICES ASSUME IInv, Report PROVE IInv'
  OBVIOUS
<1>1. Cardinality(Ready(pods)) \in Nat
  BY ReadyIsFinite DEF IInv, Counted
<1> QED BY <1>1
        DEF IInv, TypeOK, Counted, SuccessIsWitnessed, Report, spec, test

THEOREM Invariant == Spec => []IInv
<1>1. IInv /\ UNCHANGED vars => IInv'
  BY DEF IInv, TypeOK, Counted, SuccessIsWitnessed, vars, spec, test, history
<1>2. IInv /\ Test => IInv'
  BY ScaleStep, RestartStep, WaitReadyStep, PickVictimStep, FailStep, KillStep,
     ReturnStep DEF Test
<1>3. IInv /\ Cluster => IInv'
  BY CreatePodStep, RemovePodStep, TurnStep, ReportStep DEF Cluster
<1>4. IInv /\ [Next]_vars => IInv'
  BY <1>1, <1>2, <1>3 DEF Next
<1> QED BY InitIInv, <1>4, PTL DEF Spec

-----------------------------------------------------------------------------
(* The variables keep their types.                                         *)
THEOREM TypeCorrect == Spec => []TypeOK
BY Invariant, PTL DEF IInv

(* A wait never succeeds for a count that was never reached.               *)
THEOREM SuccessesAreWitnessed == Spec => []SuccessIsWitnessed
BY Invariant, PTL DEF IInv

(* A wait that reads a status reported after its own change tells the      *)
(* truth about the time since that change.                                 *)
THEOREM FreshSuccessesAreTrue == Spec => FreshSuccessIsTrue
<1>1. IInv /\ [Next]_vars => [WaitSucceeds /\ fresh => peakSince >= replicas]_vars
  BY DEF IInv, TypeOK, Counted, WaitSucceeds, DeploymentIsReady
<1> QED BY <1>1, Invariant, PTL DEF Spec, FreshSuccessIsTrue
-----------------------------------------------------------------------------
(* Observe: every answer that is kept is what the object as it is now has  *)
(* to say.                                                                 *)

Kinds == {"pod", "deployment", "statefulset", "daemonset", "service", "pvc"}

Verdict(q, o) ==
  [question |-> q, described |-> Described(o),
   verdict |-> IF o = Gone(o.kind) THEN "not found"
               ELSE IF Holds(q, o) THEN "ok" ELSE "failed"]

ObserveInv ==
  /\ thing \in Everything \cup {Gone(kind) : kind \in Kinds}
  /\ reading # NoReading => reading.question \in Questions(thing.kind)
  /\ \A a \in said : a.question \in Questions(thing.kind) /\ a = Verdict(a.question, thing)

LEMMA KindOfThing ==
  ASSUME NEW o \in Everything
  PROVE  /\ o.kind \in Kinds /\ o # Gone(o.kind)
         /\ o.kind = "pod" => o \in Pods
         /\ o.kind = "deployment" => o \in Deployments
         /\ o.kind = "statefulset" => o \in StatefulSets
         /\ o.kind = "daemonset" => o \in DaemonSets
         /\ o.kind = "service" => o \in Services
         /\ o.kind = "pvc" => o \in Claims
<1>1. o # Gone(o.kind)
  <2>1. CASE o \in Pods \cup Services
    BY <2>1 DEF Pods, Services, Gone
  <2>2. CASE o \in Deployments \cup StatefulSets \cup DaemonSets
    BY <2>2 DEF Deployments, StatefulSets, DaemonSets, Gone
  <2>3. CASE o \in Claims
    BY <2>3 DEF Claims, Gone
  <2> QED BY <2>1, <2>2, <2>3 DEF Everything
<1>2. o.kind \in Kinds
  BY DEF Everything, Kinds, Pods, Deployments, StatefulSets, DaemonSets, Services, Claims
<1> QED
  BY <1>1, <1>2
     DEF Everything, Pods, Deployments, StatefulSets, DaemonSets, Services, Claims

LEMMA AnswerStep == ObserveInv /\ Answer => ObserveInv'
<1> SUFFICES ASSUME ObserveInv, Answer PROVE ObserveInv'
  OBVIOUS
<1> DEFINE q == reading.question
<1>1. /\ q \in Questions(thing.kind)
      /\ said' = said \/ said' = said \cup {Verdict(q, thing)}
      /\ thing' = thing /\ reading' = NoReading
  BY DEF Answer, Verdict, ObserveInv
<1>2. Verdict(q, thing).question = q
  BY DEF Verdict
<1> HIDE DEF q
<1> QED BY <1>1, <1>2 DEF ObserveInv

(* ObserveInv holds in every state.                                        *)
THEOREM ObserveInvariant == ObserveSpec => []ObserveInv
<1>1. ObserveInit => ObserveInv
  BY DEF ObserveInit, ObserveInv
<1>2. ObserveInv /\ [ObserveNext]_observeVars => ObserveInv'
  <2> SUFFICES ASSUME ObserveInv, [ObserveNext]_observeVars PROVE ObserveInv'
    OBVIOUS
  <2>1. ASSUME NEW q \in Questions(thing.kind), Look(q) PROVE ObserveInv'
    BY <2>1 DEF Look, ObserveInv
  <2>2. CASE LookFails
    BY <2>2 DEF LookFails, ObserveInv
  <2>3. ASSUME NEW o \in Everything \cup {Gone(thing.kind)}, Becomes(o)
        PROVE  ObserveInv'
    <3>1. thing.kind \in Kinds
      BY KindOfThing DEF ObserveInv, Gone
    <3>2. thing' = o /\ thing'.kind = thing.kind /\ said' = {} /\ reading' = reading
      BY <2>3 DEF Becomes
    <3> QED BY <2>3, <3>1, <3>2 DEF ObserveInv
  <2>4. CASE UNCHANGED observeVars
    BY <2>4 DEF ObserveInv, observeVars
  <2> QED BY <2>1, <2>2, <2>3, <2>4, AnswerStep DEF ObserveNext
<1> QED BY <1>1, <1>2, PTL DEF ObserveSpec

-----------------------------------------------------------------------------
(* How the questions about one object depend on each other.                *)

(* Which kind a question is about.                                         *)
LEMMA AskedOfKind ==
  ASSUME NEW kind \in Kinds, NEW q \in Questions(kind)
  PROVE  /\ q = [ask |-> q.ask, arg |-> q.arg]
         /\ q.ask \in {"is_running", "is_pending", "containers_ready"} => kind = "pod"
         /\ q.ask = "is_available" => kind = "deployment"
         /\ q.ask = "has_replicas" => kind = "deployment" /\ q.arg \in Upto
         /\ q.ask \in {"is_cluster_ip", "is_load_balancer", "is_node_port"} =>
              kind = "service" /\ q.arg = NoTag
         /\ q.ask = "has_capacity" => kind = "pvc" /\ q.arg \in Tags
         /\ q.ask = "is_bound" => kind = "pvc"
         /\ q.ask = "wait_ready" => kind # "pvc"
<1>1. CASE kind = "pod" BY <1>1 DEF Questions, Ask
<1>2. CASE kind = "deployment" BY <1>2 DEF Questions, Ask
<1>3. CASE kind \in {"statefulset", "daemonset"} BY <1>3 DEF Questions, Ask
<1>4. CASE kind = "service" BY <1>4 DEF Questions, Ask
<1>5. CASE kind = "pvc" BY <1>5 DEF Questions, Ask
<1> QED BY <1>1, <1>2, <1>3, <1>4, <1>5 DEF Kinds

(* What wait_ready comes down to, and what it describes.                   *)
LEMMA WaitOnPod ==
  ASSUME NEW o \in Pods, NEW q, q.ask = "wait_ready"
  PROVE  /\ Holds(q, o) <=> IsRunning(o) /\ ContainersReady(o) /\ o.total > 0
         /\ ContainersReady(o) => IsRunning(o) \/ (o.statuses /\ o.total = 0)
         /\ ContainersReady(o) => o.statuses /\ o.total \in Nat
         /\ ~Holds(q, o) => \/ o.ready < o.total
                            \/ o.phase # "Running"
                            \/ o.total = 0
<1>1. /\ o.kind = "pod" /\ o.ready \in Upto /\ o.total \in Upto /\ o.ready <= o.total
      /\ o.ready > 0 => o.phase = "Running"
      /\ o.total > 0 => o.statuses
  BY DEF Pods
<1>2. Holds(q, o) <=> PodIsReady(o)
  BY <1>1 DEF Holds
<1> QED BY <1>1, <1>2, ObserveAssumption DEF PodIsReady, IsRunning, ContainersReady, Upto

LEMMA WaitOnReplicas ==
  ASSUME NEW o \in Deployments \cup StatefulSets, NEW q, q.ask = "wait_ready"
  PROVE  /\ Holds(q, o) <=> o.ready >= o.replicas
         /\ o.ready \in Nat /\ o.replicas \in Nat
<1>1. /\ o.kind \in {"deployment", "statefulset"}
      /\ o.ready \in Upto /\ o.replicas \in Upto
  BY DEF Deployments, StatefulSets
<1> QED BY <1>1, ObserveAssumption DEF Holds, ReplicasAreReady, Upto

LEMMA WaitOnDaemons ==
  ASSUME NEW o \in DaemonSets, NEW q, q.ask = "wait_ready", ~Holds(q, o)
  PROVE  o.ready < o.desired \/ o.desired = 0
<1>1. o.kind = "daemonset" /\ o.ready \in Upto /\ o.desired \in Upto
  BY DEF DaemonSets
<1> QED BY <1>1, ObserveAssumption DEF Holds, DaemonsAreReady, Upto

(* A wait that is not satisfied describes why.                             *)
LEMMA FailureShows ==
  ASSUME NEW o \in Everything, NEW q \in Questions(o.kind), q.ask = "wait_ready",
         ~Holds(q, o)
  PROVE  \/ Described(o).ready < Described(o).of
         \/ o.kind = "pod" /\ Described(o).phase # "Running"
         \/ Described(o).of = 0 /\ o.kind \in {"daemonset", "pod"}
<1>1. CASE o.kind = "pod"
  BY <1>1, KindOfThing, WaitOnPod DEF Described
<1>2. CASE o.kind \in {"deployment", "statefulset"}
  <2>1. o \in Deployments \cup StatefulSets
    BY <1>2, KindOfThing
  <2>2. o.ready \in Nat /\ o.replicas \in Nat /\ ~(o.ready >= o.replicas)
    BY <2>1, WaitOnReplicas
  <2> QED BY <1>2, <2>2 DEF Described
<1>3. CASE o.kind = "daemonset"
  BY <1>3, KindOfThing, WaitOnDaemons DEF Described
<1>4. CASE o.kind = "service"
  BY <1>4 DEF Holds
<1>5. CASE o.kind = "pvc"
  BY <1>5, AskedOfKind DEF Kinds
<1> QED BY <1>1, <1>2, <1>3, <1>4, <1>5, KindOfThing DEF Kinds

LEMMA TypesExclude ==
  ASSUME NEW o, NEW q, NEW r, Holds(q, o), Holds(r, o),
         q.ask \in {"is_cluster_ip", "is_load_balancer", "is_node_port"},
         r.ask \in {"is_cluster_ip", "is_load_balancer", "is_node_port"}
  PROVE  q.ask = r.ask
<1> DEFINE type(p) == CASE p.ask = "is_cluster_ip" -> "ClusterIP"
                        [] p.ask = "is_load_balancer" -> "LoadBalancer"
                        [] p.ask = "is_node_port" -> "NodePort"
<1>1. ASSUME NEW p, Holds(p, o),
             p.ask \in {"is_cluster_ip", "is_load_balancer", "is_node_port"}
      PROVE  ServiceType(o) = type(p)
  <2>1. CASE p.ask = "is_cluster_ip"
    BY <1>1, <2>1 DEF Holds, IsClusterIp
  <2>2. CASE p.ask = "is_load_balancer"
    BY <1>1, <2>2 DEF Holds, IsLoadBalancer
  <2>3. CASE p.ask = "is_node_port"
    BY <1>1, <2>3 DEF Holds, IsNodePort
  <2> QED BY <1>1, <2>1, <2>2, <2>3
<1>2. type(q) = type(r)
  BY <1>1
<1> QED BY <1>2

(* Answers about one state of an object fit together, for any counts,      *)
(* labels and ports.                                                       *)
THEOREM VerdictsFit == ObserveSpec => []VerdictsAgree
<1>1. ASSUME ObserveInv, NEW a \in said, thing = Gone(thing.kind)
      PROVE  a.verdict = "not found"
  <2>1. a = Verdict(a.question, thing)
    BY <1>1 DEF ObserveInv
  <2>2. Verdict(a.question, thing).verdict = "not found"
    BY <1>1 DEF Verdict
  <2> QED BY <2>1, <2>2, Zenon
<1>2. ASSUME ObserveInv, thing # Gone(thing.kind), NEW a \in said
      PROVE  /\ thing \in Everything /\ thing.kind \in Kinds
             /\ a.question \in Questions(thing.kind)
             /\ a.described = Described(thing)
             /\ a.verdict \in {"ok", "failed"}
             /\ a.verdict = "ok" <=> Holds(a.question, thing)
  <2>1. thing \in Everything
    BY <1>2 DEF ObserveInv, Gone
  <2>2. a.question \in Questions(thing.kind) /\ a = Verdict(a.question, thing)
    BY <1>2 DEF ObserveInv
  <2> QED BY <1>2, <2>1, <2>2, KindOfThing DEF Verdict
<1>3. ASSUME ObserveInv, thing # Gone(thing.kind), NEW a \in said, NEW b \in said,
             a.question = b.question
      PROVE  a = b
  BY <1>3 DEF ObserveInv, Verdict
<1>4. ASSUME ObserveInv, thing # Gone(thing.kind), NEW a \in said, NEW b \in said
      PROVE  LET both(x, y) == a.question.ask = x /\ b.question.ask = y
                 oks == a.verdict = "ok" /\ b.verdict = "ok"
                 okToo == a.verdict = "ok" => b.verdict = "ok"
                 types == {"is_cluster_ip", "is_load_balancer", "is_node_port"}
             IN  /\ both("wait_ready", "is_running") => okToo
                 /\ both("wait_ready", "is_pending") => ~oks
                 /\ both("wait_ready", "containers_ready") =>
                      a.verdict = b.verdict \/ (thing.statuses /\ thing.total = 0)
                 /\ both("wait_ready", "is_available") /\ b.verdict = "failed"
                      /\ thing.observed = thing.replicas /\ thing.available # "none"
                      => a.verdict = "failed"
                 /\ both("has_replicas", "wait_ready") /\ a.question.arg = thing.replicas => okToo
                 /\ both("has_replicas", "has_replicas") /\ oks => a = b
                 /\ a.question.ask \in types /\ b.question.ask \in types /\ oks => a = b
                 /\ both("has_capacity", "is_bound") => okToo
  <2> DEFINE q == a.question
             r == b.question
  <2>1. /\ thing \in Everything /\ thing.kind \in Kinds
        /\ q \in Questions(thing.kind) /\ r \in Questions(thing.kind)
        /\ a.verdict \in {"ok", "failed"} /\ b.verdict \in {"ok", "failed"}
        /\ a.verdict = "ok" <=> Holds(q, thing)
        /\ b.verdict = "ok" <=> Holds(r, thing)
    BY <1>4, <1>2
  <2>2. q = r => a = b
    BY <1>4, <1>3
  <2> HIDE DEF q, r
  <2>3. ASSUME q.ask = "wait_ready", r.ask \in {"is_running", "is_pending", "containers_ready"}
        PROVE  /\ r.ask = "is_running" => (Holds(q, thing) => Holds(r, thing))
               /\ r.ask = "is_pending" => ~(Holds(q, thing) /\ Holds(r, thing))
               /\ r.ask = "containers_ready" =>
                    (Holds(q, thing) <=> Holds(r, thing)) \/ (thing.statuses /\ thing.total = 0)
    <3>1. thing \in Pods
      BY <2>1, <2>3, AskedOfKind, KindOfThing
    <3>2. /\ Holds(q, thing) <=> IsRunning(thing) /\ ContainersReady(thing) /\ thing.total > 0
          /\ ContainersReady(thing) => IsRunning(thing) \/ (thing.statuses /\ thing.total = 0)
          /\ ContainersReady(thing) => thing.statuses /\ thing.total \in Nat
      BY <2>3, <3>1, WaitOnPod
    <3>3. /\ r.ask = "is_running" => (Holds(r, thing) <=> IsRunning(thing))
          /\ r.ask = "is_pending" => (Holds(r, thing) <=> IsPending(thing))
          /\ r.ask = "containers_ready" => (Holds(r, thing) <=> ContainersReady(thing))
      BY DEF Holds
    <3> QED BY <3>2, <3>3 DEF IsRunning, IsPending
  <2>4. ASSUME q.ask = "wait_ready", r.ask = "is_available", ~Holds(r, thing),
               thing.observed = thing.replicas, thing.available # "none"
        PROVE  ~Holds(q, thing)
    <3>1. thing \in Deployments
      BY <2>1, <2>4, AskedOfKind, KindOfThing
    <3>2. thing.available # "True"
      BY <2>4 DEF Holds, IsAvailable
    <3>3. ~(thing.ready >= thing.replicas)
      BY <2>4, <3>1, <3>2 DEF Deployments
    <3> QED BY <2>4, <3>1, <3>3, WaitOnReplicas
  <2>5. ASSUME q.ask = "has_replicas", r.ask = "wait_ready", q.arg = thing.replicas,
               Holds(q, thing)
        PROVE  Holds(r, thing)
    <3>1. thing \in Deployments
      BY <2>1, <2>5, AskedOfKind, KindOfThing
    <3>2. thing.ready = thing.replicas
      BY <2>5 DEF Holds, HasReplicas
    <3> QED BY <2>5, <3>1, <3>2, WaitOnReplicas
  <2>6. ASSUME q.ask = "has_replicas", r.ask = "has_replicas", Holds(q, thing), Holds(r, thing)
        PROVE  a = b
    <3>1. q.arg = r.arg
      BY <2>6 DEF Holds, HasReplicas
    <3> QED BY <2>1, <2>2, <2>6, <3>1, AskedOfKind
  <2>7. ASSUME q.ask \in {"is_cluster_ip", "is_load_balancer", "is_node_port"},
               r.ask \in {"is_cluster_ip", "is_load_balancer", "is_node_port"},
               Holds(q, thing), Holds(r, thing)
        PROVE  a = b
    <3>1. q.ask = r.ask
      BY <2>7, TypesExclude
    <3> QED BY <2>1, <2>2, <2>7, <3>1, AskedOfKind
  <2>8. ASSUME q.ask = "has_capacity", r.ask = "is_bound", Holds(q, thing)
        PROVE  Holds(r, thing)
    <3>1. thing \in Claims /\ q.arg \in Tags
      BY <2>1, <2>8, AskedOfKind, KindOfThing
    <3>2. thing.capacity # NoTag
      BY <2>8, <3>1, ObserveAssumption DEF Holds, HasCapacity
    <3>3. thing.phase = "Bound"
      BY <3>1, <3>2 DEF Claims
    <3> QED BY <2>8, <3>3 DEF Holds, IsBound
  <2> QED BY <2>1, <2>3, <2>4, <2>5, <2>6, <2>7, <2>8 DEF q, r
<1>5. ASSUME ObserveInv, thing # Gone(thing.kind), NEW a \in said,
             a.question.ask = "wait_ready", a.verdict = "failed"
      PROVE  \/ a.described.ready < a.described.of
             \/ thing.kind = "pod" /\ a.described.phase # "Running"
             \/ a.described.of = 0 /\ thing.kind \in {"daemonset", "pod"}
  BY <1>5, <1>2, FailureShows
<1>6. ObserveInv => VerdictsAgree
  <2> SUFFICES ASSUME ObserveInv PROVE VerdictsAgree
    OBVIOUS
  <2>1. CASE thing = Gone(thing.kind)
    BY <1>1, <2>1 DEF VerdictsAgree
  <2>2. CASE thing # Gone(thing.kind)
    <3>1. \A a \in said : a.verdict # "not found"
      BY <1>2, <2>2
    <3> QED BY <1>4, <1>5, <2>2, <3>1 DEF VerdictsAgree
  <2> QED BY <2>1, <2>2
<1> QED BY ObserveInvariant, <1>6, PTL
-----------------------------------------------------------------------------
(* Ingress: what the chain remembers, and what it last asked.              *)

IngressInv ==
  /\ ingress \in Ingresses \cup {NoIngress}
  /\ builder.path \in Paths \cup {AnyPath} /\ builder.err \in BOOLEAN
  /\ unmet = builder.err
  /\ ending = "passed" => ~builder.err
  /\ last.what = "backend" =>
       /\ last.of \in Ingresses \cup {NoIngress}
       /\ last.path \in Paths \cup {AnyPath}
       /\ last.met = (last.of.there /\ RoutesTo(last.of, last, last.wanted))

LEMMA ExpectStep ==
  ASSUME IngressInv, NEW what \in {"backend", "tls"}, NEW wanted, NEW met \in BOOLEAN,
         Expect(what, wanted, met),
         what = "backend" => met = (ingress.there /\ RoutesTo(ingress, builder, wanted))
  PROVE  IngressInv'
<1>1. /\ builder'.path = builder.path /\ builder'.err = ~met
      /\ unmet' = ~met /\ ending = "none"
      /\ ending' = ending /\ ingress' = ingress
  BY DEF IngressInv, Expect, Goes
<1>2. /\ last'.what = what /\ last'.wanted = wanted /\ last'.met = met
      /\ last'.of = ingress /\ last'.host = builder.host /\ last'.path = builder.path
  BY DEF Expect
<1>3. RoutesTo(ingress, last', wanted) = RoutesTo(ingress, builder, wanted)
  BY <1>2 DEF RoutesTo, HostMatches
<1>4. last'.met = met /\ (what = "backend" =>
        met = (last'.of.there /\ RoutesTo(last'.of, last', last'.wanted)))
  BY <1>2, <1>3
<1> QED BY <1>1, <1>2, <1>4 DEF IngressInv

(* IngressInv holds in every state.                                        *)
THEOREM IngressInvariant == IngressSpec => []IngressInv
<1>1. IngressInit => IngressInv
  <2> SUFFICES ASSUME IngressInit PROVE IngressInv
    OBVIOUS
  <2>1. last.what = "none" /\ builder.path = AnyPath /\ builder.err = FALSE
    BY DEF IngressInit, NewTest, Nothing
  <2> QED BY <2>1 DEF IngressInit, IngressInv
<1>2. IngressInv /\ [IngressNext]_ingressVars => IngressInv'
  <2> SUFFICES ASSUME IngressInv, [IngressNext]_ingressVars PROVE IngressInv'
    OBVIOUS
  <2>1. ASSUME NEW h \in Hosts, Host(h) PROVE IngressInv'
    BY <2>1 DEF Host, IngressInv, RoutesTo, HostMatches
  <2>2. ASSUME NEW p \in Paths, Path(p) PROVE IngressInv'
    BY <2>2 DEF Path, IngressInv, RoutesTo, HostMatches
  <2>3. ASSUME NEW b \in Backends, ExpectBackend(b) PROVE IngressInv'
    BY <2>3, ExpectStep DEF ExpectBackend
  <2>4. ASSUME NEW s \in TlsSecrets, ExpectTls(s) PROVE IngressInv'
    BY <2>4, ExpectStep DEF ExpectTls
  <2>5. CASE ExpectFails
    BY <2>5 DEF ExpectFails, Goes, IngressInv, RoutesTo, HostMatches
  <2>6. CASE Must
    BY <2>6 DEF Must, IngressInv, RoutesTo, HostMatches
  <2>7. CASE NextTest
    BY <2>7 DEF NextTest, NewTest, Nothing, IngressInv
  <2>8. CASE Change
    BY <2>8 DEF Change, IngressInv, RoutesTo, HostMatches
  <2>9. CASE UNCHANGED ingressVars
    BY <2>9 DEF ingressVars, IngressInv, RoutesTo, HostMatches
  <2> QED BY <2>1, <2>2, <2>3, <2>4, <2>5, <2>6, <2>7, <2>8, <2>9 DEF IngressNext
<1> QED BY <1>1, <1>2, PTL DEF IngressSpec

-----------------------------------------------------------------------------
(* The test's matching of paths against the controller's.                  *)

LEMMA PrefixFacts ==
  ASSUME NEW s \in Seq(Segments)
  PROVE  IsPrefix(s, s) /\ IsPrefix(<<>>, s)
BY LenProperties DEF IsPrefix

LEMMA MatchedIsServed ==
  ASSUME NEW p \in PathOf, NEW e, e.path \in PathOf, e.exact = FALSE,
         PathMatches(p, e.path)
  PROVE  Serves(e, p)
<1>1. e.path.segments \in Seq(Segments) /\ p.segments \in Seq(Segments)
  BY DEF PathOf
<1>2. IsPrefix(e.path.segments, p.segments)
  BY <1>1, PrefixFacts DEF PathMatches
<1> QED BY <1>2 DEF Serves

LEMMA ServedIsMatched ==
  ASSUME NEW p \in PathOf, NEW e, e.path \in PathOf, Serves(e, p),
         e.exact \in BOOLEAN, ~e.path.slash, ~p.slash
  PROVE  PathMatches(p, e.path)
<1>1. CASE e.exact
  BY <1>1 DEF Serves, PathMatches
<1>2. CASE ~e.exact
  <2>1. e.path.segments = p.segments => e.path = p
    BY DEF PathOf
  <2> QED BY <1>2, <2>1 DEF Serves, PathMatches
<1> QED BY <1>1, <1>2

(* Rules of the host come before the others.                               *)
LEMMA OwnRules ==
  ASSUME NEW i, NEW h, NEW rule \in i.rules, rule.host = h
  PROVE  rule \in RulesOf(i, h) /\ \A r \in RulesOf(i, h) : r \in i.rules /\ r.host = h
BY DEF RulesOf

LEMMA IngressEntries ==
  ASSUME NEW i \in Ingresses \cup {NoIngress}
  PROVE  /\ \A r \in i.rules : \A e \in r.paths : e.path \in PathOf /\ e.exact \in BOOLEAN
         /\ i.rules # {} => i.there
BY IngressAssumption DEF NoIngress

(* What is met is served by the entry of the test, or by a longer one.     *)
Explained(i, b, backend) ==
  LET routed == Routes(i, b.host, b.path)
      entries == UNION {r.paths : r \in RulesOf(i, b.host)}
  IN  \/ \E x \in routed : x.backend = backend
      \/ \E x, y \in entries : /\ x.backend = backend /\ Serves(y, b.path)
                               /\ Len(x.path.segments) < Len(y.path.segments)
      \/ \E x \in entries : x.backend = backend /\ x.exact

LEMMA MetIsExplained ==
  ASSUME NEW i \in Ingresses \cup {NoIngress}, NEW b, b.host # Anyhost,
         b.path \in Paths, b.path # AnyPath, NEW backend, RoutesTo(i, b, backend)
  PROVE  Explained(i, b, backend)
<1> DEFINE entries == UNION {r.paths : r \in RulesOf(i, b.host)}
<1>1. PICK rule \in i.rules : \E e \in rule.paths :
        rule.host = b.host /\ PathMatches(b.path, e.path) /\ e.backend = backend
  BY DEF RoutesTo, HostMatches
<1>2. PICK e \in rule.paths : PathMatches(b.path, e.path) /\ e.backend = backend
  BY <1>1
<1>3. e \in entries /\ \A y \in entries : y.path \in PathOf /\ y.exact \in BOOLEAN
  BY <1>1, <1>2, OwnRules, IngressEntries
<1>4. CASE e.exact
  BY <1>2, <1>3, <1>4 DEF Explained
<1>5. CASE e.exact = FALSE
  <2>1. Serves(e, b.path)
    BY <1>2, <1>3, <1>5, IngressAssumption, MatchedIsServed
  <2>2. CASE \A y \in entries : Serves(y, b.path) =>
                                Len(y.path.segments) <= Len(e.path.segments)
    <3>1. e \in Routes(i, b.host, b.path)
      BY <1>3, <2>1, <2>2 DEF Routes
    <3> QED BY <1>2, <3>1 DEF Explained
  <2>3. CASE \E y \in entries : /\ Serves(y, b.path)
                                /\ ~(Len(y.path.segments) <= Len(e.path.segments))
    <3>1. PICK y \in entries : /\ Serves(y, b.path)
                               /\ ~(Len(y.path.segments) <= Len(e.path.segments))
      BY <2>3
    <3>2. Len(y.path.segments) \in Nat /\ Len(e.path.segments) \in Nat
      BY <1>3, LenProperties DEF PathOf
    <3>3. Len(e.path.segments) < Len(y.path.segments)
      BY <3>1, <3>2
    <3> QED BY <1>2, <1>3, <3>1, <3>3 DEF Explained
  <2> QED BY <2>2, <2>3
<1> QED BY <1>3, <1>4, <1>5

(* What is refused is not served, up to the slash at an end.               *)
LEMMA UnmetIsNotRouted ==
  ASSUME NEW i \in Ingresses \cup {NoIngress}, NEW b, b.path \in Paths, NEW backend,
         ~(i.there /\ RoutesTo(i, b, backend)),
         NEW x \in Routes(i, b.host, b.path), x.backend = backend,
         ~x.path.slash, ~b.path.slash,
         NEW own \in i.rules, own.host = b.host
  PROVE  FALSE
<1>1. PICK rule \in RulesOf(i, b.host) : x \in rule.paths /\ Serves(x, b.path)
  BY DEF Routes
<1>2. rule \in i.rules /\ rule.host = b.host
  BY <1>1, OwnRules
<1>3. i.there /\ x.path \in PathOf /\ x.exact \in BOOLEAN
  BY <1>1, <1>2, IngressEntries
<1>4. PathMatches(b.path, x.path)
  BY <1>1, <1>3, IngressAssumption, ServedIsMatched
<1>5. RoutesTo(i, b, backend)
  BY <1>1, <1>2, <1>4 DEF RoutesTo, HostMatches
<1> QED BY <1>3, <1>5

(* A chain that passes is right about the ingress, for any hosts, paths    *)
(* and rules.                                                              *)
THEOREM PassesAreRouted == IngressSpec => []PassMeansRouted
<1>1. IngressInv => PassMeansRouted
  <2> SUFFICES ASSUME IngressInv PROVE PassMeansRouted
    OBVIOUS
  <2>1. ending = "passed" => ~unmet
    BY DEF IngressInv
  <2>2. ASSUME last.what = "backend", last.host # Anyhost, last.path # AnyPath
        PROVE  /\ last.of \in Ingresses \cup {NoIngress} /\ last.path \in Paths
               /\ last.met => RoutesTo(last.of, last, last.wanted)
               /\ ~last.met => ~(last.of.there /\ RoutesTo(last.of, last, last.wanted))
    BY <2>2 DEF IngressInv
  <2>3. ASSUME last.what = "backend", last.host # Anyhost, last.path # AnyPath, last.met
        PROVE  Explained(last.of, last, last.wanted)
    BY <2>2, <2>3, MetIsExplained
  <2>4. ASSUME last.what = "backend", last.host # Anyhost, last.path # AnyPath, ~last.met,
               NEW x \in Routes(last.of, last.host, last.path), x.backend = last.wanted
        PROVE  x.path.slash \/ last.path.slash \/ \A r \in last.of.rules : r.host # last.host
    BY <2>2, <2>4, UnmetIsNotRouted
  <2> QED BY <2>1, <2>3, <2>4 DEF PassMeansRouted, Explained
<1> QED BY IngressInvariant, <1>1, PTL
=============================================================================

------------------------------ MODULE Observe -------------------------------
(***************************************************************************)
(* What a test can ask of one object: the assertions of assertions.rs, one *)
(* poll of wait_ready for every kind (context/readiness.rs), and the state *)
(* that a wait which timed out describes (wait.rs).  Every question is a   *)
(* get of its own, judged when its answer is there; the object may change  *)
(* before, between and after.                                              *)
(***************************************************************************)
EXTENDS Naturals, FiniteSets

CONSTANTS MaxCount,  \* bound: replicas, containers
          Tags,      \* values of a label, an annotation, a storage class ...
          NoTag,     \* ... that is not set
          Ports

ASSUME ObserveAssumption ==
  /\ MaxCount \in Nat /\ NoTag \notin Tags /\ Ports \subseteq Nat

VARIABLES thing,   \* the object
          reading, \* the question that waits for its get, and what that gets
          said     \* history: answers about the object as it is now

observeVars == <<thing, reading, said>>

Upto == 0..MaxCount
AnyTag == Tags \cup {NoTag}
Gone(kind) == [kind |-> kind]

(* External: the objects as the kubelet and the controllers write them.  A *)
(* container is ready only in a pod that runs; there is a list of statuses  *)
(* or none, and the list may be empty; a deployment's status is about the  *)
(* replicas that were observed, and with small numbers it is available     *)
(* when all of them are; only a bound claim has a capacity.                *)
Pods == {p \in [kind : {"pod"}, phase : {"Unknown", "Pending", "Running", "Succeeded"},
                statuses : BOOLEAN, total : Upto, ready : Upto,
                label : AnyTag, annotation : AnyTag] :
           /\ p.ready <= p.total /\ (p.ready > 0 => p.phase = "Running")
           /\ p.total > 0 => p.statuses}
Deployments == {d \in [kind : {"deployment"}, replicas : Upto, observed : Upto,
                       ready : Upto, available : {"none", "True", "False"}, label : AnyTag] :
                  d.available # "none" => (d.available = "True" <=> d.ready >= d.observed)}
StatefulSets == [kind : {"statefulset"}, replicas : Upto, ready : Upto]
DaemonSets == [kind : {"daemonset"}, desired : Upto, ready : Upto]
Services == [kind : {"service"}, type : {"unset", "ClusterIP", "NodePort", "LoadBalancer"},
             ports : SUBSET Ports, selector : AnyTag]
Claims == {c \in [kind : {"pvc"}, phase : {"Unknown", "Pending", "Bound", "Lost"},
                  class : AnyTag, capacity : AnyTag] :
             c.capacity # NoTag => c.phase = "Bound"}
Everything == UNION {Pods, Deployments, StatefulSets, DaemonSets, Services, Claims}

-----------------------------------------------------------------------------
(* Pods.                                                                   *)

IsRunning(p) == p.phase = "Running"
IsPending(p) == p.phase = "Pending"
HasLabel(o, value) == o.label = value
HasAnnotation(p, value) == p.annotation = value

(* No status that is not ready, in a list that is there.  Mutation: or is  *)
(* not there.                                                              *)
NoneUnready(p) == p.ready = p.total
ContainersReady(p) == p.statuses /\ p.ready = p.total

(* wait_ready does not take an empty list either.                          *)
PodIsReady(p) == p.phase = "Running" /\ p.statuses /\ p.total > 0 /\ p.ready = p.total

(* Deployments, StatefulSets and DaemonSets.                               *)
HasReplicas(d, n) == d.ready = n
IsAvailable(d) == d.available = "True"
ReplicasAreReady(o) == o.ready >= o.replicas
DaemonsAreReady(d) == d.desired > 0 /\ d.ready >= d.desired

(* Services.                                                               *)
ServiceType(s) == IF s.type = "unset" THEN "ClusterIP" ELSE s.type
IsClusterIp(s) == ServiceType(s) = "ClusterIP"
IsLoadBalancer(s) == ServiceType(s) = "LoadBalancer"
IsNodePort(s) == ServiceType(s) = "NodePort"
HasPort(s, port) == port \in s.ports
HasSelector(s, value) == s.selector = value

(* Claims.                                                                 *)
IsBound(c) == c.phase = "Bound"
HasStorageClass(c, value) == c.class = value
HasCapacity(c, value) == c.capacity = value

Holds(q, o) ==
  CASE q.ask = "is_running" -> IsRunning(o)
    [] q.ask = "is_pending" -> IsPending(o)
    [] q.ask = "has_label" -> HasLabel(o, q.arg)
    [] q.ask = "has_annotation" -> HasAnnotation(o, q.arg)
    [] q.ask = "containers_ready" -> ContainersReady(o)
    [] q.ask = "has_replicas" -> HasReplicas(o, q.arg)
    [] q.ask = "is_available" -> IsAvailable(o)
    [] q.ask = "has_port" -> HasPort(o, q.arg)
    [] q.ask = "is_cluster_ip" -> IsClusterIp(o)
    [] q.ask = "is_load_balancer" -> IsLoadBalancer(o)
    [] q.ask = "is_node_port" -> IsNodePort(o)
    [] q.ask = "has_selector" -> HasSelector(o, q.arg)
    [] q.ask = "is_bound" -> IsBound(o)
    [] q.ask = "has_storage_class" -> HasStorageClass(o, q.arg)
    [] q.ask = "has_capacity" -> HasCapacity(o, q.arg)
    [] q.ask = "exists" -> TRUE
    [] q.ask = "wait_ready" ->
         CASE o.kind = "pod" -> PodIsReady(o)
           [] o.kind \in {"deployment", "statefulset"} -> ReplicasAreReady(o)
           [] o.kind = "daemonset" -> DaemonsAreReady(o)
           [] OTHER -> TRUE

(* What the test may ask of each kind: ctx.assert_pod and the others.      *)
Ask(names, args) == {[ask |-> n, arg |-> a] : n \in names, a \in args}
Questions(kind) ==
  CASE kind = "pod" ->
         Ask({"is_running", "is_pending", "containers_ready", "wait_ready"}, {NoTag})
           \cup Ask({"has_label", "has_annotation"}, Tags)
    [] kind = "deployment" ->
         Ask({"is_available", "wait_ready"}, {NoTag}) \cup Ask({"has_replicas"}, Upto)
           \cup Ask({"has_label"}, Tags)
    [] kind \in {"statefulset", "daemonset"} -> Ask({"wait_ready"}, {NoTag})
    [] kind = "service" ->
         Ask({"is_cluster_ip", "is_load_balancer", "is_node_port", "wait_ready"}, {NoTag})
           \cup Ask({"has_port"}, Ports) \cup Ask({"has_selector"}, Tags)
    [] kind = "pvc" ->
         Ask({"is_bound", "exists"}, {NoTag})
           \cup Ask({"has_storage_class", "has_capacity"}, Tags)

(* state_description: so many ready of so many, and the phase of a pod.    *)
Described(o) ==
  CASE o \notin Everything -> [ready |-> 0, of |-> 0, phase |-> "none"]
    [] o.kind = "pod" -> [ready |-> o.ready, of |-> o.total, phase |-> o.phase]
    [] o.kind \in {"deployment", "statefulset"} ->
         [ready |-> o.ready, of |-> o.replicas, phase |-> "none"]
    [] o.kind = "daemonset" -> [ready |-> o.ready, of |-> o.desired, phase |-> "none"]
    [] OTHER -> [ready |-> 0, of |-> 0, phase |-> "none"]  \* none is written

-----------------------------------------------------------------------------
NoQuestion == [ask |-> "none", arg |-> NoTag]
NoReading == [question |-> NoQuestion, object |-> Gone("none")]

ObserveInit ==
  /\ thing \in Everything
  /\ reading = NoReading /\ said = {}

(* The get is served.  Two answers at a time are kept: what disagrees,     *)
(* disagrees in pairs.                                                     *)
Look(q) ==
  /\ reading = NoReading
  /\ reading' = [question |-> q, object |-> thing]
  /\ said' = IF Cardinality(said) < 2 THEN said ELSE {}
  /\ UNCHANGED thing

(* NotFound for a 404; otherwise what the object says, and for a wait what *)
(* it would describe if this were its last poll.  An answer that comes     *)
(* after a change is not about the object any more.                        *)
Answer ==
  /\ reading # NoReading
  /\ LET q == reading.question
         o == reading.object
     IN  said' = IF o # thing THEN said
                 ELSE said \cup
                   {[question |-> q, described |-> Described(o),
                     verdict |-> IF o = Gone(o.kind) THEN "not found"
                                 ELSE IF Holds(q, o) THEN "ok" ELSE "failed"]}
  /\ reading' = NoReading
  /\ UNCHANGED thing

(* Any other error of the get: no verdict, and wait_ready polls again.     *)
LookFails ==
  /\ reading # NoReading
  /\ reading' = NoReading
  /\ UNCHANGED <<thing, said>>

(* External.  A change between two calls is a new beginning.               *)
Becomes(o) ==
  /\ reading # NoReading
  /\ o # thing /\ o.kind = thing.kind
  /\ thing' = o
  /\ said' = {}
  /\ UNCHANGED reading

ObserveNext ==
  \/ \E q \in Questions(thing.kind) : Look(q)
  \/ Answer \/ LookFails
  \/ \E o \in Everything \cup {Gone(thing.kind)} : Becomes(o)

ObserveSpec == ObserveInit /\ [][ObserveNext]_observeVars

-----------------------------------------------------------------------------
(* Answers about one and the same state of an object fit together, though  *)
(* asserts and waits judge it by code of their own: wait_ready on a pod is *)
(* is_running and containers_ready, but for an empty list of statuses,     *)
(* that only containers_ready accepts; on a deployment whose status is up  *)
(* to date it is is_available, and it follows from has_replicas; a service *)
(* has one type; a claim with a capacity is bound.  And a wait that is not *)
(* satisfied can always show why: a description that reads "2/2 ready" is  *)
(* never that of a timeout, but for "0/0" of a DaemonSet without nodes and *)
(* of a pod that has finished or not started.                              *)
VerdictsAgree ==
  \A a, b \in said :
    LET wait == a.question.ask = "wait_ready"
        both(x, y) == a.question.ask = x /\ b.question.ask = y
        oks == a.verdict = "ok" /\ b.verdict = "ok"
        okToo == a.verdict = "ok" => b.verdict = "ok"
        types == {"is_cluster_ip", "is_load_balancer", "is_node_port"}
    IN  IF thing = Gone(thing.kind) THEN a.verdict = "not found" ELSE
        /\ a.verdict # "not found"
        /\ both("wait_ready", "is_running") => okToo
        /\ both("wait_ready", "is_pending") => ~oks
        /\ both("wait_ready", "containers_ready") =>
             a.verdict = b.verdict \/ (thing.statuses /\ thing.total = 0)
        /\ both("wait_ready", "is_available") /\ b.verdict = "failed"
             /\ thing.observed = thing.replicas /\ thing.available # "none"
             => a.verdict = "failed"
        /\ both("has_replicas", "wait_ready") /\ a.question.arg = thing.replicas => okToo
        /\ both("has_replicas", "has_replicas") /\ oks => a = b
        /\ a.question.ask \in types /\ b.question.ask \in types /\ oks => a = b
        /\ both("has_capacity", "is_bound") => okToo
        /\ wait /\ a.verdict = "failed" =>
             \/ a.described.ready < a.described.of
             \/ thing.kind = "pod" /\ a.described.phase # "Running"
             \/ a.described.of = 0 /\ thing.kind \in {"daemonset", "pod"}
=============================================================================

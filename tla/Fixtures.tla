------------------------------ MODULE Fixtures ------------------------------
(***************************************************************************)
(* The builders of deployments, pods and services (fixtures.rs), and what  *)
(* seppo later finds of the objects they make, by labels: the pod that     *)
(* test_self_healing kills and the pods that debug prints (app = name,     *)
(* context/scenarios.rs and debug.rs), the pod a forward goes to (the      *)
(* selector of the deployment or service, context/forwarding.rs).          *)
(*                                                                         *)
(* Two labels are enough: app, which a builder sets to the name by itself, *)
(* and tier.  A label set is a function on them, NoLabel where unset.      *)
(***************************************************************************)
EXTENDS Naturals, FiniteSets

CONSTANTS Names,      \* of deployments, pods and services
          Tiers,
          NoLabel,
          MaxFixtures, MaxReplicas  \* bounds

ASSUME FixturesAssumption ==
  /\ NoLabel \notin Names \cup Tiers
  /\ MaxFixtures \in Nat /\ MaxReplicas \in Nat

VARIABLES draft,        \* the builder in use
          deployments, barePods, services,   \* what was applied
          replicaPods,  \* the pods of the deployments
          running,      \* the pods whose phase is Running
          found         \* what the last lookup returned, and for whom

fixtureVars == <<draft, deployments, barePods, services, replicaPods, running, found>>

LabelKeys == {"app", "tier"}
Labels == [app : Names \cup {NoLabel}, tier : Tiers \cup {NoLabel}]
NoLabels == [k \in LabelKeys |-> NoLabel]
NoDraft == [kind |-> "none", name |-> NoLabel, labels |-> NoLabels,
            replicas |-> 1, image |-> FALSE]
NothingFound == [by |-> "none", name |-> NoLabel, pods |-> {}, own |-> {}]

FixturesInit ==
  /\ draft = NoDraft
  /\ deployments = {} /\ barePods = {} /\ services = {}
  /\ replicaPods = {} /\ running = {}
  /\ found = NothingFound

applied == <<deployments, barePods, services, replicaPods, running>>

-----------------------------------------------------------------------------
(* The builders.                                                           *)

(* `new`: app = name, but for a service, which begins without a selector.  *)
New(kind, n) ==
  /\ draft = NoDraft
  /\ draft' = [NoDraft EXCEPT !.kind = kind, !.name = n,
                              !.labels.app = IF kind = "service" THEN @ ELSE n]
  /\ found' = NothingFound
  /\ UNCHANGED applied

(* `label`, and `selector` of a service: the last value of a key stands.   *)
Label(l) ==
  /\ draft # NoDraft /\ l \in Labels /\ l # NoLabels
  /\ draft' = [draft EXCEPT !.labels =
                 [k \in LabelKeys |-> IF l[k] = NoLabel THEN @[k] ELSE l[k]]]
  /\ found' = NothingFound
  /\ UNCHANGED applied

Image ==
  /\ draft.kind \in {"deployment", "pod"}
  /\ draft' = [draft EXCEPT !.image = TRUE]
  /\ found' = NothingFound
  /\ UNCHANGED applied

Replicas(n) ==
  /\ draft.kind = "deployment"
  /\ draft' = [draft EXCEPT !.replicas = n]
  /\ found' = NothingFound
  /\ UNCHANGED applied

(* The asserts of the builders - no image, a negative count, port zero -   *)
(* and a test that drops its builder.                                      *)
Panic ==
  /\ draft # NoDraft
  /\ draft' = NoDraft
  /\ found' = NothingFound
  /\ UNCHANGED applied

(* DeploymentFixture::build and apply.  Selector and template are the same *)
(* labels; the API server refuses a change of the selector.                *)
ApplyDeployment ==
  /\ draft.kind = "deployment" /\ draft.image
  /\ Cardinality(deployments \cup barePods \cup services) < MaxFixtures
  /\ \A d \in deployments : d.name = draft.name => d.selector = draft.labels
  /\ deployments' = {d \in deployments : d.name # draft.name}
       \cup {[name |-> draft.name, selector |-> draft.labels,
              template |-> draft.labels, replicas |-> draft.replicas]}
  /\ draft' = NoDraft
  /\ found' = NothingFound
  /\ UNCHANGED <<barePods, services, replicaPods, running>>

ApplyPod ==
  /\ draft.kind = "pod" /\ draft.image
  /\ Cardinality(deployments \cup barePods \cup services) < MaxFixtures
  /\ \A p \in barePods : p.name # draft.name
  /\ barePods' = barePods \cup {[owner |-> "nobody", name |-> draft.name,
                                 labels |-> draft.labels]}
  /\ draft' = NoDraft
  /\ found' = NothingFound
  /\ UNCHANGED <<deployments, services, replicaPods, running>>

ApplyService ==
  /\ draft.kind = "service"
  /\ Cardinality(deployments \cup barePods \cup services) < MaxFixtures
  /\ services' = {s \in services : s.name # draft.name}
       \cup {[name |-> draft.name, selector |-> draft.labels]}
  /\ draft' = NoDraft
  /\ found' = NothingFound
  /\ UNCHANGED <<deployments, barePods, replicaPods, running>>

-----------------------------------------------------------------------------
(* External: the controllers and the kubelets.                             *)

Own(n) == {p \in replicaPods : p.deployment = n}

CreateReplica(d) ==
  /\ Cardinality(Own(d.name)) < d.replicas
  /\ \E i \in 1..MaxReplicas :
       /\ \A p \in Own(d.name) : p.index # i
       /\ replicaPods' = replicaPods \cup
            {[owner |-> "deployment", deployment |-> d.name, index |-> i,
              labels |-> d.template]}
  /\ found' = NothingFound
  /\ UNCHANGED <<draft, deployments, barePods, services, running>>

Pods == replicaPods \cup barePods

Start(p) ==
  /\ p \notin running
  /\ running' = running \cup {p}
  /\ found' = NothingFound
  /\ UNCHANGED <<draft, deployments, barePods, services, replicaPods>>

-----------------------------------------------------------------------------
(* The lookups.                                                            *)

Matching(selector) ==
  {p \in Pods : \A k \in LabelKeys : selector[k] # NoLabel => p.labels[k] = selector[k]}

Find(by, n, pods) ==
  /\ draft = NoDraft
  /\ found' = [by |-> by, name |-> n, pods |-> pods, own |-> Own(n)]
  /\ UNCHANGED <<draft, applied>>

(* Mutation: every pod of the namespace is looked at.                      *)
AppIsAny(n) == Pods
AppIs(n) == Matching([app |-> n, tier |-> NoLabel])

(* test_self_healing kills the first of the list, whichever that is.       *)
ChooseVictim(n) == \E p \in AppIs(n) : Find("self_healing", n, {p})

DebugPods(n) == Find("debug", n, AppIs(n))

(* find_running_pod_by_labels: the first that is Running, or an error.     *)
ForwardTo(by, n, selector) ==
  \E p \in Matching(selector) \cap running : Find(by, n, {p})

ForwardDeployment(d) == ForwardTo("deployment", d.name, d.selector)

(* A service without a selector is an error.                               *)
ForwardService(s) ==
  s.selector # NoLabels /\ ForwardTo("service", s.name, s.selector)

FixturesNext ==
  \/ \E kind \in {"deployment", "pod", "service"}, n \in Names : New(kind, n)
  \/ \E l \in Labels : Label(l)
  \/ Image \/ \E n \in 0..MaxReplicas : Replicas(n)
  \/ Panic \/ ApplyDeployment \/ ApplyPod \/ ApplyService
  \/ \E d \in deployments : CreateReplica(d) \/ ForwardDeployment(d)
  \/ \E p \in Pods : Start(p)
  \/ \E n \in Names : ChooseVictim(n) \/ DebugPods(n)
  \/ \E s \in services : ForwardService(s)

FixturesSpec == FixturesInit /\ [][FixturesNext]_fixtureVars

-----------------------------------------------------------------------------
(* The name of a deployment stands for its pods in every lookup, as long   *)
(* as the label app is left to the builders: none of its pods is missed.   *)
(* A pod that is found and is somebody else's is there because a fixture   *)
(* was given another app than its name, or is a bare pod of this name -    *)
(* found by a call for the deployment all the same.                        *)
LookupsFindByName ==
  LET n == found.name
      renamed == {d \in deployments : d.template.app # d.name}
  IN  found.by \in {"self_healing", "debug", "deployment"} =>
        /\ found.by = "debug" /\ renamed = {} => found.own \subseteq found.pods
        /\ \A p \in found.pods \ found.own :
             \/ \E d \in renamed : d.name = n
             \/ p.owner = "nobody" /\ (p.name = n \/ p.labels.app # p.name)
             \/ p.owner = "deployment" /\ \E d \in renamed : d.name = p.deployment
=============================================================================

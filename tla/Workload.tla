------------------------------ MODULE Workload ------------------------------
(***************************************************************************)
(* The operations of seppo::Context on the SPEC of one deployment: apply   *)
(* (context/crud.rs), scale, restart and rollback (context/workload.rs)    *)
(* and delete (context/crud.rs), called by several test tasks, next to the *)
(* deployment controller that numbers the revisions and the collector that *)
(* removes the ReplicaSets of a deleted deployment.                        *)
(*                                                                         *)
(* apply, scale, restart and delete are one request each, hence one step.  *)
(* rollback is three - get the deployment, list the ReplicaSets, patch -   *)
(* and everybody else may act between any two of them.                     *)
(*                                                                         *)
(* A pod template is an image, which every template has, and a stamp: the  *)
(* restartedAt annotation, 0 when it is absent.  The stamp stands for any  *)
(* optional key of a template.                                             *)
(***************************************************************************)
EXTENDS Integers, FiniteSets

CONSTANTS Clients,      \* the tasks that hold the Context
          Images,
          Asked,        \* replica counts asked for; may hold negative ones
          NoTemplate,   \* "the controller has not seen a template yet"
          MaxUid,       \* bound: deployments created under the name
          MaxClock,     \* bound: restarts
          MaxRevision   \* bound: revisions the controller gives out

ASSUME WorkloadAssumption ==
  /\ Asked \subseteq Int
  /\ NoTemplate \notin [image : Images, stamp : Nat]
  /\ MaxUid \in Nat /\ MaxClock \in Nat /\ MaxRevision \in Nat

Templates == [image : Images, stamp : Nat]

VARIABLES dep,          \* the deployment; its uid is 0 when there is none
          replicaSets,  \* the ReplicaSets: owner, template, revision
          lastUid, clock,
          stage,        \* where each client is in rollback
          got,          \* the deployment rollback read
          listed,       \* the owned ReplicaSets rollback listed
          wanted,       \* history: the replica count asked for last
          used,         \* history: images applied to this deployment, or put into
                        \* it by a rollback that had read an earlier one
          latest, previous  \* history: the two templates the controller saw last

client == <<stage, got, listed>>
specHistory == <<wanted, used, latest, previous>>
workloadVars == <<dep, replicaSets, lastUid, clock, client, specHistory>>

ReplicaSet == [owner : Nat, template : Templates, rev : Nat]
Deployment == [uid : Nat, replicas : Int, template : Templates \cup {NoTemplate}]
Absent == [uid |-> 0, replicas |-> 0, template |-> NoTemplate]

Exists == dep.uid # 0

(* The controller's own ReplicaSets: owner uid and a revision annotation.  *)
(* Mutation: whatever ReplicaSet is in the namespace.                      *)
OwnedByAny(u) == {r \in replicaSets : r.rev > 0}
OwnedBy(u) == {r \in replicaSets : r.owner = u /\ r.rev > 0}

HasPrevious(S) == Cardinality(S) >= 2

(* sort_by revision, descending: element 0 and element 1.  Mutation: the   *)
(* index is 0.                                                             *)
IsNewest(r, S) == r \in S /\ \A x \in S : x.rev <= r.rev
IsCurrent(r, S) == IsNewest(r, S)
IsPrevious(r, S) == \E n \in S : IsNewest(n, S) /\ IsNewest(r, S \ {n})

(* An RFC 7386 merge patch of a template: what the patch does not mention  *)
(* stays.  An absent annotation is not mentioned (the field is skipped     *)
(* when the template is serialised), so it is not removed.                 *)
Merge(template, patch) ==
  [image |-> patch.image,
   stamp |-> IF patch.stamp = 0 THEN template.stamp ELSE patch.stamp]

-----------------------------------------------------------------------------
WorkloadInit ==
  /\ dep = Absent
  /\ replicaSets = {}
  /\ lastUid = 0 /\ clock = 0
  /\ stage = [c \in Clients |-> "idle"]
  /\ got = [c \in Clients |-> Absent]
  /\ listed = [c \in Clients |-> {}]
  /\ wanted = 0
  /\ used = {}
  /\ latest = NoTemplate /\ previous = NoTemplate

(* scale refuses a negative count, the API server one that is applied.     *)
ValidCount(n) == n >= 0

(* Context::apply is a forced server-side apply: it creates the object or  *)
(* takes over the fields it names.  The restart annotation belongs to      *)
(* another field manager and stays.                                        *)
ApplyCreates(c, i, n) ==
  /\ stage[c] = "idle" /\ ~Exists /\ ValidCount(n)
  /\ lastUid < MaxUid
  /\ lastUid' = lastUid + 1
  /\ dep' = [uid |-> lastUid', replicas |-> n,
             template |-> [image |-> i, stamp |-> 0]]
  /\ wanted' = n /\ used' = {i}
  /\ latest' = NoTemplate /\ previous' = NoTemplate
  /\ UNCHANGED <<replicaSets, clock, client>>

ApplyUpdates(c, i, n) ==
  /\ stage[c] = "idle" /\ Exists /\ ValidCount(n)
  /\ dep' = [dep EXCEPT !.replicas = n, !.template.image = i]
  /\ wanted' = n /\ used' = used \cup {i}
  /\ UNCHANGED <<replicaSets, lastUid, clock, client, latest, previous>>

ScaleTo(c, n) ==
  /\ stage[c] = "idle" /\ Exists /\ ValidCount(n)
  /\ dep' = [dep EXCEPT !.replicas = n]
  /\ wanted' = n
  /\ UNCHANGED <<replicaSets, lastUid, clock, client, used, latest, previous>>

(* A strategic patch that sets restartedAt to the time of the call.        *)
StampRestart(c) ==
  /\ stage[c] = "idle" /\ Exists
  /\ clock < MaxClock
  /\ clock' = clock + 1
  /\ dep' = [dep EXCEPT !.template.stamp = clock']
  /\ UNCHANGED <<replicaSets, lastUid, client, specHistory>>

(* The deployment goes at once, its ReplicaSets when they are collected.   *)
Delete(c) ==
  /\ stage[c] = "idle" /\ Exists
  /\ dep' = Absent
  /\ UNCHANGED <<replicaSets, lastUid, clock, client, specHistory>>

RollbackGet(c) ==
  /\ stage[c] = "idle" /\ Exists
  /\ stage' = [stage EXCEPT ![c] = "got"]
  /\ got' = [got EXCEPT ![c] = dep]
  /\ UNCHANGED <<dep, replicaSets, lastUid, clock, listed, specHistory>>

RollbackList(c) ==
  /\ stage[c] = "got"
  /\ HasPrevious(OwnedBy(got[c].uid))
  /\ stage' = [stage EXCEPT ![c] = "listed"]
  /\ listed' = [listed EXCEPT ![c] = OwnedBy(got[c].uid)]
  /\ UNCHANGED <<dep, replicaSets, lastUid, clock, got, specHistory>>

Forget(c) ==
  /\ stage' = [stage EXCEPT ![c] = "idle"]
  /\ got' = [got EXCEPT ![c] = Absent]
  /\ listed' = [listed EXCEPT ![c] = {}]

(* Mutation: the deployment read first is changed and written back.        *)
RollbackWritesBack(c) ==
  /\ stage[c] = "listed" /\ Exists
  /\ \E r \in listed[c] :
       /\ IsPrevious(r, listed[c])
       /\ dep' = [got[c] EXCEPT !.template = r.template]
  /\ Forget(c)
  /\ UNCHANGED <<replicaSets, lastUid, clock, specHistory>>

RollbackPatch(c) ==
  /\ stage[c] = "listed" /\ Exists
  /\ \E r \in listed[c] :
       /\ IsPrevious(r, listed[c])
       /\ dep' = [dep EXCEPT !.template = Merge(dep.template, r.template)]
       /\ used' = IF got[c].uid = dep.uid THEN used ELSE used \cup {r.template.image}
  /\ Forget(c)
  /\ UNCHANGED <<replicaSets, lastUid, clock, wanted, latest, previous>>

(* The error returns: "no previous revision available", or the deployment  *)
(* is gone when the patch arrives.                                         *)
RollbackFails(c) ==
  /\ \/ stage[c] = "got" /\ ~HasPrevious(OwnedBy(got[c].uid))
     \/ stage[c] = "listed" /\ ~Exists
  /\ Forget(c)
  /\ UNCHANGED <<dep, replicaSets, lastUid, clock, specHistory>>

(* External: the deployment controller sees the template.  The ReplicaSet  *)
(* that has it - created when there is none - gets the highest revision.   *)
LastRevision ==
  LET revisions == {0} \cup {r.rev : r \in OwnedBy(dep.uid)}
  IN  CHOOSE n \in revisions : \A m \in revisions : m <= n

Observe ==
  /\ Exists /\ dep.template # latest
  /\ LastRevision < MaxRevision
  /\ replicaSets' =
       {r \in replicaSets : r.owner # dep.uid \/ r.template # dep.template}
       \cup {[owner |-> dep.uid, template |-> dep.template,
              rev |-> LastRevision + 1]}
  /\ latest' = dep.template /\ previous' = latest
  /\ UNCHANGED <<dep, lastUid, clock, client, wanted, used>>

(* External: the garbage collector.                                        *)
Collect ==
  \E r \in replicaSets :
    /\ r.owner # dep.uid
    /\ replicaSets' = replicaSets \ {r}
    /\ UNCHANGED <<dep, lastUid, clock, client, specHistory>>

Client(c) ==
  \/ \E i \in Images, n \in Asked : ApplyCreates(c, i, n) \/ ApplyUpdates(c, i, n)
  \/ \E n \in Asked : ScaleTo(c, n)
  \/ StampRestart(c) \/ Delete(c)
  \/ RollbackGet(c) \/ RollbackList(c) \/ RollbackPatch(c) \/ RollbackFails(c)

WorkloadNext == (\E c \in Clients : Client(c)) \/ Observe \/ Collect

WorkloadSpec == WorkloadInit /\ [][WorkloadNext]_workloadVars

-----------------------------------------------------------------------------
WorkloadTypeOK ==
  /\ dep \in Deployment
  /\ replicaSets \subseteq ReplicaSet
  /\ lastUid \in Nat /\ clock \in Nat
  /\ stage \in [Clients -> {"idle", "got", "listed"}]
  /\ got \in [Clients -> Deployment]
  /\ listed \in [Clients -> SUBSET ReplicaSet]
  /\ wanted \in Nat
  /\ used \subseteq Images
  /\ {latest, previous} \subseteq Templates \cup {NoTemplate}

(* The deployment has the replica count that was asked for last: a         *)
(* rollback that read the deployment before a scale and writes after it,   *)
(* or a restart in between, does not bring the old count back.             *)
NoLostScale == Exists => dep.replicas = wanted

(* The revision numbers are the controller's history: the newest owned     *)
(* ReplicaSet has the template seen last, the one before it the template   *)
(* seen before, however often old templates came back.                     *)
RevisionsFollowHistory ==
  LET S == OwnedBy(dep.uid) IN
  Exists =>
    /\ latest # NoTemplate => \E r \in S : IsNewest(r, S)
    /\ previous # NoTemplate => \E r \in S : IsPrevious(r, S)
    /\ \A r \in S : /\ IsNewest(r, S) => r.template = latest
                    /\ IsPrevious(r, S) => r.template = previous

(* A rollback whose list is still current and whose target names every key *)
(* the current template has puts the deployment back to what it ran before *)
(* the template it runs now - with nothing of any older revision.          *)
RollbackReturnsToPrevious ==
  [][\A c \in Clients :
       ( /\ RollbackPatch(c)
         /\ dep.template = latest /\ previous # NoTemplate
         /\ listed[c] = OwnedBy(dep.uid)
         /\ previous.stamp # 0 \/ latest.stamp = 0 )
       => dep'.template = previous]_workloadVars

(* The ReplicaSets of a deployment that was deleted and created again      *)
(* under the same name may still be listed.  A rollback never installs an  *)
(* image of theirs, unless the deployment was replaced after the rollback  *)
(* had read it.                                                            *)
NoForeignImage == Exists => dep.template.image \in used

(* workload.rs says of rollback that it "updates the deployment to use     *)
(* that revision's pod template".                                          *)
RollbackUsesThatTemplate ==
  [][\A c \in Clients :
       RollbackPatch(c) =>
         \E r \in listed[c] : /\ IsPrevious(r, listed[c])
                               /\ dep'.template = r.template]_workloadVars
=============================================================================

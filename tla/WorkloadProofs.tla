--------------------------- MODULE WorkloadProofs ---------------------------
(* Proofs of the safety properties of Workload: any number of clients,     *)
(* images and replica counts, any bounds.                                  *)
EXTENDS Workload, TLAPS, FiniteSetTheorems

-----------------------------------------------------------------------------
(* A merge patch that names every key the template has is exact.           *)
LEMMA MergeIsExact ==
  ASSUME NEW t \in Templates, NEW p \in Templates, p.stamp # 0 \/ t.stamp = 0
  PROVE  Merge(t, p) = p
BY DEF Merge, Templates

LEMMA MergeType ==
  ASSUME NEW t \in Templates, NEW p \in Templates
  PROVE  Merge(t, p) \in Templates /\ Merge(t, p).image = p.image
BY DEF Merge, Templates

-----------------------------------------------------------------------------
(* The controller's numbering: `latest` labels the highest owned revision, *)
(* `previous` the second.  No two owned ReplicaSets have one revision,     *)
(* which makes "the newest" one ReplicaSet.                                *)
Distinct(S) == \A x, y \in S : x.rev = y.rev => x = y

TopTwo(S) ==
  /\ Distinct(S)
  /\ latest = NoTemplate => S = {} /\ previous = NoTemplate
  /\ latest # NoTemplate =>
       \E a \in S :
         /\ IsNewest(a, S) /\ a.template = latest
         /\ previous = NoTemplate => S = {a}
         /\ previous # NoTemplate =>
              \E b \in S \ {a} : IsNewest(b, S \ {a}) /\ b.template = previous

Ownership ==
  /\ dep.uid <= lastUid
  /\ \A r \in replicaSets : r.owner <= lastUid /\ r.rev > 0
  /\ Exists => dep.template \in Templates

Numbering == Exists => TopTwo(OwnedBy(dep.uid))

IInv == WorkloadTypeOK /\ Ownership /\ Numbering /\ NoLostScale

(* Numbering depends on the owned ReplicaSets and the history only.        *)
LEMMA NumberingStutters ==
  ASSUME Numbering, UNCHANGED <<latest, previous>>,
         Exists' => Exists /\ OwnedBy(dep.uid)' = OwnedBy(dep.uid)
  PROVE  Numbering'
BY DEF Numbering, TopTwo, Distinct, IsNewest

LEMMA OwnedStutters ==
  ASSUME UNCHANGED replicaSets, dep'.uid = dep.uid
  PROVE  (Exists' <=> Exists) /\ OwnedBy(dep.uid)' = OwnedBy(dep.uid)
BY DEF Exists, OwnedBy

LEMMA AbsentType == Absent \in Deployment /\ Absent.uid = 0
BY DEF Absent, Deployment

LEMMA InitIInv == WorkloadInit => IInv
BY AbsentType
   DEF WorkloadInit, IInv, WorkloadTypeOK, Ownership, Numbering, NoLostScale, Exists

LEMMA ApplyCreatesStep ==
  ASSUME IInv, NEW c \in Clients, NEW i \in Images, NEW n \in Asked,
         ApplyCreates(c, i, n)
  PROVE  IInv'
<1> USE WorkloadAssumption
<1>1. WorkloadTypeOK'
  BY DEF IInv, WorkloadTypeOK, ApplyCreates, ValidCount, client, Deployment, Templates
<1>2. Ownership'
  BY DEF IInv, WorkloadTypeOK, Ownership, ApplyCreates, Templates, ReplicaSet
<1>3. OwnedBy(dep.uid)' = {}
  BY DEF IInv, WorkloadTypeOK, Ownership, ApplyCreates, OwnedBy, ReplicaSet
<1>4. Numbering'
  BY <1>3 DEF Numbering, TopTwo, Distinct, ApplyCreates
<1>5. NoLostScale'
  BY DEF NoLostScale, ApplyCreates
<1> QED BY <1>1, <1>2, <1>4, <1>5 DEF IInv

(* The steps that change the deployment but not its ReplicaSets.           *)
LEMMA ApplyUpdatesStep ==
  ASSUME IInv, NEW c \in Clients, NEW i \in Images, NEW n \in Asked,
         ApplyUpdates(c, i, n)
  PROVE  IInv'
<1> USE WorkloadAssumption
<1>1. /\ dep'.template \in Templates /\ dep' \in Deployment
      /\ dep'.uid = dep.uid /\ dep'.replicas = n
  BY DEF IInv, WorkloadTypeOK, Ownership, ApplyUpdates, ValidCount, Deployment, Templates
<1>2. WorkloadTypeOK' /\ Ownership' /\ NoLostScale'
  BY <1>1 DEF IInv, WorkloadTypeOK, Ownership, NoLostScale, ApplyUpdates, ValidCount,
     client
<1>3. Numbering'
  BY <1>1, OwnedStutters, NumberingStutters DEF IInv, ApplyUpdates
<1> QED BY <1>2, <1>3 DEF IInv

LEMMA ScaleStep ==
  ASSUME IInv, NEW c \in Clients, NEW n \in Asked, ScaleTo(c, n)
  PROVE  IInv'
<1> USE WorkloadAssumption
<1>1. /\ dep'.template = dep.template /\ dep' \in Deployment
      /\ dep'.uid = dep.uid /\ dep'.replicas = n
  BY DEF IInv, WorkloadTypeOK, ScaleTo, ValidCount, Deployment
<1>2. WorkloadTypeOK' /\ Ownership' /\ NoLostScale'
  BY <1>1 DEF IInv, WorkloadTypeOK, Ownership, NoLostScale, ScaleTo, ValidCount,
     client, Exists
<1>3. Numbering'
  BY <1>1, OwnedStutters, NumberingStutters DEF IInv, ScaleTo
<1> QED BY <1>2, <1>3 DEF IInv

LEMMA RestartStep ==
  ASSUME IInv, NEW c \in Clients, StampRestart(c)
  PROVE  IInv'
<1>1. /\ dep'.template \in Templates /\ dep' \in Deployment
      /\ dep'.uid = dep.uid /\ dep'.replicas = dep.replicas
  BY DEF IInv, WorkloadTypeOK, Ownership, StampRestart, Deployment, Templates
<1>2. WorkloadTypeOK' /\ Ownership' /\ NoLostScale'
  BY <1>1 DEF IInv, WorkloadTypeOK, Ownership, NoLostScale, StampRestart, client, specHistory, Exists
<1>3. Numbering'
  BY <1>1, OwnedStutters, NumberingStutters DEF IInv, StampRestart, specHistory
<1> QED BY <1>2, <1>3 DEF IInv

LEMMA DeleteStep ==
  ASSUME IInv, NEW c \in Clients, Delete(c)
  PROVE  IInv'
BY AbsentType
   DEF IInv, WorkloadTypeOK, Ownership, Numbering, NoLostScale, Delete, client, specHistory,
       Exists

LEMMA RollbackGetStep ==
  ASSUME IInv, NEW c \in Clients, RollbackGet(c)
  PROVE  IInv'
<1>1. WorkloadTypeOK' /\ Ownership' /\ NoLostScale'
  BY DEF IInv, WorkloadTypeOK, Ownership, NoLostScale, RollbackGet, specHistory, Exists
<1>2. Numbering'
  BY OwnedStutters, NumberingStutters DEF IInv, RollbackGet, specHistory
<1> QED BY <1>1, <1>2 DEF IInv

LEMMA RollbackListStep ==
  ASSUME IInv, NEW c \in Clients, RollbackList(c)
  PROVE  IInv'
<1>1. WorkloadTypeOK' /\ Ownership' /\ NoLostScale'
  BY DEF IInv, WorkloadTypeOK, Ownership, NoLostScale, RollbackList, specHistory, Exists,
         OwnedBy
<1>2. Numbering'
  BY OwnedStutters, NumberingStutters DEF IInv, RollbackList, specHistory
<1> QED BY <1>1, <1>2 DEF IInv

LEMMA ForgetType ==
  ASSUME WorkloadTypeOK, NEW c \in Clients, Forget(c)
  PROVE  /\ stage' \in [Clients -> {"idle", "got", "listed"}]
         /\ got' \in [Clients -> Deployment]
         /\ listed' \in [Clients -> SUBSET ReplicaSet]
BY AbsentType DEF WorkloadTypeOK, Forget

LEMMA RollbackPatchStep ==
  ASSUME IInv, NEW c \in Clients, RollbackPatch(c)
  PROVE  IInv'
<1>1. PICK r \in listed[c] :
        /\ dep' = [dep EXCEPT !.template = Merge(dep.template, r.template)]
        /\ used' = IF got[c].uid = dep.uid THEN used
                   ELSE used \cup {r.template.image}
  BY DEF RollbackPatch
<1>2. r.template \in Templates /\ dep.template \in Templates /\ Exists
  BY DEF IInv, WorkloadTypeOK, Ownership, RollbackPatch, ReplicaSet
<1>3. Merge(dep.template, r.template) \in Templates
  BY <1>2, MergeType
<1>4. /\ dep'.template \in Templates /\ dep' \in Deployment
      /\ dep'.uid = dep.uid /\ dep'.replicas = dep.replicas
  BY <1>1, <1>3 DEF IInv, WorkloadTypeOK, Deployment
<1>5. WorkloadTypeOK' /\ Ownership' /\ NoLostScale'
  BY <1>1, <1>2, <1>4, ForgetType
     DEF Templates, IInv, WorkloadTypeOK, Ownership, NoLostScale, RollbackPatch, Exists
<1>6. Numbering'
  BY <1>4, OwnedStutters, NumberingStutters DEF IInv, RollbackPatch
<1> QED BY <1>5, <1>6 DEF IInv

LEMMA RollbackFailsStep ==
  ASSUME IInv, NEW c \in Clients, RollbackFails(c)
  PROVE  IInv'
<1>1. WorkloadTypeOK' /\ Ownership' /\ NoLostScale'
  BY ForgetType
     DEF IInv, WorkloadTypeOK, Ownership, NoLostScale, RollbackFails, specHistory, Exists
<1>2. Numbering'
  BY OwnedStutters, NumberingStutters DEF IInv, RollbackFails, specHistory
<1> QED BY <1>1, <1>2 DEF IInv

LEMMA CollectStep == IInv /\ Collect => IInv'
<1> SUFFICES ASSUME IInv, Collect PROVE IInv'
  OBVIOUS
<1>1. WorkloadTypeOK' /\ Ownership' /\ NoLostScale'
  BY DEF IInv, WorkloadTypeOK, Ownership, NoLostScale, Collect, client, specHistory, Exists
<1>2. OwnedBy(dep.uid)' = OwnedBy(dep.uid)
  BY DEF Collect, OwnedBy
<1>3. Numbering'
  BY <1>2, NumberingStutters DEF IInv, Collect, specHistory, Exists
<1> QED BY <1>1, <1>3 DEF IInv

(* LastRevision is the highest revision in use, 0 when there is none.      *)
LEMMA LastRevisionIsMax ==
  ASSUME IInv, Exists
  PROVE  /\ LastRevision \in Nat
         /\ \A x \in OwnedBy(dep.uid) : x.rev <= LastRevision
<1> DEFINE S == OwnedBy(dep.uid)
           R == {0} \cup {r.rev : r \in S}
<1>1. S \subseteq ReplicaSet /\ TopTwo(S)
  BY DEF IInv, WorkloadTypeOK, Numbering, OwnedBy
<1>2. \E n \in R : \A m \in R : m <= n
  <2>1. CASE latest = NoTemplate
    BY <1>1, <2>1 DEF TopTwo
  <2>2. CASE latest # NoTemplate
    <3>1. PICK a \in S : IsNewest(a, S)
      BY <1>1, <2>2 DEF TopTwo
    <3>2. a.rev \in R /\ \A m \in R : m <= a.rev
      BY <1>1, <3>1 DEF IsNewest, ReplicaSet
    <3> QED BY <3>2
  <2> QED BY <2>1, <2>2
<1>3. LastRevision \in R /\ \A m \in R : m <= LastRevision
  BY <1>2 DEF LastRevision
<1>4. R \subseteq Nat
  BY <1>1 DEF ReplicaSet
<1> QED BY <1>3, <1>4

(* The controller's step: the current template becomes the newest, what    *)
(* was the newest becomes the second.                                      *)
LEMMA ObserveStep == IInv /\ Observe => IInv'
<1> SUFFICES ASSUME IInv, Observe PROVE IInv'
  OBVIOUS
<1> DEFINE S == OwnedBy(dep.uid)
           t == dep.template
           new == [owner |-> dep.uid, template |-> t, rev |-> LastRevision + 1]
           kept == {r \in S : r.template # t}
<1>1. /\ Exists /\ dep \in Deployment /\ t \in Templates /\ TopTwo(S)
      /\ S \subseteq ReplicaSet /\ t # latest /\ t # NoTemplate
  BY WorkloadAssumption
     DEF IInv, WorkloadTypeOK, Ownership, Numbering, Observe, OwnedBy, Templates
<1>2. LastRevision \in Nat /\ \A x \in S : x.rev <= LastRevision
  BY <1>1, LastRevisionIsMax
<1>3. new \in ReplicaSet /\ new.rev = LastRevision + 1 /\ new.template = t
  BY <1>1, <1>2 DEF ReplicaSet, Deployment
<1>4. WorkloadTypeOK' /\ Ownership' /\ NoLostScale'
  BY <1>1, <1>2, <1>3
     DEF IInv, WorkloadTypeOK, Ownership, NoLostScale, Observe, client, Exists, Deployment
<1>5. S' = kept \cup {new}
  BY <1>1, <1>2 DEF Observe, OwnedBy
<1>6. /\ new \notin kept
      /\ \A x \in kept : x \in ReplicaSet /\ x.rev < new.rev
  BY <1>1, <1>2, <1>3 DEF ReplicaSet
<1>7. IsNewest(new, kept \cup {new}) /\ (kept \cup {new}) \ {new} = kept
  BY <1>3, <1>6 DEF IsNewest, ReplicaSet
<1>8. Distinct(kept \cup {new})
  BY <1>1, <1>3, <1>6 DEF TopTwo, Distinct, ReplicaSet
<1>9. latest = NoTemplate => kept = {}
  BY <1>1 DEF TopTwo
<1>10. latest # NoTemplate => \E b \in kept : IsNewest(b, kept) /\ b.template = latest
  BY <1>1 DEF TopTwo, IsNewest
<1>11. Numbering'
  <2>1. latest' = t /\ previous' = latest
    BY DEF Observe
  <2>2. latest = NoTemplate => kept \cup {new} = {new}
    BY <1>9
  <2>3. TopTwo(S)'
    BY <1>1, <1>3, <1>5, <1>6, <1>7, <1>8, <1>10, <2>1, <2>2
       DEF TopTwo, Distinct, IsNewest
  <2> QED BY <2>3 DEF Numbering
<1> QED BY <1>4, <1>11 DEF IInv

LEMMA StutterStep == IInv /\ UNCHANGED workloadVars => IInv'
<1> SUFFICES ASSUME IInv, UNCHANGED workloadVars PROVE IInv'
  OBVIOUS
<1>1. WorkloadTypeOK' /\ Ownership' /\ NoLostScale'
  BY DEF IInv, WorkloadTypeOK, Ownership, NoLostScale, workloadVars, client, specHistory, Exists
<1>2. Numbering'
  BY OwnedStutters, NumberingStutters DEF IInv, workloadVars, specHistory
<1> QED BY <1>1, <1>2 DEF IInv

THEOREM Invariant == WorkloadSpec => []IInv
<1>1. ASSUME IInv, NEW c \in Clients, Client(c) PROVE IInv'
  BY <1>1, ApplyCreatesStep, ApplyUpdatesStep, ScaleStep, RestartStep, DeleteStep,
     RollbackGetStep, RollbackListStep, RollbackPatchStep, RollbackFailsStep
     DEF Client
<1>2. IInv /\ [WorkloadNext]_workloadVars => IInv'
  BY <1>1, ObserveStep, CollectStep, StutterStep DEF WorkloadNext
<1> QED BY InitIInv, <1>2, PTL DEF WorkloadSpec

-----------------------------------------------------------------------------
(* The variables keep their types.                                         *)
THEOREM TypeCorrect == WorkloadSpec => []WorkloadTypeOK
BY Invariant, PTL DEF IInv

(* No rollback or restart, however interleaved, loses a scale or an apply. *)
THEOREM ScalesAreKept == WorkloadSpec => []NoLostScale
BY Invariant, PTL DEF IInv

(* The highest revision is the template the controller saw last, the       *)
(* second highest the one it saw before: what rollback relies on.          *)
THEOREM RevisionsAreHistory == WorkloadSpec => []RevisionsFollowHistory
<1> DEFINE S == OwnedBy(dep.uid)
<1>1. ASSUME IInv, Exists
      PROVE  /\ latest # NoTemplate => \E r \in S : IsNewest(r, S)
             /\ previous # NoTemplate => \E r \in S : IsPrevious(r, S)
             /\ \A r \in S : /\ IsNewest(r, S) => r.template = latest
                             /\ IsPrevious(r, S) => r.template = previous
  <2>1. TopTwo(S) /\ S \subseteq ReplicaSet
    BY <1>1 DEF IInv, WorkloadTypeOK, Numbering, OwnedBy
  <2>2. \A T \in SUBSET S : \A x, y \in T : IsNewest(x, T) /\ IsNewest(y, T) => x = y
    BY <2>1 DEF TopTwo, Distinct, IsNewest, ReplicaSet
  <2>3. CASE latest = NoTemplate
    BY <2>1, <2>3 DEF TopTwo
  <2>4. CASE latest # NoTemplate
    <3>1. PICK a \in S :
            /\ IsNewest(a, S) /\ a.template = latest
            /\ previous = NoTemplate => S = {a}
            /\ previous # NoTemplate =>
                 \E b \in S \ {a} : IsNewest(b, S \ {a}) /\ b.template = previous
      BY <2>1, <2>4 DEF TopTwo
    <3>2. \A r \in S : IsNewest(r, S) => r = a
      BY <2>2, <3>1
    <3>3. \A r \in S : IsPrevious(r, S) => r \in S \ {a} /\ IsNewest(r, S \ {a})
      BY <3>2 DEF IsPrevious, IsNewest
    <3>4. \A r \in S : IsPrevious(r, S) => r.template = previous
      BY <2>2, <3>1, <3>3
    <3> QED BY <3>1, <3>2, <3>4 DEF IsPrevious
  <2> QED BY <2>3, <2>4
<1>2. IInv => RevisionsFollowHistory
  BY <1>1 DEF RevisionsFollowHistory
<1> QED BY <1>2, Invariant, PTL

(* A rollback with a current list and a target that names every key the    *)
(* current template has restores the template that ran before.             *)
THEOREM RollbackIsUndo == WorkloadSpec => RollbackReturnsToPrevious
<1>1. ASSUME IInv, RevisionsFollowHistory, NEW c \in Clients, RollbackPatch(c),
             dep.template = latest, previous # NoTemplate, listed[c] = OwnedBy(dep.uid),
             previous.stamp # 0 \/ latest.stamp = 0
      PROVE  dep'.template = previous
  <2>1. PICK r \in listed[c] :
          /\ IsPrevious(r, listed[c])
          /\ dep' = [dep EXCEPT !.template = Merge(dep.template, r.template)]
    BY <1>1 DEF RollbackPatch
  <2>2. r.template = previous
    BY <1>1, <2>1 DEF RevisionsFollowHistory, RollbackPatch
  <2>3. previous \in Templates /\ latest \in Templates
    BY <1>1, WorkloadAssumption
       DEF IInv, WorkloadTypeOK, Ownership, RollbackPatch, Templates
  <2>4. Merge(dep.template, r.template) = previous
    BY <1>1, <2>2, <2>3, MergeIsExact
  <2> QED BY <1>1, <2>1, <2>4 DEF IInv, WorkloadTypeOK, Deployment
<1>2. IInv /\ RevisionsFollowHistory /\ [WorkloadNext]_workloadVars =>
        [\A c \in Clients :
           ( /\ RollbackPatch(c)
             /\ dep.template = latest /\ previous # NoTemplate
             /\ listed[c] = OwnedBy(dep.uid)
             /\ previous.stamp # 0 \/ latest.stamp = 0 )
           => dep'.template = previous]_workloadVars
  BY <1>1
<1> QED BY <1>2, Invariant, RevisionsAreHistory, PTL DEF WorkloadSpec, RollbackReturnsToPrevious

-----------------------------------------------------------------------------
(* A rollback that read the deployment it patches has listed only          *)
(* ReplicaSets with images of that deployment.  Uids are never given out   *)
(* twice, so a deployment created later is not the one it read.            *)
HomeInv ==
  /\ \A c \in Clients : got[c].uid <= lastUid
  /\ Exists =>
       /\ dep.template.image \in used
       /\ \A r \in OwnedBy(dep.uid) : r.template.image \in used
       /\ \A c \in Clients :
            (stage[c] = "listed" /\ got[c].uid = dep.uid)
              => \A r \in listed[c] : r.template.image \in used

LEMMA HomeStep ==
  ASSUME IInv, HomeInv, NEW c \in Clients, Client(c)
  PROVE  HomeInv'
<1> USE DEF HomeInv, Exists
<1>1. ASSUME NEW i \in Images, NEW n \in Asked, ApplyCreates(c, i, n)
      PROVE  HomeInv'
  <2>1. OwnedBy(dep.uid)' = {}
    BY <1>1 DEF IInv, WorkloadTypeOK, Ownership, ApplyCreates, OwnedBy, ReplicaSet
  <2>2. dep'.template.image = i /\ used' = {i} /\ lastUid' = lastUid + 1
        /\ dep'.uid = lastUid + 1
    BY <1>1 DEF ApplyCreates
  <2>3. \A d \in Clients : got'[d] = got[d] /\ got[d].uid \in Nat /\ lastUid \in Nat
    BY <1>1 DEF ApplyCreates, client, IInv, WorkloadTypeOK, Deployment
  <2>4. \A d \in Clients : got'[d].uid <= lastUid' /\ got'[d].uid # dep'.uid
    BY <2>2, <2>3
  <2> QED BY <2>1, <2>2, <2>4
<1>2. ASSUME NEW i \in Images, NEW n \in Asked, ApplyUpdates(c, i, n)
      PROVE  HomeInv'
  <2>1. dep'.template.image = i /\ dep'.uid = dep.uid
    BY <1>2 DEF ApplyUpdates, IInv, WorkloadTypeOK, Ownership, Deployment, Templates
  <2> QED BY <1>2, <2>1 DEF ApplyUpdates, client, OwnedBy
<1>3. ASSUME NEW n \in Asked, ScaleTo(c, n) PROVE HomeInv'
  <2>1. dep'.template = dep.template /\ dep'.uid = dep.uid
    BY <1>3 DEF ScaleTo, IInv, WorkloadTypeOK, Deployment
  <2> QED BY <1>3, <2>1 DEF ScaleTo, client, OwnedBy
<1>4. CASE StampRestart(c)
  <2>1. dep'.template.image = dep.template.image /\ dep'.uid = dep.uid
    BY <1>4 DEF StampRestart, IInv, WorkloadTypeOK, Ownership, Deployment, Templates
  <2> QED BY <1>4, <2>1 DEF StampRestart, client, specHistory, OwnedBy
<1>5. CASE Delete(c)
  BY <1>5, AbsentType DEF Delete, client, specHistory
<1>6. CASE RollbackGet(c)
  <2>1. \A d \in Clients : got'[d].uid <= lastUid
    BY <1>6 DEF RollbackGet, IInv, WorkloadTypeOK, Ownership, Deployment
  <2>2. \A d \in Clients : stage'[d] = "listed" => stage[d] = "listed" /\ got'[d] = got[d]
    BY <1>6 DEF RollbackGet, IInv, WorkloadTypeOK
  <2> QED BY <1>6, <2>1, <2>2 DEF RollbackGet, specHistory, OwnedBy
<1>7. CASE RollbackList(c)
  <2>1. \A d \in Clients : d # c => stage'[d] = stage[d] /\ listed'[d] = listed[d]
    BY <1>7 DEF RollbackList, IInv, WorkloadTypeOK
  <2>2. listed'[c] = OwnedBy(got[c].uid)
    BY <1>7 DEF RollbackList, IInv, WorkloadTypeOK
  <2> QED BY <1>7, <2>1, <2>2 DEF RollbackList, specHistory, OwnedBy
<1>8. ASSUME Forget(c), UNCHANGED lastUid
      PROVE  /\ \A d \in Clients : got'[d].uid <= lastUid'
             /\ \A d \in Clients : stage'[d] = "listed" =>
                  stage[d] = "listed" /\ got'[d] = got[d] /\ listed'[d] = listed[d]
  BY <1>8, AbsentType DEF Forget, IInv, WorkloadTypeOK
<1>9. CASE RollbackPatch(c)
  <2>1. PICK r \in listed[c] :
          /\ dep' = [dep EXCEPT !.template = Merge(dep.template, r.template)]
          /\ used' = IF got[c].uid = dep.uid THEN used
                     ELSE used \cup {r.template.image}
    BY <1>9 DEF RollbackPatch
  <2>2. r.template \in Templates /\ dep.template \in Templates
    BY <1>9 DEF IInv, WorkloadTypeOK, Ownership, RollbackPatch, ReplicaSet
  <2>3. dep'.template.image = r.template.image /\ dep'.uid = dep.uid
    BY <2>1, <2>2, MergeType DEF IInv, WorkloadTypeOK, Deployment
  <2>4. r.template.image \in used' /\ used \subseteq used'
    BY <1>9, <2>1 DEF RollbackPatch
  <2> QED BY <1>8, <1>9, <2>3, <2>4 DEF RollbackPatch, OwnedBy
<1>10. CASE RollbackFails(c)
  BY <1>8, <1>10 DEF RollbackFails, specHistory, OwnedBy
<1> QED BY <1>1, <1>2, <1>3, <1>4, <1>5, <1>6, <1>7, <1>9, <1>10 DEF Client

(* No rollback installs an image its deployment was not given, although    *)
(* the ReplicaSets of its predecessors are still listed - unless the       *)
(* deployment was replaced after the rollback had read it.                 *)
THEOREM RollbackStaysHome == WorkloadSpec => []NoForeignImage
<1>1. WorkloadInit => HomeInv
  BY AbsentType DEF WorkloadInit, HomeInv, Exists
<1>2. ASSUME IInv, HomeInv, [WorkloadNext]_workloadVars PROVE HomeInv'
  <2>1. ASSUME NEW c \in Clients, Client(c) PROVE HomeInv'
    BY <1>2, <2>1, HomeStep
  <2>2. CASE Observe
    BY <1>2, <2>2 DEF HomeInv, Observe, client, Exists, OwnedBy
  <2>3. CASE Collect
    BY <1>2, <2>3 DEF HomeInv, Collect, client, specHistory, Exists, OwnedBy
  <2>4. CASE UNCHANGED workloadVars
    BY <1>2, <2>4 DEF HomeInv, workloadVars, client, specHistory, Exists, OwnedBy
  <2> QED BY <1>2, <2>1, <2>2, <2>3, <2>4 DEF WorkloadNext
<1>3. HomeInv => NoForeignImage
  BY DEF HomeInv, NoForeignImage
<1> QED BY <1>1, <1>2, <1>3, Invariant, PTL DEF WorkloadSpec
=============================================================================

---------------------------- MODULE ObjectsProofs ----------------------------
(* Proofs about what a Context does to single objects: DynamicApply,       *)
(* Requests, Secrets, Policies and Rbac, for any number of callers and any *)
(* names, bodies, fields, keys, labels, verbs and resources.               *)
EXTENDS DynamicApply, Requests, Secrets, Policies, Rbac, TLAPS

-----------------------------------------------------------------------------
(* DynamicApply: apply_dynamic implements AtomicUpdate, for any number of  *)
(* callers and bodies and any bound on the writes.                         *)

(* A resourceVersion names one state of the object for ever: whoever holds *)
(* the version the object has now holds the object as it is now.           *)
VersionsIdentify ==
  /\ object.version <= revision
  /\ object.version = 0 => object = Absent
  /\ \A c \in Callers :
       /\ existing[c].version <= revision
       /\ existing[c].version = 0 => existing[c] = Absent
       /\ existing[c].version = object.version => existing[c] = object

(* What a caller between its get and its write knows.                      *)
Reading ==
  \A c \in Callers :
    /\ pc[c] = "replace" => existing[c].version # 0
    /\ pc[c] = "create" => existing[c] = Absent
    /\ pc[c] \in {"replace", "create"} =>
         /\ body[c] \in Values
         /\ readAt[c] <= revision
         /\ readAt[c] = revision => object = existing[c]
    /\ pc[c] = "refused" => readAt[c] < revision

IInv == TypeOK /\ VersionsIdentify /\ Reading

LEMMA AbsentType == Absent \in Object /\ Absent.version = 0
BY DEF Absent, Object

LEMMA InitIInv == Init => IInv
BY AbsentType, RevisionAssumption
   DEF Init, IInv, TypeOK, VersionsIdentify, Reading, Object

(* A write is numbered above everything that was read.                     *)
LEMMA StoreNumbers ==
  ASSUME IInv, NEW v \in Values, Store(v)
  PROVE  /\ object' \in Object /\ object'.version = revision + 1
         /\ object'.value = v /\ revision' = revision + 1
BY DEF IInv, TypeOK, Store, Number, Object

LEMMA GetStep ==
  ASSUME IInv, NEW c \in Callers, NEW v \in Values, Get(c, v)
  PROVE  IInv'
<1>1. TypeOK' BY DEF IInv, TypeOK, Get, NextRequest, Goto
<1>2. VersionsIdentify'
  BY DEF IInv, TypeOK, VersionsIdentify, Get, NextRequest, Object
<1>3. Reading'
  BY DEF IInv, TypeOK, VersionsIdentify, Reading, Get, NextRequest, Goto, Exists
<1> QED BY <1>1, <1>2, <1>3 DEF IInv

LEMMA LandStep ==
  ASSUME IInv, NEW c \in Callers, Land(c)
  PROVE  IInv'
<1>1. body[c] \in Values /\ Store(body[c])
  BY DEF IInv, Reading, Land, Accepted
<1>2. /\ object' \in Object /\ object'.version = revision + 1
      /\ revision' = revision + 1 /\ revision \in Nat
  BY <1>1, StoreNumbers DEF IInv, TypeOK
<1>3. TypeOK' BY <1>2 DEF IInv, TypeOK, Land, Goto
<1>4. VersionsIdentify'
  BY <1>2 DEF IInv, TypeOK, VersionsIdentify, Land, Object
<1>5. Reading'
  BY <1>2 DEF IInv, TypeOK, Reading, Land, Goto
<1> QED BY <1>3, <1>4, <1>5 DEF IInv

LEMMA RefuseStep ==
  ASSUME IInv, NEW c \in Callers, Refuse(c)
  PROVE  IInv'
<1>1. TypeOK' /\ VersionsIdentify'
  BY DEF IInv, TypeOK, VersionsIdentify, Refuse, Goto
<1>2. readAt[c] < revision
  BY AbsentType
     DEF IInv, TypeOK, Reading, Refuse, Accepted, Exists
<1>3. Reading'
  BY <1>2 DEF IInv, TypeOK, Reading, Refuse, Goto
<1> QED BY <1>1, <1>3 DEF IInv

LEMMA LoseStep ==
  ASSUME IInv, NEW c \in Callers, Lose(c)
  PROVE  IInv'
BY DEF IInv, TypeOK, VersionsIdentify, Reading, Lose, Goto

LEMMA GetFailsStep ==
  ASSUME IInv, NEW c \in Callers, GetFails(c)
  PROVE  IInv'
BY DEF IInv, TypeOK, VersionsIdentify, Reading, GetFails

LEMMA ReturnStep ==
  ASSUME IInv, NEW c \in Callers, ReturnOk(c) \/ ReturnError(c)
  PROVE  IInv'
<1>1. PICK r \in {"ok", "error"} : Return(c, r)
  BY DEF ReturnOk, ReturnError
<1>2. TypeOK' BY <1>1, AbsentType DEF IInv, TypeOK, Return, Goto
<1>3. VersionsIdentify'
  BY <1>1, AbsentType DEF IInv, TypeOK, VersionsIdentify, Return, Object
<1>4. Reading' BY <1>1 DEF IInv, TypeOK, Reading, Return, Goto
<1> QED BY <1>2, <1>3, <1>4 DEF IInv

LEMMA DeleteStep ==
  ASSUME IInv, NEW c \in Callers, DeleteDynamic(c)
  PROVE  IInv'
<1>1. TypeOK' BY AbsentType DEF IInv, TypeOK, DeleteDynamic, Number
<1>2. /\ object' = Absent /\ UNCHANGED <<pc, body, existing, readAt>>
      /\ revision \in Nat /\ revision' = revision + 1
  BY DEF IInv, TypeOK, DeleteDynamic, Number
<1>3. VersionsIdentify'
  BY <1>2, AbsentType DEF IInv, TypeOK, VersionsIdentify, Object
<1>4. Reading' BY <1>2 DEF IInv, TypeOK, Reading
<1> QED BY <1>1, <1>3, <1>4 DEF IInv

LEMMA OtherWriteStep == IInv /\ OtherWrite => IInv'
<1> SUFFICES ASSUME IInv, NEW v \in Values, Store(v),
                    UNCHANGED <<pc, body, existing, result, readAt>>
             PROVE  IInv'
  BY DEF OtherWrite
<1>1. /\ object' \in Object /\ object'.version = revision + 1
      /\ revision' = revision + 1 /\ revision \in Nat
  BY StoreNumbers DEF IInv, TypeOK
<1>2. TypeOK' BY <1>1 DEF IInv, TypeOK
<1>3. VersionsIdentify' BY <1>1 DEF IInv, TypeOK, VersionsIdentify, Object
<1>4. Reading' BY <1>1 DEF IInv, TypeOK, Reading
<1> QED BY <1>2, <1>3, <1>4 DEF IInv

THEOREM Invariant == Spec => []IInv
<1>1. IInv /\ UNCHANGED vars => IInv'
  BY DEF IInv, TypeOK, VersionsIdentify, Reading, vars
<1>2. IInv /\ [Next]_vars => IInv'
  BY <1>1, GetStep, GetFailsStep, LandStep, RefuseStep, LoseStep, ReturnStep,
     DeleteStep, OtherWriteStep DEF Next, Caller
<1> QED BY InitIInv, <1>2, PTL DEF Spec

(* The variables keep their types.                                         *)
THEOREM TypeCorrect == Spec => []TypeOK
BY Invariant, PTL DEF IInv

(* A conflict answer means that somebody else changed the object.          *)
THEOREM RefusalsAreProgress == Spec => []RefusalIsProgress
<1>1. IInv => RefusalIsProgress
  BY DEF IInv, TypeOK, Reading, RefusalIsProgress
<1> QED BY <1>1, Invariant, PTL

-----------------------------------------------------------------------------
(* The step simulation.                                                    *)

LEMMA InitSimulation == Init => Optimistic!Init
BY DEF Init, Optimistic!Init, Absent, Optimistic!None, StateOf

(* An accepted write finds the object its caller read.                     *)
LEMMA AcceptedIsUnchanged ==
  ASSUME IInv, NEW c \in Callers, Accepted(c)
  PROVE  object = existing[c]
BY AbsentType DEF IInv, VersionsIdentify, Reading, Accepted, Exists

(* How a change of one caller's label shows in the abstract state.         *)
LEMMA StateChange ==
  ASSUME NEW c \in Callers, NEW label, TypeOK, Goto(c, label)
  PROVE  [d \in Callers |-> StateOf(pc'[d])]
           = [[d \in Callers |-> StateOf(pc[d])] EXCEPT ![c] = StateOf(label)]
BY DEF TypeOK, Goto

LEMMA StepSimulation == IInv /\ [Next]_vars => [Optimistic!Next]_(Optimistic!vars)
<1> SUFFICES ASSUME IInv, [Next]_vars
             PROVE  Optimistic!Next \/ UNCHANGED Optimistic!vars
  OBVIOUS
<1> USE DEF Optimistic!vars
<1> DEFINE st == [d \in Callers |-> StateOf(pc[d])]
<1>1. ASSUME NEW c \in Callers, Caller(c)
      PROVE  Optimistic!Next \/ UNCHANGED Optimistic!vars
  <2>1. ASSUME NEW v \in Values, Get(c, v) PROVE Optimistic!Begin(c)
    <3>1. PICK l \in {"replace", "create"} : Goto(c, l)
      BY <2>1 DEF Get, NextRequest
    <3>2. StateOf(l) = "open"
      BY DEF StateOf
    <3> QED BY <2>1, <3>1, <3>2, StateChange
            DEF Get, Optimistic!Begin, StateOf, IInv
  <2>2. CASE GetFails(c)
    BY <2>2 DEF GetFails, Optimistic!Next, Optimistic!Fail, StateOf
  <2>3. CASE Land(c)
    <3>1. body[c] \in Values /\ object = existing[c] /\ pc[c] \in {"replace", "create"}
      BY <2>3, AcceptedIsUnchanged DEF IInv, Reading, Land, Accepted
    <3>2. st' = [st EXCEPT ![c] = "committed"] /\ st[c] = "open"
      BY <2>3, <3>1, StateChange DEF Land, StateOf, IInv
    <3>3. Optimistic!Commit(c)
      BY <2>3, <3>1, <3>2
         DEF Land, Store, Number, Optimistic!Commit
    <3> QED BY <3>3 DEF Optimistic!Next
  <2>4. CASE Refuse(c) \/ Lose(c)
    <3>1. PICK l \in {"refused", "lost"} : Goto(c, l)
      BY <2>4 DEF Refuse, Lose
    <3>2. st' = [st EXCEPT ![c] = "aborted"] /\ st[c] = "open"
      BY <2>4, <3>1, StateChange DEF Refuse, Lose, StateOf, IInv
    <3>3. Optimistic!Abort(c)
      BY <2>4, <3>2 DEF Refuse, Lose, Optimistic!Abort
    <3> QED BY <3>3 DEF Optimistic!Next
  <2>5. CASE ReturnOk(c) \/ ReturnError(c)
    <3>1. PICK r \in {"ok", "error"} : Return(c, r) /\ (r = "ok" => pc[c] = "landed")
      BY <2>5 DEF ReturnOk, ReturnError
    <3>2. pc[c] \in {"landed", "refused", "lost"}
      BY <2>5 DEF ReturnOk, ReturnError
    <3>3. /\ st' = [st EXCEPT ![c] = "idle"]
          /\ st[c] \in {"committed", "aborted"}
          /\ r = "ok" => st[c] = "committed"
      BY <3>1, <3>2, StateChange DEF Return, StateOf, IInv
    <3>4. Optimistic!Tell(c)
      BY <3>1, <3>3 DEF Return, Optimistic!Tell, Absent, Optimistic!None
    <3> QED BY <3>4 DEF Optimistic!Next
  <2>6. CASE DeleteDynamic(c)
    BY <2>6 DEF DeleteDynamic, Number, Absent, Optimistic!Next, Optimistic!Remove,
                Optimistic!None
  <2> QED BY <1>1, <2>1, <2>2, <2>3, <2>4, <2>5, <2>6 DEF Caller, Optimistic!Next
<1>2. CASE OtherWrite
  BY <1>2 DEF OtherWrite, Store, Number, Optimistic!Next, Optimistic!Write
<1>3. CASE UNCHANGED vars
  BY <1>3 DEF vars
<1> QED BY <1>1, <1>2, <1>3 DEF Next

(* apply_dynamic next to any other writers is an optimistic update.        *)
THEOREM ImplementsAtomicUpdate == Spec => IsOptimistic
BY InitSimulation, StepSimulation, Invariant, PTL
   DEF Spec, IsOptimistic, Optimistic!Spec

-----------------------------------------------------------------------------
(* Requests: what somebody else wrote is still there, and no apply of ours *)
(* has claimed it.                                                         *)

Kept ==
  \A p \in Parts : theirs[p] # Unset => item.parts[p] = theirs[p] /\ p \notin item.mine

RequestsTypeOK ==
  /\ item.parts \in [Parts -> Contents \cup {Unset, Null}]
  /\ item.mine \subseteq Parts
  /\ theirs \in [Parts -> Contents \cup {Unset, Null}]
  /\ sent.body \in [Parts -> Contents \cup {Unset, Null}]
  /\ sent.edit.do \in {"none", "replace", "remove", "add"}
  /\ sent.edit.do # "none" => sent.edit.to \in Contents \cup {Unset}

RequestsInv == RequestsTypeOK /\ Kept /\ MessageNamesTheCause

LEMMA NothingIsUnset ==
  /\ Nothing \in [Parts -> Contents \cup {Unset, Null}]
  /\ \A p \in Parts : Nothing[p] = Unset
BY DEF Nothing

LEMMA RequestsInitInv == RequestsInit => RequestsInv
<1> SUFFICES ASSUME RequestsInit PROVE RequestsInv
  OBVIOUS
<1>1. RequestsTypeOK
  BY NothingIsUnset, RequestsAssumption DEF RequestsInit, RequestsTypeOK, NoItem, NoCall, NoEdit
<1>2. Kept
  BY NothingIsUnset DEF RequestsInit, Kept
<1>3. MessageNamesTheCause
  BY DEF RequestsInit, MessageNamesTheCause, Texts
<1> QED BY <1>1, <1>2, <1>3 DEF RequestsInv

LEMMA SendStep ==
  ASSUME RequestsInv, NEW op, NEW b, NEW e, Send(op, b, e),
         e.do \in {"none", "replace", "remove", "add"},
         e.do # "none" => e.to \in Contents \cup {Unset},
         b \in [Parts -> Contents \cup {Unset, Null}]
  PROVE  RequestsInv'
<1>1. RequestsTypeOK'
  BY DEF RequestsInv, RequestsTypeOK, Send
<1>2. Kept' BY DEF RequestsInv, Kept, Send
<1>3. MessageNamesTheCause' BY DEF MessageNamesTheCause, Send, Texts
<1> QED BY <1>1, <1>2, <1>3 DEF RequestsInv

LEMMA MalformedStep == RequestsInv /\ Malformed => RequestsInv'
<1> SUFFICES ASSUME RequestsInv, Malformed PROVE RequestsInv'
  OBVIOUS
<1>1. RequestsTypeOK'
  BY NothingIsUnset DEF RequestsInv, RequestsTypeOK, Malformed, NoCall, NoEdit
<1>2. Kept' BY DEF RequestsInv, Kept, Malformed
<1>3. MessageNamesTheCause' BY DEF MessageNamesTheCause, Malformed, Texts
<1> QED BY <1>1, <1>2, <1>3 DEF RequestsInv

(* What a request leaves of a part: a patch of any kind leaves a part that *)
(* is spared alone, an apply one that is spared and not its own.           *)
LEMMA SentType ==
  ASSUME RequestsInv
  PROVE  Sends(sent) \in [Parts -> Contents \cup {Unset, Null}]
<1>1. /\ MergePatch(sent.body) \in [Parts -> Contents \cup {Unset, Null}]
      /\ PatchEach(sent.body) \in [Parts -> Contents \cup {Unset, Null}]
      /\ ServerSideApply(sent.body) \in [Parts -> Contents \cup {Unset, Null}]
  BY DEF RequestsInv, RequestsTypeOK, MergePatch, PatchEach, ServerSideApply, Written,
         Sets, Parts
<1>2. JsonPatch(sent.body, sent.edit) \in [Parts -> Contents \cup {Unset, Null}]
  BY DEF RequestsInv, RequestsTypeOK, JsonPatch, Hits, Written, Sets, Parts
<1> QED BY <1>1, <1>2 DEF RequestsInv, RequestsTypeOK, Sends

(* A JSON patch that was admitted hits a container that is not spared.     *)
LEMMA SparedIsNotHit ==
  ASSUME RequestsInv, Admitted, NEW p \in Parts, Spared(p), sent.op = "patch_json"
  PROVE  JsonPatch(sent.body, sent.edit)[p] = item.parts[p]
<1>1. Written(sent.body, p, item.parts[p]) = item.parts[p]
  BY RequestsAssumption DEF Spared, Patching, Written, Sets
<1>2. ~(p \in InList /\ Hits(sent.edit, p))
  <2> SUFFICES ASSUME p \in InList, Hits(sent.edit, p) PROVE FALSE
    OBVIOUS
  <2>1. p # Means(sent) /\ sent.edit.do # "none"
    BY DEF Hits, Spared
  <2>2. CASE sent.edit.do = "add"
    BY <2>1, <2>2 DEF Hits, Means
  <2>3. CASE sent.edit.do \in {"replace", "remove"}
    <3>1. item.order[sent.edit.at] = sent.seen[sent.edit.at]
      BY <2>3 DEF Admitted, Applicable, Spared
    <3> QED BY <2>1, <2>3, <3>1 DEF Hits, Means
  <2> QED BY <2>1, <2>2, <2>3 DEF RequestsInv, RequestsTypeOK
<1> QED BY <1>1, <1>2 DEF JsonPatch

LEMMA SparedIsLeft ==
  ASSUME RequestsInv, Admitted, NEW p \in Parts, Spared(p), p \notin item.mine
  PROVE  Sends(sent)[p] = item.parts[p]
<1>1. Unset \notin Contents /\ Unset # Null
  BY RequestsAssumption
<1>2. CASE sent.op = "patch"
  <2>1. sent.body[p] = Unset
    BY <1>2 DEF Spared, Patching
  <2>2. Written(sent.body, p, item.parts[p]) = item.parts[p]
    BY <1>1, <2>1 DEF Written, Sets
  <2>3. ~(p \in InList /\ \E q \in InList : Sets(sent.body, q))
    BY <1>1, <1>2 DEF Spared, Sets
  <2> QED BY <1>2, <2>2, <2>3 DEF Sends, MergePatch
<1>3. CASE sent.op = "patch_strategic"
  BY <1>1, <1>3 DEF Spared, Patching, Sends, PatchEach, Written, Sets
<1>6. CASE sent.op = "patch_json"
  BY <1>6, SparedIsNotHit DEF Sends
<1>4. CASE sent.op = "apply"
  BY <1>1, <1>4 DEF Spared, Sends, ServerSideApply, Sets
<1>5. CASE sent.op \notin Patching \cup {"apply"}
  BY <1>5 DEF Sends, Patching
<1> QED BY <1>2, <1>3, <1>4, <1>5, <1>6 DEF Patching

LEMMA SucceedStep == RequestsInv /\ Succeed => RequestsInv'
<1> SUFFICES ASSUME RequestsInv, Succeed PROVE RequestsInv'
  OBVIOUS
<1>1. RequestsTypeOK'
  <2>1. item'.parts \in [Parts -> Contents \cup {Unset, Null}]
    BY NothingIsUnset, SentType DEF Succeed, NoItem
  <2>2. item'.mine \subseteq Parts
    BY DEF RequestsInv, RequestsTypeOK, Succeed, NoItem
  <2>3. theirs' \in [Parts -> Contents \cup {Unset, Null}]
    BY DEF RequestsInv, RequestsTypeOK, Succeed
  <2> QED BY <2>1, <2>2, <2>3, NothingIsUnset DEF RequestsTypeOK, Succeed, NoCall, NoEdit
<1>2. Kept'
  <2> SUFFICES ASSUME NEW p \in Parts, theirs'[p] # Unset
               PROVE  item'.parts[p] = theirs'[p] /\ p \notin item'.mine
    BY DEF Kept
  <2>1. Spared(p) /\ theirs'[p] = theirs[p]
    BY DEF Succeed
  <2>2. item.parts[p] = theirs[p] /\ p \notin item.mine
    BY <2>1 DEF RequestsInv, Kept
  <2>3. /\ sent.op # "delete"
        /\ sent.op = "apply" => ~Sets(sent.body, p)
    BY <2>1, RequestsAssumption DEF Spared, Sets
  <2>4. /\ Admitted
        /\ item'.parts = Sends(sent)
        /\ item'.mine \subseteq IF sent.op = "apply" THEN {q \in Parts : Sets(sent.body, q)}
                                ELSE item.mine
    BY <2>3 DEF Succeed
  <2> QED BY <2>1, <2>2, <2>3, <2>4, SparedIsLeft
<1>3. MessageNamesTheCause' BY DEF MessageNamesTheCause, Succeed, Texts
<1> QED BY <1>1, <1>2, <1>3 DEF RequestsInv

(* improve_error_message finds the first of the texts in its order.        *)
LEMMA ImprovedIsFirst ==
  ASSUME NEW raw \in SUBSET Texts, raw # {}
  PROVE  \E i \in DOMAIN Order :
           /\ Improved(raw) = Order[i] /\ Order[i] \in raw
           /\ \A j \in 1 .. (i - 1) : Order[j] \notin raw
<1> DEFINE First(i) == Order[i] \in raw /\ \A j \in 1 .. (i - 1) : Order[j] \notin raw
<1>1. DOMAIN Order = 1 .. 6
  BY DEF Order
<1>2. \A t \in Texts : \E i \in 1 .. 6 : Order[i] = t
  BY DEF Order, Texts
<1>3. \E i \in 1 .. 6 : First(i)
  <2>1. PICK m \in 1 .. 6 : Order[m] \in raw
    BY <1>2
  <2> QED BY <2>1
<1>4. \E i \in DOMAIN Order : First(i)
  BY <1>1, <1>3
<1> DEFINE first == CHOOSE i \in DOMAIN Order : First(i)
<1>5. first \in DOMAIN Order /\ First(first)
  BY <1>4
<1>6. Improved(raw) = Order[first]
  BY DEF Improved
<1> QED BY <1>5, <1>6

Causes == {"not_found", "exists", "conflict", "forbidden", "connection", "timeout", "other"}

LEMMA FailStep ==
  ASSUME RequestsInv, NEW c \in Causes, Fail(c)
  PROVE  RequestsInv'
<1>1. RequestsTypeOK'
  BY NothingIsUnset DEF RequestsInv, RequestsTypeOK, Fail, NoCall, NoEdit
<1>2. Kept' BY DEF RequestsInv, Kept, Fail
<1>3. MessageNamesTheCause'
  <2>1. PICK quote \in Quotes, own \in {OwnText(c)} \cup (IF c \in Local THEN {{}} ELSE {}) :
          /\ quoted' = quote
          /\ told' = IF sent.op = "list" THEN "unread" ELSE Improved(own \cup quote)
    BY DEF Fail
  <2> DEFINE raw == own \cup quote
             certain == IF c \in Local THEN {} ELSE OwnText(c)
             Before(t, u) == \E i, j \in DOMAIN Order : Order[i] = t /\ Order[j] = u /\ i < j
  <2>2. /\ raw \in SUBSET Texts /\ certain \subseteq own /\ own \subseteq OwnText(c)
        /\ OwnText(c) \subseteq Texts
    BY RequestsAssumption DEF OwnText, Texts
  <2>3. CASE sent.op = "list"
    <3>1. told' = "unread"
      BY <2>1, <2>3
    <3> QED BY <3>1 DEF MessageNamesTheCause, Texts
  <2>4. CASE sent.op # "list" /\ raw = {}
    <3>1. told' = "raw"
      BY <2>1, <2>4 DEF Improved
    <3>2. quoted' = {} /\ certain = {}
      BY <2>1, <2>2, <2>4
    <3>3. cause' = c
      BY DEF Fail
    <3> QED BY <3>1, <3>2, <3>3 DEF MessageNamesTheCause, Texts
  <2>5. CASE sent.op # "list" /\ raw # {}
    <3>1. PICK i \in DOMAIN Order : /\ told' = Order[i] /\ Order[i] \in raw
                                    /\ \A j \in 1 .. (i - 1) : Order[j] \notin raw
      <4> HIDE DEF raw
      <4> QED BY <2>1, <2>2, <2>5, ImprovedIsFirst DEF raw
    <3>2. told' # "raw"
      BY <2>2, <3>1 DEF Texts
    <3>3. ASSUME told' \notin OwnText(c) PROVE told' \in quote
      BY <2>2, <3>1, <3>3
    <3>4. ASSUME told' \notin OwnText(c), NEW t \in certain PROVE Before(told', t)
      <4>1. PICK j \in 1 .. 6 : Order[j] = t
        BY <2>2 DEF Order, Texts
      <4>2. DOMAIN Order = 1 .. 6
        BY DEF Order
      <4>3. t \in raw /\ t # told'
        BY <2>2, <3>4
      <4>4. i < j
        BY <3>1, <4>1, <4>2, <4>3
      <4> QED BY <3>1, <4>1, <4>2, <4>4
    <3>5. cause' = c /\ quoted' = quote
      BY <2>1 DEF Fail
    <3> HIDE DEF raw
    <3> QED BY <3>2, <3>3, <3>4, <3>5 DEF MessageNamesTheCause
  <2> QED BY <2>3, <2>4, <2>5
<1> QED BY <1>1, <1>2, <1>3 DEF RequestsInv

LEMMA OtherWritesStep ==
  ASSUME RequestsInv, NEW p \in Parts, NEW v \in Contents \cup {Unset}, OtherWrites(p, v)
  PROVE  RequestsInv'
<1>1. RequestsTypeOK' BY DEF RequestsInv, RequestsTypeOK, OtherWrites
<1>2. Kept' BY DEF RequestsInv, RequestsTypeOK, Kept, OtherWrites
<1>3. MessageNamesTheCause' BY DEF RequestsInv, MessageNamesTheCause, OtherWrites
<1> QED BY <1>1, <1>2, <1>3 DEF RequestsInv

LEMMA OtherDeletesStep == RequestsInv /\ OtherDeletes => RequestsInv'
<1> SUFFICES ASSUME RequestsInv, OtherDeletes PROVE RequestsInv'
  OBVIOUS
<1>1. RequestsTypeOK'
  BY NothingIsUnset DEF RequestsInv, RequestsTypeOK, OtherDeletes, NoItem
<1>2. Kept' BY NothingIsUnset DEF Kept, OtherDeletes
<1>3. MessageNamesTheCause' BY DEF RequestsInv, MessageNamesTheCause, OtherDeletes
<1> QED BY <1>1, <1>2, <1>3 DEF RequestsInv

(* RequestsInv holds in every state.                                       *)
THEOREM RequestsInvariant == RequestsSpec => []RequestsInv
<1>1. RequestsInv /\ [RequestsNext]_requestVars => RequestsInv'
  <2> SUFFICES ASSUME RequestsInv, [RequestsNext]_requestVars PROVE RequestsInv'
    OBVIOUS
  <2>1. CASE \/ SendGet \/ SendDelete \/ SendList
             \/ \E b \in Bodies : SendApply(b) \/ SendPatch(b) \/ SendPatchStrategic(b)
    <3>1. PICK op, b : Send(op, b, NoEdit) /\ b \in [Parts -> Contents \cup {Unset, Null}]
      BY <2>1, NothingIsUnset
         DEF SendGet, SendDelete, SendList, SendApply, SendPatch, SendPatchStrategic, Bodies
    <3> QED BY <3>1, SendStep DEF NoEdit
  <2>4. ASSUME NEW b \in FieldBodies, NEW e \in Edits, SendPatchJson(b, e)
        PROVE  RequestsInv'
    <3>1. /\ e.do \in {"none", "replace", "remove", "add"}
          /\ e.do # "none" => e.to \in Contents \cup {Unset}
      <4>1. CASE e = NoEdit
        BY <4>1 DEF NoEdit
      <4>2. CASE e \in [do : {"replace"}, at : DOMAIN item.order, name : {Unset},
                        to : Contents, tested : BOOLEAN]
        BY <4>2
      <4>3. CASE e \in [do : {"remove"}, at : DOMAIN item.order, name : {Unset},
                        to : {Unset}, tested : BOOLEAN]
        BY <4>3
      <4>4. CASE e \in [do : {"add"}, at : 1 .. (Len(item.order) + 1), name : InList,
                        to : Contents, tested : {FALSE}]
        BY <4>4
      <4> QED BY <4>1, <4>2, <4>3, <4>4, Zenon DEF Edits
    <3> QED BY <2>4, <3>1, SendStep DEF SendPatchJson, FieldBodies, Bodies
  <2>2. CASE Refused \/ Breaks
    BY <2>2, FailStep DEF Refused, Breaks, Causes
  <2>3. CASE UNCHANGED requestVars
    BY <2>3 DEF RequestsInv, RequestsTypeOK, Kept, MessageNamesTheCause, requestVars
  <2> QED BY <2>1, <2>2, <2>3, <2>4, MalformedStep, SucceedStep, OtherWritesStep,
             OtherDeletesStep DEF RequestsNext
<1> QED BY RequestsInitInv, <1>1, PTL DEF RequestsSpec

(* No request loses what it does not mention and others wrote, but a merge *)
(* patch of the list, and a JSON patch whose index points at another       *)
(* container by now and that does not test the name.                       *)
THEOREM OthersWritesAreKept == RequestsSpec => []OthersAreKept
<1>1. RequestsInv => OthersAreKept
  BY DEF RequestsInv, Kept, OthersAreKept
<1> QED BY RequestsInvariant, <1>1, PTL

(* A message that names another cause than the real one quotes it, and     *)
(* looks for it first, or tells a conflict as an object that exists.       *)
THEOREM MessagesNameTheCause == RequestsSpec => []MessageNamesTheCause
BY RequestsInvariant, PTL DEF RequestsInv

-----------------------------------------------------------------------------
(* Secrets: each key is yet to be read or has been read, and what was read *)
(* its source contained while the call ran.                                *)

Gathering ==
  /\ \A k \in Keys : sources[k] \in during[k]
  /\ making.wants \in UNION {[ks -> Keys] : ks \in SUBSET Keys}
  /\ DOMAIN making.read \cup making.toRead = DOMAIN making.wants
  /\ \A k \in DOMAIN making.read :
       making.read[k] \in during[making.wants[k]] \ {Missing}

SecretsTypeOK ==
  /\ sources \in [Keys -> Versions \cup {Missing}]
  /\ during \in [Keys -> SUBSET (Versions \cup {Missing})]

SecretsInv ==
  /\ SecretsTypeOK
  /\ outcome = "running" => Gathering
  /\ SecretIsWhole

LEMMA SecretsInitInv == SecretsInit => SecretsInv
BY DEF SecretsInit, SecretsInv, SecretsTypeOK, SecretIsWhole

LEMMA SecretsCallStep ==
  ASSUME SecretsInv, NEW kind \in {"file", "env", "tls"}, NEW wants \in Wants(kind),
         Call(kind, wants)
  PROVE  SecretsInv'
<1>1. wants \in UNION {[ks -> Keys] : ks \in SUBSET Keys}
  BY SecretsAssumption DEF Wants, TlsKeys
<1>2. SecretsTypeOK'
  BY DEF SecretsInv, SecretsTypeOK, Call
<1>3. Gathering'
  BY <1>1 DEF Gathering, Call, Empty
<1>4. SecretIsWhole' BY DEF SecretIsWhole, Call
<1> QED BY <1>2, <1>3, <1>4 DEF SecretsInv

LEMMA ReadKeyStep ==
  ASSUME SecretsInv, NEW k \in Keys, Read(k)
  PROVE  SecretsInv'
<1> DEFINE v == sources[making.wants[k]]
<1>1. /\ outcome = "running" /\ Gathering
      /\ k \in making.toRead /\ k \in DOMAIN making.wants
      /\ UNCHANGED <<sources, secret, outcome, during>>
      /\ v # Missing
  BY DEF Read, IsNext, SecretsInv, Gathering
<1>2. making.wants[k] \in Keys
  BY <1>1 DEF Gathering
<1>3. v \in during[making.wants[k]] \ {Missing}
  BY <1>1, <1>2 DEF Gathering
<1>4. /\ making'.wants = making.wants
      /\ making'.toRead = making.toRead \ {k}
      /\ making'.read = Extend(making.read, k, v)
  BY DEF Read
<1>5. Gathering'
  BY <1>1, <1>2, <1>3, <1>4 DEF Gathering, Extend
<1>6. SecretsTypeOK' BY <1>1 DEF SecretsInv, SecretsTypeOK
<1>7. SecretIsWhole' BY <1>1 DEF SecretIsWhole
<1> QED BY <1>5, <1>6, <1>7 DEF SecretsInv

LEMMA ApplySecretStep ==
  ASSUME SecretsInv, NEW answer \in {"ok", "answer lost"}, ApplySecret(answer)
  PROVE  SecretsInv'
<1>1. /\ Gathering /\ making.toRead = {}
      /\ secret'.data = making.read
      /\ outcome' # "running"
      /\ UNCHANGED <<sources, making, during>>
  BY DEF SecretsInv, ApplySecret
<1>2. SecretIsWhole'
  BY <1>1 DEF Gathering, SecretIsWhole
<1>3. SecretsTypeOK' BY <1>1 DEF SecretsInv, SecretsTypeOK
<1> QED BY <1>1, <1>2, <1>3 DEF SecretsInv

(* A call that fails, a secret that is deleted: no Ok to keep.             *)
LEMMA SecretFailsStep ==
  ASSUME SecretsInv, outcome' \notin {"running", "ok"}, UNCHANGED <<sources, during>>
  PROVE  SecretsInv'
BY DEF SecretsInv, SecretsTypeOK, SecretIsWhole

LEMMA RotateStep ==
  ASSUME SecretsInv, NEW k \in Keys, NEW v \in Versions \cup {Missing}, Rotate(k, v)
  PROVE  SecretsInv'
<1>1. \A i \in Keys : during[i] \subseteq during'[i]
  BY DEF SecretsInv, SecretsTypeOK, Rotate
<1>2. SecretsTypeOK' BY DEF SecretsInv, SecretsTypeOK, Rotate
<1>3. ASSUME outcome = "running", Gathering PROVE Gathering'
  <2>1. \A i \in Keys : sources'[i] \in during'[i]
    BY <1>3 DEF SecretsInv, SecretsTypeOK, Rotate, Gathering
  <2>2. making' = making
    BY DEF Rotate
  <2>3. \A i \in DOMAIN making.read : making.wants[i] \in Keys
    BY <1>3 DEF Gathering
  <2> QED BY <1>1, <1>3, <2>1, <2>2, <2>3 DEF Gathering
<1>4. SecretIsWhole'
  BY DEF SecretsInv, SecretsTypeOK, SecretIsWhole, Rotate
<1> QED BY <1>2, <1>3, <1>4 DEF SecretsInv, Rotate

(* SecretsInv holds in every state.                                        *)
THEOREM SecretsInvariant == SecretsSpec => []SecretsInv
<1>1. SecretsInv /\ [SecretsNext]_secretVars => SecretsInv'
  <2> SUFFICES ASSUME SecretsInv, [SecretsNext]_secretVars PROVE SecretsInv'
    OBVIOUS
  <2>1. CASE (\E k \in Keys : ReadFails(k)) \/ ApplyIsRefused \/ DeleteSecret
    BY <2>1, SecretFailsStep DEF ReadFails, ApplyIsRefused, DeleteSecret
  <2>2. CASE UNCHANGED secretVars
    BY <2>2 DEF SecretsInv, SecretsTypeOK, Gathering, SecretIsWhole, secretVars
  <2> QED BY <2>1, <2>2, SecretsCallStep, ReadKeyStep, ApplySecretStep, RotateStep
          DEF SecretsNext
<1> QED BY SecretsInitInv, <1>1, PTL DEF SecretsSpec

(* An Ok means a secret with all keys and no others, each as its source    *)
(* was while the call ran, whoever wrote the sources meanwhile.            *)
THEOREM SecretsAreWhole == SecretsSpec => []SecretIsWhole
BY SecretsInvariant, PTL DEF SecretsInv

-----------------------------------------------------------------------------
(* Policies: which policies there are.                                     *)

IsolatePolicy(s) ==
  [name |-> IsolateName(s), pods |-> s, denies |-> {"in", "out"}, from |-> {}]
AllowPolicy(t, f) ==
  [name |-> AllowName(t, f), pods |-> t, denies |-> {"in"}, from |-> {f}]

(* Each policy is one of an isolate that still holds or of an allow_from;  *)
(* and what has a hash of its own is there.                                *)
Backed ==
  \A p \in policies : \/ \E s \in isolated : p = IsolatePolicy(s)
                      \/ \E x \in allowed : p = AllowPolicy(x[1], x[2])

Present ==
  /\ \A s \in isolated : OwnSuffix(s) => IsolatePolicy(s) \in policies
  /\ \A x \in allowed :
       OwnSuffix(x[1]) /\ OwnSuffix(x[2]) => AllowPolicy(x[1], x[2]) \in policies

PoliciesInv ==
  /\ isolated \subseteq Selectors /\ allowed \subseteq Selectors \X Selectors
  /\ Backed /\ Present

(* A name tells what its policy is.                                        *)
LEMMA NamesTellKinds ==
  \A s, t, f \in Selectors : /\ IsolateName(s) # AllowName(t, f)
                             /\ IsolateName(s) = IsolateName(t) => Suffix[s] = Suffix[t]
BY DEF IsolateName, AllowName

LEMMA AllowNamesTell ==
  \A t, f, u, g \in Selectors :
    AllowName(t, f) = AllowName(u, g) => Suffix[t] = Suffix[u] /\ Suffix[f] = Suffix[g]
BY DEF AllowName

LEMMA IsolateStep ==
  ASSUME PoliciesInv, NEW s \in Selectors, Isolate(s)
  PROVE  PoliciesInv'
<1>1. /\ policies' = {p \in policies : p.name # IsolateName(s)} \cup {IsolatePolicy(s)}
      /\ isolated' = isolated \cup {s} /\ allowed' = allowed
  BY DEF Isolate, Put, IsolatePolicy
<1>2. Backed' BY <1>1 DEF PoliciesInv, Backed
<1>3. Present'
  <2>1. ASSUME NEW i \in isolated', OwnSuffix(i)
        PROVE  IsolatePolicy(i) \in policies'
    <3>1. CASE i = s BY <1>1, <3>1
    <3>2. CASE i # s
      <4>1. i \in Selectors /\ IsolatePolicy(i) \in policies
        BY <1>1, <2>1, <3>2 DEF PoliciesInv, Present
      <4>2. Suffix[s] # Suffix[i]
        BY <2>1, <3>2 DEF OwnSuffix
      <4> QED BY <1>1, <4>1, <4>2, NamesTellKinds DEF IsolatePolicy
    <3> QED BY <3>1, <3>2
  <2>2. ASSUME NEW x \in allowed, OwnSuffix(x[1]), OwnSuffix(x[2])
        PROVE  AllowPolicy(x[1], x[2]) \in policies'
    <3>1. /\ x[1] \in Selectors /\ x[2] \in Selectors
          /\ AllowPolicy(x[1], x[2]) \in policies
      BY <2>2 DEF PoliciesInv, Present
    <3> QED BY <1>1, <3>1, NamesTellKinds DEF AllowPolicy
  <2> QED BY <1>1, <2>1, <2>2 DEF Present, OwnSuffix
<1> QED BY <1>1, <1>2, <1>3 DEF PoliciesInv

LEMMA AllowFromStep ==
  ASSUME PoliciesInv, NEW t \in Selectors, NEW f \in Selectors, AllowFrom(t, f)
  PROVE  PoliciesInv'
<1>1. /\ policies' = {p \in policies : p.name # AllowName(t, f)} \cup {AllowPolicy(t, f)}
      /\ allowed' = allowed \cup {<<t, f>>} /\ isolated' = isolated
  BY DEF AllowFrom, Put, AllowPolicy
<1>2. Backed'
  <2> SUFFICES ASSUME NEW p \in policies'
               PROVE  \/ \E s \in isolated : p = IsolatePolicy(s)
                      \/ \E x \in allowed' : p = AllowPolicy(x[1], x[2])
    BY <1>1 DEF Backed
  <2>1. CASE p = AllowPolicy(t, f)
    <3> DEFINE pair == <<t, f>>
    <3>1. pair \in allowed' /\ pair[1] = t /\ pair[2] = f
      BY <1>1
    <3> HIDE DEF pair
    <3> QED BY <2>1, <3>1
  <2>2. CASE p \in policies
    BY <1>1, <2>2 DEF PoliciesInv, Backed
  <2> QED BY <1>1, <2>1, <2>2
<1>3. Present'
  <2>1. ASSUME NEW i \in isolated, OwnSuffix(i)
        PROVE  IsolatePolicy(i) \in policies'
    <3>1. i \in Selectors /\ IsolatePolicy(i) \in policies
      BY <2>1 DEF PoliciesInv, Present
    <3> QED BY <1>1, <3>1, NamesTellKinds DEF IsolatePolicy
  <2>2. ASSUME NEW x \in allowed', OwnSuffix(x[1]), OwnSuffix(x[2])
        PROVE  AllowPolicy(x[1], x[2]) \in policies'
    <3>1. CASE x[1] = t /\ x[2] = f BY <1>1, <3>1
    <3>2. CASE ~(x[1] = t /\ x[2] = f)
      <4>1. /\ x[1] \in Selectors /\ x[2] \in Selectors
            /\ AllowPolicy(x[1], x[2]) \in policies
        BY <1>1, <2>2, <3>2 DEF PoliciesInv, Present
      <4>2. AllowName(t, f) # AllowName(x[1], x[2])
        BY <2>2, <3>2, <4>1, AllowNamesTell DEF OwnSuffix
      <4> QED BY <1>1, <4>1, <4>2 DEF AllowPolicy
    <3> QED BY <3>1, <3>2
  <2> QED BY <1>1, <2>1, <2>2 DEF Present, OwnSuffix
<1> QED BY <1>1, <1>2, <1>3 DEF PoliciesInv

LEMMA ReleaseStep ==
  ASSUME PoliciesInv, NEW s \in Selectors, Release(s)
  PROVE  PoliciesInv'
<1>1. /\ policies' = {p \in policies : p.name # IsolateName(s)}
      /\ isolated' = isolated \ {s} /\ allowed' = allowed
  BY DEF Release
<1>2. Backed' BY <1>1 DEF PoliciesInv, Backed, IsolatePolicy
<1>3. Present'
  <2>1. ASSUME NEW i \in isolated', OwnSuffix(i)
        PROVE  IsolatePolicy(i) \in policies'
    <3>1. i \in Selectors /\ IsolatePolicy(i) \in policies /\ i # s
      BY <1>1, <2>1 DEF PoliciesInv, Present
    <3>2. Suffix[s] # Suffix[i]
      BY <2>1, <3>1 DEF OwnSuffix
    <3> QED BY <1>1, <3>1, <3>2, NamesTellKinds DEF IsolatePolicy
  <2>2. ASSUME NEW x \in allowed, OwnSuffix(x[1]), OwnSuffix(x[2])
        PROVE  AllowPolicy(x[1], x[2]) \in policies'
    <3>1. /\ x[1] \in Selectors /\ x[2] \in Selectors
          /\ AllowPolicy(x[1], x[2]) \in policies
      BY <2>2 DEF PoliciesInv, Present
    <3> QED BY <1>1, <3>1, NamesTellKinds DEF AllowPolicy
  <2> QED BY <1>1, <2>1, <2>2 DEF Present, OwnSuffix
<1> QED BY <1>1, <1>2, <1>3 DEF PoliciesInv

(* PoliciesInv holds in every state.                                       *)
THEOREM PoliciesInvariant == PoliciesSpec => []PoliciesInv
<1>1. PoliciesInit => PoliciesInv
  BY DEF PoliciesInit, PoliciesInv, Backed, Present
<1>2. PoliciesInv /\ [PoliciesNext]_policyVars => PoliciesInv'
  <2>1. PoliciesInv /\ UNCHANGED policyVars => PoliciesInv'
    BY DEF PoliciesInv, Backed, Present, OwnSuffix, policyVars
  <2> QED BY <2>1, IsolateStep, AllowFromStep, ReleaseStep DEF PoliciesNext
<1> QED BY <1>1, <1>2, PTL DEF PoliciesSpec

(* What an isolated pod sends reaches nobody, what reaches it was allowed, *)
(* and what was allowed gets through: for any labels of pods and selectors *)
(* and any history of calls, as long as no hash is shared.                 *)
THEOREM PoliciesIsolate == PoliciesSpec => []IsolationHolds
<1>1. ASSUME PoliciesInv, NEW s \in isolated, NEW a \in PodLabels, NEW b \in PodLabels,
             OwnSuffix(s), Reaches(a, b)
      PROVE  /\ ~ s \subseteq a
             /\ s \subseteq b => \E x \in allowed : x[1] \subseteq b /\ x[2] \subseteq a
  <2>1. IsolatePolicy(s) \in policies
    BY <1>1 DEF PoliciesInv, Present
  <2>2. ~ s \subseteq a
    BY <1>1, <2>1 DEF Reaches, LetsOut, About, IsolatePolicy
  <2>3. ASSUME s \subseteq b
        PROVE  \E x \in allowed : x[1] \subseteq b /\ x[2] \subseteq a
    <3>1. IsolatePolicy(s) \in About(b, "in")
      BY <2>1, <2>3 DEF About, IsolatePolicy
    <3>2. PICK p \in About(b, "in") : \E f \in p.from : f \subseteq a
      BY <1>1, <3>1 DEF Reaches, LetsIn
    <3>3. p \in policies /\ p.pods \subseteq b /\ p.from # {}
      BY <3>2 DEF About
    <3>4. PICK x \in allowed : p = AllowPolicy(x[1], x[2])
      BY <1>1, <3>3 DEF PoliciesInv, Backed, IsolatePolicy
    <3> QED BY <3>2, <3>3, <3>4 DEF AllowPolicy
  <2> QED BY <2>2, <2>3
<1>2. ASSUME PoliciesInv, NEW x \in allowed, NEW a \in PodLabels, NEW b \in PodLabels,
             OwnSuffix(x[1]), OwnSuffix(x[2]), x[1] \subseteq b, x[2] \subseteq a,
             ~Reaches(a, b)
      PROVE  \E s \in isolated : s \subseteq a
  <2>1. AllowPolicy(x[1], x[2]) \in About(b, "in")
    BY <1>2 DEF PoliciesInv, Present, About, AllowPolicy
  <2>2. LetsIn(b, a)
    BY <1>2, <2>1 DEF LetsIn, AllowPolicy
  <2>3. PICK p \in policies : p.pods \subseteq a /\ "out" \in p.denies
    BY <1>2, <2>2 DEF Reaches, LetsOut, About
  <2>4. PICK s \in isolated : p = IsolatePolicy(s)
    BY <1>2, <2>3 DEF PoliciesInv, Backed, AllowPolicy
  <2> QED BY <2>3, <2>4 DEF IsolatePolicy
<1>3. PoliciesInv => IsolationHolds
  BY <1>1, <1>2 DEF IsolationHolds
<1> QED BY PoliciesInvariant, <1>3, PTL

-----------------------------------------------------------------------------
(* Rbac.                                                                   *)

-----------------------------------------------------------------------------
(* The rules.                                                              *)

(* Rules only add up: nothing is granted by two of them together.          *)
LEMMA GrantsOfUnion ==
  ASSUME NEW R, NEW S
  PROVE  Grants(R \cup S) = Grants(R) \cup Grants(S)
BY DEF Grants

(* What one call of can adds.                                              *)
LEMMA GrantsByGroup ==
  ASSUME NEW vs, NEW rs
  PROVE  Grants(RulesByGroup(vs, rs)) =
           {p \in Permission : p[1] \in vs /\ p[3] \in rs /\ p[2] = ApiGroup(p[3])}
<1> DEFINE RuleOf(g) == [verbs |-> vs, groups |-> {g},
                         resources |-> {r \in rs : ApiGroup(r) = g}]
           Asked(p) == p[1] \in vs /\ p[3] \in rs /\ p[2] = ApiGroup(p[3])
           Gives(r, p) == p[1] \in r.verbs /\ p[2] \in r.groups /\ p[3] \in r.resources
<1>1. \A g, p : Gives(RuleOf(g), p) <=> p[1] \in vs /\ p[2] = g /\ p[3] \in rs
                                         /\ ApiGroup(p[3]) = g
  OBVIOUS
<1>2. RulesByGroup(vs, rs) = {RuleOf(g) : g \in {ApiGroup(r) : r \in rs}}
  BY DEF RulesByGroup
<1>3. ASSUME NEW p, Asked(p)
      PROVE  \E r \in RulesByGroup(vs, rs) : Gives(r, p)
  <2>1. RuleOf(ApiGroup(p[3])) \in RulesByGroup(vs, rs)
    BY <1>2, <1>3
  <2>2. Gives(RuleOf(ApiGroup(p[3])), p)
    BY <1>1, <1>3
  <2> QED BY <2>1, <2>2
<1>4. ASSUME NEW p, NEW r \in RulesByGroup(vs, rs), Gives(r, p)
      PROVE  Asked(p)
  <2>1. PICK g : r = RuleOf(g)
    BY <1>2
  <2> QED BY <1>1, <1>4, <2>1
<1> QED BY <1>3, <1>4 DEF Grants

LEMMA RulesByGroupType ==
  ASSUME NEW vs \in SUBSET Verbs, NEW rs \in SUBSET Resources
  PROVE  RulesByGroup(vs, rs) \subseteq Rule
<1>1. \A r \in rs : ApiGroup(r) \in Groups
  BY DEF Groups
<1> QED BY <1>1 DEF RulesByGroup, Rule

LEMMA NoRoleIsNoName == NoRole \notin RoleNames /\ Nobody \notin Grantors
BY NamesAssumption DEF RoleNames, DefaultRole

-----------------------------------------------------------------------------
(* How far a caller has come: what the applies before this one left.  The  *)
(* role may since have been written by somebody else, and that is all that *)
(* can have happened to it.                                                *)
Progress ==
  \A c \in Grantors :
    /\ stage[c] \in {"role", "binding", "ok"} => account[c] \in accounts
    /\ stage[c] \in {"binding", "ok"} =>
         /\ writer[role[c]] # Nobody
         /\ writer[role[c]] = c => roles[role[c]] = rules[c]
    /\ stage[c] = "ok" => binding[account[c]] = role[c]

RbacInv == RbacTypeOK /\ RulesGrantWhatWasAsked /\ Progress /\ BindingNeverDangles

LEMMA RbacInitInv == RbacInit => RbacInv
<1> SUFFICES ASSUME RbacInit PROVE RbacInv
  OBVIOUS
<1>1. RbacTypeOK
  BY DEF RbacInit, RbacTypeOK, RoleNames
<1>2. RulesGrantWhatWasAsked
  BY DEF RbacInit, RulesGrantWhatWasAsked, Grants
<1>3. Progress /\ BindingNeverDangles
  BY DEF RbacInit, Progress, BindingNeverDangles
<1> QED BY <1>1, <1>2, <1>3 DEF RbacInv

LEMMA WithRoleStep ==
  ASSUME RbacInv, NEW c \in Grantors, NEW n \in CustomRoles, WithRole(c, n)
  PROVE  RbacInv'
<1>1. n \in RoleNames
  BY DEF RoleNames
<1>2. RbacTypeOK'
  BY <1>1 DEF RbacInv, RbacTypeOK, WithRole, cluster
<1>3. RulesGrantWhatWasAsked'
  BY DEF RbacInv, RulesGrantWhatWasAsked, WithRole
<1>4. Progress' /\ BindingNeverDangles'
  BY DEF RbacInv, RbacTypeOK, Progress, BindingNeverDangles, WithRole, cluster
<1> QED BY <1>2, <1>3, <1>4 DEF RbacInv

(* A call of the builder keeps rules and permissions in step.              *)
LEMMA AskStep ==
  ASSUME RbacInv, NEW c \in Grantors,
         NEW newRules \in SUBSET Rule, NEW permissions \in SUBSET Permission,
         Grants(newRules) = permissions,
         Ask(c, newRules, permissions)
  PROVE  RbacInv'
<1>1. RbacTypeOK'
  BY DEF RbacInv, RbacTypeOK, Ask, cluster
<1>2. RulesGrantWhatWasAsked'
  <2> SUFFICES ASSUME NEW e \in Grantors PROVE Grants(rules'[e]) = asked'[e]
    BY DEF RulesGrantWhatWasAsked, Grants
  <2>1. CASE e = c
    <3>1. /\ rules'[c] = rules[c] \cup newRules
          /\ asked'[c] = asked[c] \cup permissions
      BY DEF RbacInv, RbacTypeOK, Ask
    <3> QED BY <2>1, <3>1, GrantsOfUnion DEF RbacInv, RulesGrantWhatWasAsked
  <2>2. CASE e # c
    BY <2>2 DEF RbacInv, RbacTypeOK, Ask, RulesGrantWhatWasAsked
  <2> QED BY <2>1, <2>2
<1>3. Progress' /\ BindingNeverDangles'
  BY DEF RbacInv, RbacTypeOK, Progress, BindingNeverDangles, Ask, cluster
<1> QED BY <1>1, <1>2, <1>3 DEF RbacInv

LEMMA CanStep ==
  ASSUME RbacInv, NEW c \in Grantors, NEW vs \in VerbLists, NEW rs \in ResourceLists,
         Can(c, vs, rs)
  PROVE  RbacInv'
<1>1. vs \in SUBSET Verbs /\ rs \in SUBSET Resources
  BY NamesAssumption
<1> DEFINE asks == {p \in Permission : /\ p[1] \in vs
                                       /\ p[3] \in rs
                                       /\ p[2] = ApiGroup(p[3])}
<1>2. RulesByGroup(vs, rs) \in SUBSET Rule
  BY <1>1, RulesByGroupType
<1>3. asks \in SUBSET Permission
  OBVIOUS
<1>4. Ask(c, RulesByGroup(vs, rs), asks)
  BY DEF Can
<1>5. Grants(RulesByGroup(vs, rs)) = asks
  BY GrantsByGroup
<1> HIDE DEF asks
<1> QED BY <1>2, <1>3, <1>4, <1>5, AskStep

LEMMA ForApiGroupStep ==
  ASSUME RbacInv, NEW c \in Grantors, NEW g \in CustomGroups,
         NEW vs \in VerbLists, NEW rs \in ResourceLists,
         ForApiGroup(c, g, vs, rs)
  PROVE  RbacInv'
<1>1. [verbs |-> vs, groups |-> {g}, resources |-> rs] \in Rule
  BY NamesAssumption DEF Rule, Groups
<1> DEFINE one == {[verbs |-> vs, groups |-> {g}, resources |-> rs]}
           asks == {p \in Permission : p[1] \in vs /\ p[2] = g /\ p[3] \in rs}
<1>2. one \in SUBSET Rule /\ asks \in SUBSET Permission
  BY <1>1
<1>3. Ask(c, one, asks)
  BY DEF ForApiGroup
<1>4. Grants(one) = asks
  BY DEF Grants
<1> HIDE DEF one, asks
<1> QED BY <1>2, <1>3, <1>4, AskStep

-----------------------------------------------------------------------------
(* The builder is left alone by everything that follows.                   *)
LEMMA BuilderStutters ==
  ASSUME RulesGrantWhatWasAsked, UNCHANGED builder
  PROVE  RulesGrantWhatWasAsked'
BY DEF RulesGrantWhatWasAsked, Grants, builder

LEMMA GotoStep ==
  ASSUME RbacInv, NEW c \in Grantors, UNCHANGED <<builder, cluster>>,
         \E l \in {"account", "error"} : MoveTo(c, l)
  PROVE  RbacInv'
<1>1. RbacTypeOK'
  BY DEF RbacInv, RbacTypeOK, MoveTo, builder, cluster
<1>2. RulesGrantWhatWasAsked'
  BY BuilderStutters DEF RbacInv
<1>3. Progress' /\ BindingNeverDangles'
  BY DEF RbacInv, RbacTypeOK, Progress, BindingNeverDangles, MoveTo, builder, cluster
<1> QED BY <1>1, <1>2, <1>3 DEF RbacInv

LEMMA ApplyAccountStep ==
  ASSUME RbacInv, NEW c \in Grantors, ApplyAccount(c)
  PROVE  RbacInv'
<1>1. RbacTypeOK'
  BY DEF RbacInv, RbacTypeOK, ApplyAccount, After, MoveTo, builder
<1>2. RulesGrantWhatWasAsked'
  BY BuilderStutters DEF RbacInv, ApplyAccount
<1>3. Progress'
  BY DEF RbacInv, RbacTypeOK, Progress, ApplyAccount, After, MoveTo, builder
<1>4. BindingNeverDangles'
  BY DEF RbacInv, BindingNeverDangles, ApplyAccount
<1> QED BY <1>1, <1>2, <1>3, <1>4 DEF RbacInv

LEMMA ApplyRoleStep ==
  ASSUME RbacInv, NEW c \in Grantors, ApplyRole(c)
  PROVE  RbacInv'
<1>1. RbacTypeOK'
  BY DEF RbacInv, RbacTypeOK, ApplyRole, After, MoveTo, builder
<1>2. RulesGrantWhatWasAsked'
  BY BuilderStutters DEF RbacInv, ApplyRole
<1>3. /\ writer'[role[c]] = c /\ roles'[role[c]] = rules[c]
      /\ \A n \in RoleNames \ {role[c]} : writer'[n] = writer[n] /\ roles'[n] = roles[n]
      /\ c # Nobody
  BY NoRoleIsNoName DEF RbacInv, RbacTypeOK, ApplyRole
<1>4. Progress'
  <2> SUFFICES ASSUME NEW e \in Grantors
               PROVE  /\ stage'[e] \in {"role", "binding", "ok"} => account[e] \in accounts
                      /\ stage'[e] \in {"binding", "ok"} =>
                           /\ writer'[role[e]] # Nobody
                           /\ writer'[role[e]] = e => roles'[role[e]] = rules[e]
                      /\ stage'[e] = "ok" => binding[account[e]] = role[e]
    BY DEF Progress, ApplyRole, builder
  <2>1. CASE e = c
    BY <2>1, <1>3 DEF RbacInv, RbacTypeOK, Progress, ApplyRole, After, MoveTo
  <2>2. CASE e # c
    <3>1. stage'[e] = stage[e] /\ role[e] \in RoleNames
      BY <2>2 DEF RbacInv, RbacTypeOK, ApplyRole, After, MoveTo
    <3>2. role[e] = role[c] => writer'[role[e]] # e
      BY <2>2, <1>3
    <3> QED BY <1>3, <3>1, <3>2 DEF RbacInv, Progress
  <2> QED BY <2>1, <2>2
<1>5. BindingNeverDangles'
  BY <1>3, NoRoleIsNoName DEF RbacInv, RbacTypeOK, BindingNeverDangles, ApplyRole
<1> QED BY <1>1, <1>2, <1>4, <1>5 DEF RbacInv

(* No other caller loses its binding: it had none, or the same.            *)
LEMMA ApplyBindingStep ==
  ASSUME RbacInv, NEW c \in Grantors, ApplyBinding(c)
  PROVE  RbacInv'
<1>1. RbacTypeOK'
  BY DEF RbacInv, RbacTypeOK, ApplyBinding, After, MoveTo, builder
<1>2. RulesGrantWhatWasAsked'
  BY BuilderStutters DEF RbacInv, ApplyBinding
<1>3. /\ binding'[account[c]] = role[c]
      /\ \A a \in Accounts : binding[a] # NoRole => binding'[a] = binding[a]
      /\ \A a \in Accounts \ {account[c]} : binding'[a] = binding[a]
  BY DEF RbacInv, RbacTypeOK, ApplyBinding
<1>4. \A e \in Grantors : account[e] \in Accounts /\ role[e] # NoRole
  BY NoRoleIsNoName DEF RbacInv, RbacTypeOK
<1>5. Progress'
  <2> SUFFICES ASSUME NEW e \in Grantors
               PROVE  /\ stage'[e] \in {"role", "binding", "ok"} => account[e] \in accounts
                      /\ stage'[e] \in {"binding", "ok"} =>
                           /\ writer[role[e]] # Nobody
                           /\ writer[role[e]] = e => roles[role[e]] = rules[e]
                      /\ stage'[e] = "ok" => binding'[account[e]] = role[e]
    BY DEF Progress, ApplyBinding, builder
  <2>1. CASE e = c
    BY <2>1, <1>3 DEF RbacInv, RbacTypeOK, Progress, ApplyBinding, After, MoveTo
  <2>2. CASE e # c
    <3>1. stage'[e] = stage[e]
      BY <2>2 DEF RbacInv, RbacTypeOK, ApplyBinding, After, MoveTo
    <3> QED BY <1>3, <1>4, <3>1 DEF RbacInv, Progress
  <2> QED BY <2>1, <2>2
<1>6. BindingNeverDangles'
  BY <1>3 DEF RbacInv, RbacTypeOK, Progress, BindingNeverDangles, ApplyBinding
<1> QED BY <1>1, <1>2, <1>5, <1>6 DEF RbacInv

LEMMA RenewStep ==
  ASSUME RbacInv, NEW c \in Grantors, NEW a \in Accounts, Renew(c, a)
  PROVE  RbacInv'
<1>1. DefaultRole(a) \in RoleNames
  BY DEF RoleNames
<1>2. RbacTypeOK'
  BY <1>1 DEF RbacInv, RbacTypeOK, Renew, MoveTo, cluster
<1>3. RulesGrantWhatWasAsked'
  BY DEF RbacInv, RbacTypeOK, RulesGrantWhatWasAsked, Grants, Renew
<1>4. Progress' /\ BindingNeverDangles'
  BY DEF RbacInv, RbacTypeOK, Progress, BindingNeverDangles, Renew, MoveTo, cluster
<1> QED BY <1>2, <1>3, <1>4 DEF RbacInv

LEMMA RbacStutter == RbacInv /\ UNCHANGED rbacVars => RbacInv'
<1> SUFFICES ASSUME RbacInv, UNCHANGED rbacVars PROVE RbacInv'
  OBVIOUS
<1>1. RbacTypeOK'
  BY DEF RbacInv, RbacTypeOK, rbacVars, builder, cluster
<1>2. RulesGrantWhatWasAsked'
  BY BuilderStutters DEF RbacInv, rbacVars
<1>3. Progress' /\ BindingNeverDangles'
  BY DEF RbacInv, Progress, BindingNeverDangles, rbacVars, builder, cluster
<1> QED BY <1>1, <1>2, <1>3 DEF RbacInv

(* RbacInv holds in every state: one lemma for each kind of step.             *)
THEOREM RbacInvariant == RbacSpec => []RbacInv
<1>1. RbacInv /\ [RbacNext]_rbacVars => RbacInv'
  <2> SUFFICES ASSUME RbacInv, NEW c \in Grantors, Grantor(c) PROVE RbacInv'
    BY RbacStutter DEF RbacNext
  <2>1. CASE \E n \in CustomRoles : WithRole(c, n)
    BY <2>1, WithRoleStep
  <2>2. CASE \E vs \in VerbLists, rs \in ResourceLists :
               Can(c, vs, rs) \/ \E g \in CustomGroups : ForApiGroup(c, g, vs, rs)
    BY <2>2, CanStep, ForApiGroupStep
  <2>3. CASE Build(c) \/ ApplyFails(c) \/ Retry(c)
    BY <2>3, GotoStep DEF Build, ApplyFails, Retry
  <2>4. CASE ApplyAccount(c)
    BY <2>4, ApplyAccountStep
  <2>5. CASE ApplyRole(c)
    BY <2>5, ApplyRoleStep
  <2>6. CASE ApplyBinding(c)
    BY <2>6, ApplyBindingStep
  <2>7. CASE \E a \in Accounts : Renew(c, a)
    BY <2>7, RenewStep
  <2> QED BY <2>1, <2>2, <2>3, <2>4, <2>5, <2>6, <2>7 DEF Grantor
<1> QED BY RbacInitInv, <1>1, PTL DEF RbacSpec

-----------------------------------------------------------------------------
(* Every variable has its type.                                            *)
THEOREM RbacTypeCorrect == RbacSpec => []RbacTypeOK
BY RbacInvariant, PTL DEF RbacInv

(* The builder grants what was asked for: for any verbs, resources and     *)
(* groups, however the calls of the builder are combined.                  *)
THEOREM RulesAreExact == RbacSpec => []RulesGrantWhatWasAsked
BY RbacInvariant, PTL DEF RbacInv

(* No binding without its account and role, whichever applies failed.      *)
THEOREM BindingsAreBacked == RbacSpec => []BindingNeverDangles
BY RbacInvariant, PTL DEF RbacInv

(* An Ok of apply_rbac means that exactly the permissions asked for are    *)
(* the account's, until somebody else applies the role.                    *)
THEOREM OkIsGranted == RbacSpec => []OkMeansGranted
<1>1. RbacInv => OkMeansGranted
  <2> SUFFICES ASSUME RbacInv, NEW c \in Grantors, stage[c] = "ok", writer[role[c]] = c
               PROVE  Allowed(account[c]) = asked[c]
    BY DEF OkMeansGranted
  <2>1. binding[account[c]] = role[c] /\ roles[role[c]] = rules[c]
    BY DEF RbacInv, Progress
  <2>2. role[c] # NoRole
    BY NoRoleIsNoName DEF RbacInv, RbacTypeOK
  <2> QED BY <2>1, <2>2 DEF Allowed, RbacInv, RulesGrantWhatWasAsked
<1> QED BY RbacInvariant, <1>1, PTL
=============================================================================

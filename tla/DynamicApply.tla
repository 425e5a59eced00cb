---------------------------- MODULE DynamicApply ----------------------------
(***************************************************************************)
(* Context::apply_dynamic and delete_dynamic (context/dynamic.rs) on one   *)
(* object, called by several test tasks next to other writers (server-side *)
(* apply, patches, controllers).  apply_dynamic is two requests: a get,    *)
(* and a replace that carries the resourceVersion the get returned, or a   *)
(* create when the get found nothing.  A request is evaluated by the API   *)
(* server at one instant; the answer comes later, or never (a connection   *)
(* that breaks), and then the caller sees an error although the write is   *)
(* in the store.                                                           *)
(*                                                                         *)
(* The resourceVersion is drawn from one counter of the store, so it is    *)
(* never given out twice.                                                  *)
(***************************************************************************)
EXTENDS Naturals

CONSTANTS Callers,
          Values,        \* bodies of the object
          NoValue,
          MaxRevision    \* bound: writes to the store

ASSUME RevisionAssumption == MaxRevision \in Nat

VARIABLES object,    \* resourceVersion and body; version 0: not there
          revision,  \* the store's counter
          pc,        \* per caller
          body,      \* the dyn_obj the caller applies
          existing,  \* what its get returned
          result,    \* what its last call returned
          readAt     \* history: the store's counter at its get

vars == <<object, revision, pc, body, existing, result, readAt>>

Absent == [version |-> 0, value |-> NoValue]
Exists == object.version # 0

Init ==
  /\ object = Absent /\ revision = 0
  /\ pc = [c \in Callers |-> "idle"]
  /\ body = [c \in Callers |-> NoValue]
  /\ existing = [c \in Callers |-> Absent]
  /\ result = [c \in Callers |-> "nothing"]
  /\ readAt = [c \in Callers |-> 0]

Goto(c, label) == pc' = [pc EXCEPT ![c] = label]

(* The store takes a change and numbers it.                                *)
Number == revision < MaxRevision /\ revision' = revision + 1
Store(v) == Number /\ object' = [version |-> revision', value |-> v]

(* Mutation: replace whatever the get said.                                *)
AlwaysReplace == "replace"
NextRequest == IF Exists THEN "replace" ELSE "create"

Get(c, v) ==
  /\ pc[c] = "idle"
  /\ body' = [body EXCEPT ![c] = v]
  /\ existing' = [existing EXCEPT ![c] = object]
  /\ readAt' = [readAt EXCEPT ![c] = revision]
  /\ Goto(c, NextRequest)
  /\ UNCHANGED <<object, revision, result>>

(* "failed to check": any error of the get but a 404.                      *)
GetFails(c) ==
  /\ pc[c] = "idle"
  /\ result' = [result EXCEPT ![c] = "error"]
  /\ UNCHANGED <<object, revision, pc, body, existing, readAt>>

(* The server takes a replace only if the object still has the version the *)
(* body carries, and a create only if there is no object.  Mutation: the   *)
(* body carries no version.                                                *)
AcceptedUnversioned(c) ==
  \/ pc[c] = "replace" /\ Exists
  \/ pc[c] = "create" /\ ~Exists

Accepted(c) ==
  \/ pc[c] = "replace" /\ Exists /\ object.version = existing[c].version
  \/ pc[c] = "create" /\ ~Exists

Land(c) ==
  /\ Accepted(c)
  /\ Store(body[c])
  /\ Goto(c, "landed")
  /\ UNCHANGED <<body, existing, result, readAt>>

(* 409 Conflict, 409 AlreadyExists or 404 NotFound: surfaced, not retried. *)
Refuse(c) ==
  /\ pc[c] \in {"replace", "create"} /\ ~Accepted(c)
  /\ Goto(c, "refused")
  /\ UNCHANGED <<object, revision, body, existing, result, readAt>>

(* The write never reaches the server.                                     *)
Lose(c) ==
  /\ pc[c] \in {"replace", "create"}
  /\ Goto(c, "lost")
  /\ UNCHANGED <<object, revision, body, existing, result, readAt>>

Return(c, r) ==
  /\ Goto(c, "idle")
  /\ result' = [result EXCEPT ![c] = r]
  /\ body' = [body EXCEPT ![c] = NoValue]
  /\ existing' = [existing EXCEPT ![c] = Absent]
  /\ UNCHANGED <<object, revision, readAt>>

ReturnOk(c) == pc[c] = "landed" /\ Return(c, "ok")

(* The map_err of the write, and an answer that never came.                *)
ReturnError(c) == pc[c] \in {"landed", "refused", "lost"} /\ Return(c, "error")

(* One request, by a caller that is not in apply_dynamic.                  *)
DeleteDynamic(c) ==
  /\ pc[c] = "idle" /\ Exists
  /\ Number /\ object' = Absent
  /\ UNCHANGED <<pc, body, existing, result, readAt>>

(* External: apply, patch and the controllers write without a version.     *)
OtherWrite ==
  /\ \E v \in Values : Store(v)
  /\ UNCHANGED <<pc, body, existing, result, readAt>>

Caller(c) ==
  \/ \E v \in Values : Get(c, v)
  \/ GetFails(c) \/ Land(c) \/ Refuse(c) \/ Lose(c)
  \/ ReturnOk(c) \/ ReturnError(c) \/ DeleteDynamic(c)

Next == (\E c \in Callers : Caller(c)) \/ OtherWrite

Spec == Init /\ [][Next]_vars

-----------------------------------------------------------------------------
Object == [version : Nat, value : Values \cup {NoValue}]

TypeOK ==
  /\ object \in Object
  /\ revision \in Nat
  /\ pc \in [Callers -> {"idle", "replace", "create", "landed", "refused", "lost"}]
  /\ body \in [Callers -> Values \cup {NoValue}]
  /\ existing \in [Callers -> Object]
  /\ result \in [Callers -> {"nothing", "ok", "error"}]
  /\ readAt \in [Callers -> Nat]

(* apply_dynamic is an optimistic update: it overwrites exactly the object *)
(* it read, or creates one where it found none, and "ok" means it did.     *)
StateOf(label) ==
  CASE label \in {"replace", "create"} -> "open"
    [] label = "landed" -> "committed"
    [] label \in {"refused", "lost"} -> "aborted"
    [] OTHER -> "idle"

Optimistic == INSTANCE AtomicUpdate WITH
  cell <- object, versions <- revision,
  state <- [c \in Callers |-> StateOf(pc[c])],
  base <- existing,
  told <- result

IsOptimistic == Optimistic!Spec

(* A refused write is somebody else's progress: the object has changed     *)
(* since the caller's get, so two callers never refuse each other.         *)
RefusalIsProgress ==
  \A c \in Callers : pc[c] = "refused" => revision > readAt[c]
=============================================================================

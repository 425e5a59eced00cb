---------------------------- MODULE AtomicUpdate ----------------------------
(***************************************************************************)
(* What an optimistic update of one stored object promises.  A caller      *)
(* takes the object as its base; its update takes effect at one instant,   *)
(* at which the object still is that base; and it is told "ok" only if it  *)
(* took effect.  Versions never repeat, so "still is" is not fooled by an  *)
(* object that changed and changed back.                                   *)
(***************************************************************************)
EXTENDS Naturals

CONSTANTS Callers, Values, NoValue

VARIABLES cell,     \* the object: its version and value
          versions, \* the highest version given out
          state,    \* per caller: what became of its update
          base,     \* per caller: the object it builds on
          told      \* per caller: what the last call returned

vars == <<cell, versions, state, base, told>>

None == [version |-> 0, value |-> NoValue]

Init ==
  /\ cell = None /\ versions = 0
  /\ state = [c \in Callers |-> "idle"]
  /\ base = [c \in Callers |-> None]
  /\ told = [c \in Callers |-> "nothing"]

Begin(c) ==
  /\ state[c] = "idle"
  /\ state' = [state EXCEPT ![c] = "open"]
  /\ base' = [base EXCEPT ![c] = cell]
  /\ UNCHANGED <<cell, versions, told>>

Commit(c) ==
  /\ state[c] = "open"
  /\ cell = base[c]
  /\ versions' = versions + 1
  /\ \E v \in Values : cell' = [version |-> versions', value |-> v]
  /\ state' = [state EXCEPT ![c] = "committed"]
  /\ UNCHANGED <<base, told>>

Abort(c) ==
  /\ state[c] = "open"
  /\ state' = [state EXCEPT ![c] = "aborted"]
  /\ UNCHANGED <<cell, versions, base, told>>

(* A call that fails before it has a base.                                 *)
Fail(c) ==
  /\ state[c] = "idle"
  /\ told' = [told EXCEPT ![c] = "error"]
  /\ UNCHANGED <<cell, versions, state, base>>

(* A committed update may still be reported as failed, never the reverse.  *)
Tell(c) ==
  /\ state[c] \in {"committed", "aborted"}
  /\ \E t \in {"ok", "error"} :
       /\ t = "ok" => state[c] = "committed"
       /\ told' = [told EXCEPT ![c] = t]
  /\ state' = [state EXCEPT ![c] = "idle"]
  /\ base' = [base EXCEPT ![c] = None]
  /\ UNCHANGED <<cell, versions>>

(* Everybody else.                                                         *)
Write ==
  /\ versions' = versions + 1
  /\ \E v \in Values : cell' = [version |-> versions', value |-> v]
  /\ UNCHANGED <<state, base, told>>

Remove ==
  /\ cell' = None
  /\ versions' = versions + 1
  /\ UNCHANGED <<state, base, told>>

Next ==
  \/ \E c \in Callers : Begin(c) \/ Commit(c) \/ Abort(c) \/ Tell(c) \/ Fail(c)
  \/ Write \/ Remove

Spec == Init /\ [][Next]_vars
=============================================================================

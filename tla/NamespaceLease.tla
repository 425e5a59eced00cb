--------------------------- MODULE NamespaceLease ---------------------------
(***************************************************************************)
(* What the life of the generated tests promises of their namespaces: a    *)
(* name is leased to one test at a time, is used only by the test that     *)
(* holds it, and is given back only by a test that has passed.  A test     *)
(* that is given up may still be granted the name it asked for; then it    *)
(* has it for good.                                                        *)
(***************************************************************************)
CONSTANTS Tests, Names, NoTest

VARIABLES holder,   \* per name: the test it is leased to, or NoTest
          stage,    \* per test
          wants     \* per test: the name it asks for

leaseVars == <<holder, stage, wants>>

Init ==
  /\ holder = [n \in Names |-> NoTest]
  /\ stage = [t \in Tests |-> "before"]
  /\ wants \in [Tests -> Names]

Stage(t, from, to) == stage[t] \in from /\ stage' = [stage EXCEPT ![t] = to]

Grant(t) ==
  /\ stage[t] \in {"before", "over"} /\ holder[wants[t]] = NoTest
  /\ holder' = [holder EXCEPT ![wants[t]] = t]
  /\ UNCHANGED <<stage, wants>>

Use(t) ==
  /\ Stage(t, {"before"}, "using") /\ holder[wants[t]] = t
  /\ UNCHANGED <<holder, wants>>

Pass(t) == Stage(t, {"using"}, "passed") /\ UNCHANGED <<holder, wants>>

GiveUp(t) == Stage(t, {"before", "using"}, "over") /\ UNCHANGED <<holder, wants>>

GiveBack(t) ==
  /\ stage[t] = "passed" /\ holder[wants[t]] = t
  /\ holder' = [holder EXCEPT ![wants[t]] = NoTest]
  /\ UNCHANGED <<stage, wants>>

Next == \E t \in Tests : Grant(t) \/ Use(t) \/ Pass(t) \/ GiveUp(t) \/ GiveBack(t)

Spec == Init /\ [][Next]_leaseVars
=============================================================================

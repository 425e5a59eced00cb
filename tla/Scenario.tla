------------------------------ MODULE Scenario ------------------------------
(***************************************************************************)
(* Given/when/then scenarios and lists of steps (scenario.rs), whose       *)
(* actions may run a command and look at its end (runner.rs).              *)
(*                                                                         *)
(* The test writes its steps one call after another; each call that names  *)
(* a step replaces the one that the scenario had, and `when`, which makes  *)
(* a scenario of another type, forgets the `then` written before it.       *)
(***************************************************************************)
EXTENDS Naturals, Sequences

CONSTANT MaxWritten   \* bound: steps in the text of a test

ASSUME ScenarioAssumption == MaxWritten \in Nat

VARIABLES form,      \* Scenario or Steps
          written,   \* history: the calls of the builder
          holds,     \* per step: the call whose closure it has, 0: none
          turn,      \* what runs next: a step, or the number of one of Steps
          exitCode,  \* of the command that `when` ran
          commandEnd,\* history: how the command really ended
          held,      \* history: the calls whose closure has run and was content
          verdict

scenarioVars == <<form, written, holds, turn, exitCode, commandEnd, held, verdict>>

NoClosures == [given |-> 0, when |-> 0, then |-> 0]

ScenarioInit ==
  /\ form \in {"Scenario", "Steps"}
  /\ written = <<>> /\ holds = NoClosures
  /\ turn = 0 /\ exitCode = 0 /\ commandEnd = "none"
  /\ held = {} /\ verdict = "writing"

Write(step, closures) ==
  /\ verdict = "writing" /\ Len(written) < MaxWritten
  /\ written' = Append(written, step)
  /\ holds' = closures
  /\ UNCHANGED <<form, turn, exitCode, commandEnd, held, verdict>>

Now == Len(written) + 1
Given == form = "Scenario" /\ Write("given", [holds EXCEPT !.given = Now])
When == form = "Scenario" /\ Write("when", [holds EXCEPT !.when = Now, !.then = 0])
Then == form = "Scenario" /\ Write("then", [holds EXCEPT !.then = Now])
Step == form = "Steps" /\ Write("step", holds)

-----------------------------------------------------------------------------
(* run.                                                                    *)

Run ==
  /\ verdict = "writing"
  /\ verdict' = "running" /\ turn' = 1
  /\ UNCHANGED <<form, written, holds, exitCode, commandEnd, held>>

(* `setup().await?`: an error ends the scenario, a panic the whole test.   *)
(* Mutation: the error is only printed.                                    *)
OutcomeUnheeded(call, outcome) ==
  /\ held' = IF outcome = "ok" THEN held \cup {call} ELSE held
  /\ IF outcome = "panic" THEN verdict' = outcome /\ UNCHANGED turn
     ELSE turn' = turn + 1 /\ UNCHANGED verdict
Outcome(call, outcome) ==
  /\ held' = IF outcome = "ok" THEN held \cup {call} ELSE held
  /\ IF outcome = "ok" THEN turn' = turn + 1 /\ UNCHANGED verdict
     ELSE verdict' = outcome /\ UNCHANGED turn

IsTurn(n) == verdict = "running" /\ turn = n
Skip == turn' = turn + 1 /\ UNCHANGED <<held, verdict>>

RunGiven ==
  /\ form = "Scenario" /\ IsTurn(1)
  /\ IF holds.given = 0 THEN Skip
     ELSE \E outcome \in {"ok", "error", "panic"} : Outcome(holds.given, outcome)
  /\ UNCHANGED <<form, written, holds, exitCode, commandEnd>>

(* Command::output: no program is an error; a command that a signal ended  *)
(* has no code and gets one that is not 0 (-1 in the code).                *)
Ends == {"success", "failure", "signal", "no such command"}
Code(end) == CASE end = "success" -> 0 [] end = "failure" -> 1 [] end = "signal" -> 255

RunWhen ==
  /\ form = "Scenario" /\ IsTurn(2)
  /\ IF holds.when = 0 THEN Skip /\ UNCHANGED <<exitCode, commandEnd>>
     ELSE \E end \in Ends :
            /\ commandEnd' = end
            /\ IF end = "no such command"
               THEN Outcome(holds.when, "error") /\ UNCHANGED exitCode
               ELSE /\ exitCode' = Code(end)
                    /\ \E outcome \in {"ok", "panic"} : Outcome(holds.when, outcome)
  /\ UNCHANGED <<form, written, holds>>

(* The assertion is that the command passed: exit code 0.  Its panic is    *)
(* caught and becomes an error; so is a `then` without a result.           *)
RunThen ==
  /\ form = "Scenario" /\ IsTurn(3)
  /\ IF holds.then = 0 THEN Skip
     ELSE Outcome(holds.then, IF holds.when # 0 /\ exitCode = 0 THEN "ok" ELSE "error")
  /\ UNCHANGED <<form, written, holds, exitCode, commandEnd>>

RunStep ==
  /\ form = "Steps" /\ verdict = "running" /\ turn <= Len(written)
  /\ \E outcome \in {"ok", "error", "panic"} : Outcome(turn, outcome)
  /\ UNCHANGED <<form, written, holds, exitCode, commandEnd>>

Pass ==
  /\ IsTurn(IF form = "Scenario" THEN 4 ELSE Now)
  /\ verdict' = "ok"
  /\ UNCHANGED <<form, written, holds, turn, exitCode, commandEnd, held>>

ScenarioNext ==
  \/ Given \/ When \/ Then \/ Step
  \/ Run \/ RunGiven \/ RunWhen \/ RunThen \/ RunStep \/ Pass

-----------------------------------------------------------------------------
(* A call of the builder that the run has no use for: the same step is     *)
(* written again, or this is a `then` and the `when` is written after it.  *)
Superseded(i) ==
  \E j \in (i + 1)..Len(written) :
    written[j] = written[i] \/ (written[i] = "then" /\ written[j] = "when")

EverythingHeld ==
  /\ \A i \in DOMAIN written :
       i \in held \/ (form = "Scenario" /\ Superseded(i))
  /\ (\E i \in held : written[i] = "then") => commandEnd = "success"
=============================================================================

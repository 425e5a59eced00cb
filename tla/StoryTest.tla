------------------------------ MODULE StoryTest -----------------------------
(***************************************************************************)
(* A generated test (SeppoTest) whose body is a scenario (Scenario) and    *)
(* whose failure is diagnosed (Diagnostics): the body ends as the run of   *)
(* the scenario does, and the test panics again only after the report, or  *)
(* with the report.                                                        *)
(***************************************************************************)
EXTENDS SeppoTest, Scenario, Diagnostics

CONSTANT Narrator
ASSUME NarratorAssumption == Narrator \in Tests

storyVars == <<vars, scenarioVars, diagnosticsVars>>

StoryInit == Init /\ ScenarioInit /\ DiagnosticsInit

(* The body: `Scenario::new(..)...run().await`, whose Err is the Err of    *)
(* the body.                                                               *)
Tell ==
  /\ pc[Narrator] = "running"
  /\ ScenarioNext
  /\ UNCHANGED <<vars, diagnosticsVars>>

EndOfStory ==
  /\ \/ verdict = "ok" /\ BodyPasses(Narrator)
     \/ verdict \in {"error", "panic"} /\ BodyFails(Narrator)
  /\ UNCHANGED <<scenarioVars, diagnosticsVars>>

BeginReport ==
  /\ pc[Narrator] = "diagnosing" /\ printed.end = "open"
  /\ Collect("collect_diagnostics")
  /\ UNCHANGED <<vars, scenarioVars>>

GoOnReport ==
  /\ pc[Narrator] = "diagnosing"
  /\ Collecting
  /\ UNCHANGED <<vars, scenarioVars>>

(* A print that breaks off panics in the place of the body's own panic.    *)
Rethrow ==
  /\ printed.end \in {"whole", "broken"}
  /\ Diagnose(Narrator)
  /\ UNCHANGED <<scenarioVars, diagnosticsVars>>

(* The test and its namespace, but for the three steps above.              *)
Around ==
  /\ \/ NoClient(Narrator) \/ Create(Narrator) \/ NewFails(Narrator) \/ NewReturns(Narrator)
     \/ CleanupReturns(Narrator) \/ CleanupFails(Narrator)
     \/ ServeCreate(Narrator) \/ ServeDelete(Narrator) \/ Kill(Narrator)
     \/ \E n \in Names : Finalize(n)
  /\ UNCHANGED <<scenarioVars, diagnosticsVars>>

Over ==
  /\ pc[Narrator] \in Finished
  /\ UNCHANGED storyVars

StoryNext == Tell \/ EndOfStory \/ BeginReport \/ GoOnReport \/ Rethrow \/ Around \/ Over

StorySpec == StoryInit /\ [][StoryNext]_storyVars

-----------------------------------------------------------------------------
(* A test that passed did what it says: every step that was written has    *)
(* run and held, in the namespace of the test, and a command that was      *)
(* asserted to pass did; left out are only steps that were written again,  *)
(* and a `then` that was written before its `when`.                        *)
PassedMeansHeld ==
  verdict # "writing" =>  \* the body of this test is the scenario
    /\ body[Narrator] = "passed" => EverythingHeld
    /\ pc[Narrator] = "failed" /\ body[Narrator] = "failed" =>
         ~EverythingHeld /\ printed.end # "open"
=============================================================================

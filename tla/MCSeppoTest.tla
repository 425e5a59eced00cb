---------------------------- MODULE MCSeppoTest -----------------------------
(* SeppoTest on three tests that draw from two names; one test with a      *)
(* scenario for its body and a report at its end; and reports of other     *)
(* kinds.  Which of the three a behaviour is about is picked at the start; *)
(* the namespace of a scenario has no pods, the reports are about two.     *)
EXTENDS StoryTest

VARIABLE part

MCInit ==
  /\ StoryInit
  /\ part \in {"tests", "story", "reports"}
  /\ part # "tests" => \A t, u \in Tests : name[t] = name[u]
  /\ part # "story" => form = "Scenario"
  /\ part = "reports" => ~keepAll
  /\ part # "reports" => \A p \in PodNames : logOf[p] = "gone"
  /\ part = "tests" => happened = {}
  /\ part = "story" => \A e \in happened : e.cuts = {"report"}

MCNext ==
  /\ UNCHANGED part
  /\ IF part = "tests" THEN Next /\ UNCHANGED <<scenarioVars, diagnosticsVars>>
     ELSE IF part = "story" THEN StoryNext /\ UNCHANGED <<logOf, happened>>
     ELSE DiagnosticsNext /\ UNCHANGED <<vars, scenarioVars>>

(* One that every report shows, one for each report that breaks it off,    *)
(* one of them without a time; and two of one time.                        *)
MCEvents == {[time |-> 1, cuts |-> {}], [time |-> 2, cuts |-> {"report"}],
             [time |-> 2, cuts |-> {}], [time |-> 0, cuts |-> {"debug"}]}

MCSpec == MCInit /\ [][MCNext]_<<storyVars, part>>
=============================================================================

-------------------------- MODULE SeppoTestProofs ---------------------------
(***************************************************************************)
(* What SeppoTest promises for any number of tests and names.  The         *)
(* inductive invariant says where the requests of a test can still be: its *)
(* create only before it has an answer, its delete only after its body     *)
(* passed, and as long as the delete is out the namespace is its own.      *)
(*                                                                         *)
(* Then StoryTest, a test whose body is a scenario: it is one of these     *)
(* tests (its steps are theirs, or none), and what its scenario has run    *)
(* is told by its turn, for texts of any length; and Diagnostics, whose    *)
(* report is told by the pods it has left to read.                         *)
(***************************************************************************)
EXTENDS StoryTest, FiniteSetTheorems, TLAPS

(* A create that is out belongs to a test that has not been answered.      *)
CreatesAreEarly ==
  \A t \in creating : pc[t] \in {"creating", "failed", "killed"} /\ body[t] = "none"

(* A test that was told of its namespace and did not delete it has it.     *)
Holds(t) ==
  \/ pc[t] \in {"created", "running", "diagnosing"}
  \/ body[t] = "failed"
  \/ t \in deleting

HoldersHave == \A t \in Tests : Holds(t) => ns[name[t]] = Active(t)

(* The delete comes after a body that passed.                              *)
Bodies ==
  \A t \in Tests :
    /\ t \in deleting \/ pc[t] \in {"cleaning", "cleaned", "passed"} => body[t] = "passed"
    /\ pc[t] \in {"start", "creating", "created", "refused", "running"} => body[t] = "none"
    /\ pc[t] = "diagnosing" => body[t] = "failed"

Unsent == \A t \in Tests : pc[t] = "start" => t \notin creating

(* Once the delete was answered the namespace is not active, or not his.   *)
Deleted ==
  \A t \in Tests :
    \/ pc[t] = "cleaned"
    \/ pc[t] = "passed" /\ ~keepAll /\ t \notin warned
    => t \notin deleting /\ t \notin creating /\ ns[name[t]] # Active(t)

Cleaning == \A t \in Tests : pc[t] = "cleaning" => t \in deleting

IInv ==
  /\ TypeOK /\ CreatesAreEarly /\ HoldersHave /\ Bodies
  /\ Unsent /\ Deleted /\ Cleaning

-----------------------------------------------------------------------------
LEMMA InitIInv == Init => IInv
BY NoTestAssumption
   DEF Init, IInv, TypeOK, CreatesAreEarly, HoldersHave, Holds, Bodies, Unsent,
       Deleted, Cleaning, Gone, Namespace, Labels, Finished

(* The steps of a test that leave the namespaces alone.                    *)
LEMMA TestStep ==
  ASSUME IInv, NEW t \in Tests, Test(t)
  PROVE  IInv'
<1> USE DEF IInv, TypeOK, Labels, Finished, Goto
<1>1. CASE NoClient(t)
  BY <1>1 DEF NoClient, CreatesAreEarly, HoldersHave, Holds, Bodies, Unsent, Deleted, Cleaning
<1>2. CASE Create(t)
  BY <1>2 DEF Create, CreatesAreEarly, HoldersHave, Holds, Bodies, Unsent, Deleted, Cleaning
<1>3. CASE NewFails(t)
  BY <1>3 DEF NewFails, CreatesAreEarly, HoldersHave, Holds, Bodies, Unsent, Deleted, Cleaning
<1>4. CASE NewReturns(t)
  BY <1>4 DEF NewReturns, CreatesAreEarly, HoldersHave, Holds, Bodies, Unsent, Deleted, Cleaning
<1>5. CASE BodyFails(t)
  BY <1>5 DEF BodyFails, CreatesAreEarly, HoldersHave, Holds, Bodies, Unsent, Deleted, Cleaning
<1>6. CASE Diagnose(t)
  BY <1>6 DEF Diagnose, CreatesAreEarly, HoldersHave, Holds, Bodies, Unsent, Deleted, Cleaning
<1>7. CASE BodyPasses(t)
  BY <1>7 DEF BodyPasses, CreatesAreEarly, HoldersHave, Holds, Bodies, Unsent, Deleted, Cleaning
<1>8. CASE CleanupReturns(t)
  BY <1>8 DEF CleanupReturns, CreatesAreEarly, HoldersHave, Holds, Bodies, Unsent, Deleted, Cleaning
<1>9. CASE CleanupFails(t)
  BY <1>9 DEF CleanupFails, CreatesAreEarly, HoldersHave, Holds, Bodies, Unsent, Deleted, Cleaning
<1> QED BY <1>1, <1>2, <1>3, <1>4, <1>5, <1>6, <1>7, <1>8, <1>9 DEF Test

LEMMA KillStep ==
  ASSUME IInv, NEW t \in Tests, Kill(t)
  PROVE  IInv'
BY DEF IInv, Kill, TypeOK, Labels, Finished, Goto, CreatesAreEarly, HoldersHave, Holds,
       Bodies, Unsent, Deleted, Cleaning

(* A create takes a name only when nobody has it.                          *)
LEMMA ServeCreateStep ==
  ASSUME IInv, NEW t \in Tests, ServeCreate(t)
  PROVE  IInv'
<1> USE NoTestAssumption DEF IInv, TypeOK
<1>1. TypeOK'
  BY DEF ServeCreate, Labels, Finished, Active, Namespace
<1>2. HoldersHave'
  BY DEF ServeCreate, HoldersHave, Holds, CreatesAreEarly, Bodies, Active, Gone
<1>3. Deleted'
  BY DEF ServeCreate, Deleted, CreatesAreEarly, Bodies, Active, Gone
<1>4. CreatesAreEarly' /\ Bodies' /\ Unsent' /\ Cleaning'
  BY DEF ServeCreate, CreatesAreEarly, Bodies, Unsent, Cleaning
<1> QED BY <1>1, <1>2, <1>3, <1>4

(* A delete takes the namespace of its own test: no other test has it.     *)
LEMMA ServeDeleteStep ==
  ASSUME IInv, NEW t \in Tests, ServeDelete(t)
  PROVE  IInv'
<1> USE NoTestAssumption DEF IInv, TypeOK
<1>1. ns[name[t]] = Active(t)
  BY DEF ServeDelete, HoldersHave, Holds
<1>2. TypeOK'
  BY <1>1 DEF ServeDelete, Labels, Finished, Active, Namespace
<1>3. HoldersHave'
  BY <1>1 DEF ServeDelete, HoldersHave, Holds, Bodies, Active
<1>4. Deleted'
  BY <1>1 DEF ServeDelete, Deleted, CreatesAreEarly, Bodies, Active
<1>5. CreatesAreEarly' /\ Bodies' /\ Unsent' /\ Cleaning'
  BY DEF ServeDelete, CreatesAreEarly, Bodies, Unsent, Cleaning
<1> QED BY <1>2, <1>3, <1>4, <1>5

LEMMA FinalizeStep ==
  ASSUME IInv, NEW n \in Names, Finalize(n)
  PROVE  IInv'
BY NoTestAssumption
   DEF IInv, Finalize, TypeOK, Namespace, CreatesAreEarly, HoldersHave, Holds, Bodies,
       Unsent, Deleted, Cleaning, Active, Gone

(* The invariant of the life of the generated tests.                       *)
THEOREM Invariant == Spec => []IInv
<1>1. IInv /\ [Next]_vars => IInv'
  <2> SUFFICES ASSUME IInv, [Next]_vars PROVE IInv'
    OBVIOUS
  <2>1. CASE UNCHANGED vars
    BY <2>1 DEF vars, IInv, TypeOK, CreatesAreEarly, HoldersHave, Holds, Bodies, Unsent,
                Deleted, Cleaning
  <2> QED BY <2>1, TestStep, ServeCreateStep, ServeDeleteStep, KillStep, FinalizeStep
          DEF Next, AllEnded
<1> QED BY InitIInv, <1>1, PTL DEF Spec

(* Every variable keeps its type.                                          *)
THEOREM TypeCorrect == Spec => []TypeOK
BY Invariant, PTL DEF IInv

(* A running test has a namespace of its own, whatever the names drawn and *)
(* however late requests are served.                                       *)
THEOREM TestsAreIsolated == Spec => []OwnNamespace
<1>1. IInv => OwnNamespace
  BY DEF IInv, HoldersHave, Holds, OwnNamespace
<1> QED BY <1>1, Invariant, PTL

(* The namespace of a failed body is never deleted.                        *)
THEOREM FailuresAreKept == Spec => []KeptOnFailure
<1>1. IInv => KeptOnFailure
  BY DEF IInv, HoldersHave, Holds, KeptOnFailure
<1> QED BY <1>1, Invariant, PTL

(* A test that passes without a warning has had its namespace deleted.     *)
THEOREM SilenceIsTruthful == Spec => []SilenceMeansDeleted
<1>1. IInv => SilenceMeansDeleted
  BY DEF IInv, Deleted, SilenceMeansDeleted
<1> QED BY <1>1, Invariant, PTL

-----------------------------------------------------------------------------
(* The refinement: what of a step the lease sees.                          *)
Held(n) == IF ns[n].state = "active" THEN ns[n].owner ELSE NoTest
Holder == [n \in Names |-> Held(n)]
StageFn == [t \in Tests |-> StageOf(t)]
LeaseVars == <<Holder, StageFn, name>>

LEMMA StageMoves ==
  ASSUME IInv, NEW t \in Tests,
         \A u \in Tests \ {t} : pc'[u] = pc[u] /\ body'[u] = body[u]
  PROVE  StageFn' = [StageFn EXCEPT ![t] = StageOf(t)']
<1>1. \A u \in Tests \ {t} : StageOf(u)' = StageOf(u)
  BY DEF StageOf
<1>2. StageFn' = [u \in Tests |-> StageOf(u)']
  BY DEF StageFn
<1>3. StageFn = [u \in Tests |-> StageOf(u)]
  BY DEF StageFn
<1> QED BY <1>1, <1>2, <1>3

LEMMA TestStepIsLeased ==
  ASSUME IInv, NEW t \in Tests, Test(t)
  PROVE  Lease!Next \/ UNCHANGED LeaseVars
<1>1. /\ pc \in [Tests -> Labels] /\ body \in [Tests -> {"none", "passed", "failed"}]
      /\ UNCHANGED <<ns, name>>
      /\ \A u \in Tests \ {t} : pc'[u] = pc[u] /\ body'[u] = body[u]
  BY DEF IInv, TypeOK, Test, NoClient, Create, NewFails, NewReturns, BodyFails, Diagnose,
         BodyPasses, CleanupReturns, CleanupFails, Goto
<1>2. UNCHANGED Holder
  BY <1>1 DEF Holder, Held
<1>3. StageFn' = [StageFn EXCEPT ![t] = StageOf(t)'] /\ StageFn[t] = StageOf(t)
  BY <1>1, StageMoves DEF StageFn
<1>4. CASE NewReturns(t)
  <2>1. StageOf(t) = "before" /\ StageOf(t)' = "using"
    BY <1>1, <1>4 DEF NewReturns, Goto, StageOf, IInv, Bodies
  <2>2. Holder[name[t]] = t
    <3>1. ns[name[t]] = Active(t) /\ name[t] \in Names
      BY <1>4 DEF NewReturns, IInv, HoldersHave, Holds, TypeOK
    <3> QED BY <3>1 DEF Holder, Held, Active
  <2>3. Lease!Use(t)
    BY <1>1, <1>2, <1>3, <2>1, <2>2
       DEF Lease!Use, Lease!Stage, Holder, Held, StageFn
  <2> QED BY <2>3 DEF Lease!Next
<1>5. CASE BodyPasses(t)
  <2>1. StageOf(t) = "using" /\ StageOf(t)' = "passed"
    BY <1>1, <1>5 DEF BodyPasses, Goto, StageOf
  <2>2. Lease!Pass(t)
    BY <1>1, <1>2, <1>3, <2>1 DEF Lease!Pass, Lease!Stage, Holder, Held, StageFn
  <2> QED BY <2>2 DEF Lease!Next
<1>6. CASE NoClient(t) \/ NewFails(t) \/ Diagnose(t)
  <2>1. StageOf(t) \in {"before", "using"} /\ StageOf(t)' = "over"
    BY <1>1, <1>6 DEF NoClient, NewFails, Diagnose, Goto, StageOf, IInv, Bodies
  <2>2. Lease!GiveUp(t)
    BY <1>1, <1>2, <1>3, <2>1 DEF Lease!GiveUp, Lease!Stage, Holder, Held, StageFn
  <2> QED BY <2>2 DEF Lease!Next
<1>7. CASE Create(t) \/ BodyFails(t) \/ CleanupReturns(t) \/ CleanupFails(t)
  <2>1. StageOf(t)' = StageOf(t)
    BY <1>1, <1>7 DEF Create, BodyFails, CleanupReturns, CleanupFails, Goto, StageOf, IInv, Bodies
  <2>2. StageFn' = StageFn
    BY <1>3, <2>1 DEF StageFn
  <2> QED BY <1>1, <1>2, <2>2 DEF LeaseVars
<1> QED BY <1>4, <1>5, <1>6, <1>7 DEF Test

LEMMA KillIsLeased ==
  ASSUME IInv, NEW t \in Tests, Kill(t)
  PROVE  Lease!Next \/ UNCHANGED LeaseVars
<1>1. /\ pc \in [Tests -> Labels] /\ body \in [Tests -> {"none", "passed", "failed"}]
      /\ UNCHANGED <<ns, name, body>> /\ pc' = [pc EXCEPT ![t] = "killed"]
      /\ pc[t] \in Labels \ Finished
  BY DEF IInv, TypeOK, Kill, Goto
<1>2. UNCHANGED Holder
  BY <1>1 DEF Holder, Held
<1>3. StageFn' = [StageFn EXCEPT ![t] = StageOf(t)'] /\ StageFn[t] = StageOf(t)
  BY <1>1, StageMoves DEF StageFn
<1>4. CASE body[t] = "passed"
  <2>1. StageOf(t)' = StageOf(t)
    BY <1>1, <1>4 DEF StageOf, IInv, Bodies
  <2>2. StageFn' = StageFn
    BY <1>3, <2>1 DEF StageFn
  <2> QED BY <1>1, <1>2, <2>2 DEF LeaseVars
<1>5. CASE body[t] # "passed"
  <2>1. StageOf(t) \in {"before", "using"} /\ StageOf(t)' = "over"
    BY <1>1, <1>5 DEF StageOf, IInv, Bodies, Labels, Finished
  <2>2. Lease!GiveUp(t)
    BY <1>1, <1>2, <1>3, <2>1 DEF Lease!GiveUp, Lease!Stage, Holder, Held, StageFn
  <2> QED BY <2>2 DEF Lease!Next
<1> QED BY <1>4, <1>5

LEMMA ServeCreateIsLeased ==
  ASSUME IInv, NEW t \in Tests, ServeCreate(t)
  PROVE  Lease!Next \/ UNCHANGED LeaseVars
<1>1. /\ pc \in [Tests -> Labels] /\ ns \in [Names -> Namespace] /\ name[t] \in Names
      /\ pc[t] \in {"creating", "failed", "killed"} /\ body[t] = "none"
      /\ UNCHANGED <<name, body>>
      /\ \A u \in Tests \ {t} : pc'[u] = pc[u] /\ body'[u] = body[u]
      /\ pc'[t] \in IF pc[t] = "creating" THEN {"created", "refused"} ELSE {pc[t]}
  BY DEF IInv, TypeOK, CreatesAreEarly, ServeCreate
<1>2. StageOf(t)' = StageOf(t) /\ StageOf(t) \in {"before", "over"}
  BY <1>1 DEF StageOf
<1>3. UNCHANGED StageFn /\ StageFn[t] = StageOf(t)
  <2>1. StageFn' = [StageFn EXCEPT ![t] = StageOf(t)'] /\ StageFn[t] = StageOf(t)
    BY <1>1, StageMoves DEF StageFn
  <2> QED BY <1>2, <2>1 DEF StageFn
<1>4. CASE ns[name[t]] = Gone
  <2>1. ns' = [ns EXCEPT ![name[t]] = Active(t)]
    BY <1>4 DEF ServeCreate
  <2>2. Holder[name[t]] = NoTest
    BY <1>1, <1>4 DEF Holder, Held, Gone
  <2>3. Holder' = [Holder EXCEPT ![name[t]] = t]
    BY <1>1, <2>1 DEF Holder, Held, Active
  <2>4. Lease!Grant(t)
    BY <1>1, <1>2, <1>3, <2>2, <2>3 DEF Lease!Grant, Holder, Held, StageFn
  <2> QED BY <2>4 DEF Lease!Next
<1>5. CASE ns[name[t]] # Gone
  <2>1. UNCHANGED Holder
    BY <1>5 DEF ServeCreate, Holder, Held
  <2> QED BY <1>1, <1>3, <2>1 DEF LeaseVars
<1> QED BY <1>4, <1>5

LEMMA ServeDeleteIsLeased ==
  ASSUME IInv, NEW t \in Tests, ServeDelete(t)
  PROVE  Lease!Next \/ UNCHANGED LeaseVars
<1>1. /\ pc \in [Tests -> Labels] /\ ns \in [Names -> Namespace] /\ name[t] \in Names
      /\ t \in deleting /\ ns[name[t]] = Active(t) /\ body[t] = "passed"
      /\ UNCHANGED <<name, body>>
      /\ ns' = [ns EXCEPT ![name[t]].state = "terminating"]
      /\ \A u \in Tests \ {t} : pc'[u] = pc[u] /\ body'[u] = body[u]
      /\ pc'[t] = IF pc[t] = "cleaning" THEN "cleaned" ELSE pc[t]
  BY DEF IInv, TypeOK, HoldersHave, Holds, Bodies, ServeDelete, Active
<1>2. StageOf(t)' = StageOf(t) /\ StageOf(t) = "passed"
  BY <1>1 DEF StageOf, IInv, Bodies
<1>3. UNCHANGED StageFn /\ StageFn[t] = StageOf(t)
  <2>1. StageFn' = [StageFn EXCEPT ![t] = StageOf(t)'] /\ StageFn[t] = StageOf(t)
    BY <1>1, StageMoves DEF StageFn
  <2> QED BY <1>2, <2>1 DEF StageFn
<1>4. Holder[name[t]] = t
  BY <1>1 DEF Holder, Held, Active
<1>5. Holder' = [Holder EXCEPT ![name[t]] = NoTest]
  BY <1>1 DEF Holder, Held, Namespace
<1>6. Lease!GiveBack(t)
  BY <1>1, <1>2, <1>3, <1>4, <1>5 DEF Lease!GiveBack, Holder, Held, StageFn
<1> QED BY <1>6 DEF Lease!Next

(* The tests implement NamespaceLease: every step is one of a lease, or    *)
(* none of its business.                                                   *)
THEOREM TestsImplementLease == Spec => NamespacesAreLeased
<1>1. Init => Lease!Init
  BY DEF Init, Lease!Init, StageOf, Gone
<1>2. IInv /\ [Next]_vars => [Lease!Next]_LeaseVars
  <2> SUFFICES ASSUME IInv, [Next]_vars PROVE Lease!Next \/ UNCHANGED LeaseVars
    OBVIOUS
  <2>1. ASSUME NEW n \in Names, Finalize(n) PROVE UNCHANGED LeaseVars
    <3>1. UNCHANGED <<pc, body, name>> /\ UNCHANGED Holder
      BY <2>1 DEF Finalize, Holder, Held, Gone, IInv, TypeOK
    <3> QED BY <3>1 DEF LeaseVars, StageFn, StageOf
  <2>2. CASE UNCHANGED vars
    BY <2>2 DEF vars, LeaseVars, Holder, Held, StageFn, StageOf
  <2> QED BY <2>1, <2>2, TestStepIsLeased, KillIsLeased, ServeCreateIsLeased,
             ServeDeleteIsLeased DEF Next, AllEnded
<1>3. LeaseVars = Lease!leaseVars
  BY DEF LeaseVars, Lease!leaseVars, Holder, Held, StageFn
<1> QED BY <1>1, <1>2, <1>3, Invariant, PTL
        DEF Spec, NamespacesAreLeased, Lease!Spec, Lease!leaseVars, LeaseVars, Holder, Held, StageFn

-----------------------------------------------------------------------------
(* Scenario.  The closures that a scenario has are the last of each step,  *)
(* and all but these are superseded.                                       *)
StepNames == {"given", "when", "then"}
StepAt(n) == CASE n = 1 -> "given" [] n = 2 -> "when" [] n = 3 -> "then"

ScenarioTypes ==
  /\ form \in {"Scenario", "Steps"}
  /\ written \in Seq(StepNames \cup {"step"})
  /\ holds \in [given : Nat, when : Nat, then : Nat]
  /\ turn \in Nat
  /\ exitCode \in {0, 1, 255}
  /\ commandEnd \in Ends \cup {"none"}
  /\ verdict \in {"writing", "running", "ok", "error", "panic"}

Written ==
  form = "Scenario" =>
    /\ written \in Seq(StepNames)
    /\ \A i \in DOMAIN written : holds[written[i]] = i \/ Superseded(i)
    /\ \A s \in StepNames :
         holds[s] # 0 =>
           holds[s] \in DOMAIN written /\ written[holds[s]] = s /\ ~Superseded(holds[s])

(* What has run is what comes before the turn; a scenario that failed did  *)
(* so in a step that it has.                                               *)
Ran ==
  /\ verdict = "writing" => turn = 0
  /\ form = "Scenario" =>
       /\ turn <= 4 /\ (verdict # "writing" => turn >= 1)
       /\ held = {holds[StepAt(n)] : n \in {m \in 1..3 : m < turn}} \ {0}
       /\ verdict = "ok" => turn = 4
       /\ verdict \in {"error", "panic"} => turn <= 3 /\ holds[StepAt(turn)] # 0
  /\ form = "Steps" =>
       /\ turn <= Now /\ (verdict # "writing" => turn >= 1)
       /\ held = {i \in DOMAIN written : i < turn}
       /\ \A i \in DOMAIN written : written[i] = "step"
       /\ verdict = "ok" => turn = Now
       /\ verdict \in {"error", "panic"} => turn <= Len(written)

(* The command is behind the scenario after `when`; and `then` is content  *)
(* with nothing but success.                                               *)
Commanded ==
  form = "Scenario" =>
    /\ turn > 2 /\ holds.when # 0 /\ exitCode = 0 => commandEnd = "success"
    /\ turn > 3 /\ holds.then # 0 => commandEnd = "success"

ScenarioInv == ScenarioTypes /\ Written /\ Ran /\ Commanded

LEMMA ScenarioInitInv == ScenarioInit => ScenarioInv
BY DEF ScenarioInit, ScenarioInv, ScenarioTypes, Written, Ran, Commanded, NoClosures,
       StepNames, StepAt, Now

(* One more call of the builder: what it does to the calls before it.      *)
LEMMA AppendSupersedes ==
  ASSUME NEW s \in StepNames \cup {"step"}, written \in Seq(StepNames \cup {"step"}),
         written' = Append(written, s)
  PROVE  /\ Len(written') = Len(written) + 1
         /\ DOMAIN written' = DOMAIN written \cup {Now}
         /\ Now \notin DOMAIN written /\ Now \in Nat \ {0}
         /\ written'[Now] = s
         /\ \A i \in DOMAIN written : written'[i] = written[i]
         /\ \A i \in DOMAIN written :
              Superseded(i)' <=> 
                \/ Superseded(i) 
                \/ s = written[i] 
                \/ written[i] = "then" /\ s = "when"
         /\ \A i \in Nat : i = Now => ~Superseded(i)'
<1>1. Len(written) \in Nat /\ DOMAIN written = 1..Len(written)
  OBVIOUS
<1>2. /\ Len(written') = Len(written) + 1 /\ DOMAIN written' = 1..(Len(written) + 1)
      /\ written'[Len(written) + 1] = s
      /\ \A i \in 1..Len(written) : written'[i] = written[i]
  OBVIOUS
<1>3. ASSUME NEW i \in DOMAIN written
      PROVE  Superseded(i)' <=> 
                \/ Superseded(i) 
                \/ s = written[i] 
                \/ written[i] = "then" /\ s = "when"
  <2>1. (i + 1)..Len(written') = ((i + 1)..Len(written)) \cup {Len(written) + 1}
    BY <1>1, <1>2
  <2>2. \A j \in (i + 1)..Len(written) : j \in 1..Len(written)
    BY <1>1
  <2> QED BY <1>1, <1>2, <2>1, <2>2 DEF Superseded
<1>4. ASSUME NEW i \in Nat, i = Len(written) + 1
      PROVE  ~Superseded(i)'
  BY <1>1, <1>2, <1>4 DEF Superseded
<1> QED BY <1>1, <1>2, <1>3, <1>4 DEF Now

(* A call of the builder for a step leaves the closures of the last calls. *)
LEMMA WritesClosures ==
  ASSUME ScenarioInv, form = "Scenario", NEW s \in StepNames,
         NEW closures \in [given : Nat, when : Nat, then : Nat],
         Write(s, closures), closures[s] = Now,
         \A r \in StepNames \ {s} :
           closures[r] = IF r = "then" /\ s = "when" THEN 0 ELSE holds[r]
  PROVE  Written'
<1> USE DEF ScenarioInv, ScenarioTypes
<1>1. /\ written' = Append(written, s) /\ holds' = closures /\ form' = form
      /\ written \in Seq(StepNames) /\ written \in Seq(StepNames \cup {"step"})
  BY DEF Write, Written
<1>2. written' \in Seq(StepNames)
  BY <1>1
<1>3. ASSUME NEW i \in DOMAIN written'
      PROVE  holds'[written'[i]] = i \/ Superseded(i)'
  <2>1. CASE i = Now
    BY <1>1, <2>1, AppendSupersedes
  <2>2. CASE i \in DOMAIN written
    <3>1. written'[i] = written[i] /\ written[i] \in StepNames
      BY <1>1, <2>2, AppendSupersedes
    <3>2. CASE Superseded(i)
      BY <1>1, <2>2, <3>2, AppendSupersedes
    <3>3. CASE /\ holds[written[i]] = i
               /\ written[i] = s \/ (written[i] = "then" /\ s = "when")
      BY <1>1, <2>2, <3>3, AppendSupersedes
    <3>4. CASE /\ holds[written[i]] = i
               /\ written[i] # s /\ ~(written[i] = "then" /\ s = "when")
      BY <1>1, <3>1, <3>4
    <3>5. holds[written[i]] = i \/ Superseded(i)
      BY <2>2 DEF Written
    <3> QED BY <3>2, <3>3, <3>4, <3>5
  <2> QED BY <1>1, <2>1, <2>2, AppendSupersedes
<1>4. ASSUME NEW r \in StepNames, holds'[r] # 0
      PROVE  /\ holds'[r] \in DOMAIN written' /\ written'[holds'[r]] = r
             /\ ~Superseded(holds[r])'
  <2> DEFINE is(h) == /\ h \in DOMAIN written' /\ written'[h] = r
                      /\ ~Superseded(h)'
  <2>1. CASE r = s
    <3>1. PICK h \in Nat : h = Now
      BY <1>1, AppendSupersedes
    <3>2. holds'[r] = h /\ is(h)
      BY <1>1, <2>1, <3>1, AppendSupersedes
    <3> QED BY <3>2 DEF Superseded
  <2>2. CASE r # s
    <3>1. PICK h : h = holds[r]
      OBVIOUS
    <3>2. holds'[r] = h /\ ~(r = "then" /\ s = "when") /\ h # 0
      BY <1>1, <1>4, <2>2, <3>1
    <3>3. h \in DOMAIN written /\ written[h] = r /\ ~Superseded(h)
      BY <3>1, <3>2 DEF Written
    <3>4. is(h)
      BY <1>1, <2>2, <3>2, <3>3, AppendSupersedes
    <3> QED BY <3>2, <3>4 DEF Superseded
  <2> QED BY <2>1, <2>2
<1> QED BY <1>1, <1>2, <1>3, <1>4 DEF Written

(* The builder changes nothing of the run.                                 *)
LEMMA BuilderStep ==
  ASSUME ScenarioInv, Given \/ When \/ Then \/ Step
  PROVE  ScenarioInv'
<1> USE DEF ScenarioInv, ScenarioTypes
<1>1. /\ verdict = "writing" /\ turn = 0 /\ held = {}
      /\ UNCHANGED <<form, turn, exitCode, commandEnd, held, verdict>>
      /\ Len(written) \in Nat /\ Now \in Nat
  BY DEF Given, When, Then, Step, Write, Ran, Now
<1>2. PICK s \in StepNames \cup {"step"} : written' = Append(written, s)
  BY DEF Given, When, Then, Step, Write, StepNames
<1>3. written' \in Seq(StepNames \cup {"step"})
  BY <1>2
<1>4. holds' \in [given : Nat, when : Nat, then : Nat]
  <2>1. CASE Given
    BY <2>1, <1>1 DEF Given, Write
  <2>2. CASE When
    BY <2>2, <1>1 DEF When, Write
  <2>3. CASE Then
    BY <2>3, <1>1 DEF Then, Write
  <2>4. CASE Step
    BY <2>4 DEF Step, Write
  <2> QED BY <2>1, <2>2, <2>3, <2>4
<1>5. Written'
  <2>1. CASE Given
    BY <2>1, <1>1, WritesClosures DEF Given, StepNames
  <2>2. CASE When
    BY <2>2, <1>1, WritesClosures DEF When, StepNames
  <2>3. CASE Then
    BY <2>3, <1>1, WritesClosures DEF Then, StepNames
  <2>4. CASE Step
    BY <2>4 DEF Step, Write, Written
  <2> QED BY <2>1, <2>2, <2>3, <2>4
<1>6. Ran'
  <2>1. form = "Steps" => s = "step"
    BY <1>2, AppendSupersedes DEF Given, When, Then, Step, Write
  <2>2. form' = "Steps" =>
          \A i \in DOMAIN written' : written'[i] = "step"
    BY <1>1, <1>2, <2>1, AppendSupersedes DEF Ran
  <2>3. {i \in DOMAIN written' : i < turn'} = {}
    BY <1>1, <1>2, AppendSupersedes
  <2>4. Now' \in Nat
    BY <1>3 DEF Now
  <2>5. {holds[StepAt(n)] : n \in {m \in 1..3 : m < turn}}' = {}
    BY <1>1
  <2> QED BY <1>1, <2>2, <2>3, <2>4, <2>5 DEF Ran
<1>7. Commanded'
  BY <1>1 DEF Commanded
<1> QED BY <1>1, <1>3, <1>4, <1>5, <1>6, <1>7

(* A step that comes next has not run; if it is content it has.            *)
LEMMA StepRuns ==
  ASSUME ScenarioInv, form = "Scenario", verdict = "running", turn \in 1..3,
         UNCHANGED <<form, written, holds>>,
         \/ holds[StepAt(turn)] = 0 /\ Skip
         \/ /\ holds[StepAt(turn)] # 0
            /\ \E outcome \in {"ok", "error", "panic"} : Outcome(holds[StepAt(turn)], outcome)
  PROVE  Ran' /\ Written' /\ turn' \in {turn, turn + 1}
         /\ verdict' \in {"running", "error", "panic"}
<1> USE DEF ScenarioInv, ScenarioTypes
<1>1. Written'
  BY DEF Written, Superseded
<1> DEFINE ranBy(k) == {holds[StepAt(n)] : n \in {m \in 1..3 : m < k}} \ {0}
<1>2. ranBy(turn + 1) = ranBy(turn) \cup ({holds[StepAt(turn)]} \ {0})
  <2>1. {m \in 1..3 : m < turn + 1} = {m \in 1..3 : m < turn} \cup {turn}
    OBVIOUS
  <2> QED BY <2>1
<1>3. held = ranBy(turn)
  BY DEF Ran
<1> HIDE DEF ranBy
<1>4. \/ verdict' = "running" /\ turn' = turn + 1 /\ held' = ranBy(turn + 1)
      \/ /\ verdict' \in {"error", "panic"} /\ turn' = turn /\ held' = ranBy(turn)
         /\ holds[StepAt(turn)] # 0
  <2>1. CASE holds[StepAt(turn)] = 0 /\ Skip
    BY <1>2, <1>3, <2>1 DEF Skip
  <2>2. ASSUME NEW outcome \in {"ok", "error", "panic"},
               holds[StepAt(turn)] # 0, Outcome(holds[StepAt(turn)], outcome)
        PROVE  \/ verdict' = "running" /\ turn' = turn + 1 /\ held' = ranBy(turn + 1)
               \/ verdict' \in {"error", "panic"} /\ turn' = turn /\ held' = ranBy(turn)
    <3>1. CASE outcome = "ok"
      BY <1>2, <1>3, <2>2, <3>1 DEF Outcome
    <3>2. CASE outcome # "ok"
      BY <1>3, <2>2, <3>2 DEF Outcome
    <3> QED BY <3>1, <3>2
  <2> QED BY <2>1, <2>2
<1>5. held' = ranBy(turn')
  BY <1>4
<1>6. held' = {holds'[StepAt(n)] : n \in {m \in 1..3 : m < turn'}} \ {0}
  BY <1>5 DEF ranBy
<1>7. Ran'
  BY <1>4, <1>6 DEF Ran
<1> QED BY <1>1, <1>4, <1>7

(* Only success has the code 0.                                            *)
LEMMA CodeTells ==
  ASSUME NEW end \in Ends \ {"no such command"}
  PROVE  Code(end) \in {0, 1, 255} /\ (Code(end) = 0 => end = "success")
<1>1. CASE end = "success"
  BY <1>1 DEF Code
<1>2. CASE end = "failure"
  BY <1>2 DEF Code
<1>3. CASE end = "signal"
  BY <1>3 DEF Code
<1> QED BY <1>1, <1>2, <1>3 DEF Ends

(* The command of `when` tells how it ended, or could not be run at all.   *)
LEMMA WhenRuns ==
  ASSUME RunWhen, holds.when # 0
  PROVE  /\ commandEnd' \in Ends
         /\ \/ exitCode' = exitCode /\ turn' = turn
            \/ exitCode' \in {0, 1, 255} /\ (exitCode' = 0 => commandEnd' = "success")
<1>1. PICK end \in Ends :
        /\ commandEnd' = end
        /\ IF end = "no such command"
           THEN Outcome(holds.when, "error") /\ UNCHANGED exitCode
           ELSE exitCode' = Code(end)
  BY DEF RunWhen
<1>2. CASE end = "no such command"
  BY <1>1, <1>2 DEF Outcome
<1>3. CASE end # "no such command"
  BY <1>1, <1>3, CodeTells
<1> QED BY <1>1, <1>2, <1>3

LEMMA WhenIsAStep ==
  ASSUME RunWhen
  PROVE  \/ holds.when = 0 /\ Skip
         \/ holds.when # 0 /\ \E outcome \in {"ok", "error", "panic"} : Outcome(holds.when, outcome)
<1>1. CASE holds.when = 0
  BY <1>1 DEF RunWhen
<1>2. CASE holds.when # 0
  <2>1. PICK end \in Ends :
          IF end = "no such command"
          THEN Outcome(holds.when, "error")
          ELSE \E outcome \in {"ok", "panic"} : Outcome(holds.when, outcome)
    BY <1>2 DEF RunWhen
  <2> QED BY <1>2, <2>1
<1> QED BY <1>1, <1>2

LEMMA ScenarioRunStep ==
  ASSUME ScenarioInv, RunGiven \/ RunWhen \/ RunThen
  PROVE  ScenarioInv'
<1> USE DEF ScenarioInv, ScenarioTypes
<1>1. /\ form = "Scenario" /\ verdict = "running" /\ turn \in 1..3
      /\ UNCHANGED <<form, written, holds>>
      /\ \/ holds[StepAt(turn)] = 0 /\ Skip
         \/ /\ holds[StepAt(turn)] # 0
            /\ \E outcome \in {"ok", "error", "panic"} :
                 Outcome(holds[StepAt(turn)], outcome)
  <2>1. CASE RunGiven
    BY <2>1 DEF RunGiven, IsTurn, StepAt
  <2>2. CASE RunWhen
    <3>1. /\ form = "Scenario" /\ verdict = "running" /\ turn = 2
          /\ UNCHANGED <<form, written, holds>>
      BY <2>2 DEF RunWhen, IsTurn
    <3>2. \/ holds.when = 0 /\ Skip
          \/ holds.when # 0 /\ \E outcome \in {"ok", "error", "panic"} : Outcome(holds.when, outcome)
      BY <2>2, WhenIsAStep
    <3>3. StepAt(turn) = "when"
      BY <3>1 DEF StepAt
    <3> QED BY <3>1, <3>2, <3>3
  <2>3. CASE RunThen
    BY <2>3 DEF RunThen, IsTurn, StepAt
  <2> QED BY <2>1, <2>2, <2>3
<1>2. Ran' /\ Written' /\ turn' \in {turn, turn + 1} /\ verdict' \in {"running", "error", "panic"}
  BY <1>1, StepRuns
<1>3. exitCode' \in {0, 1, 255} /\ commandEnd' \in Ends \cup {"none"}
  <2>1. CASE RunGiven \/ RunThen
    BY <2>1 DEF RunGiven, RunThen
  <2>2. CASE RunWhen /\ holds.when = 0
    BY <2>2 DEF RunWhen
  <2>3. CASE RunWhen /\ holds.when # 0
    BY <2>3, WhenRuns
  <2> QED BY <2>1, <2>2, <2>3
<1>4. Commanded'
  <2>1. CASE RunGiven
    <3>1. turn = 1 /\ turn' <= 2
      BY <1>1, <1>2, <2>1 DEF RunGiven, IsTurn
    <3> QED BY <1>2, <3>1 DEF Commanded
  <2>2. CASE RunWhen
    <3>1. turn = 2
      BY <2>2 DEF RunWhen, IsTurn
    <3>2. turn' \in 2..3
      BY <1>2, <3>1
    <3>3. turn' > 2 /\ holds.when # 0 => (exitCode' = 0 => commandEnd' = "success")
      BY <2>2, <3>1, WhenRuns
    <3> QED BY <1>1, <3>2, <3>3 DEF Commanded
  <2>3. CASE RunThen
    <3>1. turn = 3 /\ turn' \in 3..4 /\ UNCHANGED <<exitCode, commandEnd>>
      BY <1>2, <2>3 DEF RunThen, IsTurn
    <3>2. turn' > 3 /\ holds.then # 0 => holds.when # 0 /\ exitCode = 0
      BY <1>1, <2>3, <3>1 DEF RunThen, Outcome
    <3>3. holds.when # 0 /\ exitCode = 0 => commandEnd = "success"
      BY <1>1, <3>1 DEF Commanded
    <3> QED BY <1>1, <3>1, <3>2, <3>3 DEF Commanded
  <2> QED BY <2>1, <2>2, <2>3
<1> QED BY <1>1, <1>2, <1>3, <1>4

LEMMA StepsRunStep ==
  ASSUME ScenarioInv, RunStep
  PROVE  ScenarioInv'
<1> USE DEF ScenarioInv, ScenarioTypes
<1>1. /\ form = "Steps" /\ verdict = "running" /\ turn >= 1 /\ turn <= Len(written)
      /\ UNCHANGED <<form, written, holds, exitCode, commandEnd>>
      /\ held = {i \in DOMAIN written : i < turn}
      /\ Len(written) \in Nat /\ DOMAIN written = 1..Len(written) /\ turn \in DOMAIN written
  BY DEF RunStep, Ran
<1>2. {i \in DOMAIN written : i < turn + 1} = {i \in DOMAIN written : i < turn} \cup {turn}
  BY <1>1
<1>3. \/ verdict' = "running" /\ turn' = turn + 1
      \/ verdict' \in {"error", "panic"} /\ turn' = turn
  BY <1>1 DEF RunStep, Outcome
<1>4. held' = {i \in DOMAIN written : i < turn'}
  BY <1>1, <1>2 DEF RunStep, Outcome
<1>5. Ran'
  BY <1>1, <1>3, <1>4 DEF Ran, Now
<1> QED BY <1>1, <1>3, <1>5 DEF Written, Commanded

LEMMA RunAndPassStep ==
  ASSUME ScenarioInv, Run \/ Pass
  PROVE  ScenarioInv'
<1> USE DEF ScenarioInv, ScenarioTypes
<1>1. UNCHANGED <<form, written, holds, exitCode, commandEnd, held>>
  BY DEF Run, Pass
<1>2. Now \in Nat \ {0} /\ Now' = Now
  BY <1>1 DEF Now
<1>3. turn' \in Nat /\ verdict' \in {"running", "ok"}
  BY DEF Run, Pass
<1>4. Ran'
  <2>1. CASE Run
    BY <1>1, <1>2, <2>1 DEF Run, Ran
  <2>2. CASE Pass
    BY <1>1, <1>2, <2>2 DEF Pass, IsTurn, Ran
  <2> QED BY <2>1, <2>2
<1>5. Written' 
  BY <1>1 DEF Written, Superseded
<1>6. Commanded'
  <2>1. CASE Run
    BY <2>1 DEF Run, Commanded
  <2>2. CASE Pass
    BY <1>1, <2>2 DEF Pass, Commanded
  <2> QED BY <2>1, <2>2
<1> QED BY <1>1, <1>3, <1>4, <1>5, <1>6

LEMMA ScenarioStep == ScenarioInv /\ [ScenarioNext]_scenarioVars => ScenarioInv'
<1> SUFFICES ASSUME ScenarioInv, [ScenarioNext]_scenarioVars PROVE ScenarioInv'
  OBVIOUS
<1>1. CASE UNCHANGED scenarioVars
  BY <1>1 DEF scenarioVars, ScenarioInv, ScenarioTypes, Written, Superseded, Ran, Now, Commanded
<1> QED BY <1>1, BuilderStep, ScenarioRunStep, StepsRunStep, RunAndPassStep DEF ScenarioNext

(* Ok is told of a scenario whose steps have all held, an error or a panic *)
(* only of one where some have not.                                        *)
LEMMA VerdictTells ==
  ASSUME ScenarioInv
  PROVE  /\ verdict = "ok" => EverythingHeld
         /\ verdict \in {"error", "panic"} => ~EverythingHeld
<1> USE DEF ScenarioInv, ScenarioTypes
<1>1. CASE form = "Steps"
  <2>1. /\ verdict = "ok" => turn = Now
        /\ held = {i \in DOMAIN written : i < turn}
        /\ \A i \in DOMAIN written : written[i] = "step"
        /\ verdict \in {"error", "panic"} => turn \in DOMAIN written
    BY <1>1 DEF Ran
  <2>2. verdict = "ok" => held = DOMAIN written
    <3>1. Len(written) \in Nat /\ DOMAIN written = 1..Len(written)
      OBVIOUS
    <3>2. {i \in 1..Len(written) : i < Len(written) + 1} = 1..Len(written)
      BY <3>1
    <3> QED BY <2>1, <3>1, <3>2 DEF Now
  <2>3. verdict \in {"error", "panic"} => turn \in DOMAIN written /\ turn \notin held
    BY <2>1
  <2> QED BY <1>1, <2>1, <2>2, <2>3 DEF EverythingHeld
<1>2. CASE form = "Scenario"
  <2>1. /\ verdict = "ok" => turn = 4
        /\ held = {holds[StepAt(n)] : n \in {m \in 1..3 : m < turn}} \ {0}
        /\ \A s \in StepNames : \E n \in 1..3 : s = StepAt(n)
    BY <1>2 DEF Ran, StepAt, StepNames
  <2>2. ASSUME verdict = "ok" PROVE EverythingHeld
    <3>1. ASSUME NEW i \in DOMAIN written, ~Superseded(i) PROVE i \in held
      <4>1. written[i] \in StepNames /\ holds[written[i]] = i /\ i # 0
        BY <1>2, <3>1 DEF Written
      <4> QED BY <2>1, <2>2, <4>1
    <3>2. ASSUME NEW i \in held, written[i] = "then" PROVE commandEnd = "success"
      <4>1. PICK n \in 1..3 : i = holds[StepAt(n)] /\ i # 0
        BY <2>1
      <4>2. StepAt(n) = "then"
        BY <1>2, <3>2, <4>1 DEF Written, StepAt, StepNames
      <4> QED BY <1>2, <2>1, <2>2, <4>1, <4>2 DEF Commanded
    <3> QED BY <1>2, <3>1, <3>2 DEF EverythingHeld
  <2>3. ASSUME verdict \in {"error", "panic"} PROVE ~EverythingHeld
    <3>1. PICK h : h = holds[StepAt(turn)]
      OBVIOUS
    <3>2. turn \in 1..3 /\ h # 0 /\ StepAt(turn) \in StepNames
      BY <1>2, <2>3, <3>1 DEF Ran, StepAt, StepNames
    <3>3. h \in DOMAIN written /\ written[h] = StepAt(turn) /\ ~Superseded(h)
      BY <1>2, <3>1, <3>2 DEF Written
    <3>4. \A n \in 1..3 : n < turn => holds[StepAt(n)] # h
      <4> SUFFICES ASSUME NEW n \in 1..3, n < turn, holds[StepAt(n)] = h PROVE FALSE
        OBVIOUS
      <4>1. StepAt(n) \in StepNames /\ StepAt(n) # StepAt(turn)
        BY <3>2 DEF StepAt, StepNames
      <4> QED BY <1>2, <3>2, <3>3, <4>1 DEF Written
    <3>5. h \notin held
      BY <2>1, <3>4
    <3> QED BY <3>3, <3>5 DEF EverythingHeld
  <2> QED BY <2>2, <2>3
<1> QED BY <1>1, <1>2

-----------------------------------------------------------------------------
(* StoryTest.  A test with a scenario for its body makes the steps of a    *)
(* test, so what was proved of all tests holds of it.                      *)
LEMMA StoryStepIsTestStep == [StoryNext]_storyVars => [Next]_vars
<1> SUFFICES ASSUME [StoryNext]_storyVars PROVE [Next]_vars
  OBVIOUS
<1>1. CASE EndOfStory
  BY <1>1, NarratorAssumption DEF EndOfStory, Next, Test
<1>2. CASE Rethrow
  BY <1>2, NarratorAssumption DEF Rethrow, Next, Test
<1>3. CASE Around
  BY <1>3, NarratorAssumption DEF Around, Next, Test
<1>4. CASE Tell \/ BeginReport \/ GoOnReport \/ Over \/ UNCHANGED storyVars
  BY <1>4 DEF Tell, BeginReport, GoOnReport, Over, storyVars
<1> QED BY <1>1, <1>2, <1>3, <1>4 DEF StoryNext

(* A story is the life of a generated test.                                *)
THEOREM StoryIsATest == StorySpec => Spec
<1>1. StoryInit => Init
  BY DEF StoryInit
<1> QED BY <1>1, StoryStepIsTestStep, PTL DEF StorySpec, Spec

LEMMA StoryStepIsScenarioStep == [StoryNext]_storyVars => [ScenarioNext]_scenarioVars
BY DEF StoryNext, storyVars, Tell, EndOfStory, BeginReport, GoOnReport, Rethrow, Around, Over

(* The end of the body is that of the scenario, and the test panics again  *)
(* only when the report is out.                                            *)
EndsAgree ==
  /\ body[Narrator] = "passed" => verdict = "ok"
  /\ body[Narrator] = "failed" => verdict \in {"error", "panic"}
  /\ pc[Narrator] = "failed" /\ body[Narrator] = "failed" => printed.end # "open"

StoryInv == IInv /\ ScenarioInv /\ EndsAgree

LEMMA EndsAgreeStep ==
  ASSUME StoryInv, [StoryNext]_storyVars
  PROVE  EndsAgree'
<1> USE NarratorAssumption DEF StoryInv, EndsAgree
<1>1. /\ pc \in [Tests -> Labels] /\ body \in [Tests -> {"none", "passed", "failed"}]
      /\ pc[Narrator] \in {"start", "creating", "created", "refused", "running"} =>
           body[Narrator] = "none"
  BY DEF IInv, TypeOK, Bodies
<1>2. CASE Tell
  BY <1>1, <1>2 DEF Tell, vars, diagnosticsVars
<1>3. CASE EndOfStory
  BY <1>1, <1>3 DEF EndOfStory, scenarioVars, diagnosticsVars, BodyPasses, BodyFails, Goto
<1>4. CASE BeginReport \/ GoOnReport
  BY <1>1, <1>4 DEF BeginReport, GoOnReport, vars, scenarioVars
<1>5. CASE Rethrow
  BY <1>1, <1>5 DEF Rethrow, scenarioVars, diagnosticsVars, Diagnose
<1>6. CASE Around
  <2>1. UNCHANGED <<verdict, printed, body>>
    BY <1>6 DEF Around, scenarioVars, diagnosticsVars, NoClient, Create, NewFails, NewReturns,
                CleanupReturns, CleanupFails, ServeCreate, ServeDelete, Kill, Finalize
  <2>2. pc'[Narrator] = "failed" => pc[Narrator] = "failed" \/ body[Narrator] = "none"
    BY <1>1, <1>6 DEF Around, Goto, NoClient, Create, NewFails, NewReturns,
                CleanupReturns, CleanupFails, ServeCreate, ServeDelete, Kill, Finalize
  <2> QED BY <2>1, <2>2
<1>7. CASE Over \/ UNCHANGED storyVars
  BY <1>7 DEF Over, storyVars, vars, scenarioVars, diagnosticsVars
<1> QED BY <1>2, <1>3, <1>4, <1>5, <1>6, <1>7 DEF StoryNext

(* The invariant of a test whose body is a scenario.                       *)
THEOREM StoryInvariant == StorySpec => []StoryInv
<1>1. StoryInit => ScenarioInv /\ EndsAgree
  BY ScenarioInitInv, NarratorAssumption DEF StoryInit, Init, EndsAgree
<1>2. StoryInv /\ [StoryNext]_storyVars => ScenarioInv' /\ EndsAgree'
  BY EndsAgreeStep, ScenarioStep, StoryStepIsScenarioStep DEF StoryInv
<1>3. StorySpec => []IInv
  BY StoryIsATest, Invariant, PTL
<1>4. IInv /\ ScenarioInv /\ EndsAgree <=> StoryInv
  BY DEF StoryInv
<1> QED BY <1>1, <1>2, <1>3, <1>4, PTL DEF StorySpec

(* A test passed only when what it says held: every step that was       *)
(* written and not superseded has run, and a command that was asserted to  *)
(* pass did; a body that failed is one where something did not, and is     *)
(* reported before the test panics.                                        *)
THEOREM StoriesAreTrue == StorySpec => []PassedMeansHeld
<1>1. StoryInv => PassedMeansHeld
  BY VerdictTells DEF StoryInv, EndsAgree, PassedMeansHeld
<1> QED BY <1>1, StoryInvariant, PTL

-----------------------------------------------------------------------------
(* Diagnostics.  What the report holds of a pod, by what became of reading *)
(* its log.                                                                *)
Got(by, log) == IF log = "failed" THEN TextForAnError(by) ELSE log

Collectors == {"collect_diagnostics", "logs_all"}
Texts == Logs \cup {"failed"}
LogTexts == Logs \cup {"[error getting logs]"}
Lines == {"status", "pods", "events", "logs of pods", "logs", "nothing", "Error fetching"}

ReportTypes ==
  /\ logOf \in [PodNames -> Logs \cup {"gone"}]
  /\ happened \in SUBSET Events /\ IsFiniteSet(happened)
  /\ report \in [by : Collectors \cup Kinds \cup {"none"},
                 at : {"idle", "listing", "logs", "printing", "debugging"},
                 toRead : SUBSET PodNames,
                 logs : UNION {[D -> LogTexts] : D \in SUBSET PodNames},
                 events : SUBSET Events]
  /\ IsFiniteSet(report.events)

(* Who is at which point.                                                  *)
Stages ==
  /\ report.at \in {"listing", "logs"} => report.by \in Collectors
  /\ report.at = "printing" => report.by = "collect_diagnostics" /\ report.toRead = {}
  /\ report.at = "debugging" => report.by \in Kinds
  /\ report.at = "listing" => report = [NoReport EXCEPT !.by = report.by, !.at = "listing"]
                              /\ listed = {} /\ really = NoLogs
  /\ report.at \in {"listing", "logs", "printing"} => printed = NothingPrinted

(* While pods are left to read, the report has the others, and of each     *)
(* what was read or the text that stands for an error.                     *)
SoFar ==
  report.at \in {"logs", "printing"} =>
    /\ report.toRead \subseteq listed /\ listed \subseteq PodNames
    /\ really \in [listed \ report.toRead -> Texts]
    /\ report.logs = [p \in listed \ report.toRead |-> Got(report.by, really[p])]
    /\ report.at = "printing" => report.events = fetched

(* debug has printed some of its sections.                                 *)
InSections ==
  report.at = "debugging" =>
    /\ printed.sections \in Seq(Lines)
    /\ printed = [NothingPrinted EXCEPT !.sections = printed.sections]
    /\ Len(printed.sections) < Len(Sections(report.by))

DiagnosticsInv ==
  ReportTypes /\ Stages /\ SoFar /\ InSections /\ DiagnosisMissesNothing

LEMMA SectionsOfKinds ==
  ASSUME NEW kind \in Kinds
  PROVE  Sections(kind) \in Seq(Lines) /\ Len(Sections(kind)) > 0
<1>1. CASE kind = "deployment"
  <2>1. Sections(kind) = <<"status", "pods", "events", "logs of pods">>
    BY <1>1 DEF Sections
  <2>2. \A a, b, c, d \in Lines : <<a, b, c, d>> \in Seq(Lines)
    OBVIOUS
  <2>3. \A a, b, c, d : Len(<<a, b, c, d>>) = 4
    OBVIOUS
  <2>4. /\ "status" \in Lines /\ "pods" \in Lines /\ "events" \in Lines
        /\ "logs of pods" \in Lines
    BY DEF Lines
  <2>5. Sections(kind) \in Seq(Lines)
    BY <2>1, <2>2, <2>4
  <2>6. Len(Sections(kind)) = 4
    BY <2>1, <2>3
  <2> QED BY <2>5, <2>6
<1>2. CASE kind = "pod"
  <2>1. Sections(kind) = <<"status", "events", "logs">>
    BY <1>2 DEF Sections
  <2> QED BY <2>1 DEF Lines
<1>3. CASE kind = "service"
  <2>1. Sections(kind) = <<"status", "events">>
    BY <1>3 DEF Sections
  <2> QED BY <2>1 DEF Lines
<1>4. CASE kind \in {"daemonset", "statefulset"}
  <2>1. Sections(kind) = <<"status", "pods", "events">>
    BY <1>4 DEF Sections
  <2> QED BY <2>1 DEF Lines
<1> QED BY <1>1, <1>2, <1>3, <1>4 DEF Kinds

(* Before anything is printed nothing printed misleads.                    *)
LEMMA NothingMisleads ==
  ASSUME printed = NothingPrinted,
         report.by \in Collectors \cup Kinds => report.at # "idle"
  PROVE  DiagnosisMissesNothing
BY DEF DiagnosisMissesNothing, NothingPrinted, Collectors

LEMMA CollectStep ==
  ASSUME DiagnosticsInv, NEW by \in Collectors, Collect(by)
  PROVE  DiagnosticsInv'
<1> USE DEF Collectors
<1>1. /\ report' = [NoReport EXCEPT !.by = by, !.at = "listing"]
      /\ printed' = NothingPrinted /\ listed' = {} /\ really' = NoLogs
      /\ UNCHANGED <<logOf, happened>>
  BY DEF Collect
<1>2. /\ report'.by = by /\ report'.at = "listing" /\ report'.toRead = {}
      /\ report'.logs = NoLogs /\ report'.events = {}
      /\ report' = [NoReport EXCEPT !.by = report'.by, !.at = "listing"]
  BY <1>1 DEF NoReport
<1>3. ReportTypes'
  <2>1. NoLogs \in [{} -> LogTexts] /\ IsFiniteSet({})
    BY FS_EmptySet DEF NoLogs
  <2>2. NoLogs \in UNION {[D -> LogTexts] : D \in SUBSET PodNames}
    BY <2>1
  <2> QED BY <1>1, <1>2, <2>1, <2>2 DEF DiagnosticsInv, ReportTypes, NoReport
<1>4. Stages' /\ SoFar' /\ InSections'
  BY <1>1, <1>2 DEF Stages, SoFar, InSections
<1>5. DiagnosisMissesNothing'
  BY <1>1, <1>2 DEF DiagnosisMissesNothing, NothingPrinted, Kinds
<1> QED BY <1>3, <1>4, <1>5 DEF DiagnosticsInv

LEMMA ListStep == DiagnosticsInv /\ (ListPods \/ ListFails) => DiagnosticsInv'
<1> SUFFICES ASSUME DiagnosticsInv, ListPods \/ ListFails PROVE DiagnosticsInv'
  OBVIOUS
<1>1. /\ report.at = "listing" /\ report = [NoReport EXCEPT !.by = report.by, !.at = "listing"]
      /\ listed = {} /\ really = NoLogs /\ printed = NothingPrinted
      /\ report.by \in Collectors
  BY DEF ListPods, ListFails, DiagnosticsInv, Stages
<1>2. report.toRead = {} /\ report.logs = NoLogs /\ report.events = {}
  BY <1>1 DEF NoReport
<1>3. NoLogs \in [{} -> LogTexts] /\ IsFiniteSet({}) /\ NoLogs \in [{} -> Texts]
  BY FS_EmptySet DEF NoLogs
<1>4. UNCHANGED <<logOf, happened, printed, really, fetched>>
  BY DEF ListPods, ListFails
<1>5. CASE report' = NoReport
  <2>1. NoLogs \in UNION {[D -> LogTexts] : D \in SUBSET PodNames}
    BY <1>3
  <2>2. ReportTypes'
    BY <1>3, <1>4, <1>5, <2>1 DEF DiagnosticsInv, ReportTypes, NoReport
  <2>3. Stages' /\ SoFar' /\ InSections'
    BY <1>5 DEF Stages, SoFar, InSections, NoReport
  <2>4. DiagnosisMissesNothing'
    BY <1>1, <1>4, <1>5 DEF DiagnosisMissesNothing, NothingPrinted, Kinds, NoReport
  <2> QED BY <2>2, <2>3, <2>4 DEF DiagnosticsInv
<1>6. CASE report' # NoReport
  <2>1. /\ listed' \in SUBSET PodNames
        /\ report' = [report EXCEPT !.at = "logs", !.toRead = listed']
    <3>1. CASE ListPods
      BY <3>1 DEF ListPods
    <3>2. CASE ListFails
      <4>1. report' = [report EXCEPT !.at = "logs"] /\ listed' = {}
        BY <1>1, <1>6, <3>2 DEF ListFails
      <4> QED BY <1>1, <1>2, <4>1 DEF DiagnosticsInv, ReportTypes
    <3> QED BY <3>1, <3>2
  <2>2. /\ report'.at = "logs" /\ report'.by = report.by /\ report'.toRead = listed'
        /\ report'.logs = NoLogs /\ report'.events = {}
    BY <1>2, <2>1 DEF DiagnosticsInv, ReportTypes
  <2>3. ReportTypes'
    BY <1>2, <1>3, <1>4, <2>1, <2>2 DEF DiagnosticsInv, ReportTypes
  <2>4. Stages' /\ InSections'
    BY <1>1, <1>4, <2>2 DEF Stages, InSections
  <2>5. SoFar'
    <3>1. listed' \ report'.toRead = {}
      BY <2>2
    <3>2. report'.logs = [p \in {} |-> Got(report'.by, really'[p])]
      BY <2>2 DEF NoLogs
    <3>3. really' \in [{} -> Texts]
      BY <1>1, <1>3, <1>4
    <3> QED BY <2>1, <2>2, <3>1, <3>2, <3>3 DEF SoFar
  <2>6. DiagnosisMissesNothing'
    BY <1>1, <1>4, <2>2 DEF DiagnosisMissesNothing, NothingPrinted
  <2> QED BY <2>3, <2>4, <2>5, <2>6 DEF DiagnosticsInv
<1> QED BY <1>5, <1>6

LEMMA ReadLogStep ==
  ASSUME DiagnosticsInv, NEW p \in PodNames, ReadLog(p)
  PROVE  DiagnosticsInv'
<1>1. PICK got \in Texts :
        /\ report.at = "logs" /\ p \in report.toRead
        /\ report' = [report EXCEPT !.toRead = @ \ {p},
                                    !.logs = Put(p, @, Got(report.by, got))]
        /\ really' = Put(p, really, got)
        /\ UNCHANGED <<logOf, happened, printed, listed, fetched>>
  <2>1. PICK failed \in BOOLEAN :
          /\ logOf[p] = "gone" => failed
          /\ report' = [report EXCEPT !.toRead = @ \ {p},
               !.logs = Put(p, @, IF failed THEN TextForAnError(report.by) ELSE logOf[p])]
          /\ really' = Put(p, really, IF failed THEN "failed" ELSE logOf[p])
    BY DEF ReadLog
  <2> DEFINE got == IF failed THEN "failed" ELSE logOf[p]
  <2>2. logOf[p] \in Logs \cup {"gone"}
    BY DEF DiagnosticsInv, ReportTypes
  <2>3. got \in Texts
    BY <2>1, <2>2 DEF Texts
  <2>4. Got(report.by, got) = IF failed THEN TextForAnError(report.by) ELSE logOf[p]
    BY <2>1, <2>2 DEF Got, Logs
  <2>5. report' = [report EXCEPT !.toRead = @ \ {p}, !.logs = Put(p, @, Got(report.by, got))]
    BY <2>1, <2>4
  <2> HIDE DEF got
  <2>6. really' = Put(p, really, got)
    BY <2>1 DEF got
  <2> QED BY <2>3, <2>5, <2>6 DEF ReadLog
<1>2. /\ report'.at = "logs" /\ report'.by = report.by /\ report'.toRead = report.toRead \ {p}
      /\ report'.logs = Put(p, report.logs, Got(report.by, got))
      /\ report'.events = report.events
      /\ report.by \in Collectors /\ printed = NothingPrinted
  BY <1>1 DEF DiagnosticsInv, ReportTypes, Stages
<1> DEFINE before == listed \ report.toRead
           after == listed \ report'.toRead
<1>3. /\ before = DOMAIN really /\ before = DOMAIN report.logs
      /\ after = before \cup {p} /\ after \in SUBSET PodNames
      /\ really \in [before -> Texts]
      /\ report.logs = [q \in before |-> Got(report.by, really[q])]
      /\ report'.toRead \subseteq listed /\ listed \subseteq PodNames
  BY <1>1, <1>2 DEF DiagnosticsInv, SoFar
<1> HIDE DEF before, after
<1>4. really' = [q \in after |-> IF q = p THEN got ELSE really[q]]
  BY <1>1, <1>3 DEF Put
<1>5. report'.logs = [q \in after |-> IF q = p THEN Got(report.by, got) ELSE report.logs[q]]
  BY <1>2, <1>3 DEF Put
<1>6. really' \in [after -> Texts]
  BY <1>3, <1>4
<1>7. report'.logs = [q \in after |-> Got(report'.by, really'[q])]
  BY <1>2, <1>3, <1>4, <1>5
<1>8. report'.logs \in [after -> LogTexts]
  <2>1. \A t \in Texts : Got(report.by, t) \in LogTexts
    BY DEF Got, Texts, LogTexts, Logs, TextForAnError
  <2> QED BY <1>2, <1>6, <1>7, <2>1
<1>9. ReportTypes'
  <2>1. report'.logs \in UNION {[D -> LogTexts] : D \in SUBSET PodNames}
    BY <1>3, <1>8
  <2>2. report' = [by |-> report.by, at |-> "logs", toRead |-> report.toRead \ {p},
                   logs |-> report'.logs, events |-> report.events]
    BY <1>1, <1>2 DEF DiagnosticsInv, ReportTypes
  <2> QED BY <1>1, <1>2, <2>1, <2>2 DEF DiagnosticsInv, ReportTypes
<1>10. SoFar'
  BY <1>1, <1>2, <1>3, <1>6, <1>7 DEF SoFar, after
<1>11. Stages' /\ InSections'
  BY <1>1, <1>2 DEF Stages, InSections
<1>12. DiagnosisMissesNothing'
  BY <1>1, <1>2 DEF DiagnosisMissesNothing, NothingPrinted
<1> QED BY <1>9, <1>10, <1>11, <1>12 DEF DiagnosticsInv

LEMMA ReturnLogsStep == DiagnosticsInv /\ ReturnLogs => DiagnosticsInv'
<1> SUFFICES ASSUME DiagnosticsInv, ReturnLogs PROVE DiagnosticsInv'
  OBVIOUS
<1>1. /\ report.by = "logs_all" /\ report.at = "logs" /\ report.toRead = {}
      /\ printed' = [NothingPrinted EXCEPT !.pods = report.logs]
      /\ report' = [report EXCEPT !.at = "idle"]
      /\ UNCHANGED <<logOf, happened, listed, really, fetched>>
  BY DEF ReturnLogs
<1>2. /\ report'.at = "idle" /\ report'.by = "logs_all"
      /\ printed'.pods = report.logs
  BY <1>1 DEF DiagnosticsInv, ReportTypes, NothingPrinted
<1>3. really \in [listed -> Texts] /\ report.logs = [p \in listed |-> Got("logs_all", really[p])]
  <2>1. listed \ {} = listed
    OBVIOUS
  <2> QED BY <1>1, <2>1 DEF DiagnosticsInv, SoFar
<1>4. \A t \in Texts : Got("logs_all", t) = "empty" <=> t \in {"empty", "failed"}
  BY DEF Got, TextForAnError, Texts, Logs
<1>5. DiagnosisMissesNothing'
  <2>1. UNCHANGED <<listed, really>>
    BY <1>1
  <2>2. DOMAIN printed'.pods = listed
    BY <1>2, <1>3
  <2>3. \A p \in listed : printed'.pods[p] = "empty" <=> really[p] \in {"empty", "failed"}
    BY <1>2, <1>3, <1>4
  <2> QED BY <1>2, <2>1, <2>2, <2>3 DEF DiagnosisMissesNothing, Kinds
<1>6. ReportTypes'
  BY <1>1 DEF DiagnosticsInv, ReportTypes
<1>7. Stages' /\ SoFar' /\ InSections'
  BY <1>2 DEF Stages, SoFar, InSections
<1> QED BY <1>5, <1>6, <1>7 DEF DiagnosticsInv

LEMMA ReadEventsStep ==
  ASSUME DiagnosticsInv, NEW got \in {happened, {}}, ReadEvents(got)
  PROVE  DiagnosticsInv'
<1>1. /\ report.by = "collect_diagnostics" /\ report.at = "logs" /\ report.toRead = {}
      /\ report' = [report EXCEPT !.at = "printing", !.events = got]
      /\ UNCHANGED <<logOf, happened, printed, listed, really>> /\ fetched' = got
  BY DEF ReadEvents
<1>2. /\ report'.at = "printing" /\ report'.by = report.by /\ report'.toRead = report.toRead
      /\ report'.logs = report.logs /\ report'.events = got
  BY <1>1 DEF DiagnosticsInv, ReportTypes
<1>3. got \in SUBSET Events /\ IsFiniteSet(got)
  BY FS_EmptySet DEF DiagnosticsInv, ReportTypes
<1>4. ReportTypes'
  BY <1>1, <1>2, <1>3 DEF DiagnosticsInv, ReportTypes
<1>5. Stages' /\ SoFar' /\ InSections'
  BY <1>1, <1>2 DEF DiagnosticsInv, Stages, SoFar, InSections
<1>6. DiagnosisMissesNothing'
  BY <1>1, <1>2 DEF DiagnosticsInv, DiagnosisMissesNothing, Stages, NothingPrinted
<1> QED BY <1>4, <1>5, <1>6 DEF DiagnosticsInv

LEMMA DisplayStep == DiagnosticsInv /\ Display => DiagnosticsInv'
<1> SUFFICES ASSUME DiagnosticsInv, Display PROVE DiagnosticsInv'
  OBVIOUS
<1> DEFINE all == report.events
           size == Cardinality(all)
<1>1. PICK s \in Sortings(all), n \in 0 .. size :
        /\ \A i \in 1 .. n : "report" \notin s[i].cuts
        /\ n < size => "report" \in s[n + 1].cuts
        /\ printed' = [end |-> IF n = size THEN "whole" ELSE "broken",
                       pods |-> [p \in DOMAIN report.logs |-> ShownLog(report.logs[p])],
                       events |-> {s[i] : i \in 1 .. n},
                       sections |-> <<>>]
  BY DEF Display
<1>12. /\ report.at = "printing" /\ report' = [report EXCEPT !.at = "idle"]
       /\ UNCHANGED <<logOf, happened, listed, really, fetched>>
       /\ report.by = "collect_diagnostics" /\ report.toRead = {}
       /\ all = fetched /\ size \in Nat
  BY FS_CardinalityType DEF Display, DiagnosticsInv, Stages, SoFar, ReportTypes
<1>13. /\ s \in [1 .. size -> all] /\ {s[i] : i \in 1 .. size} = all
       /\ \A i, j \in 1 .. size : i < j => ~Before(s[j], s[i])
  BY DEF Sortings
<1>2. /\ report'.at = "idle" /\ report'.by = "collect_diagnostics"
      /\ all \subseteq Events
  BY <1>12 DEF DiagnosticsInv, ReportTypes
<1>3. /\ really \in [listed -> Texts]
      /\ report.logs = [p \in listed |-> Got("collect_diagnostics", really[p])]
  <2>1. listed \ {} = listed
    OBVIOUS
  <2> QED BY <1>12, <2>1 DEF DiagnosticsInv, SoFar
<1>4. \A t \in Texts :
        LET shown == ShownLog(Got("collect_diagnostics", t))
        IN  /\ shown = "(no logs)" <=> t = "empty"
            /\ shown = "50 lines and more" <=> t = "long"
  BY DEF Got, TextForAnError, Texts, Logs, ShownLog
<1>5. /\ DOMAIN printed'.pods = listed
      /\ \A p \in listed : printed'.pods[p] = ShownLog(Got("collect_diagnostics", really[p]))
  BY <1>1, <1>3
<1>6. /\ \A p \in listed :
           /\ printed'.pods[p] = "(no logs)" <=> really[p] = "empty"
           /\ printed'.pods[p] = "50 lines and more" <=> really[p] = "long"
  BY <1>3, <1>4, <1>5
<1> HIDE DEF all, size
<1>7. ASSUME n = size PROVE DiagnosisMissesNothing'
  <2>1. printed'.end = "whole" /\ printed'.events = fetched
    BY <1>1, <1>7, <1>12, <1>13
  <2> QED BY <1>2, <1>5, <1>6, <1>12, <2>1 DEF DiagnosisMissesNothing, Kinds
<1>8. ASSUME n # size PROVE DiagnosisMissesNothing'
  <2> DEFINE e == s[n + 1]
             before == {s[i] : i \in 1 .. n}
  <2>1. /\ printed'.end = "broken" /\ printed'.events = before
        /\ n + 1 \in 1 .. size /\ n \in Nat /\ "report" \in e.cuts /\ e \in all
    BY <1>1, <1>8, <1>12, <1>13
  <2>2. e \notin before
    BY <1>1, <2>1
  <2>3. ASSUME NEW o \in all, Before(o, e) PROVE o \in before
    <3>1. PICK i \in 1 .. size : s[i] = o
      BY <1>13
    <3>2. i # n + 1
      <4>1. o.time \in Nat
        BY <1>2, DiagnosticsAssumption
      <4>2. ~Before(o, o)
        BY <4>1 DEF Before
      <4> QED BY <2>3, <3>1, <4>2
    <3>3. ~(n + 1 < i)
      BY <1>13, <2>1, <2>3, <3>1
    <3>4. i \in 1 .. n
      BY <1>12, <2>1, <3>2, <3>3
    <3> QED BY <3>1, <3>4
  <2>4. ASSUME NEW o \in before PROVE o \in all /\ ~Before(e, o)
    <3>1. PICK i \in 1 .. n : s[i] = o
      OBVIOUS
    <3>2. i \in 1 .. size /\ i < n + 1
      BY <1>12, <2>1
    <3> QED BY <1>13, <2>1, <3>1, <3>2
  <2> HIDE DEF e, before
  <2>5. /\ e \in fetched \ printed'.events /\ "report" \in e.cuts
        /\ \A o \in fetched : Before(o, e) => o \in printed'.events
        /\ \A o \in printed'.events : o \in fetched /\ ~Before(e, o)
    BY <1>12, <2>1, <2>2, <2>3, <2>4
  <2> QED BY <1>2, <1>5, <1>6, <1>12, <2>1, <2>5 DEF DiagnosisMissesNothing, Kinds
<1>9. DiagnosisMissesNothing'
  BY <1>7, <1>8
<1>10. ReportTypes'
  BY <1>12 DEF DiagnosticsInv, ReportTypes
<1>11. Stages' /\ SoFar' /\ InSections'
  BY <1>2 DEF Stages, SoFar, InSections
<1> QED BY <1>9, <1>10, <1>11 DEF DiagnosticsInv

LEMMA DebugStep ==
  ASSUME DiagnosticsInv, NEW kind \in Kinds, Debug(kind)
  PROVE  DiagnosticsInv'
<1>1. /\ report' = [NoReport EXCEPT !.by = kind, !.at = "debugging"]
      /\ printed' = NothingPrinted /\ UNCHANGED <<logOf, happened>>
  BY DEF Debug
<1>2. /\ report'.by = kind /\ report'.at = "debugging" /\ report'.toRead = {}
      /\ report'.logs = NoLogs /\ report'.events = {}
  BY <1>1 DEF NoReport
<1>3. ReportTypes'
  <2>1. NoLogs \in [{} -> LogTexts] /\ IsFiniteSet({})
    BY FS_EmptySet DEF NoLogs
  <2>2. NoLogs \in UNION {[D -> LogTexts] : D \in SUBSET PodNames}
    BY <2>1
  <2> QED BY <1>1, <1>2, <2>1, <2>2 DEF DiagnosticsInv, ReportTypes, NoReport
<1>4. Stages' /\ SoFar'
  BY <1>2 DEF Stages, SoFar
<1>5. InSections'
  <2>1. Len(<<>>) = 0 /\ <<>> \in Seq(Lines)
    OBVIOUS
  <2>2. printed'.sections = <<>>
    BY <1>1 DEF NothingPrinted
  <2>3. printed' = [NothingPrinted EXCEPT !.sections = printed'.sections]
    BY <1>1, <2>2 DEF NothingPrinted
  <2>4. 0 < Len(Sections(kind)) /\ Len(Sections(kind)) \in Nat
    BY SectionsOfKinds
  <2> QED BY <1>2, <2>1, <2>2, <2>3, <2>4 DEF InSections
<1>6. DiagnosisMissesNothing'
  BY <1>1, <1>2 DEF DiagnosisMissesNothing, NothingPrinted
<1> QED BY <1>3, <1>4, <1>5, <1>6 DEF DiagnosticsInv

LEMMA DebugSectionStep == DiagnosticsInv /\ DebugSection => DiagnosticsInv'
<1> SUFFICES ASSUME DiagnosticsInv, DebugSection PROVE DiagnosticsInv'
  OBVIOUS
<1> DEFINE n == Len(printed.sections)
           all == Sections(report.by)
<1>1. /\ report.at = "debugging" /\ report.by \in Kinds
      /\ printed.sections \in Seq(Lines)
      /\ printed = [NothingPrinted EXCEPT !.sections = printed.sections]
      /\ n < Len(all)
  BY DEF DebugSection, DiagnosticsInv, Stages, InSections
<1>2. all \in Seq(Lines) /\ n + 1 \in 1 .. Len(all) /\ n \in Nat /\ Len(all) \in Nat
  BY <1>1, SectionsOfKinds
<1>3. PICK line \in Lines :
        /\ printed' = [printed EXCEPT !.sections = Append(@, line)]
        /\ report' = IF n + 1 = Len(all) THEN [report EXCEPT !.at = "idle"] ELSE report
        /\ UNCHANGED <<logOf, happened, listed, really, fetched>>
  <2>1. all[n + 1] \in Lines
    BY <1>2
  <2>2. PICK failed \in BOOLEAN :
          printed' = [printed EXCEPT !.sections = Append(@,
             IF ~failed THEN all[n + 1]
             ELSE IF all[n + 1] = "logs of pods" THEN "nothing" ELSE "Error fetching")]
    BY DEF DebugSection, Section
  <2>3. /\ report' = IF n + 1 = Len(all) THEN [report EXCEPT !.at = "idle"] ELSE report
        /\ UNCHANGED <<logOf, happened, listed, really, fetched>>
    BY DEF DebugSection
  <2> HIDE DEF n, all
  <2> DEFINE line == IF ~failed THEN all[n + 1]
                     ELSE IF all[n + 1] = "logs of pods" THEN "nothing" ELSE "Error fetching"
  <2>4. line \in Lines
    BY <2>1 DEF Lines
  <2> QED BY <2>2, <2>3, <2>4
<1> HIDE DEF n, all
<1>4. /\ printed'.sections = Append(printed.sections, line)
      /\ printed' = [NothingPrinted EXCEPT !.sections = printed'.sections]
      /\ printed'.end = "open"
  BY <1>1, <1>3 DEF NothingPrinted
<1>5. printed'.sections \in Seq(Lines) /\ Len(printed'.sections) = n + 1
  BY <1>1, <1>4 DEF n
<1>6. report'.by = report.by /\ report' \in [by : Collectors \cup Kinds \cup {"none"},
                 at : {"idle", "listing", "logs", "printing", "debugging"},
                 toRead : SUBSET PodNames,
                 logs : UNION {[D -> LogTexts] : D \in SUBSET PodNames},
                 events : SUBSET Events] /\ report'.events = report.events
  BY <1>3 DEF DiagnosticsInv, ReportTypes
<1>7. ReportTypes'
  BY <1>3, <1>6 DEF DiagnosticsInv, ReportTypes
<1>8. CASE n + 1 = Len(all)
  <2>1. report'.at = "idle"
    BY <1>3, <1>8 DEF DiagnosticsInv, ReportTypes
  <2>2. Stages' /\ SoFar' /\ InSections'
    BY <2>1 DEF Stages, SoFar, InSections
  <2>3. DiagnosisMissesNothing'
    BY <1>1, <1>4, <1>5, <1>6, <1>8, <2>1 DEF DiagnosisMissesNothing, Kinds, all
  <2> QED BY <1>7, <2>2, <2>3 DEF DiagnosticsInv
<1>9. CASE n + 1 # Len(all)
  <2>1. report' = report /\ n + 1 < Len(all)
    BY <1>1, <1>2, <1>3, <1>9
  <2>2. Stages' /\ SoFar'
    BY <1>1, <2>1 DEF Stages, SoFar
  <2>3. InSections'
    BY <1>4, <1>5, <2>1 DEF InSections, all
  <2>4. DiagnosisMissesNothing'
    BY <1>1, <1>4, <2>1 DEF DiagnosisMissesNothing
  <2> QED BY <1>7, <2>2, <2>3, <2>4 DEF DiagnosticsInv
<1> QED BY <1>8, <1>9

LEMMA DebugBreaksStep == DiagnosticsInv /\ DebugBreaks => DiagnosticsInv'
<1> SUFFICES ASSUME DiagnosticsInv, DebugBreaks PROVE DiagnosticsInv'
  OBVIOUS
<1>1. /\ report.at = "debugging" /\ report.by \in Kinds
      /\ printed = [NothingPrinted EXCEPT !.sections = printed.sections]
  BY DEF DebugBreaks, DiagnosticsInv, Stages, InSections
<1>2. /\ report'.at = "idle" /\ report'.by = report.by /\ UNCHANGED happened
      /\ printed'.end = "broken" /\ printed'.sections = printed.sections
  BY <1>1 DEF DebugBreaks, DiagnosticsInv, ReportTypes, NothingPrinted
<1>3. ReportTypes' /\ Stages' /\ SoFar' /\ InSections'
  BY <1>2 DEF DebugBreaks, DiagnosticsInv, ReportTypes, Stages, SoFar, InSections
<1>4. Section' = Section
  BY <1>2 DEF Section
<1>5. DiagnosisMissesNothing'
  BY <1>1, <1>2, <1>4 DEF DebugBreaks, DiagnosisMissesNothing, Kinds
<1> QED BY <1>3, <1>5 DEF DiagnosticsInv

(* DiagnosticsInv holds in every state.                                    *)
THEOREM DiagnosticsInvariant == DiagnosticsSpec => []DiagnosticsInv
<1>1. DiagnosticsInit => DiagnosticsInv
  <2> SUFFICES ASSUME DiagnosticsInit PROVE DiagnosticsInv
    OBVIOUS
  <2>1. NoLogs \in [{} -> LogTexts] /\ IsFiniteSet({})
    BY FS_EmptySet DEF NoLogs
  <2>2. NoLogs \in UNION {[D -> LogTexts] : D \in SUBSET PodNames}
    BY <2>1
  <2>3. ReportTypes
    BY <2>1, <2>2 DEF DiagnosticsInit, ReportTypes, NoReport
  <2>4. Stages /\ SoFar /\ InSections
    BY DEF DiagnosticsInit, NoReport, Stages, SoFar, InSections
  <2>5. DiagnosisMissesNothing
    BY DEF DiagnosticsInit, NoReport, DiagnosisMissesNothing, NothingPrinted, Kinds
  <2> QED BY <2>3, <2>4, <2>5 DEF DiagnosticsInv
<1>2. DiagnosticsInv /\ [DiagnosticsNext]_diagnosticsVars => DiagnosticsInv'
  <2> SUFFICES ASSUME DiagnosticsInv, [DiagnosticsNext]_diagnosticsVars
               PROVE  DiagnosticsInv'
    OBVIOUS
  <2>1. ASSUME NEW p \in PodNames, NEW text \in Logs \cup {"gone"}, LogOn(p, text)
        PROVE  DiagnosticsInv'
    BY <2>1 DEF LogOn, DiagnosticsInv, ReportTypes, Stages, SoFar, InSections,
                DiagnosisMissesNothing
  <2>2. ASSUME NEW e \in Events, Happen(e) PROVE DiagnosticsInv'
    <3>1. IsFiniteSet(happened \cup {e})
      BY FS_AddElement DEF DiagnosticsInv, ReportTypes
    <3> QED BY <2>2, <3>1 DEF Happen, DiagnosticsInv, ReportTypes, Stages, SoFar, InSections,
                              DiagnosisMissesNothing
  <2>3. CASE UNCHANGED diagnosticsVars
    <3>1. ReportTypes' /\ Stages' /\ SoFar' /\ InSections'
      BY <2>3 DEF diagnosticsVars, DiagnosticsInv, ReportTypes, Stages, SoFar, InSections
    <3>2. Section' = Section
      BY <2>3 DEF diagnosticsVars, Section
    <3>3. DiagnosisMissesNothing'
      BY <2>3, <3>2 DEF diagnosticsVars, DiagnosticsInv, DiagnosisMissesNothing
    <3> QED BY <3>1, <3>3 DEF DiagnosticsInv
  <2>4. CASE Collecting
    <3>1. CASE ListPods \/ ListFails
      BY <3>1, ListStep
    <3>2. CASE ReturnLogs
      BY <3>2, ReturnLogsStep
    <3>3. CASE Display
      BY <3>3, DisplayStep
    <3>4. ASSUME NEW p \in PodNames, ReadLog(p) PROVE DiagnosticsInv'
      BY <3>4, ReadLogStep
    <3>5. CASE ReadEvents(happened) \/ ReadEvents({})
      BY <3>5, ReadEventsStep
    <3> QED BY <2>1, <2>2, <2>4, <3>1, <3>2, <3>3, <3>4, <3>5 DEF Collecting
  <2>5. CASE Collect("collect_diagnostics") \/ Collect("logs_all")
    BY <2>5, CollectStep DEF Collectors
  <2>6. ASSUME NEW kind \in Kinds, Debug(kind) PROVE DiagnosticsInv'
    BY <2>6, DebugStep
  <2> QED BY <2>3, <2>4, <2>5, <2>6, DebugSectionStep, DebugBreaksStep
         DEF DiagnosticsNext
<1> QED BY <1>1, <1>2, PTL DEF DiagnosticsSpec

(* A report names every pod of the list and tells a log that could not be  *)
(* read from an empty one, however its requests fail; it has all events    *)
(* that were fetched, or those before one whose texts cannot be cut, where *)
(* it breaks off: for any number of pods and events.                       *)
THEOREM ReportsMissNothing == DiagnosticsSpec => []DiagnosisMissesNothing
BY DiagnosticsInvariant, PTL DEF DiagnosticsInv

(* Nor is a test whose failure is diagnosed misled: its steps are those of *)
(* the report, or none.                                                    *)
THEOREM StoryIsDiagnosed == StorySpec => DiagnosticsSpec /\ []DiagnosisMissesNothing
<1>1. StoryInit => DiagnosticsInit
  BY DEF StoryInit
<1>2. [StoryNext]_storyVars => [DiagnosticsNext]_diagnosticsVars
  BY DEF StoryNext, storyVars, Tell, EndOfStory, BeginReport, GoOnReport, Rethrow, Around,
         Over, DiagnosticsNext
<1> QED BY <1>1, <1>2, ReportsMissNothing, PTL DEF StorySpec, DiagnosticsSpec
=============================================================================

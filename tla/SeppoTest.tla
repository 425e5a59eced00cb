----------------------------- MODULE SeppoTest ------------------------------
(***************************************************************************)
(* The life of the tests that #[seppo::test] generates                     *)
(* (seppo-macros/src/lib.rs) and of their namespaces: Context::new and     *)
(* cleanup (context/lifecycle.rs), collect_diagnostics                     *)
(* (context/diagnostics_ctx.rs).                                           *)
(*                                                                         *)
(* Tests run in parallel on one cluster.  Each draws a name (eight digits  *)
(* of a uuid: two tests may draw the same), creates a namespace, runs its  *)
(* body under catch_unwind, and then deletes the namespace or keeps it and *)
(* panics.  A create or delete that was sent may be served after its test  *)
(* has given up on it or was killed; an answer may be lost.  A deleted     *)
(* namespace is "terminating" until the cluster has emptied it.            *)
(***************************************************************************)
EXTENDS Naturals

CONSTANTS Tests,
          Names,
          NoTest    \* the owner of a namespace that is not there

ASSUME NoTestAssumption == NoTest \notin Tests

VARIABLES keepAll,    \* SEPPO_KEEP_ALL is set
          ns,         \* per name: its state, and the test whose create made it
          pc,         \* per test
          name,       \* per test: the name it drew
          creating,   \* tests whose create is on its way to the server
          deleting,   \* tests whose delete is on its way to the server
          body,       \* per test: how the body ended
          warned      \* history: tests that printed "cleanup failed"

vars == <<keepAll, ns, pc, name, creating, deleting, body, warned>>

Gone == [state |-> "absent", owner |-> NoTest]
Active(t) == [state |-> "active", owner |-> t]
Finished == {"passed", "failed", "killed"}

Init ==
  /\ keepAll \in BOOLEAN
  /\ ns = [n \in Names |-> Gone]
  /\ pc = [t \in Tests |-> "start"]
  /\ name \in [Tests -> Names]
  /\ creating = {} /\ deleting = {}
  /\ body = [t \in Tests |-> "none"]
  /\ warned = {}

Goto(t, label) == pc' = [pc EXCEPT ![t] = label]

-----------------------------------------------------------------------------
(* Context::new.                                                           *)

(* No client: the test panics before it has touched the cluster.           *)
NoClient(t) ==
  /\ pc[t] = "start"
  /\ Goto(t, "failed")
  /\ UNCHANGED <<keepAll, ns, name, creating, deleting, body, warned>>

Create(t) ==
  /\ pc[t] = "start"
  /\ Goto(t, "creating")
  /\ creating' = creating \cup {t}
  /\ UNCHANGED <<keepAll, ns, name, deleting, body, warned>>

(* Mutation: AlreadyExists is good enough.                                 *)
ServeCreateOrReuse(t) ==
  /\ t \in creating
  /\ creating' = creating \ {t}
  /\ ns' = IF ns[name[t]] = Gone THEN [ns EXCEPT ![name[t]] = Active(t)] ELSE ns
  /\ pc' = IF pc[t] = "creating" THEN [pc EXCEPT ![t] = "created"] ELSE pc
  /\ UNCHANGED <<keepAll, name, deleting, body, warned>>

(* The server creates the namespace or answers 409, whether or not anybody *)
(* waits for the answer.                                                   *)
ServeCreate(t) ==
  /\ t \in creating
  /\ creating' = creating \ {t}
  /\ ns' = IF ns[name[t]] = Gone THEN [ns EXCEPT ![name[t]] = Active(t)] ELSE ns
  /\ pc' = IF pc[t] # "creating" THEN pc
           ELSE [pc EXCEPT ![t] = IF ns[name[t]] = Gone THEN "created" ELSE "refused"]
  /\ UNCHANGED <<keepAll, name, deleting, body, warned>>

(* The `panic!` of the macro, outside catch_unwind: no cleanup, no         *)
(* diagnostics.  The answer was an error, or none came.                    *)
NewFails(t) ==
  /\ pc[t] \in {"creating", "created", "refused"}
  /\ Goto(t, "failed")
  /\ UNCHANGED <<keepAll, ns, name, creating, deleting, body, warned>>

NewReturns(t) ==
  /\ pc[t] = "created"
  /\ Goto(t, "running")
  /\ UNCHANGED <<keepAll, ns, name, creating, deleting, body, warned>>

-----------------------------------------------------------------------------
(* The body, and what the macro does with its outcome.                     *)

(* Mutation: the outcome is looked at after the cleanup.                   *)
BodyFailsAfterCleanup(t) ==
  /\ pc[t] = "running"
  /\ body' = [body EXCEPT ![t] = "failed"]
  /\ deleting' = deleting \cup {t}
  /\ Goto(t, "diagnosing")
  /\ UNCHANGED <<keepAll, ns, name, creating, warned>>

(* A panic, or an Err of a body that returns a Result.                     *)
BodyFails(t) ==
  /\ pc[t] = "running"
  /\ body' = [body EXCEPT ![t] = "failed"]
  /\ Goto(t, "diagnosing")
  /\ UNCHANGED <<keepAll, ns, name, creating, deleting, warned>>

(* collect_diagnostics only reads and never fails; then resume_unwind.     *)
Diagnose(t) ==
  /\ pc[t] = "diagnosing"
  /\ Goto(t, "failed")
  /\ UNCHANGED <<keepAll, ns, name, creating, deleting, body, warned>>

BodyPasses(t) ==
  /\ pc[t] = "running"
  /\ body' = [body EXCEPT ![t] = "passed"]
  /\ IF keepAll
     THEN /\ Goto(t, "passed")
          /\ UNCHANGED deleting
     ELSE /\ Goto(t, "cleaning")
          /\ deleting' = deleting \cup {t}
  /\ UNCHANGED <<keepAll, ns, name, creating, warned>>

(* Context::cleanup: by name, and only begun by the server.                *)
ServeDelete(t) ==
  /\ t \in deleting
  /\ deleting' = deleting \ {t}
  /\ ns' = IF ns[name[t]].state = "active"
           THEN [ns EXCEPT ![name[t]].state = "terminating"] ELSE ns
  /\ pc' = IF pc[t] = "cleaning" THEN [pc EXCEPT ![t] = "cleaned"] ELSE pc
  /\ UNCHANGED <<keepAll, name, creating, body, warned>>

CleanupReturns(t) ==
  /\ pc[t] = "cleaned"
  /\ Goto(t, "passed")
  /\ UNCHANGED <<keepAll, ns, name, creating, deleting, body, warned>>

(* Mutation: `let _ = ctx.cleanup().await`.                                *)
CleanupFailsSilently(t) ==
  /\ pc[t] \in {"cleaning", "cleaned"}
  /\ Goto(t, "passed")
  /\ UNCHANGED <<keepAll, ns, name, creating, deleting, body, warned>>

(* An error or a lost answer is a warning; the test still passes.          *)
CleanupFails(t) ==
  /\ pc[t] \in {"cleaning", "cleaned"}
  /\ warned' = warned \cup {t}
  /\ Goto(t, "passed")
  /\ UNCHANGED <<keepAll, ns, name, creating, deleting, body>>

-----------------------------------------------------------------------------
(* The test process dies: ctrl-C, a CI timeout, an abort.                  *)
Kill(t) ==
  /\ pc[t] \notin Finished
  /\ Goto(t, "killed")
  /\ UNCHANGED <<keepAll, ns, name, creating, deleting, body, warned>>

(* External: the namespace controller has removed everything in it.        *)
Finalize(n) ==
  /\ ns[n].state = "terminating"
  /\ ns' = [ns EXCEPT ![n] = Gone]
  /\ UNCHANGED <<keepAll, pc, name, creating, deleting, body, warned>>

AllEnded ==
  /\ \A t \in Tests : pc[t] \in Finished
  /\ UNCHANGED vars

Test(t) ==
  \/ NoClient(t) \/ Create(t) \/ NewFails(t) \/ NewReturns(t)
  \/ BodyFails(t) \/ Diagnose(t) \/ BodyPasses(t)
  \/ CleanupReturns(t) \/ CleanupFails(t)

Next ==
  \/ \E t \in Tests : Test(t) \/ ServeCreate(t) \/ ServeDelete(t) \/ Kill(t)
  \/ \E n \in Names : Finalize(n)
  \/ AllEnded

Spec == Init /\ [][Next]_vars

-----------------------------------------------------------------------------
Namespace == [state : {"absent", "active", "terminating"}, owner : Tests \cup {NoTest}]
Labels == {"start", "creating", "created", "refused", "running", "diagnosing",
           "cleaning", "cleaned"} \cup Finished

TypeOK ==
  /\ keepAll \in BOOLEAN
  /\ ns \in [Names -> Namespace]
  /\ pc \in [Tests -> Labels]
  /\ name \in [Tests -> Names]
  /\ creating \subseteq Tests /\ deleting \subseteq Tests /\ warned \subseteq Tests
  /\ body \in [Tests -> {"none", "passed", "failed"}]

(* A test that runs, or collects diagnostics, has a namespace that is its  *)
(* own: it created it, nobody is deleting it, and no other test runs in it *)
(* - although names may collide and requests may be served late.           *)
OwnNamespace ==
  \A t \in Tests :
    pc[t] \in {"running", "diagnosing"} => ns[name[t]] = Active(t)

(* After a failed body the namespace stays, for good: no request that is   *)
(* still on its way, of this test or another, takes it away.               *)
KeptOnFailure ==
  \A t \in Tests : body[t] = "failed" => ns[name[t]] = Active(t)

(* A test that passed and printed no warning has left nothing to clean up. *)
SilenceMeansDeleted ==
  \A t \in Tests :
    (pc[t] = "passed" /\ ~keepAll /\ t \notin warned) => ns[name[t]] # Active(t)

-----------------------------------------------------------------------------
(* The tests implement NamespaceLease.  A name is leased while its         *)
(* namespace is active; a test that has panicked or was killed is over     *)
(* unless its body had passed.                                             *)
StageOf(t) ==
  IF pc[t] \in {"running", "diagnosing"} THEN "using"
  ELSE IF body[t] = "passed" THEN "passed"
  ELSE IF pc[t] \in {"start", "creating", "created", "refused"} THEN "before" ELSE "over"

Lease == INSTANCE NamespaceLease WITH
  holder <- [n \in Names |-> IF ns[n].state = "active" THEN ns[n].owner ELSE NoTest],
  stage <- [t \in Tests |-> StageOf(t)],
  wants <- name

(* The namespaces of the tests are leases: whatever is served late, lost   *)
(* or interrupted by a kill, a name is used only by the test that made the *)
(* namespace, and given back only by one that passed.                      *)
NamespacesAreLeased == Lease!Spec
=============================================================================

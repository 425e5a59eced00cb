------------------------------ MODULE WaitLoop ------------------------------
(***************************************************************************)
(* The polling loops of seppo: Context::wait_for_with_timeout,             *)
(* wait_deleted_with_timeout and wait_pvc_bound_with_timeout               *)
(* (context/waiting.rs), the "service" arm of wait_ready_with_timeout      *)
(* (context/readiness.rs), and Eventually / Consistently::await_condition  *)
(* (eventually.rs).                                                        *)
(*                                                                         *)
(* One waiter polls one object while the cluster changes it.  A poll is a  *)
(* request, its evaluation by the API server and the arrival of the answer *)
(* - three instants, between which the cluster may change the object and   *)
(* time may pass.  Time is a natural number that a discrete Tick advances; *)
(* Latency bounds how long a request is out, Slack how late the runtime    *)
(* wakes a sleeping task.  The clock starts with the wait.                 *)
(***************************************************************************)
EXTENDS Integers

CONSTANTS Timeout,    \* the `timeout` (Consistently: `duration`) of the call
          Interval,   \* `poll_interval`, `interval`
          Latency,    \* longest time one request or condition is out
          Slack       \* longest delay of a wake-up past its deadline

ASSUME TimeAssumption ==
  /\ Timeout \in Nat
  /\ Interval \in Nat \ {0}
  /\ Latency \in Nat
  /\ Slack \in Nat

(* wait_pvc_bound is "wait_for" with the condition phase = "Bound".        *)
Loops == {"wait_for", "wait_deleted", "service", "eventually", "consistently"}

VARIABLES loop,       \* which loop runs
          obj,        \* the object: absent, there but "unmet", or "met"
          now,        \* start.elapsed()
          step,       \* "call" -> "answer" -> "sleep" -> "call" ... "done"
          seen,       \* what the server answered to the poll that is out
          attempts,   \* polls begun
          pollStart,  \* when the current poll began
          wake,       \* when the current sleep ends
          result,     \* what the call returned
          since       \* history: since when every poll would have been decisive

waitVars == <<loop, obj, now, step, seen, attempts, pollStart, wake, result, since>>

Objects == {"absent", "unmet", "met"}
Seen == Objects \cup {"fault"}
Results == {"none", "ok", "timeout", "error", "became_false"}

(* The answers that end the loop by themselves, before any look at the     *)
(* clock: Consistently stops at the first false, wait_deleted at a 404 or  *)
(* at an error other than 404, the single get of a service at anything.    *)
Decisive(k, s) ==
  \/ k \in {"wait_for", "eventually"} /\ s = "met"
  \/ k = "consistently" /\ s \in {"absent", "unmet"}
  \/ k = "wait_deleted" /\ s \in {"absent", "fault"}
  \/ k = "service"

Verdict(k, s) ==
  IF k = "consistently" THEN "became_false"
  ELSE IF s = "fault" \/ (k = "service" /\ s = "absent") THEN "error"
  ELSE "ok"

(* What a loop that was never decided returns once its time is up.         *)
Expired(k) == IF k = "consistently" THEN "ok" ELSE "timeout"

(* `start.elapsed() >= timeout`, and its mutation.                         *)
TimeIsUpLate == now > Timeout
TimeIsUp == now >= Timeout

(* `sleep(interval)` begins when the poll is over.  Mutation: it grows     *)
(* with every poll.                                                        *)
NextPollBacksOff == now + attempts * Interval
NextPoll == now + Interval

WaitInit ==
  /\ loop \in Loops
  /\ obj \in Objects
  /\ now = 0 /\ pollStart = 0 /\ wake = 0 /\ since = 0
  /\ step = "call"
  /\ attempts = 1
  /\ seen = "absent"
  /\ result = "none"

(* The API server (or the user's condition) evaluates the poll.            *)
Serve ==
  /\ step = "call"
  /\ step' = "answer"
  /\ seen' = obj
  /\ UNCHANGED <<loop, obj, now, attempts, pollStart, wake, result, since>>

(* The request fails: no connection, a 5xx, throttling.  A fault says      *)
(* nothing of the object, so where the loop polls on the history restarts. *)
(* A user's condition is only ever true or false.                          *)
Fault ==
  /\ step = "call"
  /\ loop \notin {"eventually", "consistently"}
  /\ step' = "answer"
  /\ seen' = "fault"
  /\ since' = IF Decisive(loop, "fault") THEN since ELSE now
  /\ UNCHANGED <<loop, obj, now, attempts, pollStart, wake, result>>

(* The answer arrives and decides.                                         *)
Return ==
  /\ step = "answer"
  /\ Decisive(loop, seen)
  /\ step' = "done"
  /\ result' = Verdict(loop, seen)
  /\ UNCHANGED <<loop, obj, now, seen, attempts, pollStart, wake, since>>

(* Mutation: the clock is looked at before the answer.                     *)
GiveUpUnread ==
  /\ step = "answer"
  /\ TimeIsUp
  /\ step' = "done"
  /\ result' = Expired(loop)
  /\ UNCHANGED <<loop, obj, now, seen, attempts, pollStart, wake, since>>

(* Mutation: `==` for `>=`.                                                *)
GiveUpOnTheDot ==
  /\ step = "answer"
  /\ ~Decisive(loop, seen)
  /\ now = Timeout
  /\ step' = "done"
  /\ result' = Expired(loop)
  /\ UNCHANGED <<loop, obj, now, seen, attempts, pollStart, wake, since>>

(* The answer arrives, does not decide, and time is up.                    *)
GiveUp ==
  /\ step = "answer"
  /\ ~Decisive(loop, seen)
  /\ TimeIsUp
  /\ step' = "done"
  /\ result' = Expired(loop)
  /\ UNCHANGED <<loop, obj, now, seen, attempts, pollStart, wake, since>>

FallAsleep ==
  /\ step = "answer"
  /\ ~Decisive(loop, seen)
  /\ ~TimeIsUp
  /\ step' = "sleep"
  /\ wake' = NextPoll
  /\ UNCHANGED <<loop, obj, now, seen, attempts, pollStart, result, since>>

Wake ==
  /\ step = "sleep"
  /\ now >= wake
  /\ step' = "call"
  /\ pollStart' = now
  /\ attempts' = attempts + 1
  /\ UNCHANGED <<loop, obj, now, seen, wake, result, since>>

Waiter == Return \/ GiveUp \/ FallAsleep \/ Wake

(* The cluster: someone creates, deletes, repairs or breaks the object.    *)
Change(o) ==
  /\ obj' = o
  /\ since' = IF Decisive(loop, obj) /\ Decisive(loop, o) THEN since ELSE now
  /\ UNCHANGED <<loop, now, step, seen, attempts, pollStart, wake, result>>

(* Time passes, but never past the moment at which the environment must    *)
(* have answered a request or woken the sleeper.                           *)
Tick ==
  /\ \/ step \in {"call", "answer"} /\ now < pollStart + Latency
     \/ step = "sleep" /\ now < wake + Slack
  /\ now' = now + 1
  /\ UNCHANGED <<loop, obj, step, seen, attempts, pollStart, wake, result, since>>

Cluster == \E o \in Objects : Change(o)

WaitNext == Serve \/ Fault \/ Waiter \/ Cluster \/ Tick

(* Requests are answered, time passes, and the runtime runs ready tasks.   *)
(* Nothing is assumed of the cluster.                                      *)
WaitFairness ==
  /\ WF_waitVars(Serve \/ Fault)
  /\ WF_waitVars(Waiter)
  /\ WF_waitVars(Tick)

WaitSpec == WaitInit /\ [][WaitNext]_waitVars /\ WaitFairness

-----------------------------------------------------------------------------
WaitTypeOK ==
  /\ loop \in Loops
  /\ obj \in Objects
  /\ now \in Nat /\ pollStart \in Nat /\ wake \in Nat /\ since \in Nat
  /\ step \in {"call", "answer", "sleep", "done"}
  /\ attempts \in Nat \ {0}
  /\ seen \in Seen
  /\ result \in Results

(* No loop outlives its timeout by more than one interval, one late        *)
(* wake-up and one request: the deadline is looked at only between a poll  *)
(* and a sleep, so this is what `timeout` really promises.                 *)
ReturnsInTime == now < Timeout + Interval + Slack + Latency

(* Once the object stays in a state that decides the loop, the loop        *)
(* returns within two requests, one interval and one late wake-up.  For    *)
(* wait_for: a condition that holds that long is never missed.  For        *)
(* Consistently: no outage that long goes unnoticed.                       *)
PromptOnceDecided ==
  (step # "done" /\ Decisive(loop, obj))
    => now - since <= 2 * Latency + Interval + Slack

(* A timeout is never reported by a loop whose last poll ran entirely      *)
(* while the condition held and no request failed; neither does            *)
(* Consistently report success when its last poll ran inside an outage.    *)
TimeoutIsTruthful ==
  (step = "done" /\ result = Expired(loop) /\ Decisive(loop, obj))
    => since >= pollStart

(* Polls are at least one interval apart, so the API server is asked at    *)
(* most about Timeout / Interval + 2 times.                                *)
PollsAreSpaced ==
  (attempts - 1) * Interval <= pollStart /\ pollStart <= now

(* Every loop returns.                                                     *)
Terminates == <>(step = "done")

=============================================================================

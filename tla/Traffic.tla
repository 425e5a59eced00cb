------------------------------ MODULE Traffic -------------------------------
(***************************************************************************)
(* Context::start_traffic (context/scenarios.rs) and its TrafficHandle     *)
(* (context/traffic_types.rs): a spawned task sends one request after      *)
(* another until its duration is over or the stop flag is set, while the   *)
(* test reads the counters through the handle, stops the task, or drops    *)
(* the handle, which detaches the task and ends nothing.                   *)
(*                                                                         *)
(* The counters are relaxed atomics and the latencies a mutex: stats()     *)
(* loads the three one by one, and nothing orders these loads.             *)
(***************************************************************************)
EXTENDS Integers

CONSTANTS Duration,      \* config.duration
          Interval,      \* 1 / config.rps, which may round to 0
          ReplyTimeout,  \* the timeout of the HTTP client
          Slack          \* longest delay of a wake-up past its deadline

ASSUME TrafficAssumption ==
  /\ Duration \in Nat
  /\ Interval \in Nat
  /\ ReplyTimeout \in Nat
  /\ Slack \in Nat

VARIABLES now,        \* time since the task began
          pc,         \* the task
          start,      \* when its request was sent
          failed,     \* what became of its request
          wake,
          stopFlag, held,       \* the flag; whether the handle is still held
          total, errors,        \* the counters
          latencies,            \* how many latencies were pushed
          toLoad, stats,        \* the stats() call that is running
          begun, begunAtStop,   \* history: requests sent; of these at stop()
          countedAt             \* history: the total when each was loaded

task == <<pc, start, failed, wake>>
counters == <<total, errors, latencies>>
reader == <<toLoad, stats>>
history == <<begun, begunAtStop, countedAt>>
vars == <<now, task, stopFlag, held, counters, reader, history>>

Loads == {"total", "errors", "latencies"}
NoStats == [l \in Loads |-> 0]

Init ==
  /\ now = 0 /\ pc = "check" /\ start = 0 /\ failed = FALSE /\ wake = 0
  /\ stopFlag = FALSE /\ held = TRUE
  /\ total = 0 /\ errors = 0 /\ latencies = 0
  /\ toLoad = {} /\ stats = NoStats
  /\ begun = 0 /\ begunAtStop = 0 /\ countedAt = NoStats

-----------------------------------------------------------------------------
(* The task.                                                               *)

(* `now < deadline && !stop_flag`, and its mutations.                      *)
GoesOnWhenStopped == now < Duration
GoesOnForever == ~stopFlag
GoesOn == now < Duration /\ ~stopFlag

Check ==
  /\ pc = "check"
  /\ pc' = IF GoesOn THEN "send" ELSE "done"
  /\ UNCHANGED <<now, start, failed, wake, stopFlag, held, counters, reader,
                 history>>

(* The flag may be set between its load and the request.                   *)
Send ==
  /\ pc = "send"
  /\ pc' = "request"
  /\ start' = now
  /\ begun' = begun + 1
  /\ UNCHANGED <<now, failed, wake, stopFlag, held, counters, reader, begunAtStop, countedAt>>

(* A success; or another status, no connection, the client's timeout.      *)
Answer(bad) ==
  /\ pc = "request"
  /\ failed' = bad
  /\ pc' = "count"
  /\ UNCHANGED <<now, start, wake, stopFlag, held, counters, reader, history>>

CountTotal ==
  /\ pc = "count"
  /\ total' = total + 1
  /\ pc' = IF failed THEN "count_error" ELSE "push"
  /\ UNCHANGED <<now, start, failed, wake, stopFlag, held, errors, latencies, reader,
                 history>>

CountError ==
  /\ pc = "count_error"
  /\ errors' = errors + 1
  /\ pc' = "push"
  /\ UNCHANGED <<now, start, failed, wake, stopFlag, held, total, latencies, reader,
                 history>>

(* `sleep(interval)` begins when the answer was counted.                   *)
NextRequest == now + Interval

(* Mutation: only the latencies of successes.                              *)
PushSuccess ==
  /\ pc = "push"
  /\ latencies' = IF failed THEN latencies ELSE latencies + 1
  /\ wake' = NextRequest
  /\ pc' = "sleep"
  /\ UNCHANGED <<now, start, failed, stopFlag, held, total, errors, reader,
                 history>>

Push ==
  /\ pc = "push"
  /\ latencies' = latencies + 1
  /\ wake' = NextRequest
  /\ pc' = "sleep"
  /\ UNCHANGED <<now, start, failed, stopFlag, held, total, errors, reader,
                 history>>

Wake ==
  /\ pc = "sleep" /\ now >= wake
  /\ pc' = "check"
  /\ UNCHANGED <<now, start, failed, wake, stopFlag, held, counters, reader,
                 history>>

Task == Check \/ Send \/ CountTotal \/ CountError \/ Push \/ Wake

-----------------------------------------------------------------------------
(* The test.                                                               *)

Stop ==
  /\ held /\ ~stopFlag /\ toLoad = {}
  /\ stopFlag' = TRUE
  /\ begunAtStop' = begun
  /\ UNCHANGED <<now, task, held, counters, reader, begun, countedAt>>

Drop ==
  /\ held /\ toLoad = {}
  /\ held' = FALSE
  /\ UNCHANGED <<now, task, stopFlag, counters, reader, history>>

BeginStats ==
  /\ held /\ toLoad = {}
  /\ toLoad' = Loads
  /\ stats' = NoStats
  /\ countedAt' = NoStats
  /\ UNCHANGED <<now, task, stopFlag, held, counters, begun, begunAtStop>>

Load(l) ==
  /\ l \in toLoad
  /\ toLoad' = toLoad \ {l}
  /\ stats' = [stats EXCEPT ![l] = CASE l = "total" -> total
                                     [] l = "errors" -> errors
                                     [] OTHER -> latencies]
  /\ countedAt' = [countedAt EXCEPT ![l] = total]
  /\ UNCHANGED <<now, task, stopFlag, held, counters, begun, begunAtStop>>

Reader == Stop \/ Drop \/ BeginStats \/ \E l \in Loads : Load(l)

-----------------------------------------------------------------------------
(* Time passes while the task waits for an answer or sleeps.               *)
Tick ==
  /\ \/ pc = "request" /\ now < start + ReplyTimeout
     \/ pc = "sleep" /\ now < wake + Slack
  /\ now' = now + 1
  /\ UNCHANGED <<task, stopFlag, held, counters, reader, history>>

Ended == pc = "done" /\ UNCHANGED vars

Next == Task \/ (\E bad \in BOOLEAN : Answer(bad)) \/ Reader \/ Tick \/ Ended

Spec == Init /\ [][Next]_vars

-----------------------------------------------------------------------------
TypeOK ==
  /\ now \in Nat /\ start \in Nat /\ wake \in Nat
  /\ pc \in {"check", "send", "request", "count", "count_error", "push", "sleep", "done"}
  /\ failed \in BOOLEAN /\ stopFlag \in BOOLEAN /\ held \in BOOLEAN
  /\ total \in Nat /\ errors \in Nat /\ latencies \in Nat
  /\ toLoad \subseteq Loads
  /\ stats \in [Loads -> Nat]
  /\ begun \in Nat /\ begunAtStop \in Nat /\ countedAt \in [Loads -> Nat]

(* The traffic is over one request, one interval and one late wake-up      *)
(* after its duration: what a test has to allow for before it tears down   *)
(* the service.                                                            *)
EndsInTime == now <= Duration + ReplyTimeout + Interval + Slack

(* No more than rps requests per second, slow answers or not: requests are *)
(* at least one interval apart.                                            *)
RateIsKept == begun > 0 => (begun - 1) * Interval <= start

(* stop() lets at most one more request out: the one that was past its     *)
(* look at the flag.                                                       *)
StopEndsSoon == stopFlag => begun <= begunAtStop + 1

(* stats() loads its three values one by one.  Each two of them are apart  *)
(* by no more than the requests that were counted between their loads, and *)
(* the one that was being counted; more errors than requests come only     *)
(* from requests counted after the total was loaded.                       *)
CountedBetween(a, b) ==
  IF countedAt[a] < countedAt[b] THEN countedAt[b] - countedAt[a] ELSE 0
SnapshotIsClose ==
  toLoad = {} =>
    /\ stats["errors"] <= stats["total"] + CountedBetween("total", "errors")
    /\ stats["latencies"] <= stats["total"] + CountedBetween("total", "latencies")
    /\ stats["total"] <= stats["latencies"] + CountedBetween("latencies", "total") + 1

(* What error_rate() says of itself, "(0.0 to 1.0)": of a snapshot that    *)
(* has requests, no more errors than these.                                *)
RateIsAFraction ==
  toLoad = {} /\ stats["total"] > 0 => stats["errors"] <= stats["total"]
=============================================================================

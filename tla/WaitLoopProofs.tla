--------------------------- MODULE WaitLoopProofs ---------------------------
(* Proofs of the safety properties of WaitLoop for every timeout, interval,*)
(* latency and slack.                                                      *)
EXTENDS WaitLoop, TLAPS

(* How far one poll can lie from the next.                                 *)
Gap == Latency + Interval + Slack

(* Where the clock stands at each point of the loop.                       *)
Clock ==
  /\ pollStart <= now
  /\ step \in {"call", "answer"} => now <= pollStart + Latency
  /\ step = "sleep" => /\ pollStart + Interval <= wake
                       /\ wake <= pollStart + Latency + Interval
                     /\ wake < Timeout + Interval
                     /\ now <= wake + Slack
  /\ pollStart = 0 \/ pollStart < Timeout + Interval + Slack

(* How far back the history can reach: a poll that was answered and did    *)
(* not decide is younger than `since`; so is, up to one Gap, the next one. *)
History ==
  Decisive(loop, obj) =>
    /\ step \in {"call", "answer"} => pollStart - Gap <= since
    /\ step = "answer" /\ ~Decisive(loop, seen) => pollStart <= since
    /\ step = "sleep" => pollStart <= since

IInv ==
  /\ WaitTypeOK /\ Clock /\ History
  /\ ReturnsInTime /\ TimeoutIsTruthful /\ PollsAreSpaced

-----------------------------------------------------------------------------
(* The verdict of a decided poll is never mistaken for an expiry.          *)
LEMMA VerdictIsNotExpiry ==
  ASSUME NEW k \in Loops, NEW s \in Seen, Decisive(k, s)
  PROVE  Verdict(k, s) # Expired(k) /\ Verdict(k, s) \in Results
BY DEF Loops, Seen, Objects, Decisive, Verdict, Expired, Results

LEMMA InitIInv == WaitInit => IInv
BY TimeAssumption
   DEF WaitInit, IInv, WaitTypeOK, Clock, History, ReturnsInTime, TimeoutIsTruthful,
       PollsAreSpaced, Gap, Loops, Objects, Seen, Results, Expired

LEMMA ServeStep == IInv /\ Serve => IInv'
BY TimeAssumption
   DEF IInv, Serve, WaitTypeOK, Clock, History, ReturnsInTime, TimeoutIsTruthful,
       PollsAreSpaced, Gap, Objects, Seen, Decisive, Expired

LEMMA FaultStep == IInv /\ Fault => IInv'
BY TimeAssumption
   DEF IInv, Fault, WaitTypeOK, Clock, History, ReturnsInTime, TimeoutIsTruthful,
       PollsAreSpaced, Gap, Objects, Seen, Decisive, Expired

LEMMA ReturnStep == IInv /\ Return => IInv'
BY TimeAssumption, VerdictIsNotExpiry
   DEF IInv, Return, WaitTypeOK, Clock, History, ReturnsInTime, TimeoutIsTruthful,
       PollsAreSpaced, Decisive

LEMMA GiveUpStep == IInv /\ GiveUp => IInv'
BY TimeAssumption
   DEF IInv, GiveUp, TimeIsUp, WaitTypeOK, Clock, History, ReturnsInTime, TimeoutIsTruthful,
       PollsAreSpaced, Gap, Expired, Results, Decisive

LEMMA FallAsleepStep == IInv /\ FallAsleep => IInv'
BY TimeAssumption
   DEF IInv, FallAsleep, TimeIsUp, NextPoll, WaitTypeOK, Clock, History, ReturnsInTime,
       TimeoutIsTruthful, PollsAreSpaced, Gap, Decisive, Expired

LEMMA WakeStep == IInv /\ Wake => IInv'
<1> SUFFICES ASSUME IInv, Wake PROVE IInv'
  OBVIOUS
<1> USE TimeAssumption
<1>1. WaitTypeOK' /\ Clock' /\ ReturnsInTime' /\ TimeoutIsTruthful'
  BY DEF IInv, Wake, WaitTypeOK, Clock, ReturnsInTime, TimeoutIsTruthful
<1>2. History'
  BY DEF IInv, Wake, WaitTypeOK, Clock, History, Gap, Decisive
<1>3. PollsAreSpaced'
  <2>1. attempts * Interval = (attempts - 1) * Interval + Interval
    BY DEF IInv, WaitTypeOK
  <2>2. (attempts - 1) * Interval \in Int /\ attempts * Interval \in Int
    BY DEF IInv, WaitTypeOK
  <2>3. attempts * Interval <= now
    BY <2>1, <2>2 DEF IInv, Wake, WaitTypeOK, Clock, PollsAreSpaced
  <2> QED BY <2>3 DEF IInv, Wake, WaitTypeOK, PollsAreSpaced
<1> QED BY <1>1, <1>2, <1>3 DEF IInv

LEMMA ChangeStep ==
  ASSUME NEW o \in Objects
  PROVE  IInv /\ Change(o) => IInv'
BY TimeAssumption
   DEF IInv, Change, WaitTypeOK, Clock, History, ReturnsInTime, TimeoutIsTruthful,
       PollsAreSpaced, Gap, Decisive, Expired

LEMMA TickStep == IInv /\ Tick => IInv'
BY TimeAssumption
   DEF IInv, Tick, WaitTypeOK, Clock, History, ReturnsInTime, TimeoutIsTruthful,
       PollsAreSpaced, Gap, Decisive, Expired

LEMMA StutterStep == IInv /\ UNCHANGED waitVars => IInv'
BY DEF IInv, waitVars, WaitTypeOK, Clock, History, ReturnsInTime, TimeoutIsTruthful,
       PollsAreSpaced, Decisive, Expired

THEOREM Invariant == WaitSpec => []IInv
<1>1. IInv /\ [WaitNext]_waitVars => IInv'
  BY ServeStep, FaultStep, ReturnStep, GiveUpStep, FallAsleepStep, WakeStep,
     ChangeStep, TickStep, StutterStep DEF WaitNext, Waiter, Cluster
<1> QED BY InitIInv, <1>1, PTL DEF WaitSpec

-----------------------------------------------------------------------------
(* Every variable of the loop keeps its type.                              *)
THEOREM TypeCorrect == WaitSpec => []WaitTypeOK
BY Invariant, PTL DEF IInv

(* A wait with `timeout` is over before timeout + interval + wake-up delay *)
(* + request time, whatever these are.                                     *)
THEOREM WaitIsBounded == WaitSpec => []ReturnsInTime
BY Invariant, PTL DEF IInv

(* A state that decides the loop and lasts is noticed within two requests, *)
(* one interval and one late wake-up.                                      *)
THEOREM WaitIsPrompt == WaitSpec => []PromptOnceDecided
<1>1. IInv => PromptOnceDecided
  BY TimeAssumption DEF IInv, PromptOnceDecided, WaitTypeOK, Clock, History, Gap
<1> QED BY <1>1, Invariant, PTL

(* No timeout is reported while the condition held for the whole last poll.*)
THEOREM TimeoutsAreTruthful == WaitSpec => []TimeoutIsTruthful
BY Invariant, PTL DEF IInv

(* The API server is asked at most once per interval.                      *)
THEOREM PollingIsSpaced == WaitSpec => []PollsAreSpaced
BY Invariant, PTL DEF IInv
=============================================================================

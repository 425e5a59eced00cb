---------------------------- MODULE TrafficProofs ----------------------------
(* Proofs about what a test does with requests and their numbers: Traffic  *)
(* for any duration, rate, reply timeout and scheduling slack, HttpAssert  *)
(* and Fixtures for any responses, texts, names and labels; and, with laws *)
(* of sums over finite sets, Statistics for any durations, PodMetrics for  *)
(* any containers and units, Retry for any number of attempts and backoff. *)
EXTENDS Traffic, Retry, HttpAssert, Statistics, PodMetrics, Fixtures,
        TLAPS, FiniteSetTheorems

-----------------------------------------------------------------------------
(* Where the clock stands at each point of the task's loop.                *)
Clock ==
  /\ pc = "send" => now < Duration
  /\ pc = "request" => start < Duration /\ now <= start + ReplyTimeout
  /\ pc \in {"count", "count_error", "push"} => now < Duration + ReplyTimeout
  /\ pc = "sleep" => /\ wake < Duration + ReplyTimeout + Interval
                     /\ now <= wake + Slack
  /\ start <= now

(* When the next request may leave: one interval after the last, at the    *)
(* earliest.                                                               *)
Pace ==
  /\ pc \in {"check", "send"} => begun * Interval <= now
  /\ pc = "sleep" => begun * Interval <= wake
  /\ pc \in {"request", "count", "count_error", "push", "sleep"} => begun > 0

(* A task past its look at the flag has one request to send, no more.      *)
Stopped ==
  stopFlag => begun <= (IF pc = "send" THEN begunAtStop ELSE begunAtStop + 1)

(* The counters: total first, the latency last, the error in between.      *)
Counting ==
  /\ latencies = IF pc \in {"count_error", "push"} THEN total - 1 ELSE total
  /\ errors <= (IF pc = "count_error" THEN total - 1 ELSE total)

(* What stats() has loaded: each value as it was, or nearly, when the total *)
(* was what countedAt says.                                                *)
Loaded ==
  /\ \A l \in Loads : countedAt[l] <= total
  /\ stats["total"] = countedAt["total"]
  /\ stats["errors"] <= countedAt["errors"]
  /\ stats["latencies"] \in countedAt["latencies"] - 1 .. countedAt["latencies"]

IInv ==
  /\ TypeOK /\ EndsInTime /\ RateIsKept
  /\ Clock /\ Pace /\ Stopped /\ Counting /\ Loaded

(* The only arithmetic that is not linear.                                 *)
LEMMA OneMore ==
  ASSUME NEW n \in Nat
  PROVE  /\ n * Interval \in Nat
         /\ (n + 1 - 1) * Interval = n * Interval
         /\ (n - 1) * Interval + Interval = n * Interval
         /\ 0 * Interval = 0
BY TrafficAssumption, SMT

LEMMA InitIInv == Init => IInv
<1> SUFFICES ASSUME Init PROVE IInv
  OBVIOUS
<1>1. TypeOK
  BY DEF Init, TypeOK, NoStats
<1>2. EndsInTime /\ RateIsKept
  BY TrafficAssumption DEF Init, EndsInTime, RateIsKept
<1>3. Clock /\ Pace /\ Stopped /\ Counting /\ Loaded
  BY TrafficAssumption, OneMore
     DEF Init, Clock, Pace, Stopped, Counting, Loaded, NoStats, Loads
<1> QED BY <1>1, <1>2, <1>3 DEF IInv

-----------------------------------------------------------------------------
(* The task.  Only CountTotal, CountError and Push touch the counters, and *)
(* no step of the task touches the reader.                                 *)
LEMMA LoadedStutters ==
  ASSUME Loaded, UNCHANGED <<total, reader, countedAt>>
  PROVE  Loaded'
BY DEF Loaded, reader

LEMMA CheckStep == IInv /\ Check => IInv'
<1> SUFFICES ASSUME IInv, Check PROVE IInv'
  OBVIOUS
<1>1. TypeOK'
  BY DEF IInv, TypeOK, Check, counters, reader, history
<1>2. EndsInTime' /\ RateIsKept' /\ Clock' /\ Pace'
  BY DEF IInv, TypeOK, EndsInTime, RateIsKept, Clock, Pace, Check, GoesOn, counters, history
<1>3. Stopped' /\ Counting'
  BY DEF IInv, TypeOK, Stopped, Counting, Check, GoesOn, counters, history
<1> QED BY <1>1, <1>2, <1>3, LoadedStutters DEF IInv, Check, counters, history

LEMMA SendStep == IInv /\ Send => IInv'
<1> SUFFICES ASSUME IInv, Send PROVE IInv'
  OBVIOUS
<1>1. TypeOK'
  BY DEF IInv, TypeOK, Send, counters, reader
<1>2. EndsInTime' /\ Clock'
  BY TrafficAssumption DEF IInv, TypeOK, EndsInTime, Clock, Send
<1>3. RateIsKept' /\ Pace'
  <2>1. begun \in Nat /\ begun * Interval <= now /\ start' = now /\ begun' = begun + 1
    BY DEF IInv, TypeOK, Pace, Send
  <2>2. (begun' - 1) * Interval <= start'
    BY <2>1, OneMore
  <2> QED BY <2>1, <2>2 DEF RateIsKept, Pace, Send
<1>4. Stopped' /\ Counting'
  BY DEF IInv, TypeOK, Stopped, Counting, Send, counters
<1> QED BY <1>1, <1>2, <1>3, <1>4, LoadedStutters DEF IInv, Send, counters

LEMMA AnswerStep == IInv /\ (\E bad \in BOOLEAN : Answer(bad)) => IInv'
<1> SUFFICES ASSUME IInv, NEW bad \in BOOLEAN, Answer(bad) PROVE IInv'
  OBVIOUS
<1>1. TypeOK'
  BY DEF IInv, TypeOK, Answer, counters, reader, history
<1>2. EndsInTime' /\ RateIsKept' /\ Clock' /\ Pace'
  BY TrafficAssumption
     DEF IInv, TypeOK, EndsInTime, RateIsKept, Clock, Pace, Answer, history
<1>3. Stopped' /\ Counting'
  BY DEF IInv, TypeOK, Stopped, Counting, Answer, counters, history
<1> QED BY <1>1, <1>2, <1>3, LoadedStutters DEF IInv, Answer, counters, history

LEMMA CountTotalStep == IInv /\ CountTotal => IInv'
<1> SUFFICES ASSUME IInv, CountTotal PROVE IInv'
  OBVIOUS
<1>1. TypeOK'
  BY DEF IInv, TypeOK, CountTotal, reader, history
<1>2. EndsInTime' /\ RateIsKept' /\ Clock' /\ Pace'
  BY DEF IInv, TypeOK, EndsInTime, RateIsKept, Clock, Pace, CountTotal, history
<1>3. Stopped' /\ Counting'
  BY DEF IInv, TypeOK, Stopped, Counting, CountTotal, history
<1>4. Loaded'
  BY DEF IInv, TypeOK, Loaded, CountTotal, reader, history
<1> QED BY <1>1, <1>2, <1>3, <1>4 DEF IInv

LEMMA CountErrorStep == IInv /\ CountError => IInv'
<1> SUFFICES ASSUME IInv, CountError PROVE IInv'
  OBVIOUS
<1>1. TypeOK'
  BY DEF IInv, TypeOK, CountError, reader, history
<1>2. EndsInTime' /\ RateIsKept' /\ Clock' /\ Pace'
  BY DEF IInv, TypeOK, EndsInTime, RateIsKept, Clock, Pace, CountError, history
<1>3. Stopped' /\ Counting'
  BY DEF IInv, TypeOK, Stopped, Counting, CountError, history
<1> QED BY <1>1, <1>2, <1>3, LoadedStutters DEF IInv, CountError, history

LEMMA PushStep == IInv /\ Push => IInv'
<1> SUFFICES ASSUME IInv, Push PROVE IInv'
  OBVIOUS
<1>1. TypeOK'
  BY TrafficAssumption DEF IInv, TypeOK, Push, NextRequest, reader, history
<1>2. EndsInTime' /\ Clock'
  BY TrafficAssumption DEF IInv, TypeOK, EndsInTime, Clock, Push, NextRequest
<1>3. RateIsKept' /\ Pace'
  <2>1. /\ begun \in Nat /\ begun > 0 /\ now \in Nat /\ start \in Nat
        /\ (begun - 1) * Interval <= start /\ start <= now
        /\ wake' = now + Interval /\ begun' = begun /\ start' = start
    BY DEF IInv, TypeOK, RateIsKept, Clock, Pace, Push, NextRequest, history
  <2>2. begun * Interval <= wake'
    <3>1. begun * Interval = (begun - 1) * Interval + Interval
      BY <2>1, OneMore
    <3>2. (begun - 1) * Interval \in Nat
      BY <2>1, OneMore
    <3> QED BY <2>1, <3>1, <3>2, TrafficAssumption
  <2> QED BY <2>1, <2>2 DEF RateIsKept, Pace, Push
<1>4. Stopped' /\ Counting'
  BY DEF IInv, TypeOK, Stopped, Counting, Push, history
<1> QED BY <1>1, <1>2, <1>3, <1>4, LoadedStutters DEF IInv, Push, history

LEMMA WakeStep == IInv /\ Wake => IInv'
<1> SUFFICES ASSUME IInv, Wake PROVE IInv'
  OBVIOUS
<1>1. TypeOK'
  BY DEF IInv, TypeOK, Wake, counters, reader, history
<1>2. EndsInTime' /\ Clock'
  BY DEF IInv, TypeOK, EndsInTime, Clock, Wake
<1>3. RateIsKept' /\ Pace'
  <2>1. begun * Interval \in Nat
    BY OneMore DEF IInv, TypeOK
  <2> QED BY <2>1 DEF IInv, TypeOK, RateIsKept, Pace, Wake, history
<1>4. Stopped' /\ Counting'
  BY DEF IInv, TypeOK, Stopped, Counting, Wake, counters, history
<1> QED BY <1>1, <1>2, <1>3, <1>4, LoadedStutters DEF IInv, Wake, counters, history

-----------------------------------------------------------------------------
(* The test: it leaves the task and the clock alone.                       *)
LEMMA TaskStutters ==
  ASSUME EndsInTime, RateIsKept, Clock, Pace, Counting,
         UNCHANGED <<now, task, counters, begun>>
  PROVE  EndsInTime' /\ RateIsKept' /\ Clock' /\ Pace' /\ Counting'
BY DEF EndsInTime, RateIsKept, Clock, Pace, Counting, task, counters

LEMMA StopStep == IInv /\ Stop => IInv'
<1> SUFFICES ASSUME IInv, Stop PROVE IInv'
  OBVIOUS
<1>1. TypeOK' /\ Stopped'
  BY DEF IInv, TypeOK, Stopped, Stop, task, counters, reader
<1> QED BY <1>1, TaskStutters, LoadedStutters DEF IInv, Stop, counters

LEMMA DropStep == IInv /\ Drop => IInv'
<1> SUFFICES ASSUME IInv, Drop PROVE IInv'
  OBVIOUS
<1>1. TypeOK' /\ Stopped'
  BY DEF IInv, TypeOK, Stopped, Drop, task, counters, reader, history
<1> QED BY <1>1, TaskStutters, LoadedStutters DEF IInv, Drop, counters, history

LEMMA BeginStatsStep == IInv /\ BeginStats => IInv'
<1> SUFFICES ASSUME IInv, BeginStats PROVE IInv'
  OBVIOUS
<1>1. TypeOK' /\ Stopped'
  BY DEF IInv, TypeOK, Stopped, BeginStats, NoStats, task, counters
<1>2. Loaded'
  BY DEF IInv, TypeOK, BeginStats, Loaded, Loads, NoStats, counters
<1> QED BY <1>1, <1>2, TaskStutters DEF IInv, BeginStats

LEMMA LoadStep ==
  ASSUME IInv, NEW l \in Loads, Load(l)
  PROVE  IInv'
<1>1. TypeOK' /\ Stopped'
  BY DEF IInv, TypeOK, Stopped, Load, Loads, task, counters
<1>2. /\ total \in Nat /\ latencies \in total - 1 .. total /\ errors <= total
      /\ stats \in [Loads -> Nat] /\ countedAt \in [Loads -> Nat]
      /\ total' = total
  BY DEF IInv, TypeOK, Counting, Load, Loads, counters
<1>3. \A k \in Loads \ {l} : stats'[k] = stats[k] /\ countedAt'[k] = countedAt[k]
  BY DEF IInv, TypeOK, Load
<1>4. /\ countedAt'[l] = total
      /\ l = "total" => stats'["total"] = total
      /\ l = "errors" => stats'["errors"] = errors
      /\ l = "latencies" => stats'["latencies"] = latencies
  BY DEF IInv, TypeOK, Load, Loads
<1>5. Loaded'
  <2>1. CASE l = "total"
    BY <2>1, <1>2, <1>3, <1>4 DEF IInv, Loaded, Loads
  <2>2. CASE l = "errors"
    BY <2>2, <1>2, <1>3, <1>4 DEF IInv, Loaded, Loads
  <2>3. CASE l = "latencies"
    BY <2>3, <1>2, <1>3, <1>4 DEF IInv, Loaded, Loads
  <2> QED BY <2>1, <2>2, <2>3 DEF Loads
<1> QED BY <1>1, <1>5, TaskStutters DEF IInv, Load

-----------------------------------------------------------------------------
LEMMA TickStep == IInv /\ Tick => IInv'
<1> SUFFICES ASSUME IInv, Tick PROVE IInv'
  OBVIOUS
<1>1. TypeOK'
  BY DEF IInv, TypeOK, Tick, task, counters, reader, history
<1>2. EndsInTime' /\ Clock'
  BY TrafficAssumption DEF IInv, TypeOK, EndsInTime, Clock, Tick, task
<1>3. RateIsKept' /\ Pace' /\ Stopped' /\ Counting'
  BY DEF IInv, TypeOK, RateIsKept, Pace, Stopped, Counting, Tick, task, counters, history
<1> QED BY <1>1, <1>2, <1>3, LoadedStutters DEF IInv, Tick, counters, history

LEMMA StutterStep == IInv /\ UNCHANGED vars => IInv'
<1> SUFFICES ASSUME IInv, UNCHANGED vars PROVE IInv'
  OBVIOUS
<1>1. TypeOK' /\ Stopped'
  BY DEF IInv, TypeOK, Stopped, vars, task, counters, reader, history
<1> QED BY <1>1, TaskStutters, LoadedStutters DEF IInv, vars, counters, history

(* IInv holds in every state: one lemma for each kind of step.             *)
THEOREM Invariant == Spec => []IInv
<1>1. IInv /\ [Next]_vars => IInv'
  <2> SUFFICES ASSUME IInv, [Next]_vars PROVE IInv'
    OBVIOUS
  <2>1. CASE Task
    BY <2>1, CheckStep, SendStep, CountTotalStep, CountErrorStep, PushStep, WakeStep
       DEF Task
  <2>2. CASE \E bad \in BOOLEAN : Answer(bad)
    BY <2>2, AnswerStep
  <2>3. CASE Reader
    BY <2>3, StopStep, DropStep, BeginStatsStep, LoadStep DEF Reader
  <2>4. CASE Tick
    BY <2>4, TickStep
  <2>5. CASE Ended \/ UNCHANGED vars
    BY <2>5, StutterStep DEF Ended
  <2> QED BY <2>1, <2>2, <2>3, <2>4, <2>5 DEF Next
<1> QED BY InitIInv, <1>1, PTL DEF Spec

-----------------------------------------------------------------------------
(* Every variable has its type.                                            *)
THEOREM TypeCorrect == Spec => []TypeOK
BY Invariant, PTL DEF IInv

(* The traffic of start_traffic ends in time, for every configuration.     *)
THEOREM TrafficIsBounded == Spec => []EndsInTime
BY Invariant, PTL DEF IInv

(* The configured rate is never exceeded, whatever the answers take.       *)
THEOREM RateIsBounded == Spec => []RateIsKept
BY Invariant, PTL DEF IInv

(* At most one request leaves after stop().                                *)
THEOREM StopIsSoon == Spec => []StopEndsSoon
<1>1. IInv => StopEndsSoon
  BY DEF IInv, TypeOK, Stopped, StopEndsSoon
<1> QED BY Invariant, <1>1, PTL

(* Two values of a stats() are apart by no more than what was counted      *)
(* between their loads, and one.                                           *)
THEOREM SnapshotsAreClose == Spec => []SnapshotIsClose
<1>1. IInv => SnapshotIsClose
  <2> SUFFICES ASSUME IInv PROVE SnapshotIsClose
    OBVIOUS
  <2>1. \A l \in Loads : stats[l] \in Nat /\ countedAt[l] \in Nat
    BY DEF IInv, TypeOK
  <2> QED BY <2>1 DEF IInv, Loaded, Loads, SnapshotIsClose, CountedBetween
<1> QED BY Invariant, <1>1, PTL
-----------------------------------------------------------------------------
(* HttpAssert: a message for each check that does not hold.                *)

FailingChecks == {c \in asked : ~Holds(c)}

HttpInv ==
  /\ asked \subseteq Checks /\ IsFiniteSet(asked)
  /\ messages = Cardinality(FailingChecks)
  /\ chain = "ok" => messages = 0
  /\ chain \in {"error", "panic"} => FailingChecks # {}
  /\ chain = "cut" => \E c \in asked : ~Holds(c) /\ ~MessageIsMade(c)

LEMMA FailingIsFinite ==
  ASSUME IsFiniteSet(asked)
  PROVE  /\ IsFiniteSet(FailingChecks) /\ Cardinality(FailingChecks) \in Nat
         /\ Cardinality(FailingChecks) = 0 <=> FailingChecks = {}
<1>1. FailingChecks \subseteq asked
  BY DEF FailingChecks
<1>2. IsFiniteSet(FailingChecks)
  BY <1>1, FS_Subset
<1> QED BY <1>2, FS_CardinalityType, FS_EmptySet

(* The response does not change, so neither does what holds of it.         *)
LEMMA HoldsStays ==
  ASSUME response' = response, NEW c
  PROVE  (Holds(c)' <=> Holds(c)) /\ (MessageIsMade(c)' <=> MessageIsMade(c))
BY DEF Holds, HasField, MessageIsMade

(* A field that is there is found, as itself.                              *)
LEMMA NamesAreMeant ==
  ASSUME response.fields \subseteq Numbers, NEW c \in Checks, ~Holds(c)
  PROVE  ~Means(c)
BY HttpAssertAssumption DEF Holds, HasField, Means

LEMMA CheckThatStep ==
  ASSUME HttpInv, NEW c \in Checks, CheckThat(c)
  PROVE  HttpInv'
<1>1. /\ c \notin asked /\ asked' = asked \cup {c} /\ response' = response
      /\ messages' = (IF Holds(c) THEN messages ELSE messages + 1)
      /\ chain' = "open" \/ (chain' = "cut" /\ ~Holds(c) /\ ~MessageIsMade(c))
  BY DEF CheckThat
<1>2. asked' \subseteq Checks /\ IsFiniteSet(asked')
  BY <1>1, FS_AddElement DEF HttpInv
<1>3. FailingChecks' = IF Holds(c) THEN FailingChecks ELSE FailingChecks \cup {c}
  <2>1. FailingChecks' = {d \in asked \cup {c} : ~Holds(d)}
    BY <1>1, HoldsStays DEF FailingChecks
  <2> QED BY <2>1 DEF FailingChecks
<1>4. messages' = Cardinality(FailingChecks')
  <2>1. CASE Holds(c)
    BY <1>1, <1>3, <2>1 DEF HttpInv
  <2>2. CASE ~Holds(c)
    <3>1. c \notin FailingChecks /\ IsFiniteSet(FailingChecks)
      BY <1>1, FailingIsFinite DEF HttpInv, FailingChecks
    <3>2. Cardinality(FailingChecks \cup {c}) = Cardinality(FailingChecks) + 1
      BY <3>1, FS_AddElement
    <3> QED BY <1>1, <1>3, <2>2, <3>2 DEF HttpInv
  <2> QED BY <2>1, <2>2
<1>5. chain' = "cut" => ~Holds(c)' /\ ~MessageIsMade(c)' /\ c \in asked'
  BY <1>1, HoldsStays
<1> QED BY <1>1, <1>2, <1>4, <1>5 DEF HttpInv

(* HttpInv holds in every state.                                           *)
THEOREM HttpInvariant == HttpAssertSpec => []HttpInv
<1>1. HttpAssertInit => HttpInv
  <2> SUFFICES ASSUME HttpAssertInit PROVE HttpInv
    OBVIOUS
  <2>1. FailingChecks = {}
    BY DEF HttpAssertInit, FailingChecks
  <2> QED BY <2>1, FS_EmptySet DEF HttpAssertInit, HttpInv
<1>2. ASSUME HttpInv, UNCHANGED <<response, messages, asked>>
      PROVE  /\ FailingChecks' = FailingChecks
             /\ \A c : (Holds(c)' <=> Holds(c)) /\ (MessageIsMade(c)' <=> MessageIsMade(c))
  BY <1>2, HoldsStays DEF FailingChecks
<1>3. HttpInv /\ [HttpAssertNext]_httpVars => HttpInv'
  <2> SUFFICES ASSUME HttpInv, [HttpAssertNext]_httpVars PROVE HttpInv'
    OBVIOUS
  <2>1. CASE Result \/ Assert
    <3>1. /\ UNCHANGED <<response, messages, asked>>
          /\ \/ chain' = "ok" /\ messages = 0
             \/ chain' \in {"error", "panic"} /\ messages # 0
      BY <2>1 DEF Result, Assert
    <3>2. messages # 0 => FailingChecks # {}
      BY FailingIsFinite DEF HttpInv
    <3> QED BY <1>2, <3>1, <3>2 DEF HttpInv
  <2>2. CASE UNCHANGED httpVars
    BY <1>2, <2>2 DEF httpVars, HttpInv
  <2> QED BY <2>1, <2>2, CheckThatStep DEF HttpAssertNext, Over
<1> QED BY <1>1, <1>3, PTL DEF HttpAssertSpec

(* The responses are those of the constants.                               *)
LEMMA ResponseIsOne == HttpAssertSpec => [](response.fields \subseteq Numbers)
<1>1. HttpAssertInit => response.fields \subseteq Numbers
  BY HttpAssertAssumption DEF HttpAssertInit
<1>2. response.fields \subseteq Numbers /\ [HttpAssertNext]_httpVars
        => (response.fields \subseteq Numbers)'
  BY DEF HttpAssertNext, Result, Assert, Over, CheckThat, httpVars
<1> QED BY <1>1, <1>2, PTL DEF HttpAssertSpec

(* The end of a chain tells how many of its checks are false, and a chain  *)
(* that is cut has a false one: for any response, any texts and any length *)
(* of the chain, and by what a check means, not by how it looks.           *)
THEOREM ChainsTellAll == HttpAssertSpec => []ChainTellsAll
<1>1. HttpInv /\ response.fields \subseteq Numbers => ChainTellsAll
  <2> SUFFICES ASSUME HttpInv, response.fields \subseteq Numbers PROVE ChainTellsAll
    OBVIOUS
  <2>1. messages = 0 <=> FailingChecks = {}
    BY FailingIsFinite DEF HttpInv
  <2>2. \A c \in asked : ~Holds(c) => ~Means(c)
    BY NamesAreMeant DEF HttpInv
  <2>3. ASSUME chain = "ok", NEW c \in asked, ~Means(c)
        PROVE  /\ c.kind = "contains_json"
               /\ \E g \in response.fields : /\ g.key = c.text.key
                                             /\ <<c.text.value, g.value>> \in Prefixes
    <3>1. Holds(c)
      BY <2>1, <2>3 DEF HttpInv, FailingChecks
    <3>2. c.kind = "contains_json"
      BY <2>3, <3>1 DEF Means
    <3> QED BY <3>1, <3>2 DEF Holds, HasField
  <2>4. chain \in {"error", "panic"} =>
          /\ messages = Cardinality({c \in asked : ~Holds(c)})
          /\ \E c \in asked : ~Means(c)
    BY <2>2 DEF HttpInv, FailingChecks
  <2>5. chain = "cut" => \E c \in asked : ~Means(c) /\ ~MessageIsMade(c)
    BY <2>2 DEF HttpInv
  <2> QED BY <2>3, <2>4, <2>5 DEF ChainTellsAll
<1> QED BY HttpInvariant, ResponseIsOne, <1>1, PTL

-----------------------------------------------------------------------------
(* Fixtures: a pod of a deployment carries the labels of its template, and *)
(* these never change as long as the deployment is there.                  *)

LabelValue == Names \cup Tiers \cup {NoLabel}

Drafted ==
  /\ draft.labels \in [LabelKeys -> LabelValue]
  /\ draft.kind # "none" => draft.name \in Names

Deployed ==
  \A d \in deployments :
    /\ d.name \in Names /\ d.selector = d.template
    /\ d.template \in [LabelKeys -> LabelValue]
    /\ \A e \in deployments : e.name = d.name => e = d

Owned ==
  /\ \A p \in barePods : p.owner = "nobody"
  /\ \A p \in replicaPods : /\ p.owner = "deployment"
                            /\ \E d \in deployments : d.name = p.deployment
                                                      /\ d.template = p.labels

FixturesInv == Drafted /\ Deployed /\ Owned /\ LookupsFindByName

(* A step that is no lookup clears what was found.                         *)
LEMMA NothingIsFound ==
  ASSUME found' = NothingFound
  PROVE  LookupsFindByName'
BY DEF LookupsFindByName, NothingFound

LEMMA NoLabelsType == NoLabels \in [LabelKeys -> LabelValue]
BY DEF NoLabels, LabelValue

LEMMA DraftStep ==
  ASSUME FixturesInv, Drafted', found' = NothingFound, UNCHANGED applied
  PROVE  FixturesInv'
<1>1. Deployed' /\ Owned'
  BY DEF FixturesInv, Deployed, Owned, applied
<1> QED BY <1>1, NothingIsFound DEF FixturesInv

LEMMA NewStep ==
  ASSUME FixturesInv, NEW k \in {"deployment", "pod", "service"}, NEW n \in Names, New(k, n)
  PROVE  FixturesInv'
<1>1. /\ draft'.name = n
      /\ draft'.labels = [NoLabels EXCEPT !.app = IF k = "service" THEN @ ELSE n]
  BY DEF New, NoDraft
<1>2. draft'.labels \in [LabelKeys -> LabelValue]
  BY <1>1, NoLabelsType DEF LabelValue, LabelKeys
<1> QED BY <1>1, <1>2, DraftStep DEF New, Drafted

LEMMA LabelStep ==
  ASSUME FixturesInv, NEW l \in Labels, Label(l)
  PROVE  FixturesInv'
<1>1. /\ draft'.labels = [k \in LabelKeys |-> IF l[k] = NoLabel THEN draft.labels[k] ELSE l[k]]
      /\ draft'.name = draft.name /\ draft'.kind = draft.kind
  BY DEF Label, FixturesInv, Drafted, LabelKeys
<1>2. \A k \in LabelKeys : l[k] \in LabelValue
  BY DEF Labels, LabelKeys, LabelValue
<1>3. Drafted'
  BY <1>1, <1>2 DEF FixturesInv, Drafted
<1> QED BY <1>3, DraftStep DEF Label

LEMMA ApplyDeploymentStep == FixturesInv /\ ApplyDeployment => FixturesInv'
<1> SUFFICES ASSUME FixturesInv, ApplyDeployment PROVE FixturesInv'
  OBVIOUS
<1> DEFINE new == [name |-> draft.name, selector |-> draft.labels,
                   template |-> draft.labels, replicas |-> draft.replicas]
<1>1. /\ new.name = draft.name /\ new.name \in Names /\ new.selector = new.template
      /\ new.template = draft.labels /\ new.template \in [LabelKeys -> LabelValue]
  BY DEF FixturesInv, Drafted, ApplyDeployment
<1>2. /\ deployments' = {d \in deployments : d.name # draft.name} \cup {new}
      /\ \A d \in deployments : d.name = draft.name => d.selector = draft.labels
      /\ draft' = NoDraft /\ found' = NothingFound
      /\ UNCHANGED <<barePods, replicaPods>>
  BY DEF ApplyDeployment
<1> HIDE DEF new
<1>3. Drafted'
  BY <1>2, NoLabelsType DEF Drafted, NoDraft
<1>4. Deployed'
  BY <1>1, <1>2 DEF FixturesInv, Deployed
<1>5. Owned'
  <2> SUFFICES ASSUME NEW p \in replicaPods
               PROVE  \E d \in deployments' : d.name = p.deployment /\ d.template = p.labels
    BY <1>2 DEF FixturesInv, Owned
  <2>1. PICK d \in deployments : d.name = p.deployment /\ d.template = p.labels
    BY DEF FixturesInv, Owned
  <2>2. CASE d.name = draft.name
    BY <1>1, <1>2, <2>1, <2>2 DEF FixturesInv, Deployed
  <2>3. CASE d.name # draft.name
    BY <1>2, <2>1, <2>3
  <2> QED BY <2>2, <2>3
<1> QED BY <1>2, <1>3, <1>4, <1>5, NothingIsFound DEF FixturesInv

(* Pods and services that come, pods that start.                           *)
LEMMA OthersStep ==
  ASSUME FixturesInv, ApplyPod \/ ApplyService \/ \E p \in Pods : Start(p)
  PROVE  FixturesInv'
<1>1. /\ draft' = draft \/ draft' = NoDraft
      /\ barePods' = barePods \/ \E p : p.owner = "nobody" /\ barePods' = barePods \cup {p}
      /\ UNCHANGED <<deployments, replicaPods>> /\ found' = NothingFound
  BY DEF ApplyPod, ApplyService, Start
<1>2. Drafted'
  BY <1>1, NoLabelsType DEF FixturesInv, Drafted, NoDraft
<1>3. Deployed' /\ Owned'
  BY <1>1 DEF FixturesInv, Deployed, Owned
<1> QED BY <1>1, <1>2, <1>3, NothingIsFound DEF FixturesInv

LEMMA CreateReplicaStep ==
  ASSUME FixturesInv, NEW d \in deployments, CreateReplica(d)
  PROVE  FixturesInv'
<1>1. PICK i : replicaPods' = replicaPods \cup
        {[owner |-> "deployment", deployment |-> d.name, index |-> i, labels |-> d.template]}
  BY DEF CreateReplica
<1>2. UNCHANGED <<draft, deployments, barePods>> /\ found' = NothingFound
  BY DEF CreateReplica
<1>3. Drafted' /\ Deployed'
  BY <1>2 DEF FixturesInv, Drafted, Deployed
<1>4. Owned'
  BY <1>1, <1>2 DEF FixturesInv, Owned
<1> QED BY <1>2, <1>3, <1>4, NothingIsFound DEF FixturesInv

-----------------------------------------------------------------------------
(* The lookups.  A pod that has the label app of a deployment and is none  *)
(* of its own.                                                             *)
LEMMA Strangers ==
  ASSUME FixturesInv, NEW n \in Names, NEW p \in Pods, p.labels.app = n, p \notin Own(n)
  PROVE  \/ p.owner = "nobody" /\ (p.name = n \/ p.labels.app # p.name)
         \/ p.owner = "deployment" /\ \E d \in deployments : d.template.app # d.name
                                                             /\ d.name = p.deployment
<1>1. CASE p \in barePods
  BY <1>1 DEF FixturesInv, Owned
<1>2. CASE p \in replicaPods
  <2>1. p.deployment # n
    BY <1>2 DEF Own
  <2>2. PICK d \in deployments : d.name = p.deployment /\ d.template = p.labels
    BY <1>2 DEF FixturesInv, Owned
  <2> QED BY <1>2, <2>1, <2>2 DEF FixturesInv, Owned
<1> QED BY <1>1, <1>2 DEF Pods

LEMMA MatchingApp ==
  ASSUME NEW selector, selector.app # NoLabel, NEW p \in Matching(selector)
  PROVE  p \in Pods /\ p.labels.app = selector.app
BY DEF Matching, LabelKeys

LEMMA OwnAreMatched ==
  ASSUME FixturesInv, NEW n \in Names,
         \A d \in deployments : d.template.app = d.name
  PROVE  Own(n) \subseteq AppIs(n)
<1> SUFFICES ASSUME NEW p \in Own(n) PROVE p \in AppIs(n)
  OBVIOUS
<1>1. p \in replicaPods /\ p.deployment = n
  BY DEF Own
<1>2. p.labels["app"] = n
  BY <1>1 DEF FixturesInv, Owned
<1> DEFINE s == [app |-> n, tier |-> NoLabel]
<1>3. s["app"] = n /\ s["tier"] = NoLabel
  OBVIOUS
<1> HIDE DEF s
<1>4. \A k \in LabelKeys : s[k] # NoLabel => p.labels[k] = s[k]
  BY <1>2, <1>3 DEF LabelKeys
<1>5. p \in Matching(s)
  BY <1>1, <1>4 DEF Matching, Pods
<1> QED BY <1>5 DEF AppIs, s

(* What a lookup may return.                                               *)
LEMMA FindStep ==
  ASSUME FixturesInv, NEW by, NEW n, NEW pods, Find(by, n, pods),
         LookupsFindByName'
  PROVE  FixturesInv'
<1>1. UNCHANGED <<draft, deployments, barePods, replicaPods>>
  BY DEF Find, applied
<1> QED BY <1>1 DEF FixturesInv, Drafted, Deployed, Owned

LEMMA FindByApp ==
  ASSUME FixturesInv, NEW n \in Names, NEW by \in {"self_healing", "debug"},
         NEW pods \in SUBSET AppIs(n), Find(by, n, pods),
         by = "debug" => pods = AppIs(n)
  PROVE  FixturesInv'
<1>1. /\ found'.by = by /\ found'.name = n /\ found'.pods = pods /\ found'.own = Own(n)
      /\ deployments' = deployments
  BY DEF Find, applied
<1>2. ASSUME NEW p \in pods \ Own(n)
      PROVE  \/ p.owner = "nobody" /\ (p.name = n \/ p.labels.app # p.name)
             \/ p.owner = "deployment" /\ \E d \in deployments : d.template.app # d.name
                                                                 /\ d.name = p.deployment
  <2>1. p \in Pods /\ p.labels.app = n
    BY MatchingApp, FixturesAssumption DEF AppIs
  <2> QED BY <2>1, Strangers
<1>3. by = "debug" /\ {d \in deployments : d.template.app # d.name} = {} => Own(n) \subseteq pods
  BY OwnAreMatched
<1>4. LookupsFindByName'
  BY <1>1, <1>2, <1>3 DEF LookupsFindByName
<1> QED BY <1>4, FindStep

LEMMA ForwardDeploymentStep ==
  ASSUME FixturesInv, NEW d \in deployments, ForwardDeployment(d)
  PROVE  FixturesInv'
<1>1. PICK p \in Matching(d.selector) : Find("deployment", d.name, {p})
  BY DEF ForwardDeployment, ForwardTo
<1>2. /\ found'.by = "deployment" /\ found'.name = d.name /\ found'.pods = {p}
      /\ found'.own = Own(d.name) /\ deployments' = deployments
  BY <1>1 DEF Find, applied
<1>3. d.name \in Names /\ d.name # NoLabel /\ d.selector = d.template
  BY FixturesAssumption DEF FixturesInv, Deployed
<1>4. CASE d.template.app # d.name
  <2>1. LookupsFindByName'
    BY <1>2, <1>4 DEF LookupsFindByName
  <2> QED BY <1>1, <2>1, FindStep
<1>5. CASE d.template.app = d.name
  <2>1. p \in Pods /\ p.labels.app = d.name
    BY <1>1, <1>3, <1>5, MatchingApp
  <2>2. LookupsFindByName'
    BY <1>2, <1>3, <2>1, Strangers DEF LookupsFindByName
  <2> QED BY <1>1, <2>2, FindStep
<1> QED BY <1>4, <1>5

LEMMA ForwardServiceStep ==
  ASSUME FixturesInv, NEW s \in services, ForwardService(s)
  PROVE  FixturesInv'
<1>1. PICK p : Find("service", s.name, {p})
  BY DEF ForwardService, ForwardTo
<1>2. LookupsFindByName'
  BY <1>1 DEF Find, LookupsFindByName
<1> QED BY <1>1, <1>2, FindStep

(* FixturesInv holds in every state.                                       *)
THEOREM FixturesInvariant == FixturesSpec => []FixturesInv
<1>1. FixturesInit => FixturesInv
  BY NoLabelsType
     DEF FixturesInit, FixturesInv, Drafted, Deployed, Owned, LookupsFindByName, NoDraft,
         NothingFound
<1>2. FixturesInv /\ [FixturesNext]_fixtureVars => FixturesInv'
  <2> SUFFICES ASSUME FixturesInv, [FixturesNext]_fixtureVars PROVE FixturesInv'
    OBVIOUS
  <2>1. CASE Image \/ Panic \/ \E n \in 0..MaxReplicas : Replicas(n)
    <3>1. /\ found' = NothingFound /\ UNCHANGED applied
          /\ \/ draft' = NoDraft
             \/ draft'.labels = draft.labels /\ draft'.name = draft.name
                /\ draft'.kind = draft.kind
      <4>1. CASE Image BY <4>1 DEF Image
      <4>2. CASE Panic BY <4>2 DEF Panic
      <4>3. CASE \E n \in 0..MaxReplicas : Replicas(n) BY <4>3 DEF Replicas
      <4> QED BY <2>1, <4>1, <4>2, <4>3
    <3>2. Drafted'
      BY <3>1, NoLabelsType DEF FixturesInv, Drafted, NoDraft
    <3> QED BY <3>1, <3>2, DraftStep
  <2>2. ASSUME NEW n \in Names, ChooseVictim(n) \/ DebugPods(n) PROVE FixturesInv'
    <3>1. PICK by \in {"self_healing", "debug"}, pods \in SUBSET AppIs(n) :
            Find(by, n, pods) /\ (by = "debug" => pods = AppIs(n))
      BY <2>2 DEF ChooseVictim, DebugPods
    <3> QED BY <3>1, FindByApp
  <2>3. CASE UNCHANGED fixtureVars
    BY <2>3 DEF FixturesInv, Drafted, Deployed, Owned, LookupsFindByName, fixtureVars
  <2> QED BY <2>1, <2>2, <2>3, NewStep, LabelStep, ApplyDeploymentStep, OthersStep,
             CreateReplicaStep, ForwardDeploymentStep, ForwardServiceStep
          DEF FixturesNext
<1> QED BY <1>1, <1>2, PTL DEF FixturesSpec

(* A lookup by the name of a deployment finds its pods, unless a fixture   *)
(* was given another app: for any names and labels, any number of          *)
(* fixtures, in any order.                                                 *)
THEOREM LookupsFind == FixturesSpec => []LookupsFindByName
BY FixturesInvariant, PTL DEF FixturesInv

-----------------------------------------------------------------------------
(* Induction over a finite set U and over the naturals, with the set of    *)
(* what has the property.                                                  *)
LEMMA SetInduction ==
  ASSUME NEW U, IsFiniteSet(U), NEW B,
         \A S \in SUBSET U : (\A x \in S : S \ {x} \in B) => S \in B
  PROVE  \A S \in SUBSET U : S \in B
<1> DEFINE T == (SUBSET U) \ B
           R == StrictSubsetOrdering(U)
<1>1. IsWellFoundedOn(R, SUBSET U)
  BY FS_StrictSubsetOrderingWellFounded, FS_FiniteSubsetsOfFinite
<1>2. SUFFICES ASSUME T # {} PROVE FALSE
  OBVIOUS
<1>3. T \subseteq SUBSET U
  OBVIOUS
<1>4. PICK S \in T : \A Q \in T : ~ (<<Q, S>> \in R)
  <2> HIDE DEF R, T
  <2> QED BY <1>1, <1>2, <1>3, WFMin
<1>5. \A x \in S : <<S \ {x}, S>> \in R
  BY DEF StrictSubsetOrdering
<1>6. \A x \in S : S \ {x} \in B
  BY <1>4, <1>5
<1> QED BY <1>4, <1>6

LEMMA NumberInduction ==
  ASSUME NEW B, 0 \in B, \A n \in Nat : n \in B => n + 1 \in B
  PROVE  \A n \in Nat : n \in B
<1> DEFINE T == Nat \ B
           R == OpToRel(<, Nat)
<1>1. SUFFICES ASSUME T # {} PROVE FALSE
  OBVIOUS
<1>2. T \subseteq Nat
  OBVIOUS
<1>3. PICK m \in T : \A k \in T : ~ (<<k, m>> \in R)
  <2> HIDE DEF T
  <2> QED BY <1>1, <1>2, WFMin, NatLessThanWellFounded
<1>4. m - 1 \in Nat /\ <<m - 1, m>> \in R
  BY DEF OpToRel
<1>5. m - 1 \notin T
  BY <1>3, <1>4
<1>6. (m - 1) + 1 = m /\ m \notin B
  OBVIOUS
<1> QED BY <1>4, <1>5, <1>6

-----------------------------------------------------------------------------
(* The recursive function behind a sum, over the subsets of S.             *)
Summand(f, s, g) ==
  IF s = {} THEN 0
  ELSE LET x == CHOOSE x \in s : TRUE IN f[x] + g[s \ {x}]
IsIter(f, S, g) == g = [s \in SUBSET S |-> Summand(f, s, g)]

LEMMA IterExists ==
  ASSUME NEW S, IsFiniteSet(S), NEW f
  PROVE  \E g : IsIter(f, S, g)
<1> DEFINE level(n) == {s \in SUBSET S : Cardinality(s) <= n}
           upTo(n) == \E g : g = [s \in level(n) |-> Summand(f, s, g)]
           B == {n \in Nat : upTo(n)}
<1>1. \A s \in SUBSET S : IsFiniteSet(s) /\ Cardinality(s) \in Nat
  BY FS_Subset, FS_CardinalityType
<1>2. \A s \in SUBSET S : s # {} =>
        LET x == CHOOSE x \in s : TRUE
        IN  s \ {x} \in SUBSET S /\ Cardinality(s \ {x}) = Cardinality(s) - 1
  BY <1>1, FS_RemoveElement
<1>3. 0 \in B
  <2> DEFINE g == [s \in level(0) |-> 0]
  <2>1. \A s \in level(0) : s = {}
    BY <1>1, FS_EmptySet
  <2>2. g = [s \in level(0) |-> Summand(f, s, g)]
    BY <2>1 DEF Summand
  <2> HIDE DEF g
  <2> QED BY <2>2
<1>4. ASSUME NEW n \in Nat, n \in B PROVE n + 1 \in B
  <2>1. PICK g : g = [s \in level(n) |-> Summand(f, s, g)]
    BY <1>4
  <2> DEFINE h == [s \in level(n + 1) |-> Summand(f, s, g)]
  <2>2. \A s \in level(n) : s \in level(n + 1) /\ h[s] = g[s]
    BY <1>1, <2>1
  <2>3. ASSUME NEW s \in level(n + 1) PROVE Summand(f, s, g) = Summand(f, s, h)
    <3>1. CASE s = {}
      BY <3>1 DEF Summand
    <3>2. CASE s # {}
      <4> DEFINE x == CHOOSE x \in s : TRUE
      <4>1. s \ {x} \in level(n)
        BY <1>1, <1>2, <3>2
      <4>2. g[s \ {x}] = h[s \ {x}]
        BY <2>2, <4>1
      <4> QED BY <4>2 DEF Summand
    <3> QED BY <3>1, <3>2
  <2>4. h = [s \in level(n + 1) |-> Summand(f, s, h)]
    BY <2>3
  <2> HIDE DEF h
  <2> QED BY <2>4
<1>5. Cardinality(S) \in B
  <2> HIDE DEF B
  <2> QED BY <1>1, <1>3, <1>4, NumberInduction
<1>6. level(Cardinality(S)) = SUBSET S
  BY FS_Subset
<1> QED BY <1>5, <1>6 DEF IsIter

(* It adds up natural numbers, and in what order they are taken does not   *)
(* matter.                                                                 *)
LEMMA IterIsNat ==
  ASSUME NEW S, IsFiniteSet(S), NEW f \in [S -> Nat], NEW g, IsIter(f, S, g)
  PROVE  g[{}] = 0 /\ \A s \in SUBSET S : g[s] \in Nat
<1> DEFINE B == {s \in SUBSET S : g[s] \in Nat}
<1>1. \A s \in SUBSET S : g[s] = Summand(f, s, g)
  BY DEF IsIter
<1>2. ASSUME NEW s \in SUBSET S, \A x \in s : s \ {x} \in B PROVE s \in B
  <2>1. CASE s = {}
    BY <1>1, <2>1 DEF Summand
  <2>2. CASE s # {}
    <3>1. PICK x \in s : g[s] = f[x] + g[s \ {x}]
      BY <1>1, <2>2 DEF Summand
    <3> QED BY <1>2, <3>1
  <2> QED BY <2>1, <2>2
<1>3. \A s \in SUBSET S : s \in B
  <2> HIDE DEF B
  <2> QED BY <1>2, SetInduction
<1> QED BY <1>1, <1>3 DEF Summand

LEMMA IterLaw ==
  ASSUME NEW S, IsFiniteSet(S), NEW f \in [S -> Nat], NEW g, IsIter(f, S, g),
         NEW t \in SUBSET S, NEW z \in t
  PROVE  g[t] = f[z] + g[t \ {z}]
<1> DEFINE good(s) == \A x \in s : g[s] = f[x] + g[s \ {x}]
           B == {s \in SUBSET S : good(s)}
<1>1. \A s \in SUBSET S : g[s] = Summand(f, s, g)
  BY DEF IsIter
<1>2. ASSUME NEW s \in SUBSET S, \A x \in s : s \ {x} \in B PROVE s \in B
  <2>1. CASE s = {}
    BY <2>1
  <2>2. CASE s # {}
    <3>1. PICK y \in s : g[s] = f[y] + g[s \ {y}]
      BY <1>1, <2>2 DEF Summand
    <3>2. ASSUME NEW x \in s, x # y PROVE g[s] = f[x] + g[s \ {x}]
      <4>1. g[s \ {y}] = f[x] + g[(s \ {y}) \ {x}]
        BY <1>2, <3>2
      <4>2. g[s \ {x}] = f[y] + g[(s \ {x}) \ {y}]
        BY <1>2, <3>2
      <4>3. (s \ {y}) \ {x} = (s \ {x}) \ {y}
        OBVIOUS
      <4>4. g[(s \ {x}) \ {y}] \in Nat /\ f[x] \in Nat /\ f[y] \in Nat
        BY IterIsNat
      <4> QED BY <3>1, <4>1, <4>2, <4>3, <4>4
    <3>3. \A x \in s : g[s] = f[x] + g[s \ {x}]
      BY <3>1, <3>2
    <3> QED BY <3>3
  <2> QED BY <2>1, <2>2
<1>3. \A s \in SUBSET S : s \in B
  <2> HIDE DEF B
  <2> QED BY <1>2, SetInduction
<1> QED BY <1>3

(* The iteration for a set holds those for its subsets.                    *)
LEMMA IterRestricts ==
  ASSUME NEW S, IsFiniteSet(S), NEW f, NEW g, IsIter(f, S, g),
         NEW T \in SUBSET S, NEW h, IsIter(f, T, h)
  PROVE  \A s \in SUBSET T : h[s] = g[s]
<1> DEFINE B == {s \in SUBSET T : h[s] = g[s]}
<1>1. ASSUME NEW s \in SUBSET T, \A x \in s : s \ {x} \in B PROVE s \in B
  <2>1. g[s] = Summand(f, s, g) /\ h[s] = Summand(f, s, h)
    BY DEF IsIter
  <2>2. \A x \in s : f[x] + g[s \ {x}] = f[x] + h[s \ {x}]
    BY <1>1
  <2>3. Summand(f, s, g) = Summand(f, s, h)
    BY <2>2 DEF Summand
  <2> QED BY <2>1, <2>3
<1>2. IsFiniteSet(T)
  BY FS_Subset
<1>3. \A s \in SUBSET T : s \in B
  <2> HIDE DEF B
  <2> QED BY <1>1, <1>2, SetInduction
<1> QED BY <1>3

LEMMA SumIsIter ==
  ASSUME NEW S, IsFiniteSet(S), NEW f
  PROVE  \E g : IsIter(f, S, g) /\ SumFunctionOnSet(f, S) = g[S]
<1> DEFINE g == CHOOSE g : IsIter(f, S, g)
<1>1. IsIter(f, S, g)
  BY IterExists
<1>2. SumFunctionOnSet(f, S) = g[S]
  BY DEF SumFunctionOnSet, FoldFunctionOnSet, MapThenFoldSet, IsIter, Summand
<1> QED BY <1>1, <1>2

(* The laws of sums.                                                       *)
LEMMA SumLaws ==
  ASSUME NEW S, IsFiniteSet(S), NEW f \in [S -> Nat]
  PROVE  /\ SumFunctionOnSet(f, {}) = 0
         /\ \A T \in SUBSET S :
              /\ SumFunctionOnSet(f, T) \in Nat
              /\ \A x \in T : SumFunctionOnSet(f, T) = f[x] + SumFunctionOnSet(f, T \ {x})
<1>1. PICK g : IsIter(f, S, g)
  BY SumIsIter
<1>2. ASSUME NEW T \in SUBSET S PROVE SumFunctionOnSet(f, T) = g[T]
  <2>1. IsFiniteSet(T)
    BY FS_Subset
  <2>2. PICK h : IsIter(f, T, h) /\ SumFunctionOnSet(f, T) = h[T]
    BY <2>1, SumIsIter
  <2> QED BY <1>1, <2>2, IterRestricts
<1>3. g[{}] = 0 /\ \A T \in SUBSET S : g[T] \in Nat
  BY <1>1, IterIsNat
<1>4. ASSUME NEW T \in SUBSET S, NEW x \in T PROVE g[T] = f[x] + g[T \ {x}]
  BY <1>1, IterLaw
<1>5. \A T \in SUBSET S : \A x \in T : T \ {x} \in SUBSET S
  OBVIOUS
<1> QED BY <1>2, <1>3, <1>4, <1>5

LEMMA SumTakes ==
  ASSUME NEW S, IsFiniteSet(S), NEW f \in [S -> Nat], NEW T \in SUBSET S, NEW x \in T
  PROVE  /\ SumFunctionOnSet(f, T) = f[x] + SumFunctionOnSet(f, T \ {x})
         /\ SumFunctionOnSet(f, T \ {x}) \in Nat
<1>1. T \ {x} \in SUBSET S
  OBVIOUS
<1> QED BY <1>1, SumLaws

(* Larger summands, and more of them, make no smaller sum.                 *)
LEMMA SumCompares ==
  ASSUME NEW S, IsFiniteSet(S), NEW f \in [S -> Nat], NEW h \in [S -> Nat],
         \A x \in S : f[x] <= h[x]
  PROVE  SumFunctionOnSet(f, S) <= SumFunctionOnSet(h, S)
<1> DEFINE F(T) == SumFunctionOnSet(f, T)
           H(T) == SumFunctionOnSet(h, T)
           B == {T \in SUBSET S : F(T) <= H(T)}
<1>1. /\ F({}) = 0 /\ H({}) = 0
      /\ \A T \in SUBSET S :
           /\ F(T) \in Nat /\ H(T) \in Nat
           /\ \A x \in T : F(T) = f[x] + F(T \ {x}) /\ H(T) = h[x] + H(T \ {x})
  BY SumLaws
<1> HIDE DEF F, H
<1>2. ASSUME NEW T \in SUBSET S, \A x \in T : T \ {x} \in B PROVE T \in B
  <2>1. CASE T = {}
    BY <1>1, <2>1
  <2>2. ASSUME NEW x \in T PROVE F(T) <= H(T)
    <3>1. F(T \ {x}) <= H(T \ {x}) /\ F(T \ {x}) \in Nat /\ H(T \ {x}) \in Nat
      BY <1>1, <1>2
    <3>2. F(T) = f[x] + F(T \ {x}) /\ H(T) = h[x] + H(T \ {x})
      BY <1>1
    <3>3. f[x] <= h[x] /\ f[x] \in Nat /\ h[x] \in Nat
      OBVIOUS
    <3> QED BY <3>1, <3>2, <3>3
  <2> QED BY <2>1, <2>2
<1>3. \A T \in SUBSET S : T \in B
  <2> HIDE DEF B
  <2> QED BY <1>2, SetInduction
<1> QED BY <1>3 DEF F, H

LEMMA SumGrows ==
  ASSUME NEW S, IsFiniteSet(S), NEW f \in [S -> Nat], NEW W \in SUBSET S, NEW V \in SUBSET W
  PROVE  SumFunctionOnSet(f, V) <= SumFunctionOnSet(f, W)
<1> DEFINE F(T) == SumFunctionOnSet(f, T)
           B == {T \in SUBSET S : F(T \cap V) <= F(T)}
<1>1. /\ F({}) = 0
      /\ \A T \in SUBSET S :
           /\ F(T) \in Nat
           /\ \A x \in T : F(T) = f[x] + F(T \ {x})
  BY SumLaws
<1> HIDE DEF F
<1>2. ASSUME NEW T \in SUBSET S, \A x \in T : T \ {x} \in B PROVE T \in B
  <2>1. CASE T = {}
    BY <1>1, <2>1
  <2>2. ASSUME NEW x \in T PROVE F(T \cap V) <= F(T)
    <3>1. F(T) = f[x] + F(T \ {x}) /\ F(T) \in Nat /\ F(T \ {x}) \in Nat /\ f[x] \in Nat
      BY <1>1
    <3>2. F((T \ {x}) \cap V) <= F(T \ {x}) /\ F((T \ {x}) \cap V) \in Nat
      BY <1>1, <1>2
    <3>3. CASE x \in V
      <4>1. F(T \cap V) = f[x] + F((T \cap V) \ {x}) /\ (T \cap V) \ {x} = (T \ {x}) \cap V
        BY <1>1, <3>3
      <4> QED BY <3>1, <3>2, <4>1
    <3>4. CASE x \notin V
      <4>1. T \cap V = (T \ {x}) \cap V
        BY <3>4
      <4> QED BY <3>1, <3>2, <4>1
    <3> QED BY <3>3, <3>4
  <2> QED BY <2>1, <2>2
<1>3. \A T \in SUBSET S : T \in B
  <2> HIDE DEF B
  <2> QED BY <1>2, SetInduction
<1>4. W \cap V = V
  OBVIOUS
<1> QED BY <1>3, <1>4 DEF F

LEMMA SumScales ==
  ASSUME NEW S, IsFiniteSet(S), NEW f \in [S -> Nat], NEW c \in Nat
  PROVE  SumFunctionOnSet([x \in S |-> c * f[x]], S) = c * SumFunctionOnSet(f, S)
<1> DEFINE h == [x \in S |-> c * f[x]]
           F(T) == SumFunctionOnSet(f, T)
           H(T) == SumFunctionOnSet(h, T)
           B == {T \in SUBSET S : H(T) = c * F(T)}
<1>1. h \in [S -> Nat] /\ \A x \in S : h[x] = c * f[x]
  OBVIOUS
<1> HIDE DEF h
<1>2. /\ F({}) = 0 /\ H({}) = 0
      /\ \A T \in SUBSET S :
           /\ F(T) \in Nat /\ H(T) \in Nat
           /\ \A x \in T : F(T) = f[x] + F(T \ {x}) /\ H(T) = h[x] + H(T \ {x})
  BY <1>1, SumLaws
<1> HIDE DEF F, H
<1>3. ASSUME NEW T \in SUBSET S, \A x \in T : T \ {x} \in B PROVE T \in B
  <2>1. CASE T = {}
    BY <1>2, <2>1
  <2>2. ASSUME NEW x \in T PROVE H(T) = c * F(T)
    <3>1. H(T \ {x}) = c * F(T \ {x}) /\ F(T \ {x}) \in Nat /\ f[x] \in Nat
      BY <1>2, <1>3
    <3>2. F(T) = f[x] + F(T \ {x}) /\ H(T) = c * f[x] + H(T \ {x})
      BY <1>1, <1>2
    <3>3. \A a, b \in Nat : c * (a + b) = c * a + c * b
      OBVIOUS
    <3> QED BY <3>1, <3>2, <3>3
  <2> QED BY <2>1, <2>2
<1>4. \A T \in SUBSET S : T \in B
  <2> HIDE DEF B
  <2> QED BY <1>3, SetInduction
<1> QED BY <1>4 DEF F, H, h

(* A finite set has a largest and a smallest element, by any measure.      *)
LEMMA MostOfSet ==
  ASSUME NEW S, IsFiniteSet(S), S # {}, NEW f \in [S -> Int]
  PROVE  \E x \in S : \A y \in S : f[y] <= f[x]
<1> DEFINE B == {T \in SUBSET S : T # {} => \E x \in T : \A y \in T : f[y] <= f[x]}
<1>1. ASSUME NEW T \in SUBSET S, \A x \in T : T \ {x} \in B PROVE T \in B
  <2>1. ASSUME NEW z \in T PROVE \E x \in T : \A y \in T : f[y] <= f[x]
    <3>1. CASE T \ {z} = {}
      BY <3>1
    <3>2. CASE T \ {z} # {}
      <4>1. PICK x \in T \ {z} : \A y \in T \ {z} : f[y] <= f[x]
        BY <1>1, <3>2
      <4>2. CASE f[z] <= f[x]
        BY <4>1, <4>2
      <4>3. CASE f[x] <= f[z]
        BY <4>1, <4>3
      <4> QED BY <4>2, <4>3
    <3> QED BY <3>1, <3>2
  <2> QED BY <2>1
<1>2. \A T \in SUBSET S : T \in B
  <2> HIDE DEF B
  <2> QED BY <1>1, SetInduction
<1> QED BY <1>2

LEMMA MaxOfSet ==
  ASSUME NEW S \in SUBSET Int, IsFiniteSet(S), S # {}
  PROVE  Max(S) \in S /\ \A y \in S : Max(S) >= y
<1> DEFINE f == [x \in S |-> x]
<1>1. f \in [S -> Int]
  OBVIOUS
<1>2. \E x \in S : \A y \in S : f[y] <= f[x]
  BY <1>1, MostOfSet
<1>3. \E x \in S : \A y \in S : x >= y
  BY <1>2
<1> QED BY <1>3 DEF Max

LEMMA MinOfSet ==
  ASSUME NEW S \in SUBSET Int, IsFiniteSet(S), S # {}
  PROVE  Min(S) \in S /\ \A y \in S : Min(S) <= y
<1> DEFINE f == [x \in S |-> 0 - x]
<1>1. f \in [S -> Int]
  OBVIOUS
<1>2. \E x \in S : \A y \in S : f[y] <= f[x]
  BY <1>1, MostOfSet
<1>3. \E x \in S : \A y \in S : x <= y
  BY <1>2
<1> QED BY <1>3 DEF Min

LEMMA MinOfTwo ==
  ASSUME NEW a \in Int, NEW b \in Int
  PROVE  Min({a, b}) = IF a <= b THEN a ELSE b
BY MinOfSet, FS_Singleton, FS_AddElement DEF Min

-----------------------------------------------------------------------------
(* Statistics.                                                             *)
Counted == samples \in [Durations -> Nat]

LEMMA Tallies ==
  ASSUME Counted
  PROVE  /\ \A d \in Durations :
              /\ Below(d) \in Nat /\ AtMost(d) \in Nat
              /\ AtMost(d) = SumFunctionOnSet(samples, {e \in Durations : e <= d})
              /\ AtMost(d) = Below(d) + samples[d] /\ samples[d] \in Nat
         /\ Count \in Nat /\ Count = SumFunctionOnSet(samples, Durations)
<1> USE StatisticsAssumption DEF Counted
<1>1. ASSUME NEW d \in Durations
      PROVE  /\ Below(d) \in Nat /\ samples[d] \in Nat
             /\ AtMost(d) = SumFunctionOnSet(samples, {e \in Durations : e <= d})
  <2> DEFINE T == {e \in Durations : e <= d}
  <2>1. T \in SUBSET Durations /\ d \in T /\ d \in Nat /\ samples[d] \in Nat
    OBVIOUS
  <2>2. \A e \in Durations : e \in Nat /\ (e < d <=> e <= d /\ e # d)
    BY <2>1
  <2>3. T \ {d} = {e \in Durations : e < d}
    BY <2>2
  <2> HIDE DEF T
  <2>4. /\ SumFunctionOnSet(samples, T) = samples[d] + SumFunctionOnSet(samples, T \ {d})
        /\ SumFunctionOnSet(samples, T \ {d}) \in Nat
    BY <2>1, SumTakes
  <2>5. SumFunctionOnSet(samples, T \ {d}) = Below(d)
    BY <2>3, Zenon DEF Below
  <2>6. Below(d) \in Nat /\ AtMost(d) = SumFunctionOnSet(samples, T)
    BY <2>1, <2>4, <2>5 DEF AtMost
  <2> QED BY <2>1, <2>6, Zenon DEF T
<1>2. /\ Max(Durations) \in Durations
      /\ {e \in Durations : e <= Max(Durations)} = Durations
  <2>1. Durations \in SUBSET Int
    OBVIOUS
  <2>2. Max(Durations) \in Durations /\ \A e \in Durations : Max(Durations) >= e
    BY <2>1, MaxOfSet
  <2>3. \A e \in Durations : e <= Max(Durations)
    BY <2>1, <2>2
  <2> QED BY <2>2, <2>3
<1>3. ASSUME NEW d \in Durations
      PROVE  /\ Below(d) \in Nat /\ AtMost(d) \in Nat /\ samples[d] \in Nat
             /\ AtMost(d) = SumFunctionOnSet(samples, {e \in Durations : e <= d})
             /\ AtMost(d) = Below(d) + samples[d]
  BY <1>1 DEF AtMost
<1> QED BY <1>2, <1>3 DEF Count

LEMMA TalliesGrow ==
  ASSUME Counted, NEW d \in Durations, NEW e \in Durations, d < e
  PROVE  AtMost(d) <= Below(e)
<1> DEFINE V == {x \in Durations : x <= d}
           W == {x \in Durations : x < e}
<1>1. \A x \in Durations : x \in Nat /\ (x <= d => x < e)
  BY StatisticsAssumption
<1>2. W \in SUBSET Durations /\ V \in SUBSET W
  BY <1>1
<1> HIDE DEF V, W
<1>3. SumFunctionOnSet(samples, V) <= SumFunctionOnSet(samples, W)
  BY <1>2, SumGrows, StatisticsAssumption DEF Counted
<1> QED BY <1>3, Tallies DEF Below, V, W

(* The i-th smallest sample is there.                                      *)
LEMMA SortedIs ==
  ASSUME Counted, NEW i \in Nat, i < Count
  PROVE  Sorted(i) \in Durations /\ Below(Sorted(i)) <= i /\ i < AtMost(Sorted(i))
<1> USE StatisticsAssumption
<1> DEFINE Q == {d \in Durations : i < AtMost(d)}
           m == Min(Q)
           L == {e \in Durations : e < m}
<1>1. Max(Durations) \in Q
  BY MaxOfSet DEF Count
<1>2. Q \in SUBSET Int /\ IsFiniteSet(Q) /\ Q # {}
  <2>1. Q \in SUBSET Durations
    OBVIOUS
  <2> HIDE DEF Q
  <2>2. IsFiniteSet(Q)
    BY <2>1, FS_Subset
  <2>3. Q \in SUBSET Int
    BY <2>1
  <2> QED BY <1>1, <2>2, <2>3
<1>3. m \in Q /\ \A d \in Q : m <= d
  <2> HIDE DEF Q
  <2> QED BY <1>2, MinOfSet
<1>4. m \in Durations /\ m \in Nat /\ i < AtMost(m)
  BY <1>3
<1> HIDE DEF m
<1>5. Below(m) <= i
  <2>1. CASE L = {}
    <3>1. SumFunctionOnSet(samples, L) = 0
      BY <2>1, SumLaws DEF Counted
    <3>2. Below(m) = SumFunctionOnSet(samples, L)
      BY Zenon DEF Below
    <3> QED BY <3>1, <3>2
  <2>2. CASE L # {}
    <3> DEFINE k == Max(L)
    <3>1. L \in SUBSET Int /\ IsFiniteSet(L)
      <4>1. L \in SUBSET Durations
        OBVIOUS
      <4> HIDE DEF L
      <4>2. IsFiniteSet(L)
        BY <4>1, FS_Subset
      <4>3. L \in SUBSET Int
        BY <4>1
      <4> QED BY <4>2, <4>3
    <3>2. k \in L /\ \A e \in L : k >= e
      <4> HIDE DEF L
      <4> QED BY <2>2, <3>1, MaxOfSet
    <3>3. k \in Durations /\ k \in Nat /\ k < m
      BY <3>2
    <3>4. ~(i < AtMost(k))
      BY <1>3, <1>4, <3>3
    <3>5. \A e \in Durations : e < m <=> e <= k
      BY <1>4, <3>2, <3>3
    <3>6. {e \in Durations : e < m} = {e \in Durations : e <= k}
      BY <3>5
    <3> HIDE DEF k
    <3>7. Below(m) = AtMost(k)
      <4>1. AtMost(k) = SumFunctionOnSet(samples, {e \in Durations : e <= k})
        BY <3>3, Tallies
      <4> QED BY <3>6, <4>1, Zenon DEF Below
    <3>8. AtMost(k) \in Nat
      BY <3>3, Tallies
    <3> QED BY <3>4, <3>7, <3>8
  <2> QED BY <2>1, <2>2
<1>6. \E d \in Durations : Below(d) <= i /\ i < AtMost(d)
  BY <1>4, <1>5
<1> QED BY <1>6 DEF Sorted

(* Later in the order is not smaller; what is there was recorded.          *)
LEMMA SortedRises ==
  ASSUME Counted, NEW i \in Nat, NEW j \in Nat, i <= j, j < Count
  PROVE  /\ Sorted(i) <= Sorted(j)
         /\ samples[Sorted(i)] > 0
<1> DEFINE a == Sorted(i)
           b == Sorted(j)
<1>1. Count \in Nat /\ i < Count
  BY Tallies
<1>2. /\ a \in Durations /\ Below(a) <= i /\ i < AtMost(a)
      /\ b \in Durations /\ Below(b) <= j /\ j < AtMost(b)
  BY <1>1, SortedIs
<1> HIDE DEF a, b
<1>3. /\ Below(a) \in Nat /\ AtMost(a) = Below(a) + samples[a] /\ samples[a] \in Nat
      /\ AtMost(b) \in Nat
  BY <1>2, Tallies
<1>4. a \in Nat /\ b \in Nat
  BY <1>2, StatisticsAssumption
<1>5. ~(b < a)
  <2> SUFFICES ASSUME b < a PROVE FALSE
    OBVIOUS
  <2>1. AtMost(b) <= Below(a)
    BY <1>2, TalliesGrow
  <2> QED BY <1>2, <1>3, <2>1
<1>6. a <= b /\ samples[a] > 0
  BY <1>2, <1>3, <1>4, <1>5
<1> QED BY <1>6 DEF a, b

LEMMA Percentiles ==
  ASSUME Counted, Count > 0
  PROVE  /\ P99Index \in Nat /\ P99Index < Count /\ 100 * P99Index <= 99 * Count
         /\ 99 * Count <= 100 * (P99Index + 1)
         /\ Count \div 2 \in Nat /\ Count \div 2 <= P99Index
         /\ 2 * (Count \div 2) <= Count /\ Count <= 2 * (Count \div 2 + 1)
<1>1. Count \in Nat
  BY Tallies
<1> DEFINE c == Count
           r == (c * 99) \div 100
<1>2. r \in Nat /\ 100 * r <= 99 * c /\ 99 * c < 100 * (r + 1)
  BY <1>1
<1>3. P99Index = IF r <= c - 1 THEN r ELSE c - 1
  BY <1>1, MinOfTwo DEF P99Index
<1> HIDE DEF c, r
<1>4. c \in Nat /\ c > 0
  BY <1>1 DEF c
<1>5. c \div 2 \in Nat /\ 2 * (c \div 2) <= c /\ c <= 2 * (c \div 2 + 1)
  BY <1>4
<1> QED BY <1>2, <1>3, <1>4, <1>5 DEF c

(* An average lies between the smallest and the largest.                   *)
LEMMA AverageIsBetween ==
  ASSUME Counted, Count > 0,
         NEW a \in Nat, NEW b \in Nat,
         \A d \in Durations : samples[d] > 0 => a <= d /\ d <= b
  PROVE  a <= Average /\ Average <= b
<1> USE StatisticsAssumption
<1> DEFINE scaled(c) == [d \in Durations |-> c * samples[d]]
           weighed == [d \in Durations |-> d * samples[d]]
           mass == SumFunctionOnSet(weighed, Durations)
<1>1. /\ Count \in Nat /\ Count = SumFunctionOnSet(samples, Durations)
      /\ \A d \in Durations : d \in Nat /\ samples[d] \in Nat
  BY Tallies
<1>2. \A c \in Nat : scaled(c) \in [Durations -> Nat]
  BY <1>1
<1>3. weighed \in [Durations -> Nat]
  BY <1>1
<1>4. \A d \in Durations : a * samples[d] <= d * samples[d] /\ d * samples[d] <= b * samples[d]
  <2> SUFFICES ASSUME NEW d \in Durations
               PROVE  a * samples[d] <= d * samples[d] /\ d * samples[d] <= b * samples[d]
    OBVIOUS
  <2>1. CASE samples[d] = 0
    BY <1>1, <2>1
  <2>2. CASE samples[d] > 0
    <3>1. \A x, y, n \in Nat : x <= y => x * n <= y * n
      OBVIOUS
    <3>2. a <= d /\ d <= b /\ d \in Nat /\ samples[d] \in Nat
      BY <1>1, <2>2
    <3> QED BY <3>1, <3>2
  <2> QED BY <1>1, <2>1, <2>2
<1>5. /\ \A d \in Durations : scaled(a)[d] <= weighed[d] /\ weighed[d] <= scaled(b)[d]
      /\ scaled(a) \in [Durations -> Nat] /\ scaled(b) \in [Durations -> Nat]
  BY <1>2, <1>4
<1>6. SumFunctionOnSet(scaled(a), Durations) = a * Count
  BY <1>1, SumScales DEF Counted
<1>7. SumFunctionOnSet(scaled(b), Durations) = b * Count
  BY <1>1, SumScales DEF Counted
<1>8. Average = mass \div Count
  BY DEF Average, SumFunction
<1> HIDE DEF scaled, weighed
<1>9. mass \in Nat /\ a * Count <= mass /\ mass <= b * Count
  <2>1. IsFiniteSet(Durations)
    OBVIOUS
  <2>2. mass \in Nat
    BY <2>1, <1>3, SumLaws
  <2>3. SumFunctionOnSet(scaled(a), Durations) <= mass
    BY <2>1, <1>3, <1>5, SumCompares
  <2>4. mass <= SumFunctionOnSet(scaled(b), Durations)
    BY <2>1, <1>3, <1>5, SumCompares
  <2> QED BY <1>6, <1>7, <2>2, <2>3, <2>4
<1>10. \A x, n, t \in Nat : n > 0 => (x * n <= t => x <= t \div n) /\ (t <= x * n => t \div n <= x)
  OBVIOUS
<1> HIDE DEF mass
<1> QED BY <1>1, <1>8, <1>9, <1>10

LEMMA PercentilesAreRight == Counted => PercentilesDivide
<1> SUFFICES ASSUME Counted, Count > 0 PROVE PercentilesDivide
  BY DEF PercentilesDivide
<1> USE StatisticsAssumption
<1> DEFINE i == Count \div 2
           j == P99Index
           recorded == {d \in Durations : samples[d] > 0}
<1>1. /\ i \in Nat /\ j \in Nat /\ i <= j /\ j < Count /\ i < Count /\ Count \in Nat
      /\ 100 * j <= 99 * Count /\ 99 * Count <= 100 * (j + 1)
      /\ 2 * i <= Count /\ Count <= 2 * (i + 1)
  BY Percentiles, Tallies
<1>2. Median = Sorted(i) /\ P99 = Sorted(j)
  BY <1>1 DEF Median, P99
<1> HIDE DEF i, j
<1>3. /\ Median \in Durations /\ Below(Median) <= i /\ i < AtMost(Median)
      /\ P99 \in Durations /\ Below(P99) <= j /\ j < AtMost(P99)
  BY <1>1, <1>2, SortedIs
<1>4. /\ Below(Median) \in Nat /\ AtMost(Median) \in Nat
      /\ Below(P99) \in Nat /\ AtMost(P99) \in Nat
      /\ \A d \in Durations : d \in Nat /\ samples[d] \in Nat
  BY <1>3, Tallies
<1>5. Median <= P99 /\ Median \in recorded /\ P99 \in recorded
  BY <1>1, <1>2, <1>3, SortedRises
<1>6. /\ Smallest \in recorded /\ \A d \in recorded : Smallest <= d
      /\ Largest \in recorded /\ \A d \in recorded : Largest >= d
  <2>1. recorded \in SUBSET Durations
    OBVIOUS
  <2>2. Smallest = Min(recorded) /\ Largest = Max(recorded)
    BY DEF Smallest, Largest
  <2> HIDE DEF recorded
  <2>3. IsFiniteSet(recorded)
    BY <2>1, FS_Subset
  <2>4. recorded \in SUBSET Int
    BY <2>1
  <2> QED BY <1>5, <2>2, <2>3, <2>4, MinOfSet, MaxOfSet
<1>7. Smallest <= Average /\ Average <= Largest
  <2>1. Smallest \in Nat /\ Largest \in Nat
    BY <1>6
  <2>2. \A d \in Durations : samples[d] > 0 => Smallest <= d /\ d <= Largest
    BY <1>4, <1>6, <2>1
  <2> QED BY <2>1, <2>2, AverageIsBetween
<1>8. 100 * Below(P99) <= 99 * Count /\ 99 * Count <= 100 * AtMost(P99)
  BY <1>1, <1>3, <1>4
<1>9. 2 * Below(Median) <= Count /\ Count <= 2 * AtMost(Median)
  BY <1>1, <1>3, <1>4
<1>10. Smallest <= Median /\ P99 <= Largest
  BY <1>3, <1>4, <1>5, <1>6
<1> QED BY <1>5, <1>7, <1>8, <1>9, <1>10 DEF PercentilesDivide

(* The percentiles and the average of any number of samples of any         *)
(* durations divide them as they say.                                      *)
THEOREM StatisticsDivide == StatisticsSpec => []PercentilesDivide
<1>1. StatisticsInit => Counted
  BY DEF StatisticsInit, Counted
<1>2. Counted /\ [StatisticsNext]_samples => Counted'
  BY DEF Counted, StatisticsNext, Record, Clear
<1> QED BY <1>1, <1>2, PercentilesAreRight, PTL DEF StatisticsSpec

-----------------------------------------------------------------------------
(* PodMetrics.  What is shown is the total up to the rest of a division.   *)
LEMMA FormatIsClose ==
  ASSUME NEW n \in Nat
  PROVE  LET q == Format(n)
         IN  /\ q.number * Scale[q.unit] \in Nat
             /\ q.number * Scale[q.unit] <= n
             /\ q.number > 0 => n < 2 * (q.number * Scale[q.unit])
<1> USE PodMetricsAssumption
<1> DEFINE fits == {u \in Shown : Scale[u] <= n}
           smallest == CHOOSE u \in Shown : \A v \in Shown : Scale[u] <= Scale[v]
           largest == CHOOSE u \in fits : \A v \in fits : Scale[v] <= Scale[u]
           unit == IF fits = {} THEN smallest ELSE largest
<1>1. smallest \in Shown
  <2> DEFINE f == [u \in Shown |-> 0 - Scale[u]]
  <2>1. f \in [Shown -> Int] /\ \A u \in Shown : Scale[u] \in Nat
    OBVIOUS
  <2>2. \E u \in Shown : \A v \in Shown : f[v] <= f[u]
    BY <2>1, MostOfSet
  <2>3. \E u \in Shown : \A v \in Shown : Scale[u] <= Scale[v]
    BY <2>1, <2>2
  <2> QED BY <2>3
<1>2. fits # {} => largest \in fits
  <2> SUFFICES ASSUME fits # {} PROVE largest \in fits
    OBVIOUS
  <2> DEFINE f == [u \in fits |-> Scale[u]]
  <2>1. f \in [fits -> Int] /\ fits \in SUBSET Shown
    OBVIOUS
  <2> HIDE DEF fits
  <2>2. IsFiniteSet(fits)
    BY <2>1, FS_Subset
  <2>3. \E u \in fits : \A v \in fits : f[v] <= f[u]
    BY <2>1, <2>2, MostOfSet
  <2>4. \E u \in fits : \A v \in fits : Scale[v] <= Scale[u]
    BY <2>3
  <2> QED BY <2>4
<1>3. unit \in Shown
  BY <1>1, <1>2
<1>4. Scale[unit] \in Nat \ {0}
  BY <1>3
<1>5. Format(n).number = n \div Scale[unit] /\ Format(n).unit = unit
  BY Zenon DEF Format
<1>6. \A s \in Nat \ {0} :
        /\ (n \div s) * s \in Nat
        /\ (n \div s) * s <= n
        /\ n \div s > 0 => n < 2 * ((n \div s) * s)
  <2> SUFFICES ASSUME NEW s \in Nat \ {0}
               PROVE  /\ (n \div s) * s \in Nat
                      /\ (n \div s) * s <= n
                      /\ n \div s > 0 => n < 2 * ((n \div s) * s)
    OBVIOUS
  <2> DEFINE d == n \div s
  <2>1. d \in Nat /\ d * s <= n /\ n < d * s + s
    OBVIOUS
  <2> HIDE DEF d
  <2>2. d > 0 => s <= d * s
    BY <2>1
  <2>3. d * s \in Nat
    BY <2>1
  <2> QED BY <2>1, <2>2, <2>3 DEF d
<1> HIDE DEF unit
<1> QED BY <1>4, <1>5, <1>6

(* An unknown suffix makes the total smaller, never larger.                *)
LEMMA ParsedTotal ==
  ASSUME usage \in [Containers -> [number : Nat, unit : Units]]
  PROVE  LET whole == Total(LAMBDA q : q.number * Scale[q.unit])
         IN  /\ Total(Parse) \in Nat /\ whole \in Nat /\ Total(Parse) <= whole
             /\ (\A c \in Containers : usage[c].unit \in Parsed) => whole = Total(Parse)
<1> USE PodMetricsAssumption
<1> DEFINE f == [c \in Containers |-> Parse(usage[c])]
           h == [c \in Containers |-> usage[c].number * Scale[usage[c].unit]]
<1>1. /\ Total(Parse) = SumFunctionOnSet(f, Containers)
      /\ Total(LAMBDA q : q.number * Scale[q.unit]) = SumFunctionOnSet(h, Containers)
  BY DEF Total, SumFunction
<1>2. ASSUME NEW c \in Containers
      PROVE  /\ f[c] \in Nat /\ h[c] \in Nat /\ f[c] <= h[c]
             /\ usage[c].unit \in Parsed => f[c] = h[c]
  <2>1. usage[c].number \in Nat /\ usage[c].unit \in Units /\ Scale[usage[c].unit] \in Nat
    OBVIOUS
  <2>2. \A a, b \in Nat : a * b \in Nat
    OBVIOUS
  <2> QED BY <2>1, <2>2 DEF Parse
<1>3. f \in [Containers -> Nat] /\ h \in [Containers -> Nat] /\ \A c \in Containers : f[c] <= h[c]
  BY <1>2
<1>4. (\A c \in Containers : usage[c].unit \in Parsed) => f = h
  BY <1>2
<1> HIDE DEF f, h
<1>5. SumFunctionOnSet(f, Containers) \in Nat /\ SumFunctionOnSet(h, Containers) \in Nat
  BY <1>3, SumLaws
<1>6. SumFunctionOnSet(f, Containers) <= SumFunctionOnSet(h, Containers)
  BY <1>3, SumCompares
<1> QED BY <1>1, <1>4, <1>5, <1>6

(* Nothing is used between the request and what the test reads.            *)
MetricsInv ==
  /\ usage \in [Containers -> [number : Nat, unit : Units]]
  /\ fetched = "ok" => shown = Format(Total(Parse))
  /\ failure \in {"none", "no_pod", "no_api", "down", "forbidden", "network"}
  /\ fetched = "ServerNotAvailable" => failure \in {"down", "forbidden"}
  /\ fetched = "PodNotFound" => failure \in {"no_pod", "no_api"} \/ oddName
  /\ fetched = "KubeError" => failure \in {"down", "network"}

(* What the text of an error tells of its cause.                           *)
LEMMA ClassesAreHonest ==
  ASSUME failure \in {"no_pod", "no_api", "down", "forbidden", "network"},
         NEW text \in ErrorTexts
  PROVE  /\ Classify(text) \in {"ServerNotAvailable", "PodNotFound", "KubeError"}
         /\ Classify(text) = "ServerNotAvailable" => failure \in {"down", "forbidden"}
         /\ Classify(text) = "PodNotFound" => failure \in {"no_pod", "no_api"} \/ oddName
         /\ Classify(text) = "KubeError" => failure \in {"down", "network"}
<1>1. failure \in {"no_pod", "no_api"} => "404" \in text
  BY DEF ErrorTexts
<1>2. failure \in {"down", "forbidden"} => "not found" \notin text /\ ("404" \in text => oddName)
  <2> DEFINE named == {"metrics.k8s.io"} \cup IF oddName THEN {"404"} ELSE {}
  <2>1. failure \in {"down", "forbidden"} => text \in {named, {}}
    BY DEF ErrorTexts
  <2>2. "not found" \notin named /\ ("404" \in named => oddName)
    OBVIOUS
  <2> QED BY <2>1, <2>2
<1>3. failure = "forbidden" => "metrics.k8s.io" \in text
  BY DEF ErrorTexts
<1>4. failure = "network" => text = {}
  BY DEF ErrorTexts
<1>5. /\ Classify(text) = "PodNotFound" <=> ("404" \in text \/ "not found" \in text)
      /\ Classify(text) = "KubeError" => "metrics.k8s.io" \notin text
      /\ Classify(text) = "ServerNotAvailable" => text # {}
      /\ Classify(text) \in {"ServerNotAvailable", "PodNotFound", "KubeError"}
  BY DEF Classify
<1> QED BY <1>1, <1>2, <1>3, <1>4, <1>5

LEMMA MetricsInvStep == MetricsInv /\ [PodMetricsNext]_metricsVars => MetricsInv'
<1> SUFFICES ASSUME MetricsInv, [PodMetricsNext]_metricsVars PROVE MetricsInv'
  OBVIOUS
<1> USE DEF MetricsInv
<1>1. CASE fetched = "no"
  <2>1. CASE Fetch
    BY <2>1 DEF Fetch, Total
  <2>2. CASE FetchFails
    <3>1. PICK text \in ErrorTexts : fetched' = Classify(text)
      BY <2>2 DEF FetchFails
    <3>2. /\ failure # "none" /\ UNCHANGED <<oddName, usage, failure, shown>>
      BY <2>2 DEF FetchFails
    <3> QED BY <3>1, <3>2, ClassesAreHonest
  <2>3. ASSUME NEW c \in Containers, NEW q \in Quantity, Use(c, q) PROVE MetricsInv'
    BY <2>3, PodMetricsAssumption DEF Use, Quantity
  <2>4. ASSUME NEW f \in {"no_pod", "no_api", "down", "forbidden", "network"}, Obstruct(f)
        PROVE  MetricsInv'
    BY <1>1, <2>4 DEF Obstruct
  <2>5. CASE UNCHANGED metricsVars
    BY <1>1, <2>5 DEF metricsVars
  <2> QED BY <2>1, <2>2, <2>3, <2>4, <2>5 DEF PodMetricsNext, Fetched
<1>2. CASE fetched # "no"
  <2>1. UNCHANGED metricsVars
    BY <1>2 DEF PodMetricsNext, Fetch, FetchFails, Fetched, Use, Obstruct
  <2> QED BY <2>1 DEF metricsVars, Total
<1> QED BY <1>1, <1>2

LEMMA ReportsAreHonest == MetricsInv => ReportIsHonest
<1> SUFFICES ASSUME MetricsInv, fetched = "ok"
             PROVE  LET whole == Total(LAMBDA q : q.number * Scale[q.unit])
                        value == shown.number * Scale[shown.unit]
                    IN  /\ value <= whole
                        /\ (shown.number > 0 /\ \A c \in Containers : usage[c].unit \in Parsed)
                             => whole < 2 * value
  BY DEF MetricsInv, ReportIsHonest
<1> DEFINE whole == Total(LAMBDA q : q.number * Scale[q.unit])
           value == shown.number * Scale[shown.unit]
           n == Total(Parse)
<1>1. /\ n \in Nat /\ whole \in Nat /\ n <= whole
      /\ (\A c \in Containers : usage[c].unit \in Parsed) => whole = n
  BY ParsedTotal DEF MetricsInv
<1>2. shown = Format(n)
  BY DEF MetricsInv
<1> HIDE DEF whole, n
<1>3. value \in Nat /\ value <= n /\ (shown.number > 0 => n < 2 * value)
  BY <1>1, <1>2, FormatIsClose
<1> HIDE DEF value
<1>4. /\ value <= whole
      /\ (shown.number > 0 /\ \A c \in Containers : usage[c].unit \in Parsed)
           => whole < 2 * value
  BY <1>1, <1>3
<1> QED BY <1>4 DEF whole, value

(* For any containers, units and amounts: usage is reported up to a rest   *)
(* that is less than what is shown, and each of the three errors has one   *)
(* of the causes ReportIsHonest lists, the two branches of the classifier  *)
(* and every text the API server may give considered; the theorem does not *)
(* say, for it is false, that a server that is not installed is named      *)
(* (MissingServerIsNamed).                                                 *)
THEOREM MetricsAreHonest == PodMetricsSpec => []ReportIsHonest
<1>1. PodMetricsInit => MetricsInv
  <2> SUFFICES ASSUME PodMetricsInit PROVE MetricsInv
    OBVIOUS
  <2>1. NoUsage.number = 0 /\ NoUsage.unit \in Units
    BY PodMetricsAssumption DEF NoUsage
  <2>2. NoUsage \in [number : Nat, unit : Units]
    BY <2>1 DEF NoUsage
  <2> QED BY <2>2 DEF PodMetricsInit, MetricsInv
<1> QED BY <1>1, MetricsInvStep, ReportsAreHonest, PTL DEF PodMetricsSpec

-----------------------------------------------------------------------------
(* Retry.  The recursion that defines the powers of two has a solution.    *)
LEMMA PowersOfTwo ==
  /\ \A n \in 0 .. MostAttempts : PowerOfTwo[n] \in Nat \ {0}
  /\ PowerOfTwo[0] = 1
  /\ \A n \in 1 .. MostAttempts : PowerOfTwo[n] = 2 * PowerOfTwo[n - 1]
<1> USE RetryAssumption
<1> DEFINE next(n, g) == IF n = 0 THEN 1 ELSE 2 * g[n - 1]
           upTo(n) == \E g : g = [k \in 0 .. n |-> next(k, g)]
           B == {n \in Nat : upTo(n)}
<1>1. 0 \in B
  <2> DEFINE g == [k \in 0 .. 0 |-> 1]
  <2>1. g = [k \in 0 .. 0 |-> next(k, g)]
    OBVIOUS
  <2> HIDE DEF g
  <2> QED BY <2>1
<1>2. ASSUME NEW n \in Nat, n \in B PROVE n + 1 \in B
  <2>1. PICK g : g = [k \in 0 .. n |-> next(k, g)]
    BY <1>2
  <2> DEFINE h == [k \in 0 .. n + 1 |-> next(k, g)]
  <2>2. \A k \in 0 .. n : h[k] = g[k]
    BY <2>1
  <2>3. ASSUME NEW k \in 0 .. n + 1 PROVE next(k, g) = next(k, h)
    <3>1. k # 0 => k - 1 \in 0 .. n
      OBVIOUS
    <3> QED BY <2>2, <3>1
  <2>4. h = [k \in 0 .. n + 1 |-> next(k, h)]
    BY <2>3
  <2> HIDE DEF h, next
  <2>5. upTo(n + 1)
    BY <2>4, Zenon
  <2> QED BY <2>5
<1>3. MostAttempts \in B
  <2> HIDE DEF B
  <2> QED BY <1>1, <1>2, NumberInduction
<1>4. PowerOfTwo = [n \in 0 .. MostAttempts |-> next(n, PowerOfTwo)]
  BY <1>3 DEF PowerOfTwo
<1>5. /\ PowerOfTwo[0] = 1
      /\ \A n \in 1 .. MostAttempts : PowerOfTwo[n] = 2 * PowerOfTwo[n - 1]
  <2>1. \A n \in 0 .. MostAttempts : PowerOfTwo[n] = next(n, PowerOfTwo)
    BY <1>4
  <2> QED BY <2>1
<1>6. \A n \in 0 .. MostAttempts : PowerOfTwo[n] \in Nat \ {0}
  <2> DEFINE C == {n \in Nat : n <= MostAttempts => PowerOfTwo[n] \in Nat \ {0}}
  <2>1. 0 \in C
    BY <1>5
  <2>2. ASSUME NEW n \in Nat, n \in C PROVE n + 1 \in C
    <3> SUFFICES ASSUME n + 1 <= MostAttempts PROVE PowerOfTwo[n + 1] \in Nat \ {0}
      OBVIOUS
    <3>1. PowerOfTwo[n] \in Nat \ {0}
      BY <2>2
    <3>2. PowerOfTwo[n + 1] = 2 * PowerOfTwo[n]
      BY <1>5
    <3> QED BY <3>1, <3>2
  <2>3. \A n \in Nat : n \in C
    <3> HIDE DEF C
    <3> QED BY <2>1, <2>2, NumberInduction
  <2> QED BY <2>3
<1> QED BY <1>5, <1>6

(* Doubling up to the maximum gives the powers of two up to the maximum.   *)
LEMMA SleepDoubles ==
  /\ Sleep \in [1 .. MostAttempts -> Nat]
  /\ MostAttempts > 0 => Sleep[1] = FirstBackoff
  /\ \A i \in 1 .. MostAttempts - 1 : Sleep[i + 1] = Min({Sleep[i] * 2, MaxBackoff})
<1> USE RetryAssumption
<1> DEFINE long(i) == FirstBackoff * PowerOfTwo[i - 1]
<1>1. ASSUME NEW i \in 1 .. MostAttempts
      PROVE  long(i) \in Nat /\ Sleep[i] = IF long(i) <= MaxBackoff THEN long(i) ELSE MaxBackoff
  <2>1. PowerOfTwo[i - 1] \in Nat
    BY PowersOfTwo
  <2>2. long(i) \in Nat
    BY <2>1
  <2>3. Sleep[i] = Min({long(i), MaxBackoff})
    BY DEF Sleep
  <2> HIDE DEF long
  <2> QED BY <2>2, <2>3, MinOfTwo
<1>2. \A i \in 1 .. MostAttempts - 1 : long(i + 1) = 2 * long(i)
  <2> SUFFICES ASSUME NEW i \in 1 .. MostAttempts - 1 PROVE long(i + 1) = 2 * long(i)
    OBVIOUS
  <2>1. PowerOfTwo[i] = 2 * PowerOfTwo[i - 1] /\ PowerOfTwo[i - 1] \in Nat
    BY PowersOfTwo
  <2>2. \A a, b \in Nat : a * (2 * b) = 2 * (a * b)
    OBVIOUS
  <2> QED BY <2>1, <2>2
<1>3. MostAttempts > 0 => long(1) = FirstBackoff
  BY PowersOfTwo
<1> HIDE DEF long
<1>4. Sleep \in [1 .. MostAttempts -> Nat]
  BY <1>1 DEF Sleep
<1>5. ASSUME NEW i \in 1 .. MostAttempts - 1
      PROVE  Sleep[i + 1] = Min({Sleep[i] * 2, MaxBackoff})
  <2>1. i \in 1 .. MostAttempts /\ i + 1 \in 1 .. MostAttempts
    OBVIOUS
  <2>2. Sleep[i] * 2 \in Int
    BY <1>4, <2>1
  <2>3. Min({Sleep[i] * 2, MaxBackoff}) =
          IF Sleep[i] * 2 <= MaxBackoff THEN Sleep[i] * 2 ELSE MaxBackoff
    BY <2>2, MinOfTwo
  <2> QED BY <1>1, <1>2, <2>1, <2>3
<1>6. MostAttempts > 0 => Sleep[1] = FirstBackoff
  BY <1>1, <1>3
<1> QED BY <1>4, <1>5, <1>6

LEMMA SleepsAddUp ==
  ASSUME NEW n \in 1 .. MostAttempts
  PROVE  /\ Sleeps(1) = 0 /\ Sleeps(n) \in Nat
         /\ Sleeps(n + 1) = Sleeps(n) + Sleep[n]
         /\ \A m \in 1 .. n : Sleeps(m) <= Sleeps(n)
<1> DEFINE D == 1 .. MostAttempts
<1>1. IsFiniteSet(D)
  <2>1. 1 \in Int /\ MostAttempts \in Int
    BY RetryAssumption
  <2> QED BY <2>1, FS_Interval
<1>2. Sleep \in [D -> Nat]
  BY SleepDoubles
<1>3. \A U \in SUBSET D : \A x \in U :
        SumFunctionOnSet(Sleep, U) = Sleep[x] + SumFunctionOnSet(Sleep, U \ {x})
  <2> HIDE DEF D
  <2> SUFFICES ASSUME NEW U \in SUBSET D, NEW x \in U
               PROVE  SumFunctionOnSet(Sleep, U)
                        = Sleep[x] + SumFunctionOnSet(Sleep, U \ {x})
    OBVIOUS
  <2> QED BY <1>1, <1>2, SumTakes
<1>4. \A m \in 1 .. n : 1 .. m - 1 \in SUBSET D /\ 1 .. m - 1 \in SUBSET (1 .. n - 1)
  BY RetryAssumption
<1>5. 1 .. 0 = {} /\ 1 .. 1 - 1 = 1 .. 0
  OBVIOUS
<1>6. n \in 1 .. n /\ n \in D /\ 1 .. n \in SUBSET D /\ (1 .. n) \ {n} = 1 .. n - 1
  BY RetryAssumption
<1> HIDE DEF D
<1>7. Sleeps(1) = 0
  BY <1>1, <1>2, <1>5, SumLaws DEF Sleeps
<1>8. 1 .. n - 1 \in SUBSET D
  BY <1>4, <1>6
<1>9. Sleeps(n) \in Nat
  BY <1>1, <1>2, <1>8, SumLaws DEF Sleeps
<1>10. ASSUME NEW m \in 1 .. n PROVE Sleeps(m) <= Sleeps(n)
  BY <1>1, <1>2, <1>4, <1>8, SumGrows DEF Sleeps
<1>11. Sleeps(n + 1) = Sleeps(n) + Sleep[n]
  <2>1. SumFunctionOnSet(Sleep, 1 .. n) = Sleep[n] + Sleeps(n)
    BY <1>3, <1>6 DEF Sleeps
  <2>2. (n + 1) - 1 = n
    OBVIOUS
  <2>3. Sleeps(n + 1) = Sleep[n] + Sleeps(n)
    BY <2>1, <2>2 DEF Sleeps
  <2>4. Sleep[n] \in Nat
    BY <1>2, <1>6
  <2> QED BY <1>9, <2>3, <2>4
<1> QED BY <1>7, <1>9, <1>10, <1>11

(* The clock has run for the sleeps of the attempts made, and for these    *)
(* attempts.                                                               *)
Waited ==
  /\ attempt \in 1 .. limit /\ backoff = Sleep[attempt]
  /\ worksFrom \in Int /\ clock \in Nat
  /\ Sleeps(attempt) <= clock
  /\ clock <= Sleeps(attempt) + (attempt - 1) * CallTime

RetryInv ==
  /\ limit \in 0 .. MostAttempts
  /\ outcome = "idle" => backoff = FirstBackoff /\ clock = 0
  /\ outcome \notin {"idle", "panic"} => Waited
  /\ outcome = "error" => IsLast /\ clock < worksFrom

LEMMA FailedAttemptWaits ==
  ASSUME RetryInv, NEW t \in 0 .. CallTime, AttemptFails(t)
  PROVE  RetryInv'
<1> USE RetryAssumption
<1>1. Waited /\ attempt # limit /\ limit \in 0 .. MostAttempts
  BY DEF RetryInv, AttemptFails, IsLast
<1>2. /\ attempt \in 1 .. MostAttempts - 1 /\ attempt \in 1 .. MostAttempts
      /\ attempt + 1 \in 1 .. limit /\ limit \in Nat
  BY <1>1 DEF Waited
<1>3. /\ Sleep[attempt + 1] = Min({Sleep[attempt] * 2, MaxBackoff})
      /\ Sleep[attempt] \in Nat
  BY <1>2, SleepDoubles
<1>4. Sleeps(attempt + 1) = Sleeps(attempt) + Sleep[attempt] /\ Sleeps(attempt) \in Nat
  BY <1>2, SleepsAddUp
<1>5. /\ attempt' = attempt + 1 /\ backoff' = Sleep[attempt + 1]
      /\ clock' = clock + t + Sleep[attempt]
      /\ UNCHANGED <<limit, worksFrom, outcome>> /\ outcome = "trying"
  BY <1>1, <1>3 DEF AttemptFails, Doubled, Waited
<1>6. \A a, c \in Nat : (a + 1 - 1) * c = (a - 1) * c + c /\ (a - 1) * c \in Int
  OBVIOUS
<1>7. clock' \in Nat /\ Sleeps(attempt + 1) <= clock'
  BY <1>1, <1>3, <1>4, <1>5 DEF Waited
<1>8. Sleeps(attempt)' = Sleeps(attempt + 1) /\ Sleep' = Sleep
  BY <1>5 DEF Sleeps, Sleep
<1>9. clock' <= Sleeps(attempt)' + (attempt' - 1) * CallTime
  <2> DEFINE spent == (attempt - 1) * CallTime
  <2>1. spent \in Int /\ (attempt' - 1) * CallTime = spent + CallTime
    BY <1>2, <1>5, <1>6
  <2>2. clock <= Sleeps(attempt) + spent /\ clock \in Nat
    BY <1>1 DEF Waited
  <2> HIDE DEF spent
  <2>3. clock + t + Sleep[attempt] <= Sleeps(attempt + 1) + (spent + CallTime)
    BY <1>3, <1>4, <2>1, <2>2
  <2> QED BY <1>5, <1>8, <2>1, <2>3
<1>10. Waited'
  <2>1. attempt' \in 1 .. limit' /\ backoff' = Sleep'[attempt']
    BY <1>2, <1>5, <1>8
  <2>2. worksFrom' \in Int /\ clock' \in Nat
    BY <1>1, <1>5, <1>7 DEF Waited
  <2>3. Sleeps(attempt)' <= clock'
    BY <1>7, <1>8
  <2> QED BY <1>9, <2>1, <2>2, <2>3, Zenon DEF Waited
<1> QED BY <1>1, <1>5, <1>10 DEF RetryInv

LEMMA RetryInvStep == RetryInv /\ [RetryNext]_retryVars => RetryInv'
<1> SUFFICES ASSUME RetryInv, [RetryNext]_retryVars PROVE RetryInv'
  OBVIOUS
<1> USE RetryAssumption
<1>1. ASSUME NEW n \in 0 .. MostAttempts, NEW w \in 0 .. Sleeps(n) + 1, StartRetry(n, w)
      PROVE  RetryInv'
  <2>1. CASE n = 0
    BY <1>1, <2>1 DEF RetryInv, StartRetry
  <2>2. CASE n # 0
    <3>1. n \in 1 .. MostAttempts /\ 1 \in 1 .. MostAttempts
      BY <2>2
    <3>2. Sleep[1] = FirstBackoff /\ Sleeps(1) = 0
      BY <3>1, SleepDoubles, SleepsAddUp
    <3>3. /\ limit' = n /\ attempt' = 1 /\ outcome' = "trying" /\ worksFrom' = w
          /\ backoff' = FirstBackoff /\ clock' = 0
      BY <1>1, <2>2 DEF RetryInv, StartRetry
    <3>4. Waited'
      <4>1. Sleeps(attempt)' = Sleeps(1) /\ Sleep' = Sleep
        BY <3>3 DEF Sleeps, Sleep
      <4>2. w \in Int /\ (1 - 1) * CallTime = 0
        OBVIOUS
      <4> QED BY <3>1, <3>2, <3>3, <4>1, <4>2 DEF Waited
    <3> QED BY <3>3, <3>4 DEF RetryInv
  <2> QED BY <2>1, <2>2
<1>2. CASE AttemptSucceeds
  BY <1>2 DEF RetryInv, AttemptSucceeds, Waited, Sleeps, Sleep
<1>3. CASE LastAttemptFails
  BY <1>3 DEF RetryInv, LastAttemptFails, Waited, Sleeps, Sleep, IsLast
<1>4. CASE UNCHANGED retryVars
  BY <1>4 DEF RetryInv, retryVars, Waited, Sleeps, Sleep, IsLast
<1> QED BY <1>1, <1>2, <1>3, <1>4, FailedAttemptWaits DEF RetryNext, RetryReturned

LEMMA WaitedLongEnough == RetryInv => RetriesArePatient
<1> SUFFICES ASSUME RetryInv, Waited
             PROVE  /\ outcome = "error" => worksFrom > Sleeps(limit)
                    /\ clock <= Sleeps(limit) + (limit - 1) * CallTime
  BY DEF RetryInv, RetriesArePatient
<1> USE RetryAssumption
<1>1. limit \in 1 .. MostAttempts /\ attempt \in 1 .. limit /\ limit \in Nat
  BY DEF RetryInv, Waited
<1>2. Sleeps(limit) \in Nat /\ Sleeps(attempt) <= Sleeps(limit)
  BY <1>1, SleepsAddUp
<1>3. Sleeps(attempt) \in Nat
  <2>1. attempt \in 1 .. MostAttempts
    BY <1>1
  <2> QED BY <2>1, SleepsAddUp
<1>4. (attempt - 1) * CallTime <= (limit - 1) * CallTime
  <2>1. \A a, b, c \in Nat : a <= b => a * c <= b * c
    OBVIOUS
  <2>2. attempt - 1 \in Nat /\ limit - 1 \in Nat /\ attempt - 1 <= limit - 1
    BY <1>1
  <2> QED BY <2>1, <2>2
<1>5. (attempt - 1) * CallTime \in Int /\ (limit - 1) * CallTime \in Int
  BY <1>1
<1>6. clock <= Sleeps(limit) + (limit - 1) * CallTime
  <2> DEFINE spent == (attempt - 1) * CallTime
             most == (limit - 1) * CallTime
  <2>1. clock <= Sleeps(attempt) + spent /\ clock \in Nat
    BY DEF Waited
  <2>2. spent \in Int /\ most \in Int /\ spent <= most
    BY <1>4, <1>5
  <2> HIDE DEF spent, most
  <2>3. clock <= Sleeps(limit) + most
    BY <1>2, <1>3, <2>1, <2>2
  <2> QED BY <2>3 DEF most
<1>7. outcome = "error" => worksFrom > Sleeps(limit)
  BY <1>2 DEF RetryInv, Waited, IsLast
<1> QED BY <1>6, <1>7

(* For any number of attempts, backoff and length of the calls, a retry    *)
(* waits for all its sleeps, and no longer than these and its calls.       *)
THEOREM RetryIsPatient == RetrySpec => []RetriesArePatient
<1>1. RetryInit => RetryInv
  BY RetryAssumption DEF RetryInit, RetryInv
<1> QED BY <1>1, RetryInvStep, WaitedLongEnough, PTL DEF RetrySpec
=============================================================================

----------------------------- MODULE Statistics -----------------------------
(***************************************************************************)
(* What a test computes from the durations it has collected: the           *)
(* percentiles of TrafficStats (context/traffic_types.rs), and average,    *)
(* smallest and largest of the TrafficRecorder (traffic.rs), which records *)
(* and clears.  All of them look at the durations in sorted order, so the  *)
(* collection is kept as the number of samples of each duration.           *)
(***************************************************************************)
EXTENDS Integers, FiniteSetsExt

CONSTANTS Durations,   \* durations a request may take
          MaxSamples   \* bound: samples held at a time

ASSUME StatisticsAssumption ==
  /\ Durations \subseteq Nat /\ IsFiniteSet(Durations) /\ Durations # {}
  /\ MaxSamples \in Nat \ {0}

VARIABLE samples

StatisticsInit == samples = [d \in Durations |-> 0]

(* How many samples are below d, and how many are not above it.            *)
Below(d) == SumFunctionOnSet(samples, {e \in Durations : e < d})
AtMost(d) == Below(d) + samples[d]

Count == AtMost(Max(Durations))

(* `sorted[i]`, counting from 0.                                           *)
Sorted(i) == CHOOSE d \in Durations : Below(d) <= i /\ i < AtMost(d)

(* `len * 0.99`, rounded down and capped.  Mutation: one sample too early. *)
P99IndexLow == Max({(Count * 99) \div 100 - 1, 0})
P99Index == Min({(Count * 99) \div 100, Count - 1})

P99 == IF Count = 0 THEN 0 ELSE Sorted(P99Index)
Median == IF Count = 0 THEN 0 ELSE Sorted(Count \div 2)

(* Duration / u32 rounds down to a nanosecond.                             *)
Average == SumFunction([d \in Durations |-> d * samples[d]]) \div Count
Largest == Max({d \in Durations : samples[d] > 0})
Smallest == Min({d \in Durations : samples[d] > 0})

-----------------------------------------------------------------------------
Record(d) ==
  /\ Count < MaxSamples
  /\ samples' = [samples EXCEPT ![d] = @ + 1]

Clear ==
  /\ Count > 0
  /\ samples' = [d \in Durations |-> 0]

StatisticsNext == Clear \/ \E d \in Durations : Record(d)

StatisticsSpec == StatisticsInit /\ [][StatisticsNext]_samples

-----------------------------------------------------------------------------
(* Of any number of samples, one or a thousand, at least 99 in a hundred   *)
(* took no longer than p99_latency, and no more than 99 in a hundred took  *)
(* less; half took no longer than the median and half no less; and all the *)
(* statistics lie between the smallest and the largest, in order.          *)
PercentilesDivide ==
  Count > 0 =>
    /\ 100 * Below(P99) <= 99 * Count /\ 99 * Count <= 100 * AtMost(P99)
    /\ 2 * Below(Median) <= Count /\ Count <= 2 * AtMost(Median)
    /\ Smallest <= Median /\ Median <= P99 /\ P99 <= Largest
    /\ Smallest <= Average /\ Average <= Largest
=============================================================================

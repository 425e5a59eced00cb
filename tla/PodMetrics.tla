----------------------------- MODULE PodMetrics -----------------------------
(***************************************************************************)
(* fetch_pod_metrics (metrics.rs): one request to the metrics API, whose   *)
(* failures are told apart by the text of the error, the quantities of the *)
(* containers parsed, added up and shown in the largest unit that fits.    *)
(*                                                                         *)
(* A quantity is a number and a unit.  The units are constants, so that    *)
(* small ones keep TLC's integers small: in the code CPU counts in         *)
(* nanocores (10^6 to "m", 10^9 to a core) and memory in bytes (1024 to    *)
(* "Ki").                                                                  *)
(***************************************************************************)
EXTENDS Integers, FiniteSetsExt

CONSTANTS Units,         \* the suffixes metrics-server may use
          Parsed,        \* those parse_cpu or parse_memory knows
          Scale,         \* unit -> how many of the smallest it is
          Shown,         \* the units a total is shown in
          Amounts,       \* numbers before a suffix
          Containers     \* containers of the pod

ASSUME PodMetricsAssumption ==
  /\ Shown \subseteq Parsed /\ Parsed \subseteq Units
  /\ IsFiniteSet(Shown) /\ Shown # {} /\ IsFiniteSet(Containers)
  /\ Scale \in [Units -> Nat \ {0}] /\ Amounts \subseteq Nat
  /\ \E u \in Parsed : Scale[u] = 1

VARIABLES oddName,     \* whether the pod is called something like "web-404"
          usage,       \* container -> its usage, as the API gives it
          failure,     \* what keeps the API from giving it, or "none"
          fetched,     \* what became of the call, or "no" call yet
          shown        \* the quantity in an Ok

metricsVars == <<oddName, usage, failure, fetched, shown>>

Quantity == [number : Amounts, unit : Units]
NoUsage == [number |-> 0, unit |-> CHOOSE u \in Parsed : Scale[u] = 1]

(* An unknown suffix does not parse, and `unwrap_or(0)` makes it nothing.  *)
Parse(q) == IF q.unit \in Parsed THEN q.number * Scale[q.unit] ELSE 0

(* The total in the largest unit it reaches, or else the smallest.         *)
Format(n) ==
  LET fits == {u \in Shown : Scale[u] <= n}
      unit == IF fits = {} THEN CHOOSE u \in Shown : \A v \in Shown : Scale[u] <= Scale[v]
              ELSE CHOOSE u \in fits : \A v \in fits : Scale[v] <= Scale[u]
  IN  [number |-> n \div Scale[unit], unit |-> unit]

Total(parse(_)) == SumFunction([c \in Containers |-> parse(usage[c])])

(* External: what the text of the error may contain.  A metrics-server     *)
(* that is not installed is a 404 of the API server, without the name of   *)
(* the group; one that is down is a 503, that may name group and pod, as   *)
(* do the 404 of a missing pod and a 403.                                  *)
ErrorTexts ==
  LET named == {"metrics.k8s.io"} \cup IF oddName THEN {"404"} ELSE {}
  IN  CASE failure = "no_pod"    -> {named \cup {"404", "not found"}}
        [] failure = "no_api"    -> {{"404", "not found"}, {"404", "the server could not find"}}
        [] failure = "down"      -> {named, {}}
        [] failure = "forbidden" -> {named}
        [] OTHER                 -> {{}}

(* Mutation: the group first.                                              *)
ClassifyGroupFirst(text) ==
  IF {"metrics.k8s.io", "the server could not find"} \cap text # {} THEN "ServerNotAvailable"
  ELSE IF {"404", "not found"} \cap text # {} THEN "PodNotFound" ELSE "KubeError"

Classify(text) ==
  IF {"404", "not found"} \cap text # {} THEN "PodNotFound"
  ELSE IF {"metrics.k8s.io", "the server could not find"} \cap text # {}
       THEN "ServerNotAvailable" ELSE "KubeError"

PodMetricsInit ==
  /\ oddName \in BOOLEAN
  /\ usage = [c \in Containers |-> NoUsage]
  /\ failure = "none" /\ fetched = "no" /\ shown = NoUsage

(* External: the pod works, and the metrics API comes and goes.            *)
Use(c, q) ==
  /\ fetched = "no"
  /\ usage[c] = NoUsage /\ q # NoUsage
  /\ usage' = [usage EXCEPT ![c] = q]
  /\ UNCHANGED <<oddName, failure, fetched, shown>>

Obstruct(f) ==
  /\ fetched = "no" /\ failure = "none"
  /\ failure' = f
  /\ UNCHANGED <<oddName, usage, fetched, shown>>

FetchFails ==
  /\ fetched = "no" /\ failure # "none"
  /\ \E text \in ErrorTexts : fetched' = Classify(text)
  /\ UNCHANGED <<oddName, usage, failure, shown>>

Fetch ==
  /\ fetched = "no" /\ failure = "none"
  /\ fetched' = "ok"
  /\ shown' = Format(Total(Parse))
  /\ UNCHANGED <<oddName, usage, failure>>

Fetched == fetched # "no" /\ UNCHANGED metricsVars

PodMetricsNext ==
  \/ Fetch \/ FetchFails \/ Fetched
  \/ \E c \in Containers, q \in Quantity : Use(c, q)
  \/ \E f \in {"no_pod", "no_api", "down", "forbidden", "network"} : Obstruct(f)

PodMetricsSpec == PodMetricsInit /\ [][PodMetricsNext]_metricsVars

-----------------------------------------------------------------------------
(* What fetch_pod_metrics reports can be believed.  The usage shown is     *)
(* never more than the containers use together; it may be less, as a       *)
(* quantity in an unknown unit counts as nothing and the rest of a         *)
(* division is dropped, but by less than is shown.  metrics-server is said *)
(* to be unavailable only when it is down or does not answer this caller   *)
(* (403), never for a pod that is missing, whose error names the group as  *)
(* well; a pod is said to be missing when it is, or when metrics-server is *)
(* not installed, or when the pod's own name reads like a 404.             *)
ReportIsHonest ==
  /\ fetched = "ok" =>
       LET total == Total(LAMBDA q : q.number * Scale[q.unit])
           value == shown.number * Scale[shown.unit]
       IN  /\ value <= total
           /\ (shown.number > 0 /\ \A c \in Containers : usage[c].unit \in Parsed)
                => total < 2 * value
  /\ fetched = "ServerNotAvailable" => failure \in {"down", "forbidden"}
  /\ fetched = "PodNotFound" => failure \in {"no_pod", "no_api"} \/ oddName
  /\ fetched = "KubeError" => failure \in {"down", "network"}

(* What metrics() says: "Returns MetricsError::ServerNotAvailable if       *)
(* metrics-server is not installed".                                       *)
MissingServerIsNamed ==
  failure = "no_api" /\ fetched # "no" => fetched = "ServerNotAvailable"
=============================================================================

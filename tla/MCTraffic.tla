----------------------------- MODULE MCTraffic ------------------------------
(* Traffic on a small clock: four units of traffic, one request per unit;  *)
(* and what else a test does with requests and their numbers: Retry,       *)
(* HttpAssert, Statistics and PodMetrics, and finds pods by the labels of  *)
(* its Fixtures.  The six share no state, so a behaviour is of one part    *)
(* only, picked at the start.                                              *)
EXTENDS Traffic, Retry, HttpAssert, Statistics, PodMetrics, Fixtures

VARIABLE part

MCInit ==
  /\ Init /\ RetryInit /\ HttpAssertInit /\ StatisticsInit /\ PodMetricsInit
  /\ FixturesInit
  /\ part \in {"traffic", "retry", "http", "statistics", "metrics", "fixtures"}
  /\ part # "http" => ending = "result" /\ response = CHOOSE r \in Responses : TRUE
  /\ part # "metrics" => ~oddName

MCNext ==
  /\ UNCHANGED part
  /\ IF part = "traffic" THEN Next ELSE UNCHANGED vars
  /\ IF part = "retry" THEN RetryNext ELSE UNCHANGED retryVars
  /\ IF part = "http" THEN HttpAssertNext ELSE UNCHANGED httpVars
  /\ IF part = "statistics" THEN StatisticsNext ELSE UNCHANGED samples
  /\ IF part = "metrics" THEN PodMetricsNext ELSE UNCHANGED metricsVars
  /\ IF part = "fixtures" THEN FixturesNext ELSE UNCHANGED fixtureVars

MCSpec ==
  MCInit /\ [][MCNext]_<<vars, retryVars, httpVars, samples, metricsVars, fixtureVars, part>>

(* {"n": 12} with a word; the same in wide characters, longer than what a  *)
(* message quotes; text that is not JSON; nothing.                         *)
MCNumbers == {[key |-> "n", value |-> 1], [key |-> "n", value |-> 12]}
MCPrefixes == {<<1, 1>>, <<1, 12>>, <<12, 12>>}
MCResponses ==
  LET twelve == {[key |-> "n", value |-> 12]}
  IN  {[has |-> {"up"}, fields |-> twelve, json |-> TRUE, length |-> 20, inside |-> {}],
       [has |-> {"up"}, fields |-> twelve, json |-> TRUE, length |-> 120, inside |-> {50}],
       [has |-> {"up"}, fields |-> {}, json |-> FALSE, length |-> 120, inside |-> {100}],
       [has |-> {}, fields |-> {}, json |-> FALSE, length |-> 0, inside |-> {}]}

(* CPU: nanocores, microcores (not parsed), millicores and cores, a        *)
(* thousand times smaller than they are.                                   *)
MCScale == [n |-> 1, u |-> 2, m |-> 10, cores |-> 100]
=============================================================================

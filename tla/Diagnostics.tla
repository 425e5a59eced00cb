---------------------------- MODULE Diagnostics -----------------------------
(***************************************************************************)
(* What seppo tells of a namespace: collect_diagnostics with its print     *)
(* (context/diagnostics_ctx.rs, diagnostics.rs), logs_all                  *)
(* (context/logs.rs) and debug (context/debug.rs).  Each is a list and     *)
(* then request after request, any of which may fail, while pods come to   *)
(* their end, write logs and cause events.  Both reports cut the texts of  *)
(* an event at a byte, which panics within a character of several.         *)
(***************************************************************************)
EXTENDS Naturals, FiniteSets, Sequences

CONSTANTS PodNames,
          Events      \* with a time, 0 for none, and the reports in which a
                      \* character of theirs lies across the cut

ASSUME DiagnosticsAssumption ==
  Events \subseteq [time : Nat, cuts : SUBSET {"report", "debug"}]

VARIABLES logOf,    \* per pod: its log, or that the pod is gone
          happened, \* the events
          report,   \* what is being collected: by, at, toRead, logs, events
          printed,  \* what the reader gets
          listed,   \* history: the pods of the list
          really,   \* history: per pod what the log was, or that it failed
          fetched   \* history: the events the request returned, if it did

diagnosticsVars == <<logOf, happened, report, printed, listed, really, fetched>>

Logs == {"empty", "short", "long"}
NoLogs == [p \in {} |-> "empty"]
NoReport == [by |-> "none", at |-> "idle", toRead |-> {}, logs |-> NoLogs, events |-> {}]
NothingPrinted == [end |-> "open", pods |-> NoLogs, events |-> {}, sections |-> <<>>]

DiagnosticsInit ==
  /\ logOf \in [PodNames -> Logs \cup {"gone"}]
  /\ happened \in {h \in SUBSET Events : IsFiniteSet(h)}
  /\ report = NoReport /\ printed = NothingPrinted
  /\ listed = {} /\ really = NoLogs /\ fetched = {}

Collect(by) ==
  /\ report.at = "idle"
  /\ report' = [NoReport EXCEPT !.by = by, !.at = "listing"]
  /\ printed' = NothingPrinted
  /\ listed' = {} /\ really' = NoLogs /\ fetched' = {}
  /\ UNCHANGED <<logOf, happened>>

ListPods ==
  /\ report.at = "listing"
  /\ listed' = {p \in PodNames : logOf[p] # "gone"}
  /\ report' = [report EXCEPT !.at = "logs", !.toRead = listed']
  /\ UNCHANGED <<logOf, happened, printed, really, fetched>>

(* collect_diagnostics does without, logs_all is an error.                 *)
ListFails ==
  /\ report.at = "listing"
  /\ report' = IF report.by = "logs_all" THEN NoReport ELSE [report EXCEPT !.at = "logs"]
  /\ UNCHANGED <<logOf, happened, printed, listed, really, fetched>>

(* The text that stands for a log that could not be read.                  *)
(* Mutation: nothing, as logs_all has it.                                  *)
NoTextForAnError(by) == "empty"
TextForAnError(by) == IF by = "logs_all" THEN "empty" ELSE "[error getting logs]"

Put(p, f, text) == [q \in DOMAIN f \cup {p} |-> IF q = p THEN text ELSE f[q]]

ReadLog(p) ==
  /\ report.at = "logs" /\ p \in report.toRead
  /\ \E failed \in BOOLEAN :
       /\ logOf[p] = "gone" => failed
       /\ report' = [report EXCEPT !.toRead = @ \ {p},
            !.logs = Put(p, @, IF failed THEN TextForAnError(report.by) ELSE logOf[p])]
       /\ really' = Put(p, really, IF failed THEN "failed" ELSE logOf[p])
  /\ UNCHANGED <<logOf, happened, printed, listed, fetched>>

ReturnLogs ==
  /\ report.by = "logs_all" /\ report.at = "logs" /\ report.toRead = {}
  /\ printed' = [NothingPrinted EXCEPT !.pods = report.logs]
  /\ report' = [report EXCEPT !.at = "idle"]
  /\ UNCHANGED <<logOf, happened, listed, really, fetched>>

(* The events; an error leaves them out.                                   *)
ReadEvents(got) ==
  /\ report.by = "collect_diagnostics" /\ report.at = "logs" /\ report.toRead = {}
  /\ report' = [report EXCEPT !.at = "printing", !.events = got]
  /\ fetched' = got
  /\ UNCHANGED <<logOf, happened, printed, listed, really>>

(* The print: an empty log says so, of a long one the first fifty lines    *)
(* and the number of the others; events by their timestamps, those without *)
(* at the end, until one whose kind and name or whose reason cannot be cut *)
(* where it should be.  The panic that ends the print is the test's then.  *)
ShownLog(text) ==
  CASE text = "empty" -> "(no logs)" [] text = "long" -> "50 lines and more" [] OTHER -> text
Before(a, b) == a.time # 0 /\ (b.time = 0 \/ a.time < b.time)
Sortings(S) ==
  {s \in [1 .. Cardinality(S) -> S] :
     /\ {s[i] : i \in DOMAIN s} = S
     /\ \A i, j \in DOMAIN s : i < j => ~Before(s[j], s[i])}

Display ==
  /\ report.at = "printing"
  /\ \E s \in Sortings(report.events), n \in 0 .. Cardinality(report.events) :
       /\ \A i \in 1 .. n : "report" \notin s[i].cuts
       /\ n < Cardinality(report.events) => "report" \in s[n + 1].cuts
       /\ printed' = [end |-> IF n = Cardinality(report.events) THEN "whole" ELSE "broken",
                      pods |-> [p \in DOMAIN report.logs |-> ShownLog(report.logs[p])],
                      events |-> {s[i] : i \in 1 .. n},
                      sections |-> <<>>]
  /\ report' = [report EXCEPT !.at = "idle"]
  /\ UNCHANGED <<logOf, happened, listed, really, fetched>>

-----------------------------------------------------------------------------
(* debug: section by section, and an error is printed in its place; only   *)
(* the logs of a deployment's pods are left out without a word.            *)
Sections(kind) ==
  CASE kind = "deployment" -> <<"status", "pods", "events", "logs of pods">>
    [] kind = "pod" -> <<"status", "events", "logs">>
    [] kind = "service" -> <<"status", "events">>
    [] kind \in {"daemonset", "statefulset"} -> <<"status", "pods", "events">>

Kinds == {"deployment", "pod", "service", "daemonset", "statefulset"}

Debug(kind) ==
  /\ report.at = "idle"
  /\ report' = [NoReport EXCEPT !.by = kind, !.at = "debugging"]
  /\ printed' = NothingPrinted
  /\ listed' = {} /\ really' = NoLogs /\ fetched' = {}
  /\ UNCHANGED <<logOf, happened>>

Section == Sections(report.by)[Len(printed.sections) + 1]

DebugSection ==
  /\ report.at = "debugging"
  /\ \E failed \in BOOLEAN :
       printed' = [printed EXCEPT !.sections = Append(@,
         IF ~failed THEN Section
         ELSE IF Section = "logs of pods" THEN "nothing" ELSE "Error fetching")]
  /\ report' = IF Len(printed.sections) + 1 = Len(Sections(report.by))
               THEN [report EXCEPT !.at = "idle"] ELSE report
  /\ UNCHANGED <<logOf, happened, listed, really, fetched>>

(* One of the first ten events of the resource has a message that cannot   *)
(* be cut after 57 bytes.                                                  *)
DebugBreaks ==
  /\ report.at = "debugging" /\ Section = "events"
  /\ \E e \in happened : "debug" \in e.cuts
  /\ printed' = [printed EXCEPT !.end = "broken"]
  /\ report' = [report EXCEPT !.at = "idle"]
  /\ UNCHANGED <<logOf, happened, listed, really, fetched>>

-----------------------------------------------------------------------------
(* External: containers, the kubelet, whoever deletes pods.                *)
LogOn(p, text) ==
  /\ report.at = "logs" /\ logOf[p] \notin {"gone", text}
  /\ logOf' = [logOf EXCEPT ![p] = text]
  /\ UNCHANGED <<happened, report, printed, listed, really, fetched>>

Happen(e) ==
  /\ report.at = "logs" /\ e \notin happened
  /\ happened' = happened \cup {e}
  /\ UNCHANGED <<logOf, report, printed, listed, really, fetched>>

Collecting ==
  \/ ListPods \/ ListFails \/ ReturnLogs \/ Display
  \/ \E p \in PodNames : ReadLog(p) \/ \E text \in Logs \cup {"gone"} : LogOn(p, text)
  \/ ReadEvents(happened) \/ ReadEvents({})
  \/ \E e \in Events : Happen(e)

DiagnosticsNext ==
  \/ Collect("collect_diagnostics") \/ Collect("logs_all") \/ Collecting
  \/ \E kind \in Kinds : Debug(kind)
  \/ DebugSection \/ DebugBreaks

DiagnosticsSpec == DiagnosticsInit /\ [][DiagnosticsNext]_diagnosticsVars

-----------------------------------------------------------------------------
(* The reader of a report is not misled by what failed on the way: every   *)
(* pod of the list is in it, and "(no logs)" stands only where the log was *)
(* empty - not so in logs_all, where it may also stand for an error; and   *)
(* all events that were fetched are, unless one breaks the print off: then *)
(* the pods and all that happened before it are there, and none after it.  *)
(* debug has all of its sections, unless an event of the namespace breaks  *)
(* it off at the events, with the sections before them told.  A list that  *)
(* failed looks like none: its section is left out without a word.         *)
DiagnosisMissesNothing ==
  /\ report.by = "collect_diagnostics" /\ report.at = "idle" =>
       /\ printed.end \in {"whole", "broken"}
       /\ DOMAIN printed.pods = listed
       /\ \A p \in listed :
            /\ printed.pods[p] = "(no logs)" <=> really[p] = "empty"
            /\ printed.pods[p] = "50 lines and more" <=> really[p] = "long"
       /\ printed.end = "whole" => printed.events = fetched
       /\ printed.end = "broken" =>
            \E e \in fetched \ printed.events :
              /\ "report" \in e.cuts
              /\ \A o \in fetched : Before(o, e) => o \in printed.events
              /\ \A o \in printed.events : o \in fetched /\ ~Before(e, o)
  /\ report.by = "logs_all" /\ report.at = "idle" =>
       /\ DOMAIN printed.pods = listed
       /\ \A p \in listed : printed.pods[p] = "empty" <=> really[p] \in {"empty", "failed"}
  /\ report.by \in Kinds /\ report.at = "idle" =>
       \/ printed.end = "open" /\ Len(printed.sections) = Len(Sections(report.by))
       \/ /\ printed.end = "broken" /\ Section = "events"
          /\ \E e \in happened : "debug" \in e.cuts
=============================================================================

----------------------------- MODULE HttpAssert -----------------------------
(***************************************************************************)
(* HttpAssert (traffic.rs): a chain of checks of one HTTP response.  Each  *)
(* failing check adds a message and the chain goes on; result() fails with *)
(* all the messages, assert() panics with them.  A message quotes the      *)
(* response up to a number of BYTES, and slicing a text within a character *)
(* panics.                                                                 *)
(***************************************************************************)
EXTENDS Integers, FiniteSets

CONSTANTS Responses,   \* what the service may have answered
          Needles,     \* texts a test looks for
          Numbers,     \* JSON fields of number value: [key, value]
          Prefixes,    \* the pairs of values of which one begins the other
          MaxChecks    \* bound: checks in a chain

(* A response: the needles it contains, its number fields, whether it is   *)
(* JSON, its length in bytes and those at which no character begins.       *)
ASSUME HttpAssertAssumption ==
  /\ \A r \in Responses : /\ r.has \subseteq Needles /\ r.fields \subseteq Numbers
                          /\ r.json \in BOOLEAN /\ r.length \in Nat
                          /\ r.length = 0 => r.has = {}
                          /\ r.fields # {} => r.json
  /\ \A f \in Numbers : <<f.value, f.value>> \in Prefixes
  /\ MaxChecks \in Nat

VARIABLES response,
          ending,            \* how the chain is written to end
          chain,             \* "open", or how it did end
          messages,          \* how many messages were pushed
          asked              \* history: the checks that were made

httpVars == <<response, ending, chain, messages, asked>>

HttpAssertInit ==
  /\ response \in Responses /\ ending \in {"result", "assert"}
  /\ chain = "open" /\ messages = 0 /\ asked = {}

Checks ==
  [kind : {"contains", "not_contains"}, text : Needles]
    \cup [kind : {"contains_json"}, text : Numbers]
    \cup [kind : {"equals"}, text : Responses]
    \cup [kind : {"is_json", "is_empty", "is_not_empty"}, text : {"none"}]

(* `"key":value` is looked for as text: a number is found in a longer one. *)
HasField(f) ==
  \E g \in response.fields : g.key = f.key /\ <<f.value, g.value>> \in Prefixes

Holds(c) ==
  \/ c.kind = "contains" /\ c.text \in response.has
  \/ c.kind = "not_contains" /\ c.text \notin response.has
  \/ c.kind = "contains_json" /\ HasField(c.text)
  \/ c.kind = "equals" /\ c.text = response
  \/ c.kind = "is_json" /\ response.json
  \/ c.kind = "is_empty" /\ response.length = 0
  \/ c.kind = "is_not_empty" /\ response.length > 0

(* `&s[..max_len]` of a text that is longer.                               *)
Quotable(t, limit) == t.length > limit => limit \notin t.inside

(* What a message quotes.                                                  *)
MessageIsMade(c) ==
  CASE c.kind \in {"contains", "contains_json"} -> Quotable(response, 100)
    [] c.kind \in {"is_json", "is_empty"} -> Quotable(response, 50)
    [] c.kind = "equals" -> Quotable(c.text, 50) /\ Quotable(response, 50)
    [] OTHER -> TRUE

-----------------------------------------------------------------------------
(* A check whose message cannot be made panics, whatever the chain's end.  *)
(* Mutation: the chain keeps the message of its last check only.           *)
CheckAfresh(c) ==
  /\ chain = "open"
  /\ c \notin asked /\ Cardinality(asked) < MaxChecks
  /\ asked' = asked \cup {c}
  /\ chain' = IF Holds(c) \/ MessageIsMade(c) THEN "open" ELSE "cut"
  /\ messages' = IF Holds(c) THEN 0 ELSE 1
  /\ UNCHANGED <<response, ending>>

CheckThat(c) ==
  /\ chain = "open"
  /\ c \notin asked /\ Cardinality(asked) < MaxChecks
  /\ asked' = asked \cup {c}
  /\ chain' = IF Holds(c) \/ MessageIsMade(c) THEN "open" ELSE "cut"
  /\ messages' = IF Holds(c) THEN messages ELSE messages + 1
  /\ UNCHANGED <<response, ending>>

Result ==
  /\ chain = "open" /\ ending = "result"
  /\ chain' = IF messages = 0 THEN "ok" ELSE "error"
  /\ UNCHANGED <<response, ending, messages, asked>>

Assert ==
  /\ chain = "open" /\ ending = "assert"
  /\ chain' = IF messages = 0 THEN "ok" ELSE "panic"
  /\ UNCHANGED <<response, ending, messages, asked>>

Over == chain # "open" /\ UNCHANGED httpVars

HttpAssertNext == Result \/ Assert \/ Over \/ \E c \in Checks : CheckThat(c)

HttpAssertSpec == HttpAssertInit /\ [][HttpAssertNext]_httpVars

-----------------------------------------------------------------------------
(* What a check says in its name: contains_json is of a key with a value.  *)
Means(c) == IF c.kind = "contains_json" THEN c.text \in response.fields ELSE Holds(c)

(* However long the chain, and whatever checks follow a failing one: Ok    *)
(* means that every check of it is true, but for a number that was found   *)
(* as the beginning of a longer one; an error or the panic of assert()     *)
(* that some are not, with one message for each; and a chain that ends     *)
(* within has a false check, whose message cuts a character.               *)
ChainTellsAll ==
  /\ chain = "ok" =>
       \A c \in asked : \/ Means(c)
                       \/ /\ c.kind = "contains_json"
                          /\ \E g \in response.fields : /\ g.key = c.text.key
                                                       /\ <<c.text.value, g.value>> \in Prefixes
  /\ chain \in {"error", "panic"} =>
       /\ messages = Cardinality({c \in asked : ~Holds(c)})
       /\ \E c \in asked : ~Means(c)
  /\ chain = "cut" => \E c \in asked : ~Means(c) /\ ~MessageIsMade(c)

(* What result() says of itself: "Returns TrafficError::AssertionFailed if *)
(* any assertions failed"; a chain that ends in it never panics.           *)
ResultReturns == ending = "result" => chain \notin {"cut", "panic"}
=============================================================================

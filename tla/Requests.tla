------------------------------ MODULE Requests ------------------------------
(***************************************************************************)
(* The calls of Context that are one request about one object: apply, get, *)
(* delete and their cluster-scoped twins, list (context/crud.rs), patch,   *)
(* patch_strategic, patch_json (context/patching.rs), and the message that *)
(* an error becomes (improve_error_message, context/mod.rs), next to       *)
(* others who write the same object.                                       *)
(*                                                                         *)
(* An object has fields, and a list of containers, which have names and    *)
(* positions.  What happens to the parts a request does not mention        *)
(* depends on the kind of patch the call sends: a merge patch takes the    *)
(* list as a whole, a strategic one goes by name, a JSON patch by index.   *)
(* An error message is the set of those texts in it that                   *)
(* improve_error_message looks for: the one of its cause, and those it     *)
(* quotes, names, values, fields (timeoutSeconds) and webhooks' words.     *)
(***************************************************************************)
EXTENDS Naturals, SequencesExt

CONSTANTS Fields, InList,  \* the parts of an object: fields, containers
          Contents,
          Unset,           \* of an object: not there; of a body: not mentioned
          Null,            \* of a body: to be removed
          Quotes           \* the texts an answer may quote

Parts == Fields \cup InList
Texts == {"not_found", "exists", "image", "forbidden", "connection", "timeout"}

ASSUME RequestsAssumption ==
  /\ Fields \cap InList = {}
  /\ {Unset, Null} \cap Contents = {} /\ Unset # Null
  /\ Quotes \subseteq SUBSET Texts

VARIABLES item,     \* the object: its parts, the containers' names in order
          sent,     \* the call on its way, and the order its caller read
          theirs,   \* history: what others wrote and no call has mentioned
          cause,    \* history: why the last call failed
          quoted,   \* history: the texts that the answer quoted
          told      \* what the call returned

requestVars == <<item, sent, theirs, cause, quoted, told>>

Nothing == [p \in Parts |-> Unset]
NoItem == [there |-> FALSE, parts |-> Nothing, order |-> <<>>, mine |-> {}]
Bodies == {b \in [Parts -> Contents \cup {Unset, Null}] :
             \A p \in InList : b[p] # Null}
FieldBodies == {b \in Bodies : \A p \in InList : b[p] = Unset}
Patching == {"patch", "patch_strategic", "patch_json"}

(* The operation of a JSON patch on the list: the content of a container   *)
(* is replaced or the container removed, by index and perhaps with a test  *)
(* of its name before, or a new one is added at an index.                  *)
NoEdit == [do |-> "none", at |-> 0, name |-> Unset, to |-> Unset, tested |-> FALSE]
Edits ==
  LET changes == [do : {"replace"}, at : DOMAIN item.order, name : {Unset},
                  to : Contents, tested : BOOLEAN]
      removals == [do : {"remove"}, at : DOMAIN item.order, name : {Unset},
                   to : {Unset}, tested : BOOLEAN]
      additions == [do : {"add"}, at : 1 .. (Len(item.order) + 1), name : InList,
                    to : Contents, tested : {FALSE}]
  IN  {NoEdit} \cup changes \cup removals \cup additions

NoCall == [op |-> "none", body |-> Nothing, edit |-> NoEdit, seen |-> <<>>]

RequestsInit ==
  /\ item = NoItem
  /\ sent = NoCall /\ theirs = Nothing
  /\ cause = "none" /\ quoted = {} /\ told = "none"

-----------------------------------------------------------------------------
(* What a request makes of the object's parts.                             *)

Sets(b, p) == b[p] \in Contents
Written(b, p, old) ==
  IF Sets(b, p) THEN b[p] ELSE IF b[p] = Null THEN Unset ELSE old

(* External: a merge patch (RFC 7386) takes a list as a whole.             *)
MergePatch(b) ==
  LET wholeList == \E p \in InList : Sets(b, p)
  IN  [p \in Parts |-> IF p \in InList /\ wholeList THEN b[p]
                       ELSE Written(b, p, item.parts[p])]

(* External: a strategic merge patch merges containers by name.            *)
PatchEach(b) == [p \in Parts |-> Written(b, p, item.parts[p])]

(* External: a JSON patch (RFC 6902) has a path for each field it writes,  *)
(* and an index into the list: it hits whoever is there when it arrives.   *)
Hits(e, p) ==
  CASE e.do = "none" -> FALSE
    [] e.do = "add" -> p = e.name
    [] OTHER -> p = item.order[e.at]
JsonPatch(b, e) ==
  [p \in Parts |-> IF p \in InList /\ Hits(e, p) THEN e.to
                   ELSE Written(b, p, item.parts[p])]

(* External: server-side apply removes what the same manager applied       *)
(* before and now leaves out; forced, it takes over what others wrote.     *)
ServerSideApply(b) ==
  [p \in Parts |-> IF Sets(b, p) THEN b[p]
                   ELSE IF p \in item.mine THEN Unset ELSE item.parts[p]]

(* The patch each call sends.  Mutation: patch_strategic sends a merge.    *)
SendsMergeAlways(call) ==
  CASE call.op \in {"patch", "patch_strategic"} -> MergePatch(call.body)
    [] call.op = "patch_json" -> JsonPatch(call.body, call.edit)
    [] call.op = "apply" -> ServerSideApply(call.body)
    [] OTHER -> item.parts

Sends(call) ==
  CASE call.op = "patch" -> MergePatch(call.body)
    [] call.op = "patch_strategic" -> PatchEach(call.body)
    [] call.op = "patch_json" -> JsonPatch(call.body, call.edit)
    [] call.op = "apply" -> ServerSideApply(call.body)
    [] OTHER -> item.parts

(* External: every operation of a JSON patch must apply, a test among them *)
(* must hold, and no two containers may have one name.                     *)
Applicable(call) ==
  LET e == call.edit
  IN  /\ \A f \in Fields : call.body[f] = Null => item.parts[f] # Unset
      /\ e.do \in {"replace", "remove"} => e.at \in DOMAIN item.order
      /\ e.tested => item.order[e.at] = call.seen[e.at]
      /\ e.do = "add" => e.at <= Len(item.order) + 1 /\ item.parts[e.name] = Unset

(* External: a request that touches the list may leave it in another order *)
(* (a new container goes last, or where the body has it).                  *)
Orders(parts) == SetToSeqs({p \in InList : parts[p] # Unset})
OrdersAfter(call) ==
  LET e == call.edit  after == Sends(call)
  IN  CASE e.do = "remove" -> {RemoveAt(item.order, e.at)}
        [] e.do = "add" -> {InsertAt(item.order, e.at, e.name)}
        [] \A p \in InList : call.body[p] = Unset /\ after[p] = item.parts[p] -> {item.order}
        [] e.do = "replace" -> {item.order}
        [] OTHER -> Orders(after)

-----------------------------------------------------------------------------
Send(op, b, e) ==
  /\ sent = NoCall
  /\ sent' = [op |-> op, body |-> b, edit |-> e,
              seen |-> IF e.do \in {"replace", "remove"} THEN item.order ELSE <<>>]
  /\ told' = "none" /\ cause' = "none" /\ quoted' = {}
  /\ UNCHANGED <<item, theirs>>

(* One for each call; a cluster-scoped twin sends the same.  The caller of *)
(* patch_json has its index from a look at the list.                       *)
SendGet == Send("get", Nothing, NoEdit)
SendDelete == Send("delete", Nothing, NoEdit)
SendList == Send("list", Nothing, NoEdit)
SendApply(b) == Send("apply", b, NoEdit)
SendPatch(b) == Send("patch", b, NoEdit)
SendPatchStrategic(b) == Send("patch_strategic", b, NoEdit)
SendPatchJson(b, e) == Send("patch_json", b, e)

(* A patch that is no array of operations, a resource without a name: an   *)
(* error before anything is sent.                                          *)
Malformed ==
  /\ sent.op \in {"patch_json", "apply"}
  /\ sent' = NoCall
  /\ told' = "malformed"
  /\ UNCHANGED <<item, theirs, cause, quoted>>

Admitted ==
  /\ sent # NoCall
  /\ item.there \/ sent.op \in {"apply", "list"}
  /\ sent.op = "patch_json" => Applicable(sent)

(* What others have written stays theirs until a call mentions it, or      *)
(* merges the list it is in, or deletes the object.  A JSON patch mentions *)
(* the container that was at its index when the caller looked; without a   *)
(* test it answers for no other only while the list is as it was then.     *)
Means(call) == IF call.edit.do = "add" THEN call.edit.name ELSE call.seen[call.edit.at]
Spared(p) ==
  /\ sent.op # "delete"
  /\ sent.op \in Patching \cup {"apply"} => sent.body[p] = Unset
  /\ sent.op = "patch" /\ p \in InList => \A q \in InList : sent.body[q] = Unset
  /\ sent.edit.do # "none" => p # Means(sent)
  /\ sent.edit.do \in {"replace", "remove"} /\ p \in InList =>
       sent.edit.tested \/ item.order = sent.seen

(* A part that is changed by other means than apply is no longer applied.  *)
Succeed ==
  /\ Admitted
  /\ \E order \in OrdersAfter(sent) :
       item' = IF sent.op = "delete" THEN NoItem
               ELSE [there |-> item.there \/ sent.op = "apply",
                     parts |-> Sends(sent),
                     order |-> order,
                     mine |-> IF sent.op = "apply"
                              THEN {p \in Parts : Sets(sent.body, p)}
                              ELSE {p \in item.mine : Sends(sent)[p] = item.parts[p]}]
  /\ theirs' = [p \in Parts |-> IF Spared(p) THEN theirs[p] ELSE Unset]
  /\ told' = "ok"
  /\ sent' = NoCall
  /\ UNCHANGED <<cause, quoted>>

(* improve_error_message: the first of these texts that is anywhere in the *)
(* raw message; with none of them the raw message itself.                  *)
Order == <<"not_found", "exists", "image", "forbidden", "connection", "timeout">>

(* Mutation: a timeout is looked for before the permission.                *)
ImprovedInAnyOrder(raw) ==
  IF raw = {} THEN "raw" ELSE CHOOSE t \in raw : t = "timeout" \/ "timeout" \notin raw

Improved(raw) ==
  IF raw = {} THEN "raw"
  ELSE Order[CHOOSE i \in DOMAIN Order :
               Order[i] \in raw /\ \A j \in 1..(i - 1) : Order[j] \notin raw]

(* The text of the cause itself: the reason and the code of an answer.  A  *)
(* conflict (409) has the one of an object that exists.  "other" has none: *)
(* an invalid object (422), a webhook that failed (500).                   *)
OwnText(c) == IF c = "conflict" THEN {"exists"} ELSE {c} \cap Texts
Local == {"connection", "timeout"}  \* may be the client's, in its words

(* A list puts its kind before the raw message and does not look into it;  *)
(* an error of the connection itself quotes nothing.                       *)
Fail(c) ==
  /\ sent # NoCall
  /\ \E quote \in Quotes, own \in {OwnText(c)} \cup (IF c \in Local THEN {{}} ELSE {}) :
       /\ c = "connection" => quote = {}
       /\ quoted' = quote
       /\ told' = IF sent.op = "list" THEN "unread" ELSE Improved(own \cup quote)
  /\ cause' = c
  /\ sent' = NoCall
  /\ UNCHANGED <<item, theirs>>

(* What the API server refuses for the object's sake, what it refuses or   *)
(* fails at for reasons of its own (the kind or the namespace is not       *)
(* there, somebody else was faster), and what never reaches it.            *)
Refused ==
  /\ ~Admitted
  /\ IF item.there \/ sent.op \in {"apply", "list"} THEN Fail("other") ELSE Fail("not_found")
Breaks ==
  \/ \E c \in {"not_found", "forbidden", "connection", "timeout", "other"} : Fail(c)
  \/ sent.op \in Patching \cup {"apply"} /\ Fail("conflict")
  \/ sent.op = "apply" /\ Fail("exists")

(* External: a controller, another test.                                   *)
OtherWrites(p, v) ==
  LET parts == [item.parts EXCEPT ![p] = v]
  IN  \E order \in IF p \in InList THEN Orders(parts) ELSE {item.order} :
        /\ item' = [there |-> TRUE, parts |-> parts, order |-> order,
                    mine |-> item.mine \ {p}]
        /\ theirs' = [theirs EXCEPT ![p] = v]
        /\ UNCHANGED <<sent, cause, quoted, told>>

OtherDeletes ==
  /\ item.there
  /\ item' = NoItem /\ theirs' = Nothing
  /\ UNCHANGED <<sent, cause, quoted, told>>

RequestsNext ==
  \/ SendGet \/ SendDelete \/ SendList
  \/ \E b \in Bodies : SendApply(b) \/ SendPatch(b) \/ SendPatchStrategic(b)
  \/ \E b \in FieldBodies, e \in Edits : SendPatchJson(b, e)
  \/ Malformed \/ Succeed \/ Refused \/ Breaks
  \/ \E p \in Parts, v \in Contents \cup {Unset} : OtherWrites(p, v)
  \/ OtherDeletes

RequestsSpec == RequestsInit /\ [][RequestsNext]_requestVars

-----------------------------------------------------------------------------
(* Nothing that somebody else wrote is lost by a call that does not        *)
(* mention it, whatever the calls before and between.  There are two       *)
(* exceptions: a merge patch that mentions the list of containers, as      *)
(* patch does; and a patch_json that addresses a container by its index    *)
(* without a test of the name, once the list is not as its caller read it. *)
OthersAreKept == \A p \in Parts : theirs[p] # Unset => item.parts[p] = theirs[p]

(* The message names the real cause, or a text that the answer quotes and  *)
(* that is looked for before the real one: a 422 that names timeoutSeconds *)
(* "timed out", "app-404" is never forbidden; and a conflict is told as an *)
(* object that exists.  The raw message comes when nothing was found.      *)
MessageNamesTheCause ==
  LET Before(t, u) == \E i, j \in DOMAIN Order : Order[i] = t /\ Order[j] = u /\ i < j
      certain == IF cause \in Local THEN {} ELSE OwnText(cause)
  IN  /\ told \in Texts /\ told \notin OwnText(cause) =>
           told \in quoted /\ \A t \in certain : Before(told, t)
      /\ told = "raw" => quoted = {} /\ certain = {}
=============================================================================

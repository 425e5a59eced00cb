------------------------------ MODULE StackUp -------------------------------
(***************************************************************************)
(* Context::up (context/stack_deploy.rs) with the manifests of stack.rs:   *)
(* validate the stack, create all its Deployments concurrently, then all   *)
(* the Services of the definitions that have a port.                       *)
(*                                                                         *)
(* try_join_all gives up at the first error and drops the other futures.   *)
(* A create that was sent is not recalled by that: the server may take it  *)
(* at any time later.  Several tasks may bring up the same stack; a retry  *)
(* after an error is one more of them.  Nothing deletes.                   *)
(***************************************************************************)
EXTENDS Naturals

CONSTANTS Callers,   \* calls of up
          Defs,      \* service definitions a stack may have
          Names      \* the names they may give

Kinds == {"deployment", "service"}

VARIABLES stack,     \* the stack: its definitions,
          nameOf,    \* their names,
          hasPort,   \* those with a port,
          hasImage,  \* and those with an image
          store,     \* (kind, name) of what exists in the namespace
          phase,     \* per call
          request,   \* per call, kind and definition: its create
          dirty      \* history: a name was taken when the call began

input == <<stack, nameOf, hasPort, hasImage>>
stackVars == <<input, store, phase, request, dirty>>

Active == {"deployment", "service"}
UpEnds == {"ok", "empty_stack", "deploy_error"}

(* What a phase creates: deployment_for every definition, service_for      *)
(* those with a port.                                                      *)
Wanted(kind) == IF kind = "service" THEN stack \cap hasPort ELSE stack
Valid == stack # {} /\ stack \subseteq hasImage

StackInit ==
  /\ stack \in SUBSET Defs
  /\ nameOf \in [Defs -> Names]
  /\ hasPort \in SUBSET Defs /\ hasImage \in SUBSET Defs
  /\ store = {}
  /\ phase = [c \in Callers |-> "start"]
  /\ request = [c \in Callers |-> [k \in Kinds |-> [d \in Defs |-> "none"]]]
  /\ dirty = [c \in Callers |-> FALSE]

Enter(c, label) == phase' = [phase EXCEPT ![c] = label]
Mark(c, k, d, r) == request' = [request EXCEPT ![c][k][d] = r]

(* The two checks that come before any request.                            *)
Reject(c) ==
  /\ phase[c] = "start" /\ ~Valid
  /\ Enter(c, IF stack = {} THEN "empty_stack" ELSE "deploy_error")
  /\ UNCHANGED <<input, store, request, dirty>>

Begin(c) ==
  /\ phase[c] = "start" /\ Valid
  /\ Enter(c, "deployment")
  /\ dirty' = [dirty EXCEPT ![c] =
                 \E d \in stack : <<"deployment", nameOf[d]>> \in store]
  /\ UNCHANGED <<input, store, request>>

Send(c, d) ==
  /\ phase[c] \in Active
  /\ d \in Wanted(phase[c])
  /\ request[c][phase[c]][d] = "none"
  /\ Mark(c, phase[c], d, "sent")
  /\ UNCHANGED <<input, store, phase, dirty>>

(* Mutation: an apply, for which AlreadyExists is no error.                *)
ServeApply(c, k, d) ==
  /\ request[c][k][d] = "sent"
  /\ store' = store \cup {<<k, nameOf[d]>>}
  /\ Mark(c, k, d, "created")
  /\ UNCHANGED <<input, phase, dirty>>

(* The API server: create, or 409 AlreadyExists.                           *)
Create(c, k, d) ==
  /\ request[c][k][d] = "sent"
  /\ IF <<k, nameOf[d]>> \in store
     THEN /\ Mark(c, k, d, "error")
          /\ UNCHANGED store
     ELSE /\ store' = store \cup {<<k, nameOf[d]>>}
          /\ Mark(c, k, d, "created")
  /\ UNCHANGED <<input, phase, dirty>>

(* The connection breaks: before the server saw the request, or after it   *)
(* created the object.                                                     *)
Break(c, k, d) ==
  /\ request[c][k][d] \in {"sent", "created"}
  /\ phase[c] = k
  /\ Mark(c, k, d, "error")
  /\ UNCHANGED <<input, store, phase, dirty>>

(* Mutation: the first success decides.                                    *)
JoinedByOne(c) ==
  /\ phase[c] \in Active
  /\ \E d \in Wanted(phase[c]) : request[c][phase[c]][d] = "created"
  /\ Enter(c, IF phase[c] = "deployment" THEN "service" ELSE "ok")
  /\ UNCHANGED <<input, store, request, dirty>>

(* try_join_all: all created, on to the next phase ...                     *)
Joined(c) ==
  /\ phase[c] \in Active
  /\ \A d \in Wanted(phase[c]) : request[c][phase[c]][d] = "created"
  /\ Enter(c, IF phase[c] = "deployment" THEN "service" ELSE "ok")
  /\ UNCHANGED <<input, store, request, dirty>>

(* Mutation: join_all waits for every answer, the unsent ones too.         *)
FailedTogether(c) ==
  /\ phase[c] \in Active
  /\ \A d \in Defs : request[c][phase[c]][d] = "error"
  /\ Enter(c, "deploy_error")
  /\ UNCHANGED <<input, store, request, dirty>>

(* ... or the first error, whatever the others are doing.                  *)
Failed(c) ==
  /\ phase[c] \in Active
  /\ \E d \in Wanted(phase[c]) : request[c][phase[c]][d] = "error"
  /\ Enter(c, "deploy_error")
  /\ UNCHANGED <<input, store, request, dirty>>

Up(c) == Reject(c) \/ Begin(c) \/ (\E d \in Defs : Send(c, d)) \/ Joined(c) \/ Failed(c)

Network ==
  \E c \in Callers, k \in Kinds, d \in Defs : Create(c, k, d) \/ Break(c, k, d)

AllReturned ==
  /\ \A c \in Callers : phase[c] \in UpEnds
  /\ UNCHANGED stackVars

StackNext == (\E c \in Callers : Up(c)) \/ Network \/ AllReturned

(* A task that can run does, and what is sent is answered.                 *)
StackFairness ==
  /\ \A c \in Callers : WF_stackVars(Up(c))
  /\ \A c \in Callers, k \in Kinds, d \in Defs :
       WF_stackVars(Create(c, k, d) \/ Break(c, k, d))

StackSpec == StackInit /\ [][StackNext]_stackVars /\ StackFairness

-----------------------------------------------------------------------------
StackTypeOK ==
  /\ stack \subseteq Defs /\ hasPort \subseteq Defs /\ hasImage \subseteq Defs
  /\ nameOf \in [Defs -> Names]
  /\ store \subseteq Kinds \X Names
  /\ phase \in [Callers -> {"start"} \cup Active \cup UpEnds]
  /\ request \in [Callers -> [Kinds -> [Defs -> {"none", "sent", "created", "error"}]]]
  /\ dirty \in [Callers -> BOOLEAN]

(* "Ok" means that everything the stack asks for exists.                   *)
OkIsComplete ==
  \A c \in Callers : phase[c] = "ok" =>
    \A k \in Kinds : \A d \in Wanted(k) : <<k, nameOf[d]>> \in store

(* No Service is ever created before all Deployments are, not even by a    *)
(* request that lands after its call has failed.                           *)
NoServiceWithoutDeployments ==
  \A d \in Defs : <<"service", nameOf[d]>> \in store =>
    \A e \in stack : <<"deployment", nameOf[e]>> \in store

(* Of several calls that bring up the same stack at most one succeeds: the *)
(* success is the call that created everything.                            *)
AtMostOneSucceeds ==
  \A c, e \in Callers : phase[c] = "ok" /\ phase[e] = "ok" => c = e

(* up creates and does not apply: a call that finds a part of the stack in *)
(* place - what a failed call left - never succeeds.                       *)
RetryOfPartialFails == \A c \in Callers : dirty[c] => phase[c] # "ok"

(* Every call returns.                                                     *)
EveryUpReturns == \A c \in Callers : <>(phase[c] \in UpEnds)
=============================================================================

------------------------------ MODULE MCCalls -------------------------------
(* The calls of a Context that wait for somebody else: WaitLoop on a small *)
(* clock; StackUp on two definitions that may share a name and two calls;  *)
(* PortForward with one caller of request() and two other clients of its   *)
(* port; and Exec with two calls.  The four share no state, so a behaviour *)
(* is of one part only, picked at the start.                               *)
EXTENDS WaitLoop, StackUp, PortForward, Exec

VARIABLE part

(* What another part starts with makes no difference.                      *)
MCInit ==
  /\ WaitInit /\ StackInit /\ Init /\ ExecInit
  /\ part \in {"wait_loop", "stack_up", "port_forward", "exec"}
  /\ part # "wait_loop" => loop = "wait_for" /\ obj = "absent"
  /\ part # "stack_up" => /\ stack = {} /\ hasPort = {} /\ hasImage = {}
                          /\ \A d, e \in Defs : nameOf[d] = nameOf[e]
                          /\ \A d \in Defs : nameOf[d] = CHOOSE n \in Names : TRUE

MCNext ==
  /\ UNCHANGED part
  /\ IF part = "wait_loop" THEN WaitNext ELSE UNCHANGED waitVars
  /\ IF part = "stack_up" THEN StackNext ELSE UNCHANGED stackVars
  /\ IF part = "port_forward" THEN Next ELSE UNCHANGED vars
  /\ IF part = "exec" THEN ExecNext ELSE UNCHANGED execVars

(* WaitFairness and StackFairness, of the part that runs; the fair actions *)
(* of PortForward and Exec are not enabled where these begin.              *)
MCFairness ==
  /\ WF_waitVars(part = "wait_loop" /\ (Serve \/ Fault))
  /\ WF_waitVars(part = "wait_loop" /\ Waiter)
  /\ WF_waitVars(part = "wait_loop" /\ Tick)
  /\ \A c \in Callers : WF_stackVars(part = "stack_up" /\ Up(c))
  /\ \A c \in Callers, k \in Kinds, d \in Defs :
       WF_stackVars(part = "stack_up" /\ (Create(c, k, d) \/ Break(c, k, d)))
  /\ Fairness /\ ExecFairness

MCSpec ==
  MCInit /\ [][MCNext]_<<waitVars, stackVars, vars, execVars, part>> /\ MCFairness

(* Every polling loop returns: `timeout` ends it, whatever the cluster     *)
(* does (Terminates).                                                      *)
WaitsTerminate == part = "wait_loop" => Terminates

(* Every call of up returns, whatever the other calls and the network do   *)
(* (EveryUpReturns).                                                       *)
StacksReturn == part = "stack_up" => EveryUpReturns
=============================================================================

---------------------------- MODULE StackUpProofs ---------------------------
(* Proofs of the safety properties of StackUp, for any number of calls,    *)
(* definitions and names.                                                  *)
EXTENDS StackUp, TLAPS

Made(c, k, d) == request[c][k][d] = "created"
Unsent(c, k, d) == request[c][k][d] = "none"

AllDeployed == \A e \in stack : <<"deployment", nameOf[e]>> \in store

(* An object has at most one creator, and it is there.                     *)
Creators ==
  /\ \A c \in Callers, k \in Kinds, d \in Defs :
       Made(c, k, d) => <<k, nameOf[d]>> \in store
  /\ \A c, e \in Callers, k \in Kinds, d, f \in Defs :
       Made(c, k, d) /\ Made(e, k, f) /\ nameOf[d] = nameOf[f] => c = e

(* What a call has done when it is at a phase.                             *)
Phases ==
  \A c \in Callers :
    /\ phase[c] = "start" =>
         ~dirty[c] /\ \A k \in Kinds, d \in Defs : Unsent(c, k, d)
    /\ ~Valid => phase[c] \in {"start", "empty_stack", "deploy_error"}
    /\ phase[c] \in {"service", "ok"} =>
         \A d \in stack : Made(c, "deployment", d)
    /\ phase[c] = "ok" =>
         \A d \in Wanted("service") : Made(c, "service", d)
    /\ dirty[c] =>
         \E d \in stack : /\ <<"deployment", nameOf[d]>> \in store
                          /\ ~Made(c, "deployment", d)

(* What a request implies, whether its call still listens or not.          *)
Sent ==
  \A c \in Callers, d \in Defs :
    /\ \A k \in Kinds : ~Unsent(c, k, d) => Valid
    /\ ~Unsent(c, "service", d) => AllDeployed

IInv ==
  /\ StackTypeOK /\ Creators /\ Phases /\ Sent
  /\ NoServiceWithoutDeployments

LEMMA InitIInv == StackInit => IInv
BY DEF StackInit, IInv, StackTypeOK, Creators, Phases, Sent, NoServiceWithoutDeployments,
       Kinds, Active, Made, Unsent

(* The steps of a call that send nothing and change no object.             *)
LEMMA RejectStep ==
  ASSUME IInv, NEW c \in Callers, Reject(c)
  PROVE  IInv'
<1>1. StackTypeOK'
  BY DEF IInv, StackTypeOK, Reject, Enter, input, UpEnds
<1>2. Phases'
  BY DEF IInv, StackTypeOK, Phases, Reject, Enter, input, Valid, Wanted, Made, Unsent
<1> QED BY <1>1, <1>2
        DEF IInv, Creators, Sent, NoServiceWithoutDeployments,
            Reject, input, Valid, AllDeployed, Made, Unsent

LEMMA BeginStep ==
  ASSUME IInv, NEW c \in Callers, Begin(c)
  PROVE  IInv'
<1>1. StackTypeOK'
  BY DEF IInv, StackTypeOK, Begin, Enter, input, Active
<1>2. Phases'
  <2>1. \A d \in Defs : ~Made(c, "deployment", d)
    BY DEF IInv, Phases, Begin, Kinds, Made, Unsent
  <2>2. stack \subseteq Defs
    BY DEF IInv, StackTypeOK
  <2> QED BY <2>1, <2>2
          DEF IInv, StackTypeOK, Phases, Begin, Enter, input, Valid, Wanted, Made, Unsent
<1> QED BY <1>1, <1>2
        DEF IInv, Creators, Sent, NoServiceWithoutDeployments,
            Begin, input, Valid, AllDeployed, Made, Unsent

LEMMA JoinedStep ==
  ASSUME IInv, NEW c \in Callers, Joined(c)
  PROVE  IInv'
<1>1. StackTypeOK'
  BY DEF IInv, StackTypeOK, Joined, Enter, input, Active, UpEnds
<1>2. Phases'
  BY DEF IInv, StackTypeOK, Phases, Joined, Enter, input, Valid, Wanted, Active, Made, Unsent
<1> QED BY <1>1, <1>2
        DEF IInv, Creators, Sent, NoServiceWithoutDeployments,
            Joined, input, Valid, AllDeployed, Made, Unsent

LEMMA FailedStep ==
  ASSUME IInv, NEW c \in Callers, Failed(c)
  PROVE  IInv'
<1>1. StackTypeOK'
  BY DEF IInv, StackTypeOK, Failed, Enter, input, UpEnds
<1>2. Phases'
  BY DEF IInv, StackTypeOK, Phases, Failed, Enter, input, Valid, Wanted, Made, Unsent
<1> QED BY <1>1, <1>2
        DEF IInv, Creators, Sent, NoServiceWithoutDeployments,
            Failed, input, Valid, AllDeployed, Made, Unsent

(* What one request's change leaves of the others.                         *)
Changed(c, k, d, r) ==
  /\ request' \in [Callers -> [Kinds -> [Defs -> {"none", "sent", "created", "error"}]]]
  /\ Made(c, k, d)' <=> r = "created"
  /\ Unsent(c, k, d)' <=> r = "none"
  /\ \A e \in Callers, l \in Kinds, f \in Defs :
       e # c \/ l # k \/ f # d =>
         /\ Made(e, l, f)' <=> Made(e, l, f)
         /\ Unsent(e, l, f)' <=> Unsent(e, l, f)

LEMMA RequestChange ==
  ASSUME StackTypeOK, NEW c \in Callers, NEW k \in Kinds, NEW d \in Defs,
         NEW r \in {"none", "sent", "created", "error"}, Mark(c, k, d, r)
  PROVE  Changed(c, k, d, r)
<1>1. request' \in [Callers -> [Kinds -> [Defs -> {"none", "sent", "created", "error"}]]]
  BY DEF StackTypeOK, Mark
<1>2. request'[c][k][d] = r
  BY DEF StackTypeOK, Mark
<1>3. ASSUME NEW e \in Callers, NEW l \in Kinds, NEW f \in Defs, e # c \/ l # k \/ f # d
      PROVE  request'[e][l][f] = request[e][l][f]
  BY <1>3 DEF StackTypeOK, Mark
<1> QED BY <1>1, <1>2, <1>3 DEF Changed, Made, Unsent

(* A create that is sent, or fails, makes nothing.                         *)
LEMMA NothingMade ==
  ASSUME IInv, NEW c \in Callers, NEW k \in Kinds, NEW d \in Defs,
         NEW r \in {"sent", "error"}, Changed(c, k, d, r),
         UNCHANGED <<input, store, dirty>>,
         phase' = phase, phase[c] = k
  PROVE  Creators' /\ Phases'
<1>1. \A e \in Callers, l \in Kinds, f \in Defs : Made(e, l, f)' => Made(e, l, f)
  BY DEF Changed
<1>2. Creators'
  BY <1>1 DEF IInv, Creators, input
<1>3. ASSUME NEW e \in Callers
      PROVE  /\ phase[e] = "start" =>
                  \A l \in Kinds, f \in Defs : Unsent(e, l, f)'
             /\ phase[e] \in {"service", "ok"} =>
                  \A f \in stack : Made(e, "deployment", f)'
             /\ phase[e] = "ok" =>
                  \A f \in Wanted("service") : Made(e, "service", f)'
             /\ dirty[e] =>
                  \E f \in stack : /\ <<"deployment", nameOf[f]>> \in store
                                   /\ ~Made(e, "deployment", f)'
  BY <1>1 DEF IInv, StackTypeOK, Phases, Changed, Kinds, Wanted
<1>4. Phases'
  BY <1>3 DEF IInv, Phases, input, Valid, Wanted
<1> QED BY <1>2, <1>4

LEMMA SendStep ==
  ASSUME IInv, NEW c \in Callers, NEW d \in Defs, Send(c, d)
  PROVE  IInv'
<1> DEFINE k == phase[c]
<1>1. k \in Kinds /\ Valid
  BY DEF IInv, Phases, Send, Active, Kinds
<1>2. k = "service" => AllDeployed
  BY DEF IInv, StackTypeOK, Phases, Creators, Kinds, AllDeployed
<1>3. Changed(c, k, d, "sent") /\ UNCHANGED <<input, store, phase, dirty>>
  BY <1>1, RequestChange DEF IInv, Send
<1>4. StackTypeOK'
  BY <1>3 DEF IInv, StackTypeOK, input, Changed
<1>5. Creators' /\ Phases'
  BY <1>1, <1>3, NothingMade
<1>6. Sent'
  BY <1>1, <1>2, <1>3 DEF IInv, Sent, Changed, input, Valid, AllDeployed, Kinds
<1> QED BY <1>3, <1>4, <1>5, <1>6
        DEF IInv, NoServiceWithoutDeployments, input, Valid

LEMMA BreakStep ==
  ASSUME IInv, NEW c \in Callers, NEW k \in Kinds, NEW d \in Defs, Break(c, k, d)
  PROVE  IInv'
<1>1. Changed(c, k, d, "error") /\ UNCHANGED <<input, store, phase, dirty>> /\ phase[c] = k
  BY RequestChange DEF IInv, Break
<1>2. StackTypeOK'
  BY <1>1 DEF IInv, StackTypeOK, input, Changed
<1>3. Creators' /\ Phases'
  BY <1>1, NothingMade
<1>4. ~Unsent(c, k, d)
  BY DEF Break, Unsent
<1>5. Sent'
  BY <1>1, <1>4 DEF IInv, Sent, Changed, input, Valid, AllDeployed, Kinds
<1> QED BY <1>1, <1>2, <1>3, <1>5
        DEF IInv, NoServiceWithoutDeployments, input, Valid

LEMMA ServeStep ==
  ASSUME IInv, NEW c \in Callers, NEW k \in Kinds, NEW d \in Defs, Create(c, k, d)
  PROVE  IInv'
<1>1. PICK r \in {"created", "error"} :
        /\ Mark(c, k, d, r)
        /\ r = "created" => <<k, nameOf[d]>> \notin store
        /\ store' = IF r = "created" THEN store \cup {<<k, nameOf[d]>>} ELSE store
        /\ r = "error" => <<k, nameOf[d]>> \in store
  BY DEF Create
<1>2. Changed(c, k, d, r) /\ UNCHANGED <<input, phase, dirty>>
  BY <1>1, RequestChange DEF IInv, Create
<1>3. store \subseteq store' /\ store' \subseteq store \cup {<<k, nameOf[d]>>}
  BY <1>1
<1>4. ~Unsent(c, k, d) /\ ~Made(c, k, d)
  BY DEF Create, Unsent, Made
<1>5. Valid /\ nameOf[d] \in Names /\ stack \subseteq Defs
  BY <1>4 DEF IInv, StackTypeOK, Sent
<1>6. k = "service" => AllDeployed
  BY <1>4 DEF IInv, Sent
<1>7. StackTypeOK'
  BY <1>2, <1>3, <1>5 DEF IInv, StackTypeOK, input, Changed
<1>8. Creators'
  <2>1. \A e \in Callers, l \in Kinds, f \in Defs :
          Made(e, l, f)' => Made(e, l, f) \/ (e = c /\ l = k /\ f = d /\ r = "created")
    BY <1>2 DEF Changed
  <2>2. r = "created" =>
          \A e \in Callers, f \in Defs : Made(e, k, f) => nameOf[f] # nameOf[d]
    BY <1>1 DEF IInv, Creators
  <2>3. r = "created" => <<k, nameOf[d]>> \in store'
    BY <1>1
  <2>4. nameOf' = nameOf
    BY <1>2 DEF input
  <2>5. \A e \in Callers, l \in Kinds, f \in Defs :
          Made(e, l, f)' => <<l, nameOf'[f]>> \in store'
    BY <1>3, <2>1, <2>3, <2>4 DEF IInv, Creators
  <2>6. ASSUME NEW a \in Callers, NEW b \in Callers, NEW l \in Kinds,
               NEW f \in Defs, NEW g \in Defs,
               Made(a, l, f)', Made(b, l, g)', nameOf[f] = nameOf[g]
        PROVE  a = b
    BY <2>1, <2>2, <2>6 DEF IInv, Creators
  <2> QED BY <2>4, <2>5, <2>6 DEF Creators
<1>9. Sent'
  BY <1>2, <1>3, <1>5, <1>6 DEF IInv, Sent, input, Valid, AllDeployed, Kinds, Changed
<1>10. Phases'
  <2>1. ASSUME NEW e \in Callers, dirty[e]
        PROVE  \E f \in stack : /\ <<"deployment", nameOf[f]>> \in store'
                                /\ ~Made(e, "deployment", f)'
    <3>1. PICK f \in stack : /\ <<"deployment", nameOf[f]>> \in store
                             /\ ~Made(e, "deployment", f)
      BY <2>1 DEF IInv, Phases
    <3>2. "deployment" \in Kinds /\ f \in Defs
      BY <1>5 DEF Kinds
    <3>3. CASE e = c /\ k = "deployment" /\ f = d
      BY <1>1, <1>2, <1>3, <3>1, <3>3 DEF Changed
    <3>4. CASE ~(e = c /\ k = "deployment" /\ f = d)
      BY <1>2, <1>3, <3>1, <3>2, <3>4 DEF Changed
    <3> QED BY <3>3, <3>4
  <2>2. \A e \in Callers, l \in Kinds, f \in Defs :
          /\ Made(e, l, f) => Made(e, l, f)'
          /\ Unsent(e, l, f) => Unsent(e, l, f)'
    BY <1>2, <1>4 DEF Changed
  <2>3. "deployment" \in Kinds /\ "service" \in Kinds /\ Wanted("service") \subseteq Defs
    BY <1>5 DEF Kinds, Wanted
  <2>4. /\ Wanted("service")' = Wanted("service") /\ (Valid' <=> Valid)
        /\ stack' = stack /\ nameOf' = nameOf /\ phase' = phase /\ dirty' = dirty
    BY <1>2 DEF input, Wanted, Valid
  <2>5. ASSUME NEW e \in Callers
        PROVE  /\ phase[e] = "start" =>
                    ~dirty[e] /\ \A l \in Kinds, f \in Defs : Unsent(e, l, f)'
               /\ phase[e] \in {"service", "ok"} =>
                    \A f \in stack : Made(e, "deployment", f)'
               /\ phase[e] = "ok" =>
                    \A f \in Wanted("service") : Made(e, "service", f)'
    BY <1>5, <2>2, <2>3 DEF IInv, Phases
  <2> QED BY <1>5, <2>1, <2>4, <2>5 DEF Phases
<1>11. NoServiceWithoutDeployments'
  BY <1>2, <1>3, <1>6 DEF IInv, NoServiceWithoutDeployments, input, AllDeployed
<1> QED BY <1>2, <1>5, <1>7, <1>8, <1>9, <1>10, <1>11
        DEF IInv, input, Valid

THEOREM Invariant == StackSpec => []IInv
<1>1. IInv /\ UNCHANGED stackVars => IInv'
  BY DEF IInv, StackTypeOK, Creators, Phases, Sent, NoServiceWithoutDeployments,
         stackVars, input, Valid, Wanted, AllDeployed, Made, Unsent
<1>2. IInv /\ [StackNext]_stackVars => IInv'
  BY <1>1, RejectStep, BeginStep, SendStep, JoinedStep, FailedStep, ServeStep,
     BreakStep DEF StackNext, Up, Network, AllReturned
<1> QED BY InitIInv, <1>2, PTL DEF StackSpec

-----------------------------------------------------------------------------
(* The variables keep their types.                                         *)
THEOREM TypeCorrect == StackSpec => []StackTypeOK
BY Invariant, PTL DEF IInv

(* A successful up leaves the whole stack in the namespace.                *)
THEOREM SuccessIsComplete == StackSpec => []OkIsComplete
<1>1. IInv => OkIsComplete
  BY DEF IInv, StackTypeOK, Creators, Phases, OkIsComplete, Kinds, Wanted
<1> QED BY <1>1, Invariant, PTL

(* Services come after all Deployments, late requests included.            *)
THEOREM ServicesComeLast == StackSpec => []NoServiceWithoutDeployments
BY Invariant, PTL DEF IInv

(* Two calls never both bring up one stack.                                *)
THEOREM OneCallSucceeds == StackSpec => []AtMostOneSucceeds
<1>1. IInv => AtMostOneSucceeds
  <2> SUFFICES ASSUME IInv, NEW c \in Callers, NEW e \in Callers,
                      phase[c] = "ok", phase[e] = "ok"
               PROVE  c = e
    BY DEF AtMostOneSucceeds
  <2>1. PICK d \in stack : TRUE
    BY DEF IInv, Phases, Valid
  <2>2. Made(c, "deployment", d) /\ Made(e, "deployment", d)
    BY DEF IInv, Phases
  <2> QED BY <2>2 DEF IInv, StackTypeOK, Creators, Kinds
<1> QED BY <1>1, Invariant, PTL

(* A call that begins on a partly created stack fails.                     *)
THEOREM PartialStacksStick == StackSpec => []RetryOfPartialFails
<1>1. IInv => RetryOfPartialFails
  BY DEF IInv, Phases, RetryOfPartialFails
<1> QED BY <1>1, Invariant, PTL
=============================================================================

------------------------------ MODULE Ingress -------------------------------
(***************************************************************************)
(* IngressTest (context/ingress.rs): a chain of host, path, expect_backend *)
(* and expect_tls that keeps its first error until `must`, next to whoever *)
(* changes the ingress between two reads; and what an ingress controller   *)
(* makes of the same rules.                                                *)
(*                                                                         *)
(* A path is its segments and whether it ends in a slash: "/" has none and *)
(* ends in one, the empty path has none and does not.  The number of a     *)
(* port is part of the backend.                                            *)
(***************************************************************************)
EXTENDS SequencesExt

CONSTANTS Hosts, Anyhost,   \* the host of a rule or a test, or none
          Segments,         \* what is between the slashes of a path
          Paths, AnyPath,   \* of a test
          Backends, TlsSecrets,
          Ingresses         \* what the ingress may be

PathOf == [segments : Seq(Segments), slash : BOOLEAN]

ASSUME IngressAssumption ==
  /\ Paths \subseteq PathOf
  /\ \A i \in Ingresses : /\ i.there
                           /\ \A r \in i.rules : \A e \in r.paths :
                                e.path \in PathOf /\ e.exact \in BOOLEAN

VARIABLES ingress,
          builder,   \* the IngressTest: host, path, err
          last,      \* history: the last expectation, and of which ingress
          unmet,     \* history: an expectation of the chain was not met
          ending     \* what `must` did

ingressVars == <<ingress, builder, last, unmet, ending>>

(* What is not there, and an ingress without a spec, has no rules.         *)
NoIngress == [rules |-> {}, tls |-> {}, there |-> FALSE]
NewTest == [host |-> Anyhost, path |-> AnyPath, err |-> FALSE]
Nothing == [what |-> "none"]

IngressInit ==
  /\ ingress \in Ingresses
  /\ builder = NewTest
  /\ last = Nothing /\ unmet = FALSE
  /\ ending = "none"

(* path_prefix_matches: of a longer path only whole segments, and only     *)
(* after an ingress path that does not itself end in a slash.              *)
PathMatches(test, path) ==
  \/ path = [segments |-> <<>>, slash |-> FALSE]
  \/ test = path
  \/ /\ ~path.slash
     /\ IsPrefix(path.segments, test.segments)
     /\ path.segments # test.segments \/ test.slash

HostMatches(b, rule) == b.host = Anyhost \/ rule.host = b.host

RoutesTo(i, b, backend) ==
  \E rule \in i.rules : \E p \in rule.paths :
    /\ HostMatches(b, rule)
    /\ b.path = AnyPath \/ PathMatches(b.path, p.path)
    /\ p.backend = backend

(* With a host, the entry of the secret must name it.                      *)
HasTls(i, b, secret) ==
  \E tls \in i.tls : tls.secret = secret /\ (b.host = Anyhost \/ b.host \in tls.hosts)

-----------------------------------------------------------------------------
(* After an error the chain goes on, and does nothing.                     *)
(* Mutation: every call does what it says, the last one decides.           *)
NothingFailed == ending = "none"
Goes == ending = "none" /\ ~builder.err

Host(h) ==
  /\ Goes /\ builder.host # h
  /\ builder' = [builder EXCEPT !.host = h]
  /\ UNCHANGED <<ingress, last, unmet, ending>>

Path(p) ==
  /\ Goes /\ builder.path # p
  /\ builder' = [builder EXCEPT !.path = p]
  /\ UNCHANGED <<ingress, last, unmet, ending>>

Expect(what, wanted, met) ==
  /\ Goes
  /\ builder' = [builder EXCEPT !.err = ~met]
  /\ last' = [what |-> what, wanted |-> wanted, met |-> met, of |-> ingress,
              host |-> builder.host, path |-> builder.path]
  /\ unmet' = (unmet \/ ~met)
  /\ UNCHANGED <<ingress, ending>>

ExpectBackend(backend) ==
  Expect("backend", backend, ingress.there /\ RoutesTo(ingress, builder, backend))
ExpectTls(secret) ==
  Expect("tls", secret, ingress.there /\ HasTls(ingress, builder, secret))

(* The get fails for any other reason.                                     *)
ExpectFails ==
  /\ Goes
  /\ builder' = [builder EXCEPT !.err = TRUE]
  /\ unmet' = TRUE
  /\ UNCHANGED <<ingress, last, ending>>

Must ==
  /\ ending = "none"
  /\ ending' = IF builder.err THEN "panic" ELSE "passed"
  /\ UNCHANGED <<ingress, builder, last, unmet>>

NextTest ==
  /\ ending # "none"
  /\ builder' = NewTest /\ last' = Nothing /\ unmet' = FALSE /\ ending' = "none"
  /\ UNCHANGED ingress

(* External: a deploy, a controller.                                       *)
Change ==
  /\ ending = "none"
  /\ ingress' \in Ingresses \cup {NoIngress}
  /\ UNCHANGED <<builder, last, unmet, ending>>

IngressNext ==
  \/ \E h \in Hosts : Host(h)
  \/ \E p \in Paths : Path(p)
  \/ \E b \in Backends : ExpectBackend(b)
  \/ \E s \in TlsSecrets : ExpectTls(s)
  \/ ExpectFails \/ Must \/ NextTest \/ Change

IngressSpec == IngressInit /\ [][IngressNext]_ingressVars

-----------------------------------------------------------------------------
(* External: the routing of Kubernetes.  The rules of a host come before   *)
(* those of no host; a path matches by whole segments, slash or not, an    *)
(* exact one only itself; the longest that matches is taken.               *)
RulesOf(i, h) ==
  LET own == {r \in i.rules : r.host = h}
  IN  IF own # {} THEN own ELSE {r \in i.rules : r.host = Anyhost}
Serves(entry, p) ==
  IF entry.exact THEN entry.path = p ELSE IsPrefix(entry.path.segments, p.segments)
Routes(i, h, p) ==
  LET all == {x \in UNION {r.paths : r \in RulesOf(i, h)} : Serves(x, p)}
  IN  {x \in all : \A y \in all : Len(y.path.segments) <= Len(x.path.segments)}

(* A chain that passes has asked nothing that the ingress of that moment   *)
(* did not have, also if it changed on the way: for a host and a path the  *)
(* controller sends the request to this backend - or to the backend of a   *)
(* longer path that matches as well, or to none because the path is exact, *)
(* which the test does not see.  And what a chain is refused for is indeed *)
(* not there, unless the rule names no host, or its path ends in a slash.  *)
PassMeansRouted ==
  /\ ending = "passed" => ~unmet
  /\ last.what = "backend" /\ last.host # Anyhost /\ last.path # AnyPath =>
       LET routed == Routes(last.of, last.host, last.path)
           entries == UNION {r.paths : r \in RulesOf(last.of, last.host)}
       IN  IF last.met
           THEN \/ \E x \in routed : x.backend = last.wanted
                \/ \E x, y \in entries : /\ x.backend = last.wanted /\ Serves(y, last.path)
                                         /\ Len(x.path.segments) < Len(y.path.segments)
                \/ \E x \in entries : x.backend = last.wanted /\ x.exact
           ELSE \A x \in routed : x.backend = last.wanted =>
                  x.path.slash \/ last.path.slash \/ \A r \in last.of.rules : r.host # last.host
=============================================================================

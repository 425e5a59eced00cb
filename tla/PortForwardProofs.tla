------------------------- MODULE PortForwardProofs --------------------------
(* Proofs of the safety properties of PortForward and Exec, for any number *)
(* of clients and of calls, and buffers of any size.                       *)
EXTENDS PortForward, Exec, SequenceTheorems, TLAPS

-----------------------------------------------------------------------------
(* PortForward.                                                            *)

Sockets == {"none", "queued", "dialing", "tunnel"} \cup Closed

TypeOK ==
  /\ handle \in {"none", "chosen", "held", "dropped", "failed"}
  /\ listener \in {"open", "closed"}
  /\ pod \in {"up", "down"}
  /\ pc \in [Requests -> {"idle", "connected", "sent"} \cup Returned]
  /\ socket \in [Requests -> Sockets]
  /\ answer \in [Requests -> {"none", "received", "part", "whole"}]
  /\ shut \subseteq Requests /\ cut \subseteq Requests

(* Only request() needs the PortForward to be there: while one is under    *)
(* way, it is; and until the proxy has closed its socket, one is.          *)
Borrowed ==
  \A r \in Requests \ Outside :
    /\ r \notin shut
    /\ pc[r] \in {"connected", "sent"} => handle = "held"
    /\ socket[r] \in {"queued", "dialing", "tunnel"} => pc[r] \in {"connected", "sent"}

IInv == TypeOK /\ Borrowed /\ ProxyNeverTruncates

(* Every way of the proxy to close a socket has an answer, or a broken way *)
(* to the pod, to show for it.                                             *)
LEMMA ClosedByProxy ==
  ASSUME NEW r \in Requests
  PROVE  Endings(r) \subseteq Closed
BY DEF Endings, Closed

LEMMA InitIInv == Init => IInv
BY DEF Init, IInv, TypeOK, Borrowed, ProxyNeverTruncates, Sockets, Closed

LEMMA HandleStep ==
  ASSUME IInv, ChooseByName \/ ChooseRunning \/ Bind \/ PortForwardFails
                 \/ NotForwarding \/ Drop \/ PodDies
  PROVE  IInv'
BY DEF IInv, TypeOK, Borrowed, ProxyNeverTruncates, ChooseByName, ChooseRunning, Bind,
       PortForwardFails, NotForwarding, Drop, PodDies, vars

LEMMA ClientStep ==
  ASSUME IInv, NEW r \in Requests, Client(r) \/ ShutDown(r)
  PROVE  IInv'
<1> USE DEF IInv, TypeOK, Borrowed, ProxyNeverTruncates, Sockets, Closed, Returned,
            Goto, Socket
<1>1. CASE Connect(r)      BY <1>1 DEF Connect
<1>2. CASE ConnectFails(r) BY <1>2 DEF ConnectFails
<1>3. CASE Write(r)        BY <1>3 DEF Write
<1>4. CASE ReadEnds(r)     BY <1>4 DEF ReadEnds
<1>5. CASE Fails(r)        BY <1>5 DEF Fails
<1>6. CASE Again(r)        BY <1>6 DEF Again
<1>7. CASE ShutDown(r)     BY <1>7 DEF ShutDown
<1> QED BY <1>1, <1>2, <1>3, <1>4, <1>5, <1>6, <1>7 DEF Client

LEMMA ProxyStep ==
  ASSUME IInv, NEW r \in Requests,
         Accept(r) \/ Proxy(r) \/ Copy(r) \/ UpstreamBreaks(r)
  PROVE  IInv'
<1> USE ClosedByProxy DEF IInv, TypeOK, Borrowed, ProxyNeverTruncates, Sockets, Closed, Socket
<1>1. CASE Accept(r)         BY <1>1 DEF Accept
<1>2. CASE Dial(r)           BY <1>2 DEF Dial
<1>3. CASE DialFails(r)      BY <1>3 DEF DialFails
<1>4. CASE UpstreamEnds(r)   BY <1>4 DEF UpstreamEnds
<1>5. CASE ClientEnds(r)     BY <1>5 DEF ClientEnds
<1>6. CASE Copy(r)           BY <1>6 DEF Copy
<1>7. CASE UpstreamBreaks(r) BY <1>7 DEF UpstreamBreaks
<1> QED BY <1>1, <1>2, <1>3, <1>4, <1>5, <1>6, <1>7 DEF Proxy

LEMMA ShutdownStep == IInv /\ Shutdown => IInv'
BY DEF IInv, TypeOK, Borrowed, ProxyNeverTruncates, Sockets, Closed, Shutdown

THEOREM Invariant == Spec => []IInv
<1>1. IInv /\ UNCHANGED vars => IInv'
  BY DEF IInv, TypeOK, Borrowed, ProxyNeverTruncates, vars
<1>2. IInv /\ [Next]_vars => IInv'
  BY <1>1, HandleStep, ClientStep, ProxyStep, ShutdownStep DEF Next
<1> QED BY InitIInv, <1>2, PTL DEF Spec

(* An answer to request() is never cut short by the proxy: whoever else    *)
(* uses the port, and whenever the PortForward is dropped.                 *)
THEOREM AnswersAreNotTruncated == Spec => []ProxyNeverTruncates
BY Invariant, PTL DEF IInv

(* Dropping a PortForward resets queued connections, but none of them is   *)
(* request()'s.                                                            *)
ShutdownSparesRequests ==
  [][Shutdown => \A r \in Requests \ Outside : socket'[r] = socket[r]]_vars

THEOREM DropCutsNoRequest == Spec => ShutdownSparesRequests
<1>1. ASSUME IInv, Shutdown, NEW r \in Requests \ Outside
      PROVE  socket'[r] = socket[r]
  BY <1>1 DEF IInv, Borrowed, Shutdown
<1>2. IInv => [Shutdown => \A r \in Requests \ Outside : socket'[r] = socket[r]]_vars
  BY <1>1
<1> QED BY Invariant, <1>2, PTL DEF ShutdownSparesRequests

-----------------------------------------------------------------------------
(* Exec.                                                                   *)

Authors == Calls \cup {Original, Mixed}

ExecTypeOK ==
  /\ file \in [by : Authors, chunks : Nat]
  /\ kind \in [Calls -> {"none", "copy_to", "copy_from"}]
  /\ call \in [Calls -> {"idle", "reading", "ok", "error"}]
  /\ command \in [Calls -> {"none", "starting", "running"} \cup Over]
  /\ done \in [Calls -> Nat] /\ noise \in [Calls -> Nat] /\ err \in [Calls -> Nat]
  /\ out \in [Calls -> Seq(Authors)] /\ got \in [Calls -> Seq(Authors)]
  /\ stream \in [Calls -> {"none", "open", "ended", "broken"}]
  /\ alone \subseteq Calls

(* Where a call and its command can be.                                    *)
Phases ==
  \A k \in Calls :
    /\ call[k] = "idle" => /\ kind[k] = "none" /\ command[k] = "none"
                           /\ stream[k] = "none" /\ k \notin alone
    /\ command[k] = "none" => done[k] = 0 /\ out[k] = <<>> /\ got[k] = <<>>
    /\ kind[k] = "copy_to" /\ command[k] = "starting" => done[k] = 0
    /\ kind[k] = "copy_from" => command[k] # "running"
    /\ stream[k] = "ended" => command[k] \in Over
    /\ call[k] = "ok" => out[k] = <<>> /\ stream[k] # "open"

(* The file and the only writer that is about.                             *)
WritesAlone ==
  \A k \in alone :
    /\ Writers \subseteq {k}
    /\ kind[k] = "copy_from" => Writers = {}
    /\ kind[k] = "copy_to" /\ command[k] = "running" =>
         file.by = k /\ file.chunks = done[k]
    /\ kind[k] = "copy_to" /\ command[k] = "done" => file.by = k /\ file.chunks = 2

(* What a reader without a writer has seen of the file: its first chunks,  *)
(* some of them still in the stream.                                       *)
AllBy(w, s) == \A i \in 1 .. Len(s) : s[i] = w

HasSeen(k) ==
  /\ done[k] <= file.chunks
  /\ command[k] = "done" => done[k] = file.chunks
  /\ stream[k] \in {"open", "ended"} =>
       /\ Len(got[k]) + Len(out[k]) = done[k]
       /\ AllBy(file.by, got[k]) /\ AllBy(file.by, out[k])

ReadsAlone == \A k \in alone : kind[k] = "copy_from" => HasSeen(k)

ExecInv == ExecTypeOK /\ Phases /\ WritesAlone /\ ReadsAlone

(* Chunks of one author: one more, one less.                               *)
LEMMA AppendAllBy ==
  ASSUME NEW S, NEW s \in Seq(S), NEW w \in S
  PROVE  /\ Append(s, w) \in Seq(S) /\ Len(s) \in Nat
         /\ Len(Append(s, w)) = Len(s) + 1
         /\ AllBy(w, s) => AllBy(w, Append(s, w))
BY AppendProperties, LenProperties DEF AllBy

LEMMA TailAllBy ==
  ASSUME NEW S, NEW s \in Seq(S), s # <<>>, NEW w
  PROVE  /\ Head(s) \in S /\ Tail(s) \in Seq(S) /\ Len(s) \in Nat
         /\ Len(Tail(s)) = Len(s) - 1
         /\ AllBy(w, s) => AllBy(w, Tail(s)) /\ Head(s) = w
<1>1. Len(s) \in Nat \ {0} BY LenProperties, EmptySeq
<1> QED BY <1>1, HeadTailProperties, LenProperties DEF AllBy

(* One more here, one less there.                                          *)
LEMMA Shifted ==
  \A a, b \in Nat : /\ (a + 1) + (b - 1) = a + b
                    /\ a + (b + 1) = (a + b) + 1
OBVIOUS

LEMMA ExecInitInv == ExecInit => ExecInv
<1> SUFFICES ASSUME ExecInit PROVE ExecInv
  OBVIOUS
<1>1. ExecTypeOK BY DEF ExecInit, ExecTypeOK, Whole, Authors
<1>2. Phases BY DEF ExecInit, Phases
<1>3. WritesAlone /\ ReadsAlone BY DEF ExecInit, WritesAlone, ReadsAlone
<1> QED BY <1>1, <1>2, <1>3 DEF ExecInv

(* What is read leaves the stream and is added to what was read before.    *)
LEMMA ReadStep ==
  ASSUME ExecInv, NEW k \in Calls, Read(k)
  PROVE  ExecInv'
<1>1. /\ got[k] \in Seq(Authors) /\ out[k] \in Seq(Authors) /\ out[k] # <<>>
      /\ got' = [got EXCEPT ![k] = Append(@, Head(out[k]))]
      /\ out' = [out EXCEPT ![k] = Tail(@)]
      /\ call[k] = "reading"
      /\ UNCHANGED <<file, kind, call, command, done, noise, err, stream, alone>>
  BY DEF ExecInv, ExecTypeOK, Read
<1>2. /\ Head(out[k]) \in Authors /\ Tail(out[k]) \in Seq(Authors)
      /\ Append(got[k], Head(out[k])) \in Seq(Authors)
  BY <1>1, TailAllBy, AppendAllBy
<1>3. ExecTypeOK' BY <1>1, <1>2 DEF ExecInv, ExecTypeOK
<1>4. Phases' BY <1>1 DEF ExecInv, ExecTypeOK, Phases
<1>5. WritesAlone' BY <1>1 DEF ExecInv, WritesAlone, Writers, Running
<1>6. ReadsAlone'
  <2> SUFFICES ASSUME NEW j \in alone, kind[j] = "copy_from", HasSeen(j)
               PROVE  HasSeen(j)'
    BY <1>1 DEF ReadsAlone, ExecInv
  <2>1. CASE j = k
    <3>1. /\ got'[k] = Append(got[k], Head(out[k])) /\ out'[k] = Tail(out[k])
          /\ UNCHANGED <<file, command, stream, done>>
      BY <1>1 DEF ExecInv, ExecTypeOK
    <3>2. AllBy(file.by, out[k]) => Head(out[k]) = file.by /\ AllBy(file.by, Tail(out[k]))
      BY <1>1, TailAllBy
    <3>3. /\ Len(got[k]) \in Nat /\ Len(out[k]) \in Nat
          /\ Len(Append(got[k], Head(out[k]))) = Len(got[k]) + 1
          /\ Len(Tail(out[k])) = Len(out[k]) - 1
      BY <1>1, <1>2, TailAllBy, AppendAllBy
    <3>4. AllBy(file.by, got[k]) /\ Head(out[k]) = file.by
            => AllBy(file.by, Append(got[k], Head(out[k])))
      BY <1>1, <1>2, AppendAllBy
    <3>5. AllBy(file.by, got[k])' <=> AllBy(file.by, Append(got[k], Head(out[k])))
      BY <3>1 DEF AllBy
    <3>6. AllBy(file.by, out[k])' <=> AllBy(file.by, Tail(out[k]))
      BY <3>1 DEF AllBy
    <3>7. HasSeen(k)
      BY <2>1
    <3>8. ASSUME stream[k] \in {"open", "ended"}
          PROVE  /\ Len(got'[k]) + Len(out'[k]) = done[k]
                 /\ AllBy(file.by, got[k])' /\ AllBy(file.by, out[k])'
      <4>1. /\ Len(got[k]) + Len(out[k]) = done[k]
            /\ AllBy(file.by, got[k]) /\ AllBy(file.by, out[k])
        BY <3>7, <3>8 DEF HasSeen
      <4>2. Len(got'[k]) = Len(got[k]) + 1 /\ Len(out'[k]) = Len(out[k]) - 1
        BY <3>1, <3>3, Zenon
      <4>3. (Len(got[k]) + 1) + (Len(out[k]) - 1) = Len(got[k]) + Len(out[k])
        BY <3>3, Shifted, Zenon
      <4>4. Len(got'[k]) + Len(out'[k]) = done[k]
        BY <4>1, <4>2, <4>3, Zenon
      <4> QED BY <3>2, <3>4, <3>5, <3>6, <4>1, <4>4
    <3>9. (done[k] <= file.chunks)' /\ (command[k] = "done" => done[k] = file.chunks)'
      BY <3>1, <3>7 DEF HasSeen
    <3>10. HasSeen(k)'
      BY <3>1, <3>8, <3>9 DEF HasSeen
    <3> QED BY <2>1, <3>10
  <2>2. CASE j # k
    BY <1>1, <2>2 DEF ExecInv, ExecTypeOK, HasSeen, AllBy
  <2> QED BY <2>1, <2>2
<1> QED BY <1>3, <1>4, <1>5, <1>6 DEF ExecInv

(* A chunk goes into the stream, as long as there is one.                  *)
LEMMA CatStep ==
  ASSUME ExecInv, NEW k \in Calls, Cat(k)
  PROVE  ExecInv'
<1>1. /\ out[k] \in Seq(Authors) /\ file.by \in Authors
      /\ done[k] < file.chunks /\ kind[k] = "copy_from" /\ Running(k)
      /\ out' = [out EXCEPT ![k] = IF stream[k] = "open" THEN Append(@, file.by) ELSE @]
      /\ done' = [done EXCEPT ![k] = @ + 1]
      /\ UNCHANGED <<file, kind, call, command, noise, err, stream, got, alone>>
  BY DEF ExecInv, ExecTypeOK, Cat, Emit
<1>2. Append(out[k], file.by) \in Seq(Authors)
  BY <1>1, AppendAllBy
<1>3. ExecTypeOK' BY <1>1, <1>2 DEF ExecInv, ExecTypeOK
<1>4. Phases'
  BY <1>1 DEF ExecInv, ExecTypeOK, Phases, Running, Over
<1>5. WritesAlone'
  BY <1>1 DEF ExecInv, ExecTypeOK, WritesAlone, Writers, Running
<1>6. ReadsAlone'
  <2> SUFFICES ASSUME NEW j \in alone, kind[j] = "copy_from", HasSeen(j)
               PROVE  HasSeen(j)'
    BY <1>1 DEF ReadsAlone, ExecInv
  <2>1. CASE j = k
    <3>1. /\ command[k] # "done" /\ stream[k] # "ended"
          /\ done[k] \in Nat /\ file.chunks \in Nat /\ got[k] \in Seq(Authors)
      BY <1>1 DEF ExecInv, ExecTypeOK, Phases, Running, Over
    <3>2. /\ done'[k] = done[k] + 1
          /\ stream[k] = "open" => out'[k] = Append(out[k], file.by)
          /\ UNCHANGED <<file, command, stream, got>>
      BY <1>1 DEF ExecInv, ExecTypeOK
    <3>3. /\ Len(got[k]) \in Nat /\ Len(out[k]) \in Nat
          /\ Len(Append(out[k], file.by)) = Len(out[k]) + 1
          /\ AllBy(file.by, out[k]) => AllBy(file.by, Append(out[k], file.by))
      BY <1>1, <3>1, AppendAllBy, LenProperties
    <3>4. stream[k] = "open" => (AllBy(file.by, out[k])' <=> AllBy(file.by, Append(out[k], file.by)))
      BY <3>2 DEF AllBy
    <3>5. AllBy(file.by, got[k])' <=> AllBy(file.by, got[k])
      BY <3>2 DEF AllBy
    <3>6. HasSeen(k)
      BY <2>1
    <3>7. ASSUME stream[k] = "open"
          PROVE  /\ Len(got'[k]) + Len(out'[k]) = done'[k]
                 /\ AllBy(file.by, got[k])' /\ AllBy(file.by, out[k])'
      <4>1. /\ Len(got[k]) + Len(out[k]) = done[k]
            /\ AllBy(file.by, got[k]) /\ AllBy(file.by, out[k])
        BY <3>6, <3>7 DEF HasSeen
      <4>2. /\ Len(got'[k]) = Len(got[k]) /\ Len(out'[k]) = Len(out[k]) + 1
            /\ done'[k] = done[k] + 1
        BY <3>2, <3>3, <3>7, Zenon
      <4>3. Len(got[k]) + (Len(out[k]) + 1) = (Len(got[k]) + Len(out[k])) + 1
        BY <3>3, Shifted, Zenon
      <4>4. Len(got'[k]) + Len(out'[k]) = done'[k]
        BY <4>1, <4>2, <4>3, Zenon
      <4> QED BY <3>3, <3>4, <3>5, <3>7, <4>1, <4>4
    <3>8. (done[k] <= file.chunks)' /\ (command[k] # "done")' /\ (stream[k] # "ended")'
      BY <1>1, <3>1, <3>2
    <3>9. HasSeen(k)'
      BY <3>2, <3>7, <3>8 DEF HasSeen
    <3> QED BY <2>1, <3>9
  <2>2. CASE j # k
    BY <1>1, <2>2 DEF ExecInv, ExecTypeOK, HasSeen, AllBy
  <2> QED BY <2>1, <2>2
<1> QED BY <1>3, <1>4, <1>5, <1>6 DEF ExecInv

(* A writer that changes the file is the only one, and no call that reads  *)
(* is alone.                                                               *)
LEMMA WriterIsAlone ==
  ASSUME ExecInv, NEW k \in Calls, k \in Writers, NEW j \in alone
  PROVE  j = k
BY DEF ExecInv, ExecTypeOK, WritesAlone, Writers

LEMMA TruncateStep ==
  ASSUME ExecInv, NEW k \in Calls, Truncate(k)
  PROVE  ExecInv'
<1>1. k \in Writers
  BY DEF Truncate, Writers, Running
<1>2. \A j \in alone : j = k
  BY <1>1, WriterIsAlone
<1>3. ExecTypeOK' BY DEF ExecInv, ExecTypeOK, Truncate, Authors
<1>4. Phases' BY DEF ExecInv, ExecTypeOK, Phases, Truncate, Over
<1>5. Writers' = Writers
  BY DEF ExecInv, ExecTypeOK, Truncate, Writers, Running
<1>6. WritesAlone'
  BY <1>2, <1>5 DEF ExecInv, ExecTypeOK, Phases, WritesAlone, Truncate
<1>7. ReadsAlone'
  BY <1>2 DEF ExecInv, ReadsAlone, HasSeen, AllBy, Truncate
<1> QED BY <1>3, <1>4, <1>6, <1>7 DEF ExecInv

LEMMA WriteChunkStep ==
  ASSUME ExecInv, NEW k \in Calls, WriteChunk(k)
  PROVE  ExecInv'
<1>1. k \in Writers
  BY DEF WriteChunk, Writers, Running
<1>2. \A j \in alone : j = k
  BY <1>1, WriterIsAlone
<1>3. /\ file' \in [by : Authors, chunks : Nat]
      /\ file.by = k => file'.by = k /\ file'.chunks = file.chunks + 1
  <2>1. CASE file.by = k
    <3>1. file \in [by : Authors, chunks : Nat] BY DEF ExecInv, ExecTypeOK
    <3>2. file' = [file EXCEPT !.chunks = @ + 1] BY <2>1 DEF WriteChunk
    <3> QED BY <2>1, <3>1, <3>2
  <2>2. CASE file.by # k
    BY <2>2 DEF WriteChunk, Authors
  <2> QED BY <2>1, <2>2
<1>4. ExecTypeOK' /\ Phases'
  <2>1. ExecTypeOK' BY <1>3 DEF ExecInv, ExecTypeOK, WriteChunk
  <2>2. Phases' BY DEF ExecInv, ExecTypeOK, Phases, WriteChunk, Over
  <2> QED BY <2>1, <2>2
<1>5. Writers' = Writers
  BY DEF ExecInv, ExecTypeOK, WriteChunk, Writers, Running
<1>6. WritesAlone'
  BY <1>2, <1>3, <1>5 DEF ExecInv, ExecTypeOK, WritesAlone, WriteChunk
<1>7. ReadsAlone'
  BY <1>2 DEF ExecInv, ReadsAlone, HasSeen, AllBy, WriteChunk
<1> QED BY <1>4, <1>6, <1>7 DEF ExecInv

(* A writer that exits has written all of it; a reader has read all.       *)
LEMMA ExitStep ==
  ASSUME ExecInv, NEW k \in Calls, Exit(k) \/ CommandFails(k)
  PROVE  ExecInv'
<1>1. PICK how \in Over :
        /\ command' = [command EXCEPT ![k] = how] /\ Running(k)
        /\ how = "done" =>
             IF kind[k] = "copy_to" THEN done[k] = 2 ELSE done[k] >= file.chunks
        /\ UNCHANGED <<file, kind, call, done, noise, out, err, stream, got, alone>>
  BY DEF Exit, CommandFails, Over
<1>2. ExecTypeOK' BY <1>1 DEF ExecInv, ExecTypeOK
<1>3. Phases' BY <1>1 DEF ExecInv, ExecTypeOK, Phases, Running, Over
<1>4. Writers' = Writers \ {k}
  BY <1>1 DEF ExecInv, ExecTypeOK, Writers, Running, Over
<1>5. how = "done" /\ kind[k] = "copy_to" => command[k] = "running" /\ done[k] = 2
  BY <1>1 DEF ExecInv, Phases, Running
<1>6. WritesAlone'
  BY <1>1, <1>4, <1>5 DEF ExecInv, ExecTypeOK, WritesAlone, Over
<1>7. ReadsAlone'
  BY <1>1 DEF ExecInv, ExecTypeOK, ReadsAlone, HasSeen, AllBy
<1> QED BY <1>2, <1>3, <1>6, <1>7 DEF ExecInv

(* With another writer about a new call is not alone, and when it writes   *)
(* the others are no longer.                                               *)
LEMMA AttachStep ==
  ASSUME ExecInv, NEW k \in Calls, NEW what \in {"copy_to", "copy_from"},
         NEW n \in Nat, Attach(k, what, n)
  PROVE  ExecInv'
<1>1. /\ kind[k] = "none" /\ done[k] = 0 /\ out[k] = <<>> /\ got[k] = <<>> /\ k \notin alone
  BY DEF ExecInv, Phases, Attach
<1>2. ExecTypeOK' BY DEF ExecInv, ExecTypeOK, Attach
<1>3. Phases' BY <1>1 DEF ExecInv, ExecTypeOK, Phases, Attach, Over
<1>4. Writers' = IF what = "copy_to" THEN Writers \cup {k} ELSE Writers
  BY <1>1 DEF ExecInv, ExecTypeOK, Attach, Writers, Running
<1>5. WritesAlone'
  BY <1>1, <1>4 DEF ExecInv, ExecTypeOK, WritesAlone, Attach
<1>6. ReadsAlone'
  BY <1>1, EmptySeq DEF ExecInv, ExecTypeOK, ReadsAlone, HasSeen, AllBy, Attach
<1> QED BY <1>2, <1>3, <1>5, <1>6 DEF ExecInv

(* A call that ends, or is refused, and what is said on standard error.    *)
LEMMA CallEndsStep ==
  ASSUME ExecInv, NEW k \in Calls,
         OutputEnds(k) \/ OutputFails(k) \/ \E what \in {"copy_to", "copy_from"} : Refused(k, what)
  PROVE  ExecInv'
<1>1. PICK what \in {"none", "copy_to", "copy_from"}, how \in {"ok", "error"} :
        /\ call' = [call EXCEPT ![k] = how]
        /\ how = "ok" => out[k] = <<>> /\ stream[k] # "open"
        /\ \/ kind' = kind
           \/ call[k] = "idle" /\ kind' = [kind EXCEPT ![k] = what]
        /\ UNCHANGED <<file, command, done, noise, out, err, stream, got, alone>>
  BY DEF OutputEnds, OutputFails, Refused
<1>2. ExecTypeOK' BY <1>1 DEF ExecInv, ExecTypeOK
<1>3. Phases' BY <1>1 DEF ExecInv, ExecTypeOK, Phases, Over
<1>4. Writers' = Writers
  BY <1>1 DEF ExecInv, ExecTypeOK, Phases, Writers, Running
<1>5. WritesAlone' BY <1>1, <1>4 DEF ExecInv, ExecTypeOK, Phases, WritesAlone
<1>6. ReadsAlone' BY <1>1 DEF ExecInv, ExecTypeOK, Phases, ReadsAlone, HasSeen, AllBy
<1> QED BY <1>2, <1>3, <1>5, <1>6 DEF ExecInv

LEMMA StreamStep ==
  ASSUME ExecInv, NEW k \in Calls, Complain(k) \/ StreamEnds(k) \/ StreamBreaks(k)
  PROVE  ExecInv'
<1>1. UNCHANGED <<file, kind, call, command, done, out, got, alone>>
  BY DEF Complain, StreamEnds, StreamBreaks
<1>2. \/ stream' = stream
      \/ stream[k] = "open" /\ stream' = [stream EXCEPT ![k] = "broken"]
      \/ /\ stream[k] = "open" /\ command[k] \in Over
         /\ stream' = [stream EXCEPT ![k] = "ended"]
  BY DEF Complain, StreamEnds, StreamBreaks
<1>3. noise' \in [Calls -> Nat] /\ err' \in [Calls -> Nat]
  <2>1. noise \in [Calls -> Nat] /\ err \in [Calls -> Nat]
    BY DEF ExecInv, ExecTypeOK
  <2>2. CASE Complain(k)
    BY <2>1, <2>2 DEF Complain
  <2>3. CASE StreamEnds(k) \/ StreamBreaks(k)
    BY <2>1, <2>3 DEF StreamEnds, StreamBreaks
  <2> QED BY <2>2, <2>3
<1>4. ExecTypeOK' BY <1>1, <1>2, <1>3 DEF ExecInv, ExecTypeOK
<1>5. Phases' BY <1>1, <1>2 DEF ExecInv, ExecTypeOK, Phases
<1>6. Writers' = Writers BY <1>1 DEF Writers, Running
<1>7. WritesAlone' BY <1>1, <1>6 DEF ExecInv, WritesAlone
<1>8. ReadsAlone' BY <1>1, <1>2 DEF ExecInv, ExecTypeOK, ReadsAlone, HasSeen, AllBy
<1> QED BY <1>4, <1>5, <1>7, <1>8 DEF ExecInv

LEMMA ExecStutter == ExecInv /\ UNCHANGED execVars => ExecInv'
<1> SUFFICES ASSUME ExecInv, UNCHANGED execVars PROVE ExecInv'
  OBVIOUS
<1>1. Writers' = Writers BY DEF execVars, Writers, Running
<1> QED BY <1>1 DEF execVars, ExecInv, ExecTypeOK, Phases, WritesAlone, ReadsAlone, HasSeen, AllBy

THEOREM ExecInvariant == ExecSpec => []ExecInv
<1>1. ExecInv /\ [ExecNext]_execVars => ExecInv'
  <2> SUFFICES ASSUME ExecInv, ExecNext PROVE ExecInv'
    BY ExecStutter
  <2>1. CASE Finished
    BY <2>1, ExecStutter DEF Finished
  <2>2. ASSUME NEW k \in Calls, Caller(k) \/ OutputFails(k)
        PROVE  ExecInv'
    BY <2>2, ReadStep, CallEndsStep DEF Caller
  <2>3. ASSUME NEW k \in Calls, Command(k) \/ CommandFails(k)
        PROVE  ExecInv'
    BY <2>3, StreamStep, CatStep, TruncateStep, WriteChunkStep, ExitStep DEF Command
  <2>4. ASSUME NEW k \in Calls, StreamEnds(k) \/ StreamBreaks(k)
        PROVE  ExecInv'
    BY <2>4, StreamStep
  <2>5. ASSUME NEW k \in Calls, NEW what \in {"copy_to", "copy_from"},
               Refused(k, what) \/ \E n \in 0 .. MaxNoise : Attach(k, what, n)
        PROVE  ExecInv'
    BY <2>5, CallEndsStep, AttachStep, ExecAssumption
  <2> QED BY <2>1, <2>2, <2>3, <2>4, <2>5 DEF ExecNext
<1> QED BY ExecInitInv, <1>1, PTL DEF ExecSpec

(* A copy that went well, with no other writer about, is right: whatever   *)
(* commands of failed calls are still at work, and however the chunks went *)
(* through the stream.                                                     *)
THEOREM CleanCopiesAreWhole == ExecSpec => []CleanOkIsWhole
<1>1. ExecInv => CleanOkIsWhole
  <2> SUFFICES ASSUME ExecInv, NEW k \in alone, Clean(k)
               PROVE  /\ kind[k] = "copy_to" => file = Whole(k)
                      /\ kind[k] = "copy_from" =>
                           got[k] = [i \in 1 .. file.chunks |-> file.by]
    BY DEF CleanOkIsWhole
  <2>1. kind[k] = "copy_to" => file = Whole(k)
    BY DEF Clean, ExecInv, ExecTypeOK, WritesAlone, Whole
  <2>2. ASSUME kind[k] = "copy_from"
        PROVE  got[k] = [i \in 1 .. file.chunks |-> file.by]
    <3>1. /\ got[k] \in Seq(Authors) /\ out[k] = <<>> /\ file.chunks \in Nat
          /\ Len(got[k]) + Len(out[k]) = file.chunks
          /\ \A i \in 1 .. Len(got[k]) : got[k][i] = file.by
      BY <2>2 DEF Clean, ExecInv, ExecTypeOK, Phases, ReadsAlone, HasSeen, AllBy
    <3>2. Len(got[k]) = file.chunks
      BY <3>1, EmptySeq, LenProperties
    <3> QED BY <3>1, <3>2, LenProperties
  <2> QED BY <2>1, <2>2
<1> QED BY ExecInvariant, <1>1, PTL
=============================================================================

-------------------------------- MODULE Exec --------------------------------
(***************************************************************************)
(* exec, copy_from and copy_to (context/exec.rs).  A call attaches to a    *)
(* command in the pod and reads its standard output to the end; standard   *)
(* error is attached as well and never read.  The end of the output is all *)
(* a call waits for: neither the exit status of the command nor a broken   *)
(* stream is looked at.  copy_to is a shell that truncates the file and    *)
(* then writes it, copy_from a cat; a command goes on when its stream has  *)
(* broken.                                                                 *)
(*                                                                         *)
(* Files and outputs are two chunks long.                                  *)
(***************************************************************************)
EXTENDS Integers, Sequences

CONSTANTS Calls,        \* calls of copy_to and copy_from, each an exec
          Original,     \* who wrote the file before any of them
          Mixed,        \* what a file is whose writers got in each other's way
          OutBuffer,    \* chunks the two streams hold unread
          ErrBuffer,
          MaxNoise      \* bound: chunks a command writes to standard error

ASSUME ExecAssumption ==
  /\ Original \notin Calls /\ Mixed \notin Calls
  /\ OutBuffer \in Nat \ {0} /\ ErrBuffer \in Nat /\ MaxNoise \in Nat

VARIABLES file,       \* who wrote it, and how many chunks of it are there
          kind, call, \* per call: what it does, and where it is
          command,    \* per call: the command in the pod
          done,       \* per call: how many chunks it has read or written
          noise,      \* per call: what it has still to say on standard error
          out, err,   \* per call: the unread output, how much unread error
          stream,     \* per call: "open", "ended" or "broken"
          got,        \* per call: what was read
          alone       \* history: calls no writer has overlapped

execVars == <<file, kind, call, command, done, noise, out, err, stream, got, alone>>

Whole(w) == [by |-> w, chunks |-> 2]
Over == {"done", "failed"}
Running(k) == command[k] \in {"starting", "running"}
Writers == {k \in Calls : kind[k] = "copy_to" /\ Running(k)}

ExecInit ==
  /\ file = Whole(Original)
  /\ kind = [k \in Calls |-> "none"] /\ call = [k \in Calls |-> "idle"]
  /\ command = [k \in Calls |-> "none"] /\ done = [k \in Calls |-> 0]
  /\ noise = [k \in Calls |-> 0]
  /\ out = [k \in Calls |-> <<>>] /\ err = [k \in Calls |-> 0]
  /\ stream = [k \in Calls |-> "none"] /\ got = [k \in Calls |-> <<>>]
  /\ alone = {}

-----------------------------------------------------------------------------
(* The call.                                                               *)

(* A path with a shell metacharacter is refused before anything is sent;   *)
(* or the pod is missing, or the API server refuses.                       *)
Refused(k, what) ==
  /\ call[k] = "idle"
  /\ kind' = [kind EXCEPT ![k] = what] /\ call' = [call EXCEPT ![k] = "error"]
  /\ UNCHANGED <<file, command, done, noise, out, err, stream, got, alone>>

Attach(k, what, n) ==
  /\ call[k] = "idle"
  /\ kind' = [kind EXCEPT ![k] = what] /\ call' = [call EXCEPT ![k] = "reading"]
  /\ command' = [command EXCEPT ![k] = "starting"] /\ noise' = [noise EXCEPT ![k] = n]
  /\ stream' = [stream EXCEPT ![k] = "open"]
  /\ alone' = (IF what = "copy_to" THEN {} ELSE alone)
                \cup (IF Writers = {} THEN {k} ELSE {})
  /\ UNCHANGED <<file, done, out, err, got>>

(* read_to_string.  Mutation: collect the output when the command is done. *)
ReadWhenDone(k) ==
  /\ call[k] = "reading" /\ out[k] # <<>> /\ stream[k] # "open"
  /\ got' = [got EXCEPT ![k] = Append(@, Head(out[k]))]
  /\ out' = [out EXCEPT ![k] = Tail(@)]
  /\ UNCHANGED <<file, kind, call, command, done, noise, err, stream, alone>>

Read(k) ==
  /\ call[k] = "reading" /\ out[k] # <<>>
  /\ got' = [got EXCEPT ![k] = Append(@, Head(out[k]))]
  /\ out' = [out EXCEPT ![k] = Tail(@)]
  /\ UNCHANGED <<file, kind, call, command, done, noise, err, stream, alone>>

(* Mutation: an output that has nothing to read for now is at its end.     *)
OutputEndsEarly(k) ==
  /\ call[k] = "reading" /\ out[k] = <<>>
  /\ call' = [call EXCEPT ![k] = "ok"]
  /\ UNCHANGED <<file, kind, command, done, noise, out, err, stream, got, alone>>

OutputEnds(k) ==
  /\ call[k] = "reading" /\ out[k] = <<>> /\ stream[k] # "open"
  /\ call' = [call EXCEPT ![k] = "ok"]
  /\ UNCHANGED <<file, kind, command, done, noise, out, err, stream, got, alone>>

(* The output is no UTF-8.                                                 *)
OutputFails(k) ==
  /\ call[k] = "reading" /\ got[k] # <<>>
  /\ call' = [call EXCEPT ![k] = "error"]
  /\ UNCHANGED <<file, kind, command, done, noise, out, err, stream, got, alone>>

-----------------------------------------------------------------------------
(* External: the command in the pod, and the streams that reach it through *)
(* the API server.  All of them are forwarded by one task, so a command    *)
(* whose error does not fit stands still.                                  *)

Complain(k) ==
  /\ Running(k) /\ noise[k] > 0
  /\ stream[k] = "open" => err[k] < ErrBuffer
  /\ noise' = [noise EXCEPT ![k] = @ - 1]
  /\ err' = [err EXCEPT ![k] = IF stream[k] = "open" THEN @ + 1 ELSE @]
  /\ UNCHANGED <<file, kind, call, command, done, out, stream, got, alone>>

Emit(k, chunk) ==
  /\ stream[k] = "open" => Len(out[k]) < OutBuffer
  /\ out' = [out EXCEPT ![k] = IF stream[k] = "open" THEN Append(@, chunk) ELSE @]

Cat(k) ==
  /\ kind[k] = "copy_from"
  /\ Running(k) /\ done[k] < 2 /\ done[k] < file.chunks
  /\ Emit(k, file.by)
  /\ done' = [done EXCEPT ![k] = @ + 1]
  /\ UNCHANGED <<file, kind, call, command, noise, err, stream, got, alone>>

(* `printf ... > path`: the shell has truncated the file by the time it    *)
(* writes the first chunk.                                                 *)
Truncate(k) ==
  /\ kind[k] = "copy_to" /\ command[k] = "starting"
  /\ command' = [command EXCEPT ![k] = "running"]
  /\ file' = [by |-> k, chunks |-> 0]
  /\ UNCHANGED <<kind, call, done, noise, out, err, stream, got, alone>>

WriteChunk(k) ==
  /\ kind[k] = "copy_to" /\ command[k] = "running" /\ done[k] < 2
  /\ file' = IF file.by = k THEN [file EXCEPT !.chunks = @ + 1]
             ELSE [by |-> Mixed, chunks |-> 2]
  /\ done' = [done EXCEPT ![k] = @ + 1]
  /\ UNCHANGED <<kind, call, command, noise, out, err, stream, got, alone>>

Exit(k) ==
  /\ Running(k) /\ noise[k] = 0
  /\ IF kind[k] = "copy_to" THEN done[k] = 2 ELSE done[k] >= file.chunks
  /\ command' = [command EXCEPT ![k] = "done"]
  /\ UNCHANGED <<file, kind, call, done, noise, out, err, stream, got, alone>>

(* No such file, no space, a signal: at any time, or never.                *)
CommandFails(k) ==
  /\ Running(k) /\ noise[k] = 0
  /\ command' = [command EXCEPT ![k] = "failed"]
  /\ UNCHANGED <<file, kind, call, done, noise, out, err, stream, got, alone>>

StreamEnds(k) ==
  /\ stream[k] = "open" /\ command[k] \in Over
  /\ stream' = [stream EXCEPT ![k] = "ended"]
  /\ UNCHANGED <<file, kind, call, command, done, noise, out, err, got, alone>>

StreamBreaks(k) ==
  /\ stream[k] = "open"
  /\ stream' = [stream EXCEPT ![k] = "broken"]
  /\ UNCHANGED <<file, kind, call, command, done, noise, out, err, got, alone>>

-----------------------------------------------------------------------------
Caller(k) == Read(k) \/ OutputEnds(k)
Command(k) == Complain(k) \/ Cat(k) \/ Truncate(k) \/ WriteChunk(k) \/ Exit(k)

Finished ==
  /\ \A k \in Calls : call[k] \in {"ok", "error"} /\ ~Running(k) /\ stream[k] # "open"
  /\ UNCHANGED execVars

ExecNext ==
  \/ Finished
  \/ \E k \in Calls : \/ Caller(k) \/ OutputFails(k) \/ Command(k) \/ CommandFails(k)
                     \/ StreamEnds(k) \/ StreamBreaks(k)
  \/ \E k \in Calls, what \in {"copy_to", "copy_from"} :
       Refused(k, what) \/ \E n \in 0 .. MaxNoise : Attach(k, what, n)

(* The test reads what there is, a command that is not held up gets on,    *)
(* and its end is told; nothing makes a command that stands still fail.    *)
ExecFairness ==
  \A k \in Calls : /\ WF_execVars(Caller(k)) /\ WF_execVars(Command(k))
                   /\ WF_execVars(StreamEnds(k))

ExecSpec == ExecInit /\ [][ExecNext]_execVars /\ ExecFairness

-----------------------------------------------------------------------------
(* Call k went as its caller has to assume: the command succeeded and its  *)
(* stream held.                                                            *)
Clean(k) == call[k] = "ok" /\ command[k] = "done" /\ stream[k] = "ended"

(* A call that went well, without another writer about - a command of a    *)
(* call that failed earlier may still be one - is right: copy_to has left  *)
(* its whole content, copy_from has read all there is.                     *)
CleanOkIsWhole ==
  \A k \in alone : Clean(k) =>
    /\ kind[k] = "copy_to" => file = Whole(k)
    /\ kind[k] = "copy_from" => got[k] = [i \in 1 .. file.chunks |-> file.by]

(* Nothing reads standard error, so a command may say there only what the  *)
(* buffer holds; then a call that was attached returns.                    *)
QuietCallsReturn ==
  \A k \in Calls : (call[k] = "reading" /\ noise[k] + err[k] <= ErrBuffer)
                      ~> (call[k] \in {"ok", "error"})

(* exec.rs says that copy_to "Writes the given content to a file at the    *)
(* specified path in the pod": without another writer an Ok whose stream   *)
(* held means that the content is there.                                   *)
CopyOkMeansWritten ==
  \A k \in alone :
    call[k] = "ok" /\ kind[k] = "copy_to" /\ stream[k] = "ended" => file = Whole(k)
=============================================================================

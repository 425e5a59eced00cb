---------------------------- MODULE PortForward -----------------------------
(***************************************************************************)
(* Context::port_forward (context/forwarding.rs) picks a pod, and the      *)
(* PortForward (portforward.rs) it returns forwards to that pod, whatever  *)
(* becomes of it: a listener on a local port, a task that accepts          *)
(* connections and spawns one proxy task for each, and request(), which    *)
(* connects, writes an HTTP request and reads to the end of the stream.    *)
(* A proxy dials the pod through the API server and copies both ways until *)
(* one direction ends.  Other HTTP clients use the port too (url,          *)
(* local_addr), also after the PortForward was dropped.                    *)
(*                                                                         *)
(* A socket that the proxy closes gives its client an "eof", or a "reset"  *)
(* when bytes of the client were left unread; a client that writes into a  *)
(* closed socket ("broken") may see either.                                *)
(***************************************************************************)
CONSTANTS Requests,   \* clients: each makes one request at a time
          Outside     \* those that do not go through request()

ASSUME OutsideAssumption == Outside \subseteq Requests

VARIABLES handle,     \* the PortForward: "none" yet, its pod "chosen", "held",
                      \* "dropped", or port_forward has "failed"
          listener,   \* "open" or "closed"
          pod,        \* "up" or "down"
          pc,         \* per client
          socket,     \* per client: its connection
          answer,     \* per client: how much the pod has received and sent
          shut,       \* clients that have shut down their write half
          cut         \* history: requests whose way to the pod broke

vars == <<handle, listener, pod, pc, socket, answer, shut, cut>>

Closed == {"eof", "reset", "broken"}
Returned == {"ok", "error"}

Init ==
  /\ handle = "none" /\ listener = "closed" /\ pod = "up"
  /\ pc = [r \in Requests |-> "idle"]
  /\ socket = [r \in Requests |-> "none"]
  /\ answer = [r \in Requests |-> "none"]
  /\ shut = {} /\ cut = {}

Goto(r, label) == pc' = [pc EXCEPT ![r] = label]
Socket(r, s) == socket' = [socket EXCEPT ![r] = s]

(* Dropping the local stream: what the client will read after the bytes it *)
(* was sent.                                                               *)
Endings(r) ==
  IF pc[r] = "sent" /\ answer[r] = "none" THEN {"eof", "reset"} ELSE {"eof"}

-----------------------------------------------------------------------------
(* port_forward: a pod is taken by its name, or is the first of the pods a *)
(* service or deployment selects that the list shows as Running.  Nothing  *)
(* keeps it running.                                                       *)
ChooseByName ==
  /\ handle = "none"
  /\ handle' = "chosen"
  /\ UNCHANGED <<listener, pod, pc, socket, answer, shut, cut>>

ChooseRunning ==
  /\ handle = "none" /\ pod = "up"
  /\ handle' = "chosen"
  /\ UNCHANGED <<listener, pod, pc, socket, answer, shut, cut>>

Bind ==
  /\ handle = "chosen"
  /\ handle' = "held" /\ listener' = "open"
  /\ UNCHANGED <<pod, pc, socket, answer, shut, cut>>

(* No such service or deployment, no selector, no running pod, no port.    *)
PortForwardFails ==
  /\ handle \in {"none", "chosen"}
  /\ handle' = "failed"
  /\ UNCHANGED <<listener, pod, pc, socket, answer, shut, cut>>

NotForwarding == handle = "failed" /\ UNCHANGED vars

-----------------------------------------------------------------------------
(* The client.  The listener takes connections before they are accepted.   *)
Connect(r) ==
  /\ pc[r] = "idle" /\ listener = "open"
  /\ handle = "held" \/ r \in Outside
  /\ Goto(r, "connected") /\ Socket(r, "queued")
  /\ UNCHANGED <<handle, listener, pod, answer, shut, cut>>

ConnectFails(r) ==
  /\ pc[r] = "idle" /\ handle = "dropped" /\ listener = "closed" /\ r \in Outside
  /\ Goto(r, "error")
  /\ UNCHANGED <<handle, listener, pod, socket, answer, shut, cut>>

(* Mutation: the write half is shut down, as the request is complete.      *)
WriteAndShutDown(r) ==
  /\ pc[r] = "connected" /\ socket[r] # "reset"
  /\ Goto(r, "sent")
  /\ Socket(r, IF socket[r] = "eof" THEN "broken" ELSE socket[r])
  /\ shut' = shut \cup {r}
  /\ UNCHANGED <<handle, listener, pod, answer, cut>>

Write(r) ==
  /\ pc[r] = "connected" /\ socket[r] # "reset"
  /\ Goto(r, "sent")
  /\ Socket(r, IF socket[r] = "eof" THEN "broken" ELSE socket[r])
  /\ UNCHANGED <<handle, listener, pod, answer, shut, cut>>

(* request() keeps its write half open; another client may not.            *)
ShutDown(r) ==
  /\ pc[r] = "sent" /\ r \in Outside
  /\ shut' = shut \cup {r}
  /\ UNCHANGED <<handle, listener, pod, pc, socket, answer, cut>>

(* The stream ended: whatever was read is the response.                    *)
ReadEnds(r) ==
  /\ pc[r] = "sent" /\ socket[r] \in {"eof", "broken"}
  /\ Goto(r, "ok")
  /\ UNCHANGED <<handle, listener, pod, socket, answer, shut, cut>>

Fails(r) ==
  /\ \/ pc[r] = "sent" /\ socket[r] \in {"reset", "broken"}
     \/ pc[r] = "connected" /\ socket[r] = "reset"
  /\ Goto(r, "error")
  /\ UNCHANGED <<handle, listener, pod, socket, answer, shut, cut>>

Again(r) ==
  /\ pc[r] \in Returned
  /\ Goto(r, "idle") /\ Socket(r, "none")
  /\ answer' = [answer EXCEPT ![r] = "none"]
  /\ shut' = shut \ {r} /\ cut' = cut \ {r}
  /\ UNCHANGED <<handle, listener, pod>>

-----------------------------------------------------------------------------
(* The accept loop.  request() borrows the PortForward, so it is not       *)
(* dropped while one runs.                                                 *)
Drop ==
  /\ handle = "held"
  /\ \A r \in Requests \ Outside : pc[r] \notin {"connected", "sent"}
  /\ handle' = "dropped"
  /\ UNCHANGED <<listener, pod, pc, socket, answer, shut, cut>>

Accept(r) ==
  /\ listener = "open" /\ socket[r] = "queued"
  /\ Socket(r, "dialing")
  /\ UNCHANGED <<handle, listener, pod, pc, answer, shut, cut>>

(* Mutation: a `biased` select! that accepts first.                        *)
ShutdownWhenQuiet ==
  /\ handle = "dropped" /\ listener = "open"
  /\ \A r \in Requests : socket[r] # "queued"
  /\ listener' = "closed"
  /\ UNCHANGED <<handle, pod, pc, socket, answer, shut, cut>>

(* select! sees the dropped sender; connections still queued are reset.    *)
Shutdown ==
  /\ handle = "dropped" /\ listener = "open"
  /\ listener' = "closed"
  /\ socket' = [r \in Requests |-> IF socket[r] = "queued" THEN "reset" ELSE socket[r]]
  /\ cut' = cut \cup {r \in Requests : socket[r] = "queued"}
  /\ UNCHANGED <<handle, pod, pc, answer, shut>>

-----------------------------------------------------------------------------
(* The proxy tasks: they live on when the listener is gone.                *)
Dial(r) ==
  /\ socket[r] = "dialing" /\ pod = "up"
  /\ Socket(r, "tunnel")
  /\ UNCHANGED <<handle, listener, pod, pc, answer, shut, cut>>

(* "Failed to establish port forward stream": the pod is gone, or the API  *)
(* server refuses.                                                         *)
DialFails(r) ==
  /\ socket[r] = "dialing"
  /\ \E s \in Endings(r) : Socket(r, s)
  /\ cut' = cut \cup {r}
  /\ UNCHANGED <<handle, listener, pod, pc, answer, shut>>

(* External: the pod receives the request and answers, a part at a time.   *)
Copy(r) ==
  /\ socket[r] = "tunnel" /\ pc[r] = "sent" /\ pod = "up"
  /\ \/ answer[r] = "none" /\ answer' = [answer EXCEPT ![r] = "received"]
     \/ answer[r] = "received" /\ answer' = [answer EXCEPT ![r] = "part"]
     \/ answer[r] = "part" /\ answer' = [answer EXCEPT ![r] = "whole"]
  /\ UNCHANGED <<handle, listener, pod, pc, socket, shut, cut>>

(* Mutation: join! instead of select!, so both directions have to end.     *)
UpstreamEndsJoined(r) ==
  /\ socket[r] = "tunnel" /\ r \in shut
  /\ answer[r] = "whole" \/ pod = "down"
  /\ \E s \in Endings(r) : Socket(r, s)
  /\ cut' = IF answer[r] = "whole" THEN cut ELSE cut \cup {r}
  /\ UNCHANGED <<handle, listener, pod, pc, answer, shut>>

(* server_to_client ends: the answer is over, or the pod has died.         *)
UpstreamEnds(r) ==
  /\ socket[r] = "tunnel"
  /\ answer[r] = "whole" \/ pod = "down"
  /\ \E s \in Endings(r) : Socket(r, s)
  /\ cut' = IF answer[r] = "whole" THEN cut ELSE cut \cup {r}
  /\ UNCHANGED <<handle, listener, pod, pc, answer, shut>>

(* client_to_server ends, and with it the tunnel, answered or not.         *)
ClientEnds(r) ==
  /\ socket[r] = "tunnel" /\ r \in shut /\ answer[r] # "none"
  /\ Socket(r, "eof")
  /\ UNCHANGED <<handle, listener, pod, pc, answer, shut, cut>>

(* External: the stream through the API server breaks; the pod dies.       *)
UpstreamBreaks(r) ==
  /\ socket[r] = "tunnel"
  /\ \E s \in Endings(r) : Socket(r, s)
  /\ cut' = cut \cup {r}
  /\ UNCHANGED <<handle, listener, pod, pc, answer, shut>>

PodDies ==
  /\ pod = "up"
  /\ pod' = "down"
  /\ UNCHANGED <<handle, listener, pc, socket, answer, shut, cut>>

-----------------------------------------------------------------------------
Client(r) == Connect(r) \/ ConnectFails(r) \/ Write(r) \/ ReadEnds(r) \/ Fails(r) \/ Again(r)
Finish(r) == Write(r) \/ ReadEnds(r) \/ Fails(r)
Proxy(r) == Dial(r) \/ DialFails(r) \/ UpstreamEnds(r) \/ ClientEnds(r)

Next ==
  \/ \E r \in Requests : \/ Client(r) \/ ShutDown(r) \/ Accept(r) \/ Proxy(r)
                         \/ Copy(r) \/ UpstreamBreaks(r)
  \/ ChooseByName \/ ChooseRunning \/ Bind \/ PortForwardFails \/ NotForwarding
  \/ Drop \/ Shutdown \/ PodDies

(* Tasks that can run do, select! starves neither of its branches, and a   *)
(* dead pod's streams are ended.  Nothing makes a living pod answer.       *)
Fairness ==
  /\ \A r \in Requests : WF_vars(Finish(r)) /\ WF_vars(Accept(r)) /\ WF_vars(Proxy(r))
  /\ WF_vars(Shutdown)

Spec == Init /\ [][Next]_vars /\ Fairness

-----------------------------------------------------------------------------
(* The proxy never cuts short an answer to request(): when its socket is   *)
(* closed without a whole answer, the way to the pod had failed.  It hangs *)
(* on request() not shutting down its half of the connection.              *)
ProxyNeverTruncates ==
  \A r \in Requests \ Outside :
    (socket[r] \in Closed /\ answer[r] # "whole") => r \in cut

(* No request waits for a dead pod: request() has no timeout of its own,   *)
(* so the proxy has to end it.                                             *)
DeadPodReleasesRequests ==
  \A r \in Requests \ Outside :
    (pod = "down" /\ pc[r] = "sent") ~> pc[r] \in Returned

(* A dropped PortForward gives its port back, whoever keeps connecting.    *)
DropClosesListener == (handle = "dropped") ~> (listener = "closed")

(* portforward.rs says of get, post, put and delete that they return       *)
(* PortForwardError "if the connection or request fails": an Ok is the     *)
(* pod's whole answer.                                                     *)
OkMeansAnswered ==
  \A r \in Requests \ Outside : pc[r] = "ok" => answer[r] = "whole"
=============================================================================

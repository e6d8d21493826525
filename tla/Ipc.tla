-------------------------------- MODULE Ipc --------------------------------
(***************************************************************************)
(* The Unix socket between the agent and its command line, internal/ipc: a *)
(* listener, an accept loop, one handler goroutine per connection, and     *)
(* clients that dial, make one call and close, or vanish at any moment.    *)
(* What a request does is the backend's business (Agent.tla).  A frame is  *)
(* written whole or not at all: ReadFrame treats half a frame whose writer *)
(* has gone like no frame.                                                 *)
(***************************************************************************)
EXTENDS RuleStore

CONSTANTS Conns,      \* slots for connections that exist at the same time
          Requests    \* what the client of each may send

Tags == {"add", "revoke", "list", "status", "tail", "odd", "malformed"}

ASSUME IpcAssumption ==
  \A c \in Conns : \A r \in Requests[c] :
     r.tag \in Tags /\ (r.tag = "add" => IsNewRow(r.row))

VARIABLES
  listener,   \* "none" when Start failed, and then Stop is never called
  acceptor,   \* the accept loop: in Accept, about to start a handler, or gone
  client,     \* the client's end of a connection
  server,     \* the agent's end
  request     \* the frame written and not yet answered, if any

ipcVars == <<listener, acceptor, client, server, request>>

(* The requests of the command line; its flags decide what is in them. *)
ListCmd       == [tag |-> "list"]
AddCmd(row)   == [tag |-> "add", row |-> row]
RevokeCmd(id) == [tag |-> "revoke", id |-> id]
TailCmd       == [tag |-> "tail"]
StatusCmd     == [tag |-> "status"]

(* A tag dispatch does not know, and a length ReadFrame does not accept:
   zero, or above MaxFrameSize. *)
UnknownTag == [tag |-> "odd"]
Malformed  == [tag |-> "malformed"]
NoFrame    == [tag |-> "none"]

Acceptor == {"accept", "spawn", "gone"}
Client   == {"gone", "connected", "waiting"}
Server   == {"none", "backlog", "accepted", "reading", "serving"}

IpcTypeOK ==
  /\ listener \in {"none", "open", "closed"} /\ acceptor \in Acceptor
  /\ client \in [Conns -> Client] /\ server \in [Conns -> Server]
  /\ DOMAIN request = Conns
  /\ \A c \in Conns : request[c] \in Requests[c] \cup {NoFrame}

(* Start: the socket is listened on and the accept loop runs, or neither. *)
IpcInit ==
  /\ \/ listener = "open" /\ acceptor = "accept"
     \/ listener = "none" /\ acceptor = "gone"
  /\ client = [c \in Conns |-> "gone"] /\ server = [c \in Conns |-> "none"]
  /\ request = [c \in Conns |-> NoFrame]

-----------------------------------------------------------------------------
(* Clients *)

(* connect(2) succeeds once the kernel has queued the connection. *)
Dial(c) ==
  /\ listener = "open" /\ client[c] = "gone" /\ server[c] = "none"
  /\ client' = [client EXCEPT ![c] = "connected"]
  /\ server' = [server EXCEPT ![c] = "backlog"]
  /\ UNCHANGED <<listener, acceptor, request>>

(* call: the request is written, and ReadFrame waits for the reply (Respond)
   or for the end of the stream (Gone).  The connection can take more calls. *)
Send(c, r) ==
  /\ client[c] = "connected"
  /\ client' = [client EXCEPT ![c] = "waiting"]
  /\ request' = [request EXCEPT ![c] = r]
  /\ UNCHANGED <<listener, acceptor, server>>

(* The deferred Close, or the end of the process.  What it has written can
   still be read. *)
HangUp(c) ==
  /\ client[c] # "gone"
  /\ client' = [client EXCEPT ![c] = "gone"]
  /\ UNCHANGED <<listener, acceptor, server, request>>

-----------------------------------------------------------------------------
(* The server *)

(* These lose the agent's end: a call on them fails, and so would any other,
   so that their slots are free again. *)
Gone(lost) ==
  /\ client' = [c \in Conns |-> IF c \in lost THEN "gone" ELSE client[c]]
  /\ server' = [c \in Conns |-> IF c \in lost THEN "none" ELSE server[c]]
  /\ request' = [c \in Conns |-> IF c \in lost THEN NoFrame ELSE request[c]]

Accept(c) ==
  /\ acceptor = "accept" /\ listener = "open" /\ server[c] = "backlog"
  /\ acceptor' = "spawn"
  /\ server' = [server EXCEPT ![c] = "accepted"]
  /\ UNCHANGED <<listener, client, request>>

(* wg.Add(1); go s.handle(c) *)
Spawn(c) ==
  /\ server[c] = "accepted"
  /\ acceptor' = "accept"
  /\ server' = [server EXCEPT ![c] = "reading"]
  /\ UNCHANGED <<listener, client, request>>

(* Mutant: every error of Accept is a reason to try again. *)
RetryAlways == "accept"

(* net.ErrClosed ends the loop; any other error is tried again, which
   changes nothing. *)
AfterErrClosed == "gone"

AcceptFails ==
  /\ acceptor = "accept" /\ listener = "closed"
  /\ acceptor' = AfterErrClosed /\ acceptor' # acceptor
  /\ UNCHANGED <<listener, client, server, request>>

ReadRequest(c) ==
  /\ server[c] = "reading" /\ request[c] \notin {NoFrame, Malformed}
  /\ server' = [server EXCEPT ![c] = "serving"]
  /\ UNCHANGED <<listener, acceptor, client, request>>

(* ReadFrame fails, at the end of the stream or on such a length: handle
   returns and closes the connection without a word. *)
CloseConn(c) ==
  /\ server[c] = "reading"
  /\ (request[c] = NoFrame /\ client[c] = "gone") \/ request[c] = Malformed
  /\ Gone({c})
  /\ UNCHANGED <<listener, acceptor>>

(* Mutant: nothing is written back. *)
NoReply(end) == end

(* The frame ends the call, unless its client has gone. *)
AfterReply(end) == IF end = "waiting" THEN "connected" ELSE end

(* dispatch has called the backend: one frame back, whatever came of it, and
   on to the next request. *)
Respond(c) ==
  /\ server[c] = "serving"
  /\ server' = [server EXCEPT ![c] = "reading"]
  /\ request' = [request EXCEPT ![c] = NoFrame]
  /\ client' = [client EXCEPT ![c] = AfterReply(client[c])]
  /\ UNCHANGED <<listener, acceptor>>

(* Mutant: Stop closes the connections it serves as well. *)
ResetAll == {c \in Conns : server[c] \in {"backlog", "reading"}}

(* Connections still in the kernel's queue are reset with the listener. *)
ResetByClose == {c \in Conns : server[c] = "backlog"}

(* Stop, first half. *)
CloseListener ==
  /\ listener = "open"
  /\ listener' = "closed"
  /\ Gone(ResetByClose)
  /\ UNCHANGED acceptor

Handling == {c \in Conns : server[c] \in {"reading", "serving"}}

(* Mutant: the accept loop is not counted. *)
HandlersOnly == Handling # {}

(* The WaitGroup is above zero. *)
Counted == acceptor # "gone" \/ Handling # {}

(* Stop, second half. *)
WaitReturns == listener = "closed" /\ ~Counted
=============================================================================

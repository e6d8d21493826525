---------------------------- MODULE AgentProofs ----------------------------
(***************************************************************************)
(* Proofs about the agent process, for any connections, requests and size  *)
(* of the audit channel.  The argument of a safe shutdown is the order of  *)
(* the deferred calls (ClosedByThen) and what srv.Stop has waited for      *)
(* (StopInv); that a handler cannot appear behind its back rests on the    *)
(* accept loop being counted (AcceptInv).                                  *)
(***************************************************************************)
EXTENDS Agent, RuleStoreProofs

ThreadType ==
  /\ auditCh \in 0..AuditCap /\ writer \in {"waiting", "inserting", "gone"}
  /\ decider \in {"idle", "record", "gone"} /\ sound \in BOOLEAN
  /\ done \in 0..6

(* No loop without a listener; a connection between Accept and the start of
   its handler is the loop's, and the only one. *)
AcceptInv ==
  /\ listener = "none" => acceptor = "gone" /\ Handling = {}
  /\ listener = "open" => acceptor # "gone"
  /\ \A c \in Conns : server[c] = "accepted" => acceptor = "spawn"
  /\ \A c, d \in Conns : server[c] = "accepted" /\ server[d] = "accepted" => c = d

(* Once srv.Stop has returned. *)
StopInv == done >= 3 => acceptor = "gone" /\ Handling = {}

VerdictInv == decider = "record" /\ ~sound => done >= 5

IInv ==
  /\ IpcTypeOK /\ ThreadType /\ Sound(rules)
  /\ AcceptInv /\ StopInv /\ VerdictInv

-----------------------------------------------------------------------------
LEMMA ClosedByThen ==
  ASSUME done \in 0..6
  PROVE  /\ Closed("hook") <=> done >= 2
         /\ Closed("audit") <=> done >= 4
         /\ Closed("rules") <=> done >= 5
         /\ Order[3] = "ipc" /\ \A i \in 1..6 : i # 3 => Order[i] # "ipc"
         /\ Len(Order) = 6
BY DEF Closed, Order

LEMMA InitHolds == Init => IInv
<1> SUFFICES ASSUME Init PROVE IInv
  OBVIOUS
<1>1. IpcTypeOK /\ AcceptInv
  BY DEF Init, IpcInit, IpcTypeOK, AcceptInv, Handling, Acceptor, Client, Server
<1>2. ThreadType /\ StopInv /\ VerdictInv
  BY AgentAssumption DEF Init, ThreadType, StopInv, VerdictInv
<1>3. QED
  BY <1>1, <1>2, EmptyIsSound DEF Init, IInv

(* Actions of Ipc.tla keep what IInv says of the connections, as long as
   none of them starts or ends srv.Stop. *)
ConnInv == IpcTypeOK /\ AcceptInv /\ StopInv

LEMMA ClientsKeepConns ==
  ASSUME ConnInv, NEW c \in Conns, Clients(c), UNCHANGED done
  PROVE  ConnInv'
<1> USE DEF ConnInv, IpcTypeOK, AcceptInv, StopInv, Handling, Acceptor, Client, Server
<1>1. CASE Dial(c)
  BY <1>1 DEF Dial
<1>2. CASE HangUp(c)
  BY <1>2 DEF HangUp
<1>3. ASSUME NEW r \in Requests[c], Send(c, r) PROVE ConnInv'
  BY <1>3 DEF Send
<1>4. QED
  BY <1>1, <1>2, <1>3 DEF Clients

LEMMA ServerKeepsConns ==
  ASSUME ConnInv, NEW c \in Conns, Handler(c) \/ Respond(c), UNCHANGED done
  PROVE  ConnInv'
<1> USE DEF ConnInv, IpcTypeOK, AcceptInv, StopInv, Handling, Acceptor, Client, Server
<1>1. CASE Accept(c)
  BY <1>1 DEF Accept
<1>2. CASE Spawn(c)
  BY <1>2 DEF Spawn
<1>3. CASE ReadRequest(c)
  BY <1>3 DEF ReadRequest
<1>4. CASE CloseConn(c)
  BY <1>4 DEF CloseConn, Gone
<1>5. CASE Respond(c)
  BY <1>5 DEF Respond, AfterReply
<1>6. QED
  BY <1>1, <1>2, <1>3, <1>4, <1>5 DEF Handler

LEMMA LoopEndKeepsConns ==
  ASSUME ConnInv, AcceptFails, UNCHANGED done
  PROVE  ConnInv'
BY DEF AcceptFails, AfterErrClosed, ConnInv, IpcTypeOK, AcceptInv, StopInv, Handling, Acceptor

LEMMA AgentStep == IInv /\ [Next]_agentVars => IInv'
<1> SUFFICES ASSUME IInv, [Next]_agentVars PROVE IInv'
  OBVIOUS
<1>1. ConnInv /\ done \in 0..6
  BY DEF IInv, ConnInv, ThreadType
<1> DEFINE Rest == ThreadType /\ Sound(rules) /\ VerdictInv
<1>2. ASSUME UNCHANGED <<rules, engineVars, done>> PROVE Rest'
  BY <1>2 DEF IInv, ThreadType, VerdictInv, engineVars, Sound, Numbered, UniqueIndex, PrimaryKey
<1>3. ASSUME UNCHANGED <<ipcVars, done>> PROVE ConnInv'
  BY <1>1, <1>3 DEF ConnInv, IpcTypeOK, AcceptInv, StopInv, Handling, ipcVars
<1>4. CASE UNCHANGED agentVars
  BY <1>2, <1>3, <1>4 DEF agentVars, IInv, ConnInv
<1>5. ASSUME NEW c \in Conns, Clients(c), UNCHANGED <<rules, engineVars, done>> PROVE IInv'
  BY <1>1, <1>2, <1>5, ClientsKeepConns DEF IInv, ConnInv
<1>6. ASSUME AcceptFails \/ \E c \in Conns : Handler(c), UNCHANGED <<rules, engineVars, done>>
      PROVE  IInv'
  BY <1>1, <1>2, <1>6, ServerKeepsConns, LoopEndKeepsConns DEF IInv, ConnInv
<1>7. ASSUME NEW c \in Conns, Serve(c) PROVE IInv'
  <2>1. ConnInv'
    BY <1>1, <1>7, ServerKeepsConns DEF Serve
  <2>2. Sound(rules')
    <3> DEFINE r == request[c]
    <3>1. r.tag = "add" /\ rules' = AddRule(r.row) => Sound(rules')
      <4> SUFFICES ASSUME r.tag = "add" PROVE Sound(AddRule(r.row))
        OBVIOUS
      <4>1. r \in Requests[c]
        BY DEF IInv, IpcTypeOK, NoFrame
      <4>2. r.row \in AnyRow({r.row.file}, {r.row.ident}, {r.row.expires})
        BY <4>1, IpcAssumption DEF IsNewRow, AnyRow
      <4>3. QED
        BY <4>2, InsertKeepsSound DEF AddRule, IInv
    <3>2. rules' = RevokeRule(r.id) => Sound(rules')
      BY RevokeKeepsSound DEF RevokeRule, IInv
    <3>3. rules' = rules => Sound(rules')
      BY DEF IInv
    <3>4. QED
      BY <1>7, <3>1, <3>2, <3>3 DEF Serve, Dispatch
  <2>3. ThreadType' /\ VerdictInv'
    BY <1>7 DEF Serve, IInv, ThreadType, VerdictInv, engineVars
  <2>4. QED
    BY <2>1, <2>2, <2>3 DEF IInv, ConnInv
<1>8. CASE Decided
  <2>1. ConnInv' /\ Sound(rules')
    BY <1>3, <1>8 DEF Decided, IInv
  <2>2. ThreadType' /\ VerdictInv'
    BY <1>1, <1>8, ClosedByThen DEF Decided, IInv, ThreadType, VerdictInv
  <2>3. QED
    BY <2>1, <2>2 DEF IInv, ConnInv
<1>9. CASE Record \/ RunReturns
  <2>1. ConnInv' /\ Sound(rules')
    BY <1>3, <1>9 DEF Record, RunReturns, IInv
  <2>2. ThreadType' /\ VerdictInv'
    BY <1>9, AgentAssumption DEF Record, RunReturns, IInv, ThreadType, VerdictInv
  <2>3. QED
    BY <2>1, <2>2 DEF IInv, ConnInv
<1>10. CASE WriterTakes \/ WriterEnds
  <2>1. ConnInv' /\ Sound(rules')
    BY <1>3, <1>10 DEF WriterTakes, WriterEnds, IInv
  <2>2. ThreadType' /\ VerdictInv'
    BY <1>10, AgentAssumption DEF WriterTakes, WriterEnds, WriterAfter, IInv, ThreadType, VerdictInv
  <2>3. QED
    BY <2>1, <2>2 DEF IInv, ConnInv
<1>11. CASE StopBegins
  <2>1. ConnInv'
    BY <1>1, <1>11 DEF StopBegins, CloseListener, Gone, ConnInv, IpcTypeOK, AcceptInv, StopInv,
                       Handling, ResetByClose, Acceptor, Client, Server
  <2>2. QED
    BY <1>2, <1>11, <2>1 DEF StopBegins, IInv, ConnInv
<1>12. CASE Deferred
  <2>1. done' = done + 1 /\ done' \in 0..6
    <3>1. Len(Order) = 6
      BY <1>1, ClosedByThen
    <3>2. done < 6 /\ done' = done + 1
      BY <1>12, <3>1 DEF Deferred
    <3>3. QED
      BY <1>1, <3>2
  <2>2. done' = 3 => acceptor = "gone" /\ Handling = {}
    <3> SUFFICES ASSUME done' = 3 PROVE acceptor = "gone" /\ Handling = {}
      OBVIOUS
    <3>1. done = 2
      BY <1>1, <2>1
    <3>2. Order[done + 1] = "ipc"
      BY <1>1, <3>1, ClosedByThen
    <3>3. CASE listener = "none"
      BY <1>1, <3>3 DEF ConnInv, AcceptInv
    <3>4. CASE WaitReturns
      BY <3>4 DEF WaitReturns, Counted
    <3>5. QED
      BY <1>12, <3>2, <3>3, <3>4 DEF Deferred
  <2>3. StopInv'
    BY <1>1, <1>12, <2>1, <2>2 DEF Deferred, ipcVars, ConnInv, StopInv, Handling
  <2>4. IpcTypeOK' /\ AcceptInv'
    BY <1>12 DEF Deferred, ipcVars, IInv, IpcTypeOK, AcceptInv, Handling
  <2>5. ThreadType' /\ VerdictInv' /\ Sound(rules')
    BY <1>12, <2>1 DEF Deferred, engineVars, IInv, ThreadType, VerdictInv
  <2>6. QED
    BY <2>3, <2>4, <2>5 DEF IInv
<1>13. QED
  <2>1. CASE \E c \in Conns : Clients(c) /\ UNCHANGED <<rules, engineVars, done>>
    BY <2>1, <1>5
  <2>2. CASE Goroutines
    BY <2>2, <1>6, <1>7, <1>8, <1>9, <1>10, <1>11, <1>12 DEF Goroutines
  <2>3. QED
    BY <2>1, <2>2, <1>4 DEF Next

LEMMA Invariance == Safety => []IInv
BY InitHolds, AgentStep, PTL DEF Safety

(* The types, and with them the unique index and the primary key of the rule
   table under the requests of any number of clients. *)
THEOREM AgentTyped == Safety => []TypeOK
<1>1. IInv => TypeOK
  <2> SUFFICES ASSUME IInv PROVE TypeOK
    OBVIOUS
  <2>1. Len(Order) = 6
    BY DEF Order
  <2>2. QED
    BY <2>1 DEF IInv, ThreadType, Sound, TypeOK
<1>2. QED
  BY <1>1, Invariance, PTL

(* No handler is between reading a request and answering it when main closes
   the stores: srv.Stop has returned by then (server.go:36, main.go's defers). *)
THEOREM HandlersEndFirst == Safety => []ServedFromOpenStores
<1>1. IInv => ServedFromOpenStores
  <2> SUFFICES ASSUME IInv, NEW c \in Conns, server[c] = "serving", Closed("audit")
               PROVE  FALSE
    BY DEF ServedFromOpenStores
  <2>1. done >= 4
    BY ClosedByThen DEF IInv, ThreadType
  <2>2. Handling = {}
    BY <2>1 DEF IInv, ThreadType, StopInv
  <2>3. QED
    BY <2>2 DEF Handling
<1>2. QED
  BY <1>1, Invariance, PTL

(* A verdict taken without the rules is never delivered: the hook is closed
   long before the rule store. *)
THEOREM VerdictsSawTheRules == Safety => []NoVerdictFromClosedStore
<1>1. IInv => NoVerdictFromClosedStore
  BY ClosedByThen DEF IInv, ThreadType, VerdictInv, NoVerdictFromClosedStore
<1>2. QED
  BY <1>1, Invariance, PTL

(* An accepted connection loses its agent's end only after a malformed frame,
   or once its client waits for nothing. *)
THEOREM AcceptedAreAnswered == Safety => StopIsGraceful
<1> DEFINE Graceful ==
      \A c \in Conns :
         client[c] = "waiting" /\ server[c] \in {"accepted", "reading", "serving"} /\ server'[c] = "none"
           => request[c] = Malformed
<1>1. IInv /\ [Next]_agentVars => [Graceful]_agentVars
  <2> SUFFICES ASSUME IInv, Next, NEW c \in Conns, client[c] = "waiting",
                      server[c] \in {"accepted", "reading", "serving"}, server'[c] = "none"
               PROVE  request[c] = Malformed
    OBVIOUS
  <2>1. server \in [Conns -> Server]
    BY DEF IInv, IpcTypeOK
  <2>2. server' # server
    OBVIOUS
  <2>3. ASSUME NEW d \in Conns, Clients(d) PROVE FALSE
    BY <2>1, <2>3 DEF Clients, Dial, Send, HangUp
  <2>4. ASSUME NEW d \in Conns, Accept(d) \/ Spawn(d) \/ ReadRequest(d) \/ Respond(d) PROVE FALSE
    BY <2>1, <2>4 DEF Accept, Spawn, ReadRequest, Respond
  <2>5. ASSUME NEW d \in Conns, CloseConn(d) PROVE request[c] = Malformed
    BY <2>1, <2>5 DEF CloseConn, Gone
  <2>6. ~CloseListener
    BY <2>1 DEF CloseListener, Gone, ResetByClose
  <2>7. QED
    <3>1. ~(UNCHANGED server)
      BY <2>2
    <3>2. ~AcceptFails /\ ~StopBegins
      BY <2>6, <3>1 DEF AcceptFails, StopBegins
    <3>3. ~Decided /\ ~Record /\ ~RunReturns /\ ~WriterTakes /\ ~WriterEnds /\ ~Deferred
      BY <3>1 DEF Decided, Record, RunReturns, WriterTakes, WriterEnds, Deferred, ipcVars
    <3>4. QED
      BY <2>3, <2>4, <2>5, <3>2, <3>3 DEF Next, Goroutines, Handler, Serve
<1>2. QED
  BY <1>1, Invariance, PTL DEF Safety, StopIsGraceful
=============================================================================

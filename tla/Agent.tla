------------------------------- MODULE Agent -------------------------------
(***************************************************************************)
(* The agent process as main wires it: the engine's run loop hands audit   *)
(* rows to a writer over a bounded channel, the IPC handlers serve the     *)
(* command line from both stores, and on SIGTERM main's deferred calls     *)
(* take it all down while the other goroutines go on running until the     *)
(* process is gone.  What a decision answers is Engine.tla's, and the race *)
(* with the safety timer EsGlue.tla's.                                     *)
(***************************************************************************)
EXTENDS Ipc, Sequences

CONSTANT AuditCap    \* capacity of auditCh (256 in the source)

ASSUME AgentAssumption == AuditCap \in Nat \ {0}

VARIABLES
  rules,     \* the rule table
  auditCh,   \* rows in the channel
  writer,    \* the audit writer: waiting, in an INSERT, or gone
  decider,   \* the run loop: idle, with a decision to record, or gone
  sound,     \* the rule store was open when that decision read it
  done       \* how many of main's deferred calls have returned

engineVars == <<auditCh, writer, decider, sound>>
agentVars  == <<ipcVars, rules, engineVars, done>>

(* Mutant: the rule store is closed first. *)
StoresFirst == <<"rules", "audit", "cancel", "hook", "ipc", "exit">>

(* main's deferred calls run last in, first out. *)
Order == <<"cancel", "hook", "ipc", "audit", "rules", "exit">>

Closed(part) == part \in {Order[i] : i \in 1..done}

TypeOK ==
  /\ IpcTypeOK
  /\ UniqueIndex(rules) /\ PrimaryKey(rules)
  /\ auditCh \in 0..AuditCap /\ writer \in {"waiting", "inserting", "gone"}
  /\ decider \in {"idle", "record", "gone"} /\ sound \in BOOLEAN
  /\ done \in 0..Len(Order)

Init ==
  /\ IpcInit
  /\ rules = {}
  /\ auditCh = 0 /\ writer = "waiting" /\ decider = "idle" /\ sound = TRUE
  /\ done = 0

-----------------------------------------------------------------------------
(* daemonBackend, called by dispatch *)

(* AddRule: an error, and no row, when the key is taken.  A closed store
   changes nothing. *)
AddRule(row) == IF Closed("rules") THEN rules ELSE InsertRow(rules, row)

(* RevokeRule: no such rule is no error. *)
RevokeRule(id) == IF Closed("rules") THEN rules ELSE RevokeRow(rules, id)

(* TailAudit and Status wait for the one connection of the audit store,
   which the writer holds during an INSERT. *)
AuditIdle == writer # "inserting"

(* dispatch: one call of the backend, one frame back. *)
Dispatch(r) ==
  /\ r.tag \in {"tail", "status"} => AuditIdle
  /\ rules' = CASE r.tag = "add"    -> AddRule(r.row)
               [] r.tag = "revoke" -> RevokeRule(r.id)
               [] OTHER            -> rules

Serve(c) == Respond(c) /\ Dispatch(request[c]) /\ UNCHANGED <<engineVars, done>>

-----------------------------------------------------------------------------
(* The run loop and the audit writer *)

(* Next has returned an event, and decideInner has looked up the rules: a
   store that is closed gives an error, taken for "no rule". *)
Decided ==
  /\ decider = "idle"
  /\ decider' = "record" /\ sound' = ~Closed("rules")
  /\ UNCHANGED <<ipcVars, rules, auditCh, writer, done>>

(* Mutant: no room in the channel is a reason to wait. *)
RecordWaits ==
  /\ decider = "record" /\ auditCh < AuditCap
  /\ auditCh' = auditCh + 1
  /\ decider' = "idle"
  /\ UNCHANGED <<ipcVars, rules, writer, sound, done>>

(* The row is pushed, or dropped when the channel is full, and only then is
   the answer given. *)
Record ==
  /\ decider = "record"
  /\ auditCh' = IF auditCh < AuditCap THEN auditCh + 1 ELSE auditCh
  /\ decider' = "idle"
  /\ UNCHANGED <<ipcVars, rules, writer, sound, done>>

(* The context is done: Run returns.  Next may also take another event. *)
RunReturns ==
  /\ decider = "idle" /\ Closed("cancel")
  /\ decider' = "gone"
  /\ UNCHANGED <<ipcVars, rules, auditCh, writer, sound, done>>

WriterTakes ==
  /\ writer = "waiting" /\ auditCh > 0
  /\ writer' = "inserting" /\ auditCh' = auditCh - 1
  /\ UNCHANGED <<ipcVars, rules, decider, sound, done>>

(* Mutant: a panic is the end of the writer. *)
WriterDies(how) == IF how = "panic" THEN "gone" ELSE "waiting"

(* An error is logged; a panic is followed by a new goroutine. *)
WriterAfter(how) == "waiting"

(* Log returns, the row in the table or lost; a closed store is an error. *)
WriterEnds ==
  /\ writer = "inserting"
  /\ \E how \in {"logged", "error", "panic"} :
       /\ Closed("audit") => how # "logged"
       /\ writer' = WriterAfter(how)
  /\ UNCHANGED <<ipcVars, rules, auditCh, decider, sound, done>>

-----------------------------------------------------------------------------
(* Shutdown.  Each deferred call returns at once, except srv.Stop. *)

StopBegins ==
  /\ done < Len(Order) /\ Order[done + 1] = "ipc"
  /\ CloseListener
  /\ UNCHANGED <<rules, engineVars, done>>

Deferred ==
  /\ done < Len(Order)
  /\ Order[done + 1] = "ipc" => listener = "none" \/ WaitReturns
  /\ done' = done + 1
  /\ UNCHANGED <<ipcVars, rules, engineVars>>

-----------------------------------------------------------------------------
Alive == ~Closed("exit")

Handler(c) == Accept(c) \/ Spawn(c) \/ ReadRequest(c) \/ CloseConn(c)

Clients(c) == Dial(c) \/ HangUp(c) \/ \E r \in Requests[c] : Send(c, r)

Goroutines ==
  \/ /\ AcceptFails \/ \E c \in Conns : Handler(c)
     /\ UNCHANGED <<rules, engineVars, done>>
  \/ \E c \in Conns : Serve(c)
  \/ Decided \/ Record \/ RunReturns \/ WriterTakes \/ WriterEnds
  \/ StopBegins \/ Deferred

Next ==
  \/ Alive /\ Goroutines
  \/ (\E c \in Conns : Clients(c)) /\ UNCHANGED <<rules, engineVars, done>>

Safety == Init /\ [][Next]_agentVars

(* Goroutines that can take a step take one; connections are accepted in
   their order, and the audit store's connection goes to whoever waits for
   it, hence the strong fairness; and a shutdown, once begun, goes on.
   Nothing is asked of Decided, of the INSERT or of a client.  The subscripts
   are variables these actions always change. *)
Fairness ==
  /\ \A c \in Conns : /\ SF_server(Alive /\ Accept(c))
                      /\ SF_server(Alive /\ Serve(c))
                      /\ WF_server(Alive /\ Handler(c))
  /\ WF_acceptor(Alive /\ AcceptFails)
  /\ WF_decider(Alive /\ Record) /\ WF_auditCh(Alive /\ WriterTakes)
  /\ WF_listener(Alive /\ StopBegins) /\ WF_done(done > 0 /\ Deferred)

Spec == Safety /\ Fairness

(* Hypotheses of some of the properties. *)
InsertsReturn == WF_writer(Alive /\ WriterEnds)
ClientsHangUp == WF_client(\E c \in Conns : HangUp(c))

-----------------------------------------------------------------------------
(* A request that was read is served from stores that are still open: the
   stores are closed after Stop, and Stop returns after the last handler,
   one that Accept has only just returned a connection for included. *)
ServedFromOpenStores == \A c \in Conns : server[c] = "serving" => ~Closed("audit")

(* The run loop is not waited for, and a decision that finds the rule store
   closed takes every allow rule for absent.  No process is told such a
   verdict: the client of EndpointSecurity is deleted before. *)
NoVerdictFromClosedStore == decider = "record" /\ ~Closed("hook") => sound

(* Stop is graceful: once a connection has been accepted, its client gets an
   answer to every request it waits for, or had sent a malformed one. *)
StopIsGraceful ==
  [][\A c \in Conns :
       client[c] = "waiting" /\ server[c] \in {"accepted", "reading", "serving"} /\ server'[c] = "none"
         => request[c] = Malformed]_agentVars

(* A call of the command line returns, whatever other clients do -- one that
   connects and stays silent holds up nobody -- and through a shutdown. *)
CallReturns ==
  InsertsReturn => \A c \in Conns : (client[c] = "waiting") ~> (client[c] # "waiting")

(* The audit log costs rows and nothing else.  An answer is not held up by
   it, even by an INSERT that never returns; and as long as INSERTs return,
   the channel does not stay full, whether they succeed, fail or panic. *)
AuditHoldsUpNobody ==
  /\ (decider = "record") ~> (decider # "record" \/ ~Alive)
  /\ InsertsReturn => ((auditCh = AuditCap) ~> (auditCh < AuditCap \/ ~Alive))

(* The agent stops when asked to, provided that every client hangs up in
   the end: srv.Stop waits for each handler, and a handler for its client. *)
ShutdownReturns ==
  InsertsReturn /\ ClientsHangUp => ((done > 0) ~> ~Alive)
=============================================================================

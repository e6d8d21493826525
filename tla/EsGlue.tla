------------------------------- MODULE EsGlue -------------------------------
(***************************************************************************)
(* The EndpointSecurity hook: internal/hook/esf_glue.c and esf_darwin.go.  *)
(*                                                                         *)
(* Every AUTH_OPEN message gets a heap record (scdlp_pending_t) that two   *)
(* parties hold: the Go decision path and a safety timer armed before the  *)
(* event is handed to Go.  Both run respond_once and then drop their       *)
(* reference; an atomic exchange on `responded` picks the one that answers *)
(* the kernel.  The threads are the ES callback, the agent loop that       *)
(* drains the bounded channel, one timer block per message, and Close.     *)
(*                                                                         *)
(* The agent's decision is an arbitrary verdict here (Engine.tla says      *)
(* which).  When mute_self failed, the files the engine reads while it     *)
(* decides come back as AUTH_OPEN messages of its own.                     *)
(***************************************************************************)
EXTENDS Naturals, Sequences, FiniteSets

CONSTANTS Msgs,        \* AUTH_OPEN messages of one history
          QueueCap,    \* capacity of the channel h.q (256 in the source)
          MaxRejects,  \* bound: answers the framework may reject in a history
          None         \* no message

ASSUME EsGlueAssumption == QueueCap \in Nat \ {0} /\ MaxRejects \in Nat /\ None \notin Msgs

VARIABLES
  kstat,      \* the kernel's view of each message
  goAt,       \* how far the Go side's reference to a message has travelled
  pc,         \* pc[m][p]: where party p stands in answering m
  responded,  \* scdlp_pending_t.responded
  refs,       \* scdlp_pending_t.refs
  freed,      \* the record has been freed
  winner,     \* the party whose exchange found responded = 0
  verdict,    \* the `allow` argument of scdlp_es_respond, once called
  answers,    \* number of es_respond + es_release_message pairs (history)
  cb,         \* the message the ES callback thread handles, or None
  cbAt,       \* where that thread is
  queue,      \* the channel h.q
  loop,       \* the message the agent loop handles, or None
  loopAt,     \* where the agent loop is
  selfOpen,   \* the engine's own blocked open, or None
  muted,      \* scdlp_es_mute_self succeeded
  closing,    \* progress of shutdown: Close, then es_delete_client
  count       \* the diagnostic counters of ESFHook

kernelVars == <<kstat, answers>>
pendVars   == <<pc, responded, refs, freed, winner>>
cbVars     == <<cb, cbAt>>
loopVars   == <<loop, loopAt, selfOpen>>
vars == <<kernelVars, goAt, pendVars, verdict, cbVars, queue, loopVars,
          muted, closing, count>>

Parties  == {"go", "timer"}
Verdicts == {"allow", "deny"}
KStat    == {"unopened", "waiting", "rejected", "detached"} \cup Verdicts
GoAt     == {"kernel", "callback", "queued", "agent", "inline", "orphan"}
PC       == {"idle", "ready", "answer", "unref", "done"}
Counters == {"seen", "agent", "deadline", "full", "error"}

MessageType ==
  /\ kstat \in [Msgs -> KStat]
  /\ goAt \in [Msgs -> GoAt]
  /\ pc \in [Msgs -> [Parties -> PC]]
  /\ responded \in [Msgs -> BOOLEAN]
  /\ refs \in [Msgs -> 0..2]
  /\ freed \in [Msgs -> BOOLEAN]
  /\ winner \in [Msgs -> Parties \cup {"nobody"}]
  /\ verdict \in [Msgs -> Verdicts \cup {"none"}]
  /\ answers \in [Msgs -> Nat]

ThreadType ==
  /\ cb \in Msgs \cup {None}
  /\ cbAt \in {"idle", "armed", "handoff", "inline"}
  /\ loop \in Msgs \cup {None}
  /\ loopAt \in {"next", "decide", "reading", "respond", "exited"}
  /\ selfOpen \in Msgs \cup {None}
  /\ muted \in BOOLEAN
  /\ closing \in {"open", "inactive", "released"}

(* Every variable keeps its type; refs never leaves 0..2, so no reference
   is dropped twice. *)
TypeOK ==
  /\ MessageType
  /\ ThreadType
  /\ count \in [Counters -> Nat]
  /\ queue \in Seq(Msgs)

Init ==
  /\ kstat = [m \in Msgs |-> "unopened"]
  /\ goAt = [m \in Msgs |-> "kernel"]
  /\ pc = [m \in Msgs |-> [p \in Parties |-> "idle"]]
  /\ responded = [m \in Msgs |-> FALSE]
  /\ refs = [m \in Msgs |-> 0]
  /\ freed = [m \in Msgs |-> FALSE]
  /\ winner = [m \in Msgs |-> "nobody"]
  /\ verdict = [m \in Msgs |-> "none"]
  /\ answers = [m \in Msgs |-> 0]
  /\ cb = None /\ cbAt = "idle"
  /\ queue = << >>
  /\ loop = None /\ loopAt = "next" /\ selfOpen = None
  /\ muted \in BOOLEAN
  /\ closing = "open"
  /\ count = [c \in Counters |-> 0]

(* `active` as the callbacks read it: nil once Close has run. *)
Active == closing = "open"

(* A counter of the hook, bumped by a thread that found the hook active. *)
Bump(c, yes) == [count EXCEPT ![c] = IF yes THEN @ + 1 ELSE @]

-----------------------------------------------------------------------------
(* The kernel and the ES callback thread *)

(* Some process opens a watched file and blocks. *)
Open(m) ==
  /\ closing # "released"
  /\ kstat[m] = "unopened"
  /\ kstat' = [kstat EXCEPT ![m] = "waiting"]
  /\ UNCHANGED <<goAt, pendVars, verdict, answers, cbVars, queue, loopVars,
                 muted, closing, count>>

(* Mutants: one reference too few, and one too many. *)
OneRef    == 1
ThreeRefs == 3

(* References taken at receipt: one for the Go path, one for the timer. *)
InitialRefs == 2

(* Mutant: the safety timer is not armed at receipt. *)
DeliverUnarmed(m) ==
  /\ cb = None
  /\ closing # "released"
  /\ kstat[m] = "waiting"
  /\ goAt[m] = "kernel"
  /\ goAt' = [goAt EXCEPT ![m] = "callback"]
  /\ refs' = [refs EXCEPT ![m] = InitialRefs]
  /\ cb' = m /\ cbAt' = "armed"
  /\ UNCHANGED <<kernelVars, pc, responded, freed, winner, verdict, queue, loopVars,
                 muted, closing, count>>

(* The handler block retains the message, allocates the record and arms the
   safety timer, all before Go hears of the event. *)
Deliver(m) ==
  /\ cb = None
  /\ closing # "released"
  /\ kstat[m] = "waiting"
  /\ goAt[m] = "kernel"
  /\ goAt' = [goAt EXCEPT ![m] = "callback"]
  /\ refs' = [refs EXCEPT ![m] = InitialRefs]
  /\ pc' = [pc EXCEPT ![m] = [@ EXCEPT !["timer"] = "ready"]]
  /\ cb' = m /\ cbAt' = "armed"
  /\ UNCHANGED <<kernelVars, responded, freed, winner, verdict, queue, loopVars,
                 muted, closing, count>>

(* scdlpGoOnEvent reads `active` under its lock and lets go of the lock.
   With no hook it returns, and the Go reference is never dropped. *)
ReadActive ==
  /\ cbAt = "armed"
  /\ IF Active
       THEN cbAt' = "handoff" /\ UNCHANGED <<cb, goAt>>
       ELSE /\ cb' = None /\ cbAt' = "idle"
            /\ goAt' = [goAt EXCEPT ![cb] = "orphan"]
  /\ UNCHANGED <<kernelVars, pendVars, verdict, queue, loopVars, muted, closing, count>>

(* case h.q <- p *)
Enqueue ==
  /\ cbAt = "handoff"
  /\ Len(queue) < QueueCap
  /\ queue' = Append(queue, cb)
  /\ goAt' = [goAt EXCEPT ![cb] = "queued"]
  /\ count' = Bump("seen", TRUE)
  /\ cb' = None /\ cbAt' = "idle"
  /\ UNCHANGED <<kernelVars, pendVars, verdict, loopVars, muted, closing>>

(* default: the channel is full, so the callback answers ALLOW itself. *)
AnswerInline ==
  /\ cbAt = "handoff"
  /\ Len(queue) >= QueueCap
  /\ goAt' = [goAt EXCEPT ![cb] = "inline"]
  /\ verdict' = [verdict EXCEPT ![cb] = "allow"]
  /\ pc' = [pc EXCEPT ![cb] = [@ EXCEPT !["go"] = "ready"]]
  /\ count' = Bump("full", TRUE)
  /\ cbAt' = "inline"
  /\ UNCHANGED <<kernelVars, responded, refs, freed, winner, cb, queue, loopVars,
                 muted, closing>>

-----------------------------------------------------------------------------
(* The agent loop *)

(* Next takes the oldest queued event.  The select may still do so after
   the context is cancelled. *)
AgentNext ==
  /\ loopAt = "next"
  /\ queue # << >>
  /\ loop' = Head(queue) /\ loopAt' = "decide"
  /\ queue' = Tail(queue)
  /\ goAt' = [goAt EXCEPT ![Head(queue)] = "agent"]
  /\ UNCHANGED <<kernelVars, pendVars, verdict, cbVars, selfOpen, muted, closing, count>>

(* Next returns ctx.Err() and Run returns. *)
AgentExit ==
  /\ loopAt = "next"
  /\ closing # "open"
  /\ loopAt' = "exited"
  /\ UNCHANGED <<kernelVars, goAt, pendVars, verdict, cbVars, queue, loop, selfOpen,
                 muted, closing, count>>

(* Without the self mute, a file the engine reads is one more AUTH_OPEN, and
   the loop blocks in open(2) until that message is settled. *)
AgentReads(m) ==
  /\ ~muted
  /\ loopAt = "decide"
  /\ closing # "released"
  /\ kstat[m] = "unopened"
  /\ kstat' = [kstat EXCEPT ![m] = "waiting"]
  /\ selfOpen' = m /\ loopAt' = "reading"
  /\ UNCHANGED <<goAt, pendVars, verdict, answers, cbVars, queue, loop, muted,
                 closing, count>>

AgentReadReturns ==
  /\ loopAt = "reading"
  /\ kstat[selfOpen] # "waiting"
  /\ selfOpen' = None /\ loopAt' = "decide"
  /\ UNCHANGED <<kernelVars, goAt, pendVars, verdict, cbVars, queue, loop, muted,
                 closing, count>>

(* decide(e.Decide(ev)): the loop calls scdlp_es_respond. *)
AgentDecides(v) ==
  /\ loopAt = "decide"
  /\ verdict' = [verdict EXCEPT ![loop] = v]
  /\ pc' = [pc EXCEPT ![loop] = [@ EXCEPT !["go"] = "ready"]]
  /\ loopAt' = "respond"
  /\ UNCHANGED <<kernelVars, goAt, responded, refs, freed, winner, cbVars, queue,
                 loop, selfOpen, muted, closing, count>>

-----------------------------------------------------------------------------
(* respond_once and pending_unref, run by both parties *)

(* Mutant: `responded` is set but its old value is not looked at. *)
ExchangeBlind(m, p) ==
  /\ pc[m][p] = "ready"
  /\ responded' = [responded EXCEPT ![m] = TRUE]
  /\ pc' = [pc EXCEPT ![m] = [@ EXCEPT ![p] = "answer"]]
  /\ winner' = [winner EXCEPT ![m] = p]
  /\ UNCHANGED <<kernelVars, goAt, refs, freed, verdict, cbVars, queue, loopVars,
                 muted, closing, count>>

(* atomic_exchange(&p->responded, 1) *)
Exchange(m, p) ==
  /\ pc[m][p] = "ready"
  /\ responded' = [responded EXCEPT ![m] = TRUE]
  /\ IF responded[m]
       THEN /\ pc' = [pc EXCEPT ![m] = [@ EXCEPT ![p] = "unref"]]
            /\ UNCHANGED winner
       ELSE /\ pc' = [pc EXCEPT ![m] = [@ EXCEPT ![p] = "answer"]]
            /\ winner' = [winner EXCEPT ![m] = p]
  /\ UNCHANGED <<kernelVars, goAt, refs, freed, verdict, cbVars, queue, loopVars,
                 muted, closing, count>>

(* Mutant: the timer fails closed. *)
ResponseFailClosed(m, p) == IF p = "timer" THEN "deny" ELSE verdict[m]

(* The flags a party hands to es_respond_flags_result: the timer always
   allows, the Go path passes its verdict. *)
ResponseOf(m, p) == IF p = "timer" THEN "allow" ELSE verdict[m]

(* es_respond_flags_result, which may reject the answer, then
   es_release_message.  A deleted client answers nobody. *)
Answer(m, p) ==
  /\ pc[m][p] = "answer"
  /\ \E ok \in BOOLEAN :
       /\ closing = "released" => ~ok
       /\ ok \/ closing = "released" \/ count["error"] < MaxRejects
       /\ kstat' = [kstat EXCEPT ![m] =
                      IF closing = "released" THEN @
                      ELSE IF ok THEN ResponseOf(m, p) ELSE "rejected"]
       /\ count' = Bump("error", ~ok /\ Active)
  /\ answers' = [answers EXCEPT ![m] = @ + 1]
  /\ pc' = [pc EXCEPT ![m] = [@ EXCEPT ![p] = "unref"]]
  /\ UNCHANGED <<goAt, responded, refs, freed, winner, verdict, cbVars, queue,
                 loopVars, muted, closing>>

(* Mutant: the agent counts an event whether or not it beat the timer. *)
CountAlways(m, p) ==
  IF p = "timer" THEN (IF winner[m] = p THEN Bump("deadline", Active) ELSE count)
  ELSE Bump("agent", goAt[m] = "agent")

(* What the party counts when its respond_once won.  The inline answer has
   been counted as queue-full already. *)
CountWin(m, p) ==
  IF winner[m] # p THEN count
  ELSE IF p = "timer" THEN Bump("deadline", Active)
  ELSE Bump("agent", goAt[m] = "agent")

(* Mutant: the record is freed when the count was already zero. *)
UnrefLate(m, p) ==
  /\ pc[m][p] = "unref"
  /\ refs' = [refs EXCEPT ![m] = @ - 1]
  /\ freed' = [freed EXCEPT ![m] = refs[m] = 0]
  /\ pc' = [pc EXCEPT ![m] = [@ EXCEPT ![p] = "done"]]
  /\ count' = CountWin(m, p)
  /\ IF p = "go" /\ loop = m
       THEN loop' = None /\ loopAt' = "next" /\ UNCHANGED cbVars
       ELSE /\ UNCHANGED <<loop, loopAt>>
            /\ IF p = "go" /\ cb = m
                 THEN cb' = None /\ cbAt' = "idle"
                 ELSE UNCHANGED cbVars
  /\ UNCHANGED <<kernelVars, goAt, responded, winner, verdict, queue, selfOpen,
                 muted, closing>>

(* pending_unref: the last party out frees the record.  The Go party's
   thread is then back at the top of its loop, or out of the callback. *)
Unref(m, p) ==
  /\ pc[m][p] = "unref"
  /\ refs' = [refs EXCEPT ![m] = @ - 1]
  /\ freed' = [freed EXCEPT ![m] = refs[m] = 1]
  /\ pc' = [pc EXCEPT ![m] = [@ EXCEPT ![p] = "done"]]
  /\ count' = CountWin(m, p)
  /\ IF p = "go" /\ loop = m
       THEN loop' = None /\ loopAt' = "next" /\ UNCHANGED cbVars
       ELSE /\ UNCHANGED <<loop, loopAt>>
            /\ IF p = "go" /\ cb = m
                 THEN cb' = None /\ cbAt' = "idle"
                 ELSE UNCHANGED cbVars
  /\ UNCHANGED <<kernelVars, goAt, responded, winner, verdict, queue, selfOpen,
                 muted, closing>>

-----------------------------------------------------------------------------
(* Shutdown *)

(* main returns on SIGTERM: its deferred cancel() and Close() run, the
   context is done, closed = true and active = nil. *)
CloseHook ==
  /\ closing = "open"
  /\ closing' = "inactive"
  /\ UNCHANGED <<kernelVars, goAt, pendVars, verdict, cbVars, queue, loopVars,
                 muted, count>>

(* es_unsubscribe_all and es_delete_client: the kernel stops waiting. *)
ReleaseClient ==
  /\ closing = "inactive"
  /\ closing' = "released"
  /\ kstat' = [m \in Msgs |-> IF kstat[m] = "waiting" THEN "detached" ELSE kstat[m]]
  /\ UNCHANGED <<goAt, pendVars, verdict, answers, cbVars, queue, loopVars, muted, count>>

-----------------------------------------------------------------------------
Respond(m, p) == Exchange(m, p) \/ Answer(m, p) \/ Unref(m, p)

Callback == (\E m \in Msgs : Deliver(m)) \/ ReadActive \/ Enqueue \/ AnswerInline
Agent    == AgentNext \/ AgentReadReturns \/ \E v \in Verdicts : AgentDecides(v)
Shutdown == CloseHook \/ ReleaseClient

Next ==
  \/ \E m \in Msgs : Open(m) \/ AgentReads(m) \/ \E p \in Parties : Respond(m, p)
  \/ Callback \/ Agent \/ AgentExit \/ Shutdown

(* The ES callback thread never blocks, dispatch runs every due timer block,
   and a thread inside respond_once blocks on nothing, so whichever party won
   the exchange goes on to answer.  An open(2) that is settled returns.
   Nothing else is asked of the agent loop: it may stall for ever while it
   decides.  The subscripts are variables these actions always change. *)
CallbackFairness == WF_cbAt(Callback) /\ \A m \in Msgs : WF_cbAt(Deliver(m))
TimerFairness    == \A m \in Msgs : WF_pc(Respond(m, "timer"))
AnswerFairness   == \A m \in Msgs, p \in Parties : WF_pc(Answer(m, p))
ReadFairness     == WF_loopAt(AgentReadReturns)
InlineFairness   == \A m \in Msgs : WF_pc(goAt[m] = "inline" /\ Respond(m, "go"))

Fairness == CallbackFairness /\ TimerFairness /\ AnswerFairness
            /\ InlineFairness /\ ReadFairness

Safety == Init /\ [][Next]_vars
Spec   == Safety /\ Fairness

(* An agent loop that keeps running. *)
AgentFairness == /\ WF_loopAt(Agent)
                 /\ \A m \in Msgs : WF_pc(goAt[m] = "agent" /\ Respond(m, "go"))

-----------------------------------------------------------------------------
(* Properties *)

(* Each message is answered and released at most once, however the timer,
   the agent loop and the inline path interleave (respond_once). *)
AnsweredOnce == \A m \in Msgs : answers[m] <= 1

(* No thread that still has the record to read or to unref can find it
   freed, wherever the Go side's cookie is (pending_unref). *)
NoUseAfterFree ==
  \A m \in Msgs : freed[m] =>
     /\ goAt[m] \notin {"callback", "queued", "orphan"}
     /\ loop # m /\ cb # m
     /\ \A p \in Parties : pc[m][p] = "done"

(* A record both parties are done with is freed, and by then the message has
   been answered: nothing leaks and nothing is dropped unanswered. *)
NothingForgotten ==
  \A m \in Msgs : (\A p \in Parties : pc[m][p] = "done") => freed[m] /\ answers[m] = 1

(* An open is refused only by a deny of the engine that beat the timer; a
   full queue, a slow agent and the timer itself all fail open. *)
DenyOnlyFromAgent ==
  \A m \in Msgs : kstat[m] = "deny" =>
     goAt[m] = "agent" /\ verdict[m] = "deny" /\ winner[m] = "go"

Settled(m) == \A p \in Parties : pc[m][p] = "done"

(* When everything delivered is settled and the hook is still active, the
   counters account for every message: each was queued or found the queue
   full, each was answered by the agent, by the timer or inline, and each
   answer the framework rejected was counted. *)
CountersBalance ==
  LET delivered == {m \in Msgs : goAt[m] # "kernel"} IN
  (Active /\ cb = None /\ \A m \in delivered : Settled(m)) =>
     /\ count["error"] = Cardinality({m \in Msgs : kstat[m] = "rejected"})
     /\ count["seen"] + count["full"] = Cardinality(delivered)
     /\ count["agent"] + count["deadline"] <= Cardinality(delivered)
     /\ count["agent"] + count["deadline"] + count["full"] >= Cardinality(delivered)

(* Every blocked open is settled even if the agent loop never runs again. *)
OpenSettles == \A m \in Msgs : (kstat[m] = "waiting") ~> (kstat[m] # "waiting")

(* A loop that blocks on its own open (self mute failed) is not behind
   itself for ever: the timer frees it. *)
SelfOpenReturns == (loopAt = "reading") ~> (loopAt # "reading")

(* With an agent loop that runs, a queued record is freed in the end, unless
   the hook is being shut down. *)
QueuedIsFreed ==
  AgentFairness =>
     \A m \in Msgs : (goAt[m] = "queued") ~> (freed[m] \/ closing # "open")

(* What the kernel sees is an AuthOpen client. *)
Decision(m) == IF goAt[m] = "agent" THEN verdict[m] ELSE "none"

AO == INSTANCE AuthOpen WITH
        status  <- kstat,
        decided <- [m \in Msgs |-> Decision(m)],
        gone    <- closing = "released"

ImplementsAuthOpen == AO!Spec
=============================================================================

---------------------------- MODULE EsGlueProofs ----------------------------
(***************************************************************************)
(* Proofs about EsGlue, for any set of messages and any channel capacity.  *)
(*                                                                         *)
(* The inductive invariant IInv says, per message, how the reference       *)
(* count, the exchange flag and the two parties' positions hang together   *)
(* (RecordInv), what the kernel can have been told (KernelInv), and that   *)
(* the callback, the queue and the agent loop each own the messages they   *)
(* are about to touch (CallbackInv, LoopInv, QueueInv).                    *)
(* On top of it CInv says what each counter counts (Tallies) as long as    *)
(* the hook is active; nothing but Close ends that, and nothing restores   *)
(* it.                                                                     *)
(***************************************************************************)
EXTENDS EsGlue, FiniteSetTheorems, TLAPS

Waits(m, p) == IF pc[m][p] = "done" THEN 0 ELSE 1

RecordInv(m) ==
  /\ goAt[m] = "kernel" =>
        /\ pc[m]["timer"] = "idle" /\ refs[m] = 0 /\ ~freed[m]
  /\ goAt[m] # "kernel" =>
        /\ pc[m]["timer"] # "idle"
        /\ refs[m] = Waits(m, "go") + Waits(m, "timer")
        /\ freed[m] <=> (pc[m]["go"] = "done" /\ pc[m]["timer"] = "done")
  /\ pc[m]["go"] = "idle" <=> verdict[m] = "none"
  /\ goAt[m] \notin {"agent", "inline"} => verdict[m] = "none"
  /\ goAt[m] = "inline" => verdict[m] = "allow"

ExchangeInv(m) ==
  /\ responded[m] <=> winner[m] # "nobody"
  /\ winner[m] = "nobody" => answers[m] = 0
  /\ \A p \in Parties :
        /\ winner[m] = p => /\ pc[m][p] \in {"answer", "unref", "done"}
                            /\ answers[m] = IF pc[m][p] = "answer" THEN 0 ELSE 1
        /\ pc[m][p] = "answer" => winner[m] = p
        /\ pc[m][p] \in {"unref", "done"} => responded[m]

KernelInv(m) ==
  /\ goAt[m] # "kernel" => kstat[m] # "unopened"
  /\ kstat[m] \in {"allow", "deny", "rejected"} => answers[m] = 1
  /\ kstat[m] = "detached" => closing = "released"
  /\ kstat[m] = "deny" => goAt[m] = "agent" /\ verdict[m] = "deny" /\ winner[m] = "go"

InRespond(m) == pc[m]["go"] \in {"ready", "answer", "unref"}

CallbackInv ==
  /\ cb = None <=> cbAt = "idle"
  /\ cbAt \in {"armed", "handoff"} => goAt[cb] = "callback"
  /\ cbAt = "inline" => goAt[cb] = "inline" /\ InRespond(cb)

LoopInv ==
  /\ loop = None <=> loopAt \in {"next", "exited"}
  /\ loop # None => goAt[loop] = "agent"
  /\ loopAt \in {"decide", "reading"} => verdict[loop] = "none"
  /\ loopAt = "respond" => InRespond(loop)

QueueInv ==
  /\ queue \in Seq(Msgs)
  /\ \A i \in 1..Len(queue) : goAt[queue[i]] = "queued"
  /\ \A i, j \in 1..Len(queue) : queue[i] = queue[j] => i = j

IInv ==
  /\ MessageType /\ ThreadType /\ count \in [Counters -> Nat]
  /\ \A m \in Msgs : RecordInv(m) /\ ExchangeInv(m) /\ KernelInv(m)
  /\ CallbackInv
  /\ LoopInv
  /\ QueueInv

-----------------------------------------------------------------------------
(* The channel. *)

LEMMA SendFacts ==
  ASSUME NEW S, NEW s \in Seq(S), NEW e \in S
  PROVE  /\ Append(s, e) \in Seq(S)
         /\ Len(s) \in Nat
         /\ Len(Append(s, e)) = Len(s) + 1
         /\ \A i \in 1..Len(s) : Append(s, e)[i] = s[i]
         /\ Append(s, e)[Len(s) + 1] = e
OBVIOUS

LEMMA ReceiveFacts ==
  ASSUME NEW S, NEW s \in Seq(S), s # << >>
  PROVE  /\ Head(s) \in S /\ Head(s) = s[1]
         /\ Tail(s) \in Seq(S)
         /\ Len(s) \in Nat /\ Len(s) >= 1
         /\ Len(Tail(s)) = Len(s) - 1
         /\ \A i \in 1..Len(Tail(s)) : Tail(s)[i] = s[i + 1]
OBVIOUS

LEMMA QueueSend ==
  ASSUME QueueInv, NEW e \in Msgs, goAt[e] = "callback",
         goAt \in [Msgs -> GoAt],
         queue' = Append(queue, e), goAt' = [goAt EXCEPT ![e] = "queued"]
  PROVE  QueueInv'
<1>1. /\ queue' \in Seq(Msgs) /\ Len(queue') = Len(queue) + 1 /\ Len(queue) \in Nat
      /\ \A i \in 1..Len(queue) : queue'[i] = queue[i]
      /\ queue'[Len(queue) + 1] = e
  BY SendFacts DEF QueueInv
<1>2. \A i \in 1..Len(queue) : queue[i] # e /\ queue[i] \in Msgs /\ goAt[queue[i]] = "queued"
  BY DEF QueueInv
<1>3. \A i \in 1..Len(queue') : i \in 1..Len(queue) \/ i = Len(queue) + 1
  BY <1>1
<1>4. ASSUME NEW i \in 1..Len(queue') PROVE goAt'[queue'[i]] = "queued"
  BY <1>1, <1>2, <1>3
<1>5. ASSUME NEW i \in 1..Len(queue'), NEW j \in 1..Len(queue'), queue'[i] = queue'[j]
      PROVE  i = j
  <2>1. CASE i \in 1..Len(queue) /\ j \in 1..Len(queue)
    BY <1>1, <1>5, <2>1 DEF QueueInv
  <2>2. CASE i = Len(queue) + 1 \/ j = Len(queue) + 1
    BY <1>1, <1>2, <1>3, <1>5, <2>2
  <2>3. QED  BY <1>3, <2>1, <2>2
<1>6. QED
  BY <1>1, <1>4, <1>5 DEF QueueInv

LEMMA QueueReceive ==
  ASSUME QueueInv, queue # << >>, goAt \in [Msgs -> GoAt],
         queue' = Tail(queue), goAt' = [goAt EXCEPT ![Head(queue)] = "agent"]
  PROVE  /\ Head(queue) \in Msgs /\ goAt[Head(queue)] = "queued"
         /\ QueueInv'
<1>1. /\ Head(queue) \in Msgs /\ Head(queue) = queue[1] /\ Len(queue) \in Nat
      /\ Len(queue) >= 1 /\ Tail(queue) \in Seq(Msgs) /\ Len(Tail(queue)) = Len(queue) - 1
      /\ \A i \in 1..Len(Tail(queue)) : Tail(queue)[i] = queue[i + 1]
  BY ReceiveFacts DEF QueueInv
<1>2. goAt[Head(queue)] = "queued"
  BY <1>1 DEF QueueInv
<1>3. \A i \in 1..Len(Tail(queue)) : i + 1 \in 1..Len(queue) /\ i + 1 # 1
  BY <1>1
<1>4. \A i \in 1..Len(Tail(queue)) : queue[i + 1] # Head(queue) /\ queue[i + 1] \in Msgs
  BY <1>1, <1>3 DEF QueueInv
<1>5. \A i \in 1..Len(queue') : goAt'[queue'[i]] = "queued"
  BY <1>1, <1>3, <1>4 DEF QueueInv
<1>6. ASSUME NEW i \in 1..Len(queue'), NEW j \in 1..Len(queue'), queue'[i] = queue'[j]
      PROVE  i = j
  <2>1. queue[i + 1] = queue[j + 1] /\ i + 1 \in 1..Len(queue) /\ j + 1 \in 1..Len(queue)
    BY <1>1, <1>3, <1>6
  <2>2. i + 1 = j + 1
    BY <2>1 DEF QueueInv
  <2>3. QED  BY <2>2, <1>1
<1>7. QED
  BY <1>1, <1>2, <1>5, <1>6 DEF QueueInv

LEMMA QueueKept ==
  ASSUME QueueInv, queue' = queue,
         \A x \in Msgs : goAt[x] = "queued" => goAt'[x] = "queued"
  PROVE  QueueInv'
BY DEF QueueInv

-----------------------------------------------------------------------------
(* IInv is inductive: one lemma per action. *)

LEMMA InitInv == Init => IInv
BY EsGlueAssumption
  DEF Init, IInv, RecordInv, ExchangeInv, KernelInv, CallbackInv, LoopInv,
      QueueInv, Waits, Counters, MessageType, ThreadType, KStat, GoAt, PC, Parties, Verdicts

LEMMA OpenPreserves ==
  ASSUME IInv, NEW m \in Msgs, Open(m)
  PROVE  IInv'
<1> USE EsGlueAssumption
    DEF Open, IInv, kernelVars, pendVars, cbVars, loopVars,
        MessageType, ThreadType, KStat, GoAt, PC, Parties, Verdicts
<1>1. MessageType' /\ ThreadType' /\ count' \in [Counters -> Nat]
  OBVIOUS
<1>2. \A x \in Msgs : RecordInv(x)'
  BY <1>1 DEF RecordInv, Waits
<1>3. \A x \in Msgs : ExchangeInv(x)'
  BY <1>1 DEF RecordInv, ExchangeInv
<1>4. \A x \in Msgs : KernelInv(x)'
  BY <1>1 DEF RecordInv, ExchangeInv, KernelInv
<1>5. CallbackInv'
  BY <1>1 DEF CallbackInv, RecordInv, InRespond
<1>6. LoopInv'
  BY <1>1 DEF LoopInv, RecordInv, InRespond
<1>7. QueueInv'
  BY <1>1, QueueKept
<1>8. QED
  BY <1>1, <1>2, <1>3, <1>4, <1>5, <1>6, <1>7

LEMMA DeliverPreserves ==
  ASSUME IInv, NEW m \in Msgs, Deliver(m)
  PROVE  IInv'
<1> USE EsGlueAssumption
    DEF Deliver, InitialRefs, IInv, kernelVars, pendVars, cbVars, loopVars,
        MessageType, ThreadType, KStat, GoAt, PC, Parties, Verdicts
<1>1. MessageType' /\ ThreadType' /\ count' \in [Counters -> Nat]
  OBVIOUS
<1>2. \A x \in Msgs : RecordInv(x)'
  BY <1>1 DEF RecordInv, Waits
<1>3. \A x \in Msgs : ExchangeInv(x)'
  BY <1>1 DEF RecordInv, ExchangeInv
<1>4. \A x \in Msgs : KernelInv(x)'
  BY <1>1 DEF RecordInv, ExchangeInv, KernelInv
<1>5. CallbackInv'
  BY <1>1 DEF CallbackInv, RecordInv, InRespond
<1>6. LoopInv'
  BY <1>1 DEF LoopInv, RecordInv, InRespond
<1>7. QueueInv'
  BY <1>1, QueueKept
<1>8. QED
  BY <1>1, <1>2, <1>3, <1>4, <1>5, <1>6, <1>7

LEMMA ReadActivePreserves ==
  ASSUME IInv, ReadActive
  PROVE  IInv'
<1> USE EsGlueAssumption
    DEF ReadActive, Active, IInv, kernelVars, pendVars, cbVars, loopVars,
        MessageType, ThreadType, KStat, GoAt, PC, Parties, Verdicts
<1>1. cb \in Msgs /\ goAt[cb] = "callback" /\ pc[cb]["go"] = "idle"
  BY DEF CallbackInv, RecordInv
<1>2. MessageType' /\ ThreadType' /\ count' \in [Counters -> Nat]
  BY <1>1
<1>3. \A x \in Msgs : RecordInv(x)'
  BY <1>1, <1>2 DEF RecordInv, Waits
<1>4. \A x \in Msgs : ExchangeInv(x)'
  BY <1>1, <1>2 DEF RecordInv, ExchangeInv
<1>5. \A x \in Msgs : KernelInv(x)'
  BY <1>1, <1>2 DEF RecordInv, ExchangeInv, KernelInv
<1>6. CallbackInv'
  BY <1>1, <1>2 DEF CallbackInv, RecordInv, InRespond
<1>7. LoopInv'
  BY <1>1, <1>2 DEF LoopInv, RecordInv, InRespond
<1>8. QueueInv'
  BY <1>1, <1>2, QueueKept
<1>9. QED
  BY <1>2, <1>3, <1>4, <1>5, <1>6, <1>7, <1>8

LEMMA EnqueuePreserves ==
  ASSUME IInv, Enqueue
  PROVE  IInv'
<1>1. cb \in Msgs /\ goAt[cb] = "callback" /\ pc[cb]["go"] = "idle"
  BY EsGlueAssumption DEF Enqueue, IInv, ThreadType, CallbackInv, RecordInv
<1>2. QueueInv'
  BY <1>1, QueueSend DEF Enqueue, IInv, MessageType
<1>3. /\ goAt' = [goAt EXCEPT ![cb] = "queued"]
      /\ count' \in [Counters -> Nat]
      /\ cb' = None /\ cbAt' = "idle"
      /\ UNCHANGED <<kernelVars, pendVars, verdict, loopVars, muted, closing>>
  BY DEF Enqueue, Bump, IInv, Counters
<1> USE EsGlueAssumption
    DEF IInv, kernelVars, pendVars, cbVars, loopVars,
        MessageType, ThreadType, KStat, GoAt, PC, Parties, Verdicts
<1>4. MessageType' /\ ThreadType'
  BY <1>1, <1>3
<1>5. \A x \in Msgs : RecordInv(x)' /\ ExchangeInv(x)' /\ KernelInv(x)'
  BY <1>1, <1>3 DEF RecordInv, Waits, ExchangeInv, KernelInv
<1>6. CallbackInv' /\ LoopInv'
  BY <1>1, <1>3 DEF CallbackInv, LoopInv, InRespond
<1>7. QED
  BY <1>2, <1>3, <1>4, <1>5, <1>6

LEMMA AnswerInlinePreserves ==
  ASSUME IInv, AnswerInline
  PROVE  IInv'
<1>1. cb \in Msgs /\ goAt[cb] = "callback" /\ pc[cb]["go"] = "idle"
  BY EsGlueAssumption DEF AnswerInline, IInv, ThreadType, CallbackInv, RecordInv
<1>2. /\ goAt' = [goAt EXCEPT ![cb] = "inline"]
      /\ verdict' = [verdict EXCEPT ![cb] = "allow"]
      /\ pc' = [pc EXCEPT ![cb] = [@ EXCEPT !["go"] = "ready"]]
      /\ count' \in [Counters -> Nat]
      /\ cbAt' = "inline"
      /\ UNCHANGED <<kernelVars, responded, refs, freed, winner, cb, queue, loopVars,
                     muted, closing>>
  BY DEF AnswerInline, Bump, IInv, Counters
<1> USE EsGlueAssumption
    DEF IInv, kernelVars, pendVars, cbVars, loopVars,
        MessageType, ThreadType, KStat, GoAt, PC, Parties, Verdicts
<1>3. MessageType' /\ ThreadType'
  BY <1>1, <1>2
<1>4. \A x \in Msgs : RecordInv(x)'
  BY <1>1, <1>2, <1>3 DEF RecordInv, Waits
<1>5. \A x \in Msgs : ExchangeInv(x)' /\ KernelInv(x)'
  BY <1>1, <1>2, <1>3 DEF ExchangeInv, KernelInv
<1>6. CallbackInv' /\ LoopInv'
  BY <1>1, <1>2, <1>3 DEF CallbackInv, LoopInv, InRespond
<1>7. QueueInv'
  BY <1>1, <1>2, QueueKept
<1>8. QED
  BY <1>2, <1>3, <1>4, <1>5, <1>6, <1>7

LEMMA AgentNextPreserves ==
  ASSUME IInv, AgentNext
  PROVE  IInv'
<1> DEFINE h == Head(queue)
<1>1. h \in Msgs /\ goAt[h] = "queued" /\ QueueInv'
  BY QueueReceive DEF AgentNext, IInv, MessageType
<1>2. verdict[h] = "none"
  BY <1>1 DEF IInv, RecordInv
<1>3. /\ loop' = h /\ loopAt' = "decide" /\ loopAt = "next"
      /\ goAt' = [goAt EXCEPT ![h] = "agent"]
      /\ UNCHANGED <<kernelVars, pendVars, verdict, cbVars, selfOpen, muted, closing, count>>
  BY DEF AgentNext
<1> HIDE DEF h
<1> USE EsGlueAssumption
    DEF IInv, kernelVars, pendVars, cbVars, loopVars,
        MessageType, ThreadType, KStat, GoAt, PC, Parties, Verdicts
<1>4. MessageType' /\ ThreadType'
  BY <1>1, <1>3
<1>5. \A x \in Msgs : RecordInv(x)' /\ ExchangeInv(x)'
  BY <1>1, <1>2, <1>3 DEF RecordInv, Waits, ExchangeInv
<1>6. \A x \in Msgs : KernelInv(x)'
  BY <1>1, <1>2, <1>3 DEF KernelInv
<1>7. CallbackInv' /\ LoopInv'
  BY <1>1, <1>2, <1>3 DEF CallbackInv, LoopInv, InRespond
<1>8. QED
  BY <1>1, <1>3, <1>4, <1>5, <1>6, <1>7

LEMMA AgentExitPreserves ==
  ASSUME IInv, AgentExit
  PROVE  IInv'
<1> USE EsGlueAssumption
    DEF AgentExit, IInv, kernelVars, pendVars, cbVars, loopVars,
        MessageType, ThreadType, KStat, GoAt, PC, Parties, Verdicts
<1>1. MessageType' /\ ThreadType' /\ count' \in [Counters -> Nat]
  OBVIOUS
<1>2. \A x \in Msgs : RecordInv(x)'
  BY <1>1 DEF RecordInv, Waits
<1>3. \A x \in Msgs : ExchangeInv(x)'
  BY <1>1 DEF RecordInv, ExchangeInv
<1>4. \A x \in Msgs : KernelInv(x)'
  BY <1>1 DEF RecordInv, ExchangeInv, KernelInv
<1>5. CallbackInv'
  BY <1>1 DEF CallbackInv, RecordInv, InRespond
<1>6. LoopInv'
  BY <1>1 DEF LoopInv, RecordInv, InRespond
<1>7. QueueInv'
  BY <1>1, QueueKept
<1>8. QED
  BY <1>1, <1>2, <1>3, <1>4, <1>5, <1>6, <1>7

LEMMA AgentReadsPreserves ==
  ASSUME IInv, NEW m \in Msgs, AgentReads(m)
  PROVE  IInv'
<1> USE EsGlueAssumption
    DEF AgentReads, IInv, kernelVars, pendVars, cbVars, loopVars,
        MessageType, ThreadType, KStat, GoAt, PC, Parties, Verdicts
<1>1. loop \in Msgs /\ goAt[loop] = "agent" /\ pc[loop]["go"] = "idle"
  BY DEF LoopInv, RecordInv
<1>2. MessageType' /\ ThreadType' /\ count' \in [Counters -> Nat]
  BY <1>1
<1>3. \A x \in Msgs : RecordInv(x)'
  BY <1>1, <1>2 DEF RecordInv, Waits
<1>4. \A x \in Msgs : ExchangeInv(x)'
  BY <1>1, <1>2 DEF RecordInv, ExchangeInv
<1>5. \A x \in Msgs : KernelInv(x)'
  BY <1>1, <1>2 DEF RecordInv, ExchangeInv, KernelInv
<1>6. CallbackInv'
  BY <1>1, <1>2 DEF CallbackInv, RecordInv, InRespond
<1>7. LoopInv'
  BY <1>1, <1>2 DEF LoopInv, RecordInv, InRespond
<1>8. QueueInv'
  BY <1>1, <1>2, QueueKept
<1>9. QED
  BY <1>2, <1>3, <1>4, <1>5, <1>6, <1>7, <1>8

LEMMA AgentReadReturnsPreserves ==
  ASSUME IInv, AgentReadReturns
  PROVE  IInv'
<1> USE EsGlueAssumption
    DEF AgentReadReturns, IInv, kernelVars, pendVars, cbVars, loopVars,
        MessageType, ThreadType, KStat, GoAt, PC, Parties, Verdicts
<1>1. loop \in Msgs /\ goAt[loop] = "agent" /\ pc[loop]["go"] = "idle"
  BY DEF LoopInv, RecordInv
<1>2. MessageType' /\ ThreadType' /\ count' \in [Counters -> Nat]
  BY <1>1
<1>3. \A x \in Msgs : RecordInv(x)'
  BY <1>1, <1>2 DEF RecordInv, Waits
<1>4. \A x \in Msgs : ExchangeInv(x)'
  BY <1>1, <1>2 DEF RecordInv, ExchangeInv
<1>5. \A x \in Msgs : KernelInv(x)'
  BY <1>1, <1>2 DEF RecordInv, ExchangeInv, KernelInv
<1>6. CallbackInv'
  BY <1>1, <1>2 DEF CallbackInv, RecordInv, InRespond
<1>7. LoopInv'
  BY <1>1, <1>2 DEF LoopInv, RecordInv, InRespond
<1>8. QueueInv'
  BY <1>1, <1>2, QueueKept
<1>9. QED
  BY <1>2, <1>3, <1>4, <1>5, <1>6, <1>7, <1>8

LEMMA AgentDecidesPreserves ==
  ASSUME IInv, NEW v \in Verdicts, AgentDecides(v)
  PROVE  IInv'
<1> USE EsGlueAssumption
    DEF AgentDecides, IInv, kernelVars, pendVars, cbVars, loopVars,
        MessageType, ThreadType, KStat, GoAt, PC, Parties, Verdicts
<1>1. loop \in Msgs /\ goAt[loop] = "agent" /\ pc[loop]["go"] = "idle"
  BY DEF LoopInv, RecordInv
<1>2. MessageType' /\ ThreadType' /\ count' \in [Counters -> Nat]
  BY <1>1
<1>3. \A x \in Msgs : RecordInv(x)'
  BY <1>1, <1>2 DEF RecordInv, Waits
<1>4. \A x \in Msgs : ExchangeInv(x)'
  BY <1>1, <1>2 DEF RecordInv, ExchangeInv
<1>5. \A x \in Msgs : KernelInv(x)'
  BY <1>1, <1>2 DEF RecordInv, ExchangeInv, KernelInv
<1>6. CallbackInv'
  BY <1>1, <1>2 DEF CallbackInv, RecordInv, InRespond
<1>7. LoopInv'
  BY <1>1, <1>2 DEF LoopInv, RecordInv, InRespond
<1>8. QueueInv'
  BY <1>1, <1>2, QueueKept
<1>9. QED
  BY <1>2, <1>3, <1>4, <1>5, <1>6, <1>7, <1>8

LEMMA ExchangePreserves ==
  ASSUME IInv, NEW m \in Msgs, NEW p \in Parties, Exchange(m, p)
  PROVE  IInv'
<1>1. PICK q \in {"unref", "answer"} : pc' = [pc EXCEPT ![m] = [@ EXCEPT ![p] = q]]
  BY DEF Exchange
<1>2. winner' \in [Msgs -> Parties \cup {"nobody"}] /\ responded' \in [Msgs -> BOOLEAN]
  BY DEF Exchange, IInv, MessageType
<1>3. /\ pc' \in [Msgs -> [Parties -> PC]]
      /\ \A x \in Msgs : \A r \in Parties : (pc'[x][r] = "done") <=> (pc[x][r] = "done")
      /\ \A x \in Msgs : \A r \in Parties : (pc'[x][r] = "idle") <=> (pc[x][r] = "idle")
  BY <1>1 DEF Exchange, IInv, MessageType, PC, Parties
<1>4. \A x \in Msgs : InRespond(x)' <=> InRespond(x)
  BY <1>1 DEF Exchange, InRespond, IInv, MessageType, PC, Parties
<1> USE EsGlueAssumption
    DEF IInv, kernelVars, pendVars, cbVars, loopVars,
        MessageType, ThreadType, KStat, GoAt, PC, Parties, Verdicts
<1>5. MessageType' /\ ThreadType' /\ count' \in [Counters -> Nat]
  BY <1>2, <1>3 DEF Exchange
<1>6. \A x \in Msgs : RecordInv(x)'
  <2>1. UNCHANGED <<goAt, refs, freed, verdict>>
    BY DEF Exchange
  <2> HIDE DEF MessageType, ThreadType
  <2>2. QED  BY <1>3, <2>1 DEF RecordInv, Waits
<1>7. \A x \in Msgs : ExchangeInv(x)'
  BY <1>5 DEF Exchange, RecordInv, ExchangeInv
<1>8. \A x \in Msgs : KernelInv(x)'
  BY <1>5 DEF Exchange, RecordInv, ExchangeInv, KernelInv
<1>9. CallbackInv' /\ LoopInv' /\ QueueInv'
  <2>1. UNCHANGED <<goAt, verdict, cb, cbAt, loop, loopAt, queue>>
    BY DEF Exchange
  <2>2. QED  BY <1>4, <2>1 DEF CallbackInv, LoopInv, QueueInv
<1>10. QED
  BY <1>5, <1>6, <1>7, <1>8, <1>9

LEMMA AnswerPreserves ==
  ASSUME IInv, NEW m \in Msgs, NEW p \in Parties, Answer(m, p)
  PROVE  IInv'
<1> USE EsGlueAssumption
    DEF Answer, ResponseOf, Bump, IInv, kernelVars, pendVars, cbVars, loopVars,
        MessageType, ThreadType, KStat, GoAt, PC, Parties, Verdicts
<1>1. /\ pc' = [pc EXCEPT ![m] = [@ EXCEPT ![p] = "unref"]]
      /\ \A x \in Msgs : \A r \in Parties : (pc'[x][r] = "done") <=> (pc[x][r] = "done")
      /\ \A x \in Msgs : \A r \in Parties : (pc'[x][r] = "idle") <=> (pc[x][r] = "idle")
  OBVIOUS
<1>2. MessageType' /\ ThreadType' /\ count' \in [Counters -> Nat]
  <2>1. kstat' \in [Msgs -> KStat]
    <3>1. ResponseOf(m, p) \in KStat
      BY DEF RecordInv
    <3>2. \E s \in KStat : kstat' = [kstat EXCEPT ![m] = s]
      BY <3>1
    <3>3. QED  BY <3>2
  <2>2. answers' \in [Msgs -> Nat] /\ pc' \in [Msgs -> [Parties -> PC]]
    BY <1>1
  <2>3. count' \in [Counters -> Nat]
    BY DEF Counters
  <2>4. QED  BY <2>1, <2>2, <2>3
<1>3. \A x \in Msgs : RecordInv(x)'
  <2>1. UNCHANGED <<goAt, refs, freed, verdict>>
    OBVIOUS
  <2> HIDE DEF MessageType, ThreadType, Answer
  <2>2. QED  BY <1>1, <2>1 DEF RecordInv, Waits
<1>4. \A x \in Msgs : ExchangeInv(x)'
  BY <1>1, <1>2 DEF RecordInv, ExchangeInv
<1>5. \A x \in Msgs : KernelInv(x)'
  BY <1>1, <1>2 DEF RecordInv, ExchangeInv, KernelInv
<1>6. CallbackInv'
  BY <1>1, <1>2 DEF CallbackInv, RecordInv, InRespond
<1>7. LoopInv'
  BY <1>1, <1>2 DEF LoopInv, RecordInv, InRespond
<1>8. QueueInv'
  BY <1>1, <1>2, QueueKept
<1>9. QED
  BY <1>2, <1>3, <1>4, <1>5, <1>6, <1>7, <1>8

LEMMA UnrefPreserves ==
  ASSUME IInv, NEW m \in Msgs, NEW p \in Parties, Unref(m, p)
  PROVE  IInv'
<1> USE EsGlueAssumption
    DEF IInv, kernelVars, pendVars, cbVars, loopVars,
        MessageType, ThreadType, KStat, GoAt, PC, Parties, Verdicts
<1>1. /\ pc[m][p] = "unref"
      /\ refs' = [refs EXCEPT ![m] = @ - 1]
      /\ freed' = [freed EXCEPT ![m] = refs[m] = 1]
      /\ pc' = [pc EXCEPT ![m] = [@ EXCEPT ![p] = "done"]]
      /\ UNCHANGED <<kernelVars, goAt, responded, winner, verdict, queue, selfOpen,
                     muted, closing>>
  BY DEF Unref
<1>2. /\ goAt[m] # "kernel" /\ responded[m]
      /\ refs[m] \in {1, 2}
      /\ refs[m] = 1 <=> \A r \in Parties \ {p} : pc[m][r] = "done"
  <2>1. goAt[m] # "kernel" /\ responded[m]
    BY <1>1 DEF RecordInv, ExchangeInv
  <2>2. refs[m] = Waits(m, "go") + Waits(m, "timer")
    BY <2>1 DEF RecordInv
  <2>3. CASE p = "go"
    BY <1>1, <2>1, <2>2, <2>3 DEF Waits
  <2>4. CASE p = "timer"
    BY <1>1, <2>1, <2>2, <2>4 DEF Waits
  <2>5. QED  BY <2>3, <2>4
<1>3. count' \in [Counters -> Nat]
  BY DEF Unref, CountWin, Bump, Counters
<1>4. ThreadType'
  BY DEF Unref
<1>5. MessageType'
  <2>1. refs' \in [Msgs -> 0..2] /\ freed' \in [Msgs -> BOOLEAN]
    BY <1>1, <1>2
  <2>2. pc' \in [Msgs -> [Parties -> PC]]
    BY <1>1
  <2>3. QED  BY <1>1, <2>1, <2>2
<1>6. ASSUME NEW x \in Msgs PROVE RecordInv(x)'
  <2>1. CASE x # m
    BY <1>1, <2>1 DEF RecordInv, Waits
  <2>2. CASE x = m /\ p = "go"
    BY <1>1, <1>2, <2>2 DEF RecordInv, Waits
  <2>3. CASE x = m /\ p = "timer"
    BY <1>1, <1>2, <2>3 DEF RecordInv, Waits
  <2>4. QED  BY <2>1, <2>2, <2>3
<1>7. \A x \in Msgs : ExchangeInv(x)' /\ KernelInv(x)'
  BY <1>1, <1>2 DEF ExchangeInv, KernelInv
<1>8. CallbackInv'
  <2>1. CASE p = "go" /\ cb = m
    <3>1. loop # m
      BY <1>1, <2>1 DEF CallbackInv, LoopInv
    <3>2. cb' = None /\ cbAt' = "idle"
      BY <2>1, <3>1 DEF Unref
    <3>3. QED  BY <3>2 DEF CallbackInv
  <2>2. CASE ~(p = "go" /\ cb = m)
    <3>1. cb' = cb /\ cbAt' = cbAt
      BY <2>2 DEF Unref
    <3>2. cb \in Msgs => (InRespond(cb))' = InRespond(cb)
      BY <1>1, <2>2, <3>1 DEF InRespond
    <3>3. QED  BY <1>1, <3>1, <3>2 DEF CallbackInv
  <2>3. QED  BY <2>1, <2>2
<1>9. LoopInv'
  <2>1. CASE p = "go" /\ loop = m
    BY <2>1 DEF Unref, LoopInv
  <2>2. CASE ~(p = "go" /\ loop = m)
    <3>1. loop' = loop /\ loopAt' = loopAt
      BY <2>2 DEF Unref
    <3>2. loop \in Msgs => (InRespond(loop))' = InRespond(loop)
      BY <1>1, <2>2, <3>1 DEF InRespond
    <3>3. QED  BY <1>1, <3>1, <3>2 DEF LoopInv
  <2>3. QED  BY <2>1, <2>2
<1>10. QueueInv'
  BY <1>1, QueueKept
<1>11. QED
  BY <1>3, <1>4, <1>5, <1>6, <1>7, <1>8, <1>9, <1>10

LEMMA CloseHookPreserves ==
  ASSUME IInv, CloseHook
  PROVE  IInv'
<1> USE EsGlueAssumption
    DEF CloseHook, IInv, kernelVars, pendVars, cbVars, loopVars,
        MessageType, ThreadType, KStat, GoAt, PC, Parties, Verdicts
<1>1. MessageType' /\ ThreadType' /\ count' \in [Counters -> Nat]
  OBVIOUS
<1>2. \A x \in Msgs : RecordInv(x)'
  BY <1>1 DEF RecordInv, Waits
<1>3. \A x \in Msgs : ExchangeInv(x)'
  BY <1>1 DEF RecordInv, ExchangeInv
<1>4. \A x \in Msgs : KernelInv(x)'
  BY <1>1 DEF RecordInv, ExchangeInv, KernelInv
<1>5. CallbackInv'
  BY <1>1 DEF CallbackInv, RecordInv, InRespond
<1>6. LoopInv'
  BY <1>1 DEF LoopInv, RecordInv, InRespond
<1>7. QueueInv'
  BY <1>1, QueueKept
<1>8. QED
  BY <1>1, <1>2, <1>3, <1>4, <1>5, <1>6, <1>7

LEMMA ReleaseClientPreserves ==
  ASSUME IInv, ReleaseClient
  PROVE  IInv'
<1> USE EsGlueAssumption
    DEF ReleaseClient, IInv, kernelVars, pendVars, cbVars, loopVars,
        MessageType, ThreadType, KStat, GoAt, PC, Parties, Verdicts
<1>1. MessageType' /\ ThreadType' /\ count' \in [Counters -> Nat]
  OBVIOUS
<1>2. \A x \in Msgs : RecordInv(x)'
  BY <1>1 DEF RecordInv, Waits
<1>3. \A x \in Msgs : ExchangeInv(x)'
  BY <1>1 DEF RecordInv, ExchangeInv
<1>4. \A x \in Msgs : KernelInv(x)'
  BY <1>1 DEF RecordInv, ExchangeInv, KernelInv
<1>5. CallbackInv'
  BY <1>1 DEF CallbackInv, RecordInv, InRespond
<1>6. LoopInv'
  BY <1>1 DEF LoopInv, RecordInv, InRespond
<1>7. QueueInv'
  BY <1>1, QueueKept
<1>8. QED
  BY <1>1, <1>2, <1>3, <1>4, <1>5, <1>6, <1>7

LEMMA Inductive == IInv /\ [Next]_vars => IInv'
<1> SUFFICES ASSUME IInv, [Next]_vars PROVE IInv'
  OBVIOUS
<1>1. ASSUME NEW m \in Msgs, Open(m) PROVE IInv'
  BY <1>1, OpenPreserves
<1>2. ASSUME NEW m \in Msgs, AgentReads(m) PROVE IInv'
  BY <1>2, AgentReadsPreserves
<1>3. ASSUME NEW m \in Msgs, NEW p \in Parties, Respond(m, p) PROVE IInv'
  BY <1>3, ExchangePreserves, AnswerPreserves, UnrefPreserves DEF Respond
<1>4. CASE Callback
  BY <1>4, DeliverPreserves, ReadActivePreserves, EnqueuePreserves, AnswerInlinePreserves
     DEF Callback
<1>5. CASE Agent
  BY <1>5, AgentNextPreserves, AgentReadReturnsPreserves, AgentDecidesPreserves DEF Agent
<1>6. CASE AgentExit
  BY <1>6, AgentExitPreserves
<1>7. CASE Shutdown
  BY <1>7, CloseHookPreserves, ReleaseClientPreserves DEF Shutdown
<1>8. CASE UNCHANGED vars
  BY <1>8 DEF vars, kernelVars, pendVars, cbVars, loopVars, IInv, MessageType, ThreadType, RecordInv,
     Waits, ExchangeInv, KernelInv, CallbackInv, LoopInv, QueueInv, InRespond
<1>9. QED
  BY <1>1, <1>2, <1>3, <1>4, <1>5, <1>6, <1>7, <1>8 DEF Next

LEMMA Invariance == Safety => []IInv
BY InitInv, Inductive, PTL DEF Safety

-----------------------------------------------------------------------------
(* Every variable keeps its type in every behaviour of the hook: in
   particular no reference count leaves 0..2, so none underflows. *)
THEOREM TypeCorrect == Safety => []TypeOK
<1>1. IInv => TypeOK
  BY DEF IInv, TypeOK, QueueInv
<1>2. QED
  BY <1>1, Invariance, PTL

(* However many messages there are and however timer, agent loop, inline
   path and Close interleave, the kernel gets at most one answer each
   (respond_once in esf_glue.c). *)
THEOREM AtMostOneAnswer == Safety => []AnsweredOnce
<1>1. IInv => AnsweredOnce
  <2> SUFFICES ASSUME IInv, NEW m \in Msgs PROVE answers[m] <= 1
    BY DEF AnsweredOnce
  <2>1. winner[m] = "nobody" \/ winner[m] \in Parties
    BY DEF IInv, MessageType, ThreadType
  <2>2. QED
    BY <2>1 DEF IInv, ExchangeInv
<1>2. QED
  BY <1>1, Invariance, PTL

(* No party, thread or queue entry still refers to a freed record
   (pending_unref in esf_glue.c). *)
THEOREM RecordsOutliveUse == Safety => []NoUseAfterFree
<1>1. IInv => NoUseAfterFree
  <2> SUFFICES ASSUME IInv, NEW m \in Msgs, freed[m]
               PROVE  /\ goAt[m] \notin {"callback", "queued", "orphan"}
                      /\ loop # m /\ cb # m
                      /\ \A p \in Parties : pc[m][p] = "done"
    BY DEF NoUseAfterFree
  <2>1. goAt[m] # "kernel" /\ pc[m]["go"] = "done" /\ pc[m]["timer"] = "done"
    BY DEF IInv, RecordInv
  <2>2. verdict[m] # "none" /\ goAt[m] \in {"agent", "inline"}
    BY <2>1 DEF IInv, RecordInv
  <2>3. loop # m
    BY <2>1, <2>2, EsGlueAssumption DEF IInv, MessageType, ThreadType, LoopInv, InRespond
  <2>4. cb # m
    BY <2>1, <2>2, EsGlueAssumption DEF IInv, MessageType, ThreadType, CallbackInv, InRespond
  <2>5. QED
    BY <2>1, <2>2, <2>3, <2>4 DEF Parties
<1>2. QED
  BY <1>1, Invariance, PTL

(* When both parties are done, the record is freed and the kernel has had
   its answer. *)
THEOREM NothingLeaks == Safety => []NothingForgotten
<1>1. IInv => NothingForgotten
  <2> SUFFICES ASSUME IInv, NEW m \in Msgs, \A p \in Parties : pc[m][p] = "done"
               PROVE  freed[m] /\ answers[m] = 1
    BY DEF NothingForgotten
  <2>1. pc[m]["go"] = "done" /\ pc[m]["timer"] = "done"
    BY DEF Parties
  <2>2. freed[m]
    BY <2>1 DEF IInv, RecordInv
  <2>3. winner[m] \in Parties
    BY <2>1 DEF IInv, MessageType, ThreadType, ExchangeInv, Parties
  <2>4. QED
    BY <2>2, <2>3 DEF IInv, ExchangeInv
<1>2. QED
  BY <1>1, Invariance, PTL

(* A refused open was refused by the engine's own decision: the timer and
   the full queue only ever allow. *)
THEOREM FailsOpen == Safety => []DenyOnlyFromAgent
<1>1. IInv => DenyOnlyFromAgent
  BY DEF IInv, KernelInv, DenyOnlyFromAgent
<1>2. QED
  BY <1>1, Invariance, PTL

-----------------------------------------------------------------------------
(* Refinement: every step of the hook is a step of AuthOpen or a stutter. *)

LEMMA RefinesInit == Init => AO!Init
BY DEF Init, AO!Init, Decision

LEMMA SameDecisions ==
  ASSUME \A x \in Msgs : Decision(x)' = Decision(x)
  PROVE  [m \in Msgs |-> Decision(m)]' = [m \in Msgs |-> Decision(m)]
OBVIOUS

LEMMA RefinesStep == IInv /\ [Next]_vars => [AO!Next]_(AO!avars)
<1> SUFFICES ASSUME IInv, [Next]_vars PROVE [AO!Next]_(AO!avars)
  OBVIOUS
<1> USE DEF kernelVars, pendVars, cbVars, loopVars, AO!avars
<1>1. ASSUME NEW m \in Msgs, Open(m) \/ AgentReads(m) PROVE AO!Next
  <2>1. [x \in Msgs |-> Decision(x)]' = [x \in Msgs |-> Decision(x)]
    BY <1>1, SameDecisions DEF Open, AgentReads, Decision
  <2>2. AO!Open(m)
    BY <1>1, <2>1 DEF Open, AgentReads, AO!Open
  <2>3. QED  BY <2>2 DEF AO!Next
<1>2. ASSUME NEW m \in Msgs, NEW p \in Parties, Answer(m, p)
      PROVE  AO!Next \/ UNCHANGED AO!avars
  <2>1. [x \in Msgs |-> Decision(x)]' = [x \in Msgs |-> Decision(x)]
    BY <1>2, SameDecisions DEF Answer, Decision
  <2>2. CASE closing = "released"
    BY <1>2, <2>1, <2>2 DEF Answer, IInv, MessageType, ThreadType
  <2>3. CASE closing # "released"
    <3>1. winner[m] = p /\ answers[m] = 0 /\ goAt[m] # "kernel"
      BY <1>2 DEF Answer, IInv, ExchangeInv, RecordInv, MessageType, ThreadType, Parties
    <3>2. kstat[m] = "waiting"
      <4>1. kstat[m] \in KStat /\ KernelInv(m)
        BY DEF IInv, MessageType
      <4>2. QED  BY <2>3, <3>1, <4>1 DEF KernelInv, KStat, Verdicts
    <3>3. ResponseOf(m, p) \in {"allow", "deny"}
      BY <1>2 DEF Answer, ResponseOf, IInv, RecordInv, MessageType, ThreadType, Verdicts, Parties
    <3>4. ResponseOf(m, p) = "deny" => Decision(m) = "deny"
      BY <3>1 DEF ResponseOf, Decision, IInv, RecordInv
    <3>5. \E s \in {"allow", "deny", "rejected"} :
             (s = "deny" => Decision(m) = "deny") /\ kstat' = [kstat EXCEPT ![m] = s]
      BY <1>2, <2>3, <3>3, <3>4 DEF Answer
    <3>6. AO!Settle(m)
      BY <1>2, <2>1, <2>3, <3>2, <3>5 DEF Answer, AO!Settle
    <3>7. QED  BY <3>6 DEF AO!Next
  <2>4. QED  BY <2>2, <2>3
<1>3. ASSUME NEW v \in Verdicts, AgentDecides(v) PROVE AO!Next
  <2>1. /\ loop \in Msgs /\ goAt[loop] = "agent" /\ verdict[loop] = "none"
        /\ kstat[loop] # "unopened"
    BY <1>3 DEF AgentDecides, IInv, MessageType, ThreadType, LoopInv, KernelInv
  <2>2. \A x \in Msgs : Decision(x)' = IF x = loop THEN v ELSE Decision(x)
    BY <1>3, <2>1 DEF AgentDecides, Decision, IInv, MessageType, ThreadType
  <2>3. [x \in Msgs |-> Decision(x)]' = [[x \in Msgs |-> Decision(x)] EXCEPT ![loop] = v]
    BY <2>1, <2>2
  <2>4. AO!Decide(loop, v)
    BY <1>3, <2>1, <2>3 DEF AgentDecides, AO!Decide, Decision
  <2>5. v \in AO!Verdicts
    BY DEF AO!Verdicts, Verdicts
  <2>6. QED  BY <2>1, <2>4, <2>5 DEF AO!Next
<1>4. CASE ReleaseClient
  <2>1. [x \in Msgs |-> Decision(x)]' = [x \in Msgs |-> Decision(x)]
    BY <1>4, SameDecisions DEF ReleaseClient, Decision
  <2>2. QED  BY <1>4, <2>1 DEF ReleaseClient, AO!Detach, AO!Next
<1>5. CASE AnswerInline \/ ReadActive \/ Enqueue
  <2>1. cb \in Msgs /\ goAt[cb] = "callback"
    BY <1>5, EsGlueAssumption
       DEF AnswerInline, ReadActive, Enqueue, IInv, MessageType, ThreadType, CallbackInv
  <2>2. \A x \in Msgs : Decision(x)' = Decision(x)
    BY <1>5, <2>1 DEF AnswerInline, ReadActive, Enqueue, Decision, IInv, MessageType, ThreadType
  <2>3. QED
    BY <1>5, <2>2, SameDecisions DEF AnswerInline, ReadActive, Enqueue
<1>6. CASE AgentNext
  <2>1. Head(queue) \in Msgs /\ goAt[Head(queue)] = "queued"
    BY <1>6, QueueReceive DEF AgentNext, IInv, MessageType
  <2>2. verdict[Head(queue)] = "none"
    BY <2>1 DEF IInv, RecordInv
  <2>3. \A x \in Msgs : Decision(x)' = Decision(x)
    BY <1>6, <2>1, <2>2 DEF AgentNext, Decision, IInv, MessageType, ThreadType
  <2>4. QED  BY <1>6, <2>3, SameDecisions DEF AgentNext
<1>7. ASSUME NEW m \in Msgs, Deliver(m) PROVE UNCHANGED AO!avars
  <2>1. \A x \in Msgs : Decision(x)' = Decision(x)
    BY <1>7 DEF Deliver, Decision, IInv, MessageType, ThreadType, RecordInv
  <2>2. QED  BY <1>7, <2>1, SameDecisions DEF Deliver
<1>8. ASSUME NEW m \in Msgs, NEW p \in Parties, Exchange(m, p) \/ Unref(m, p)
      PROVE  UNCHANGED AO!avars
  BY <1>8, SameDecisions DEF Exchange, Unref, Decision
<1>9. CASE AgentExit \/ AgentReadReturns \/ CloseHook \/ UNCHANGED vars
  BY <1>9, SameDecisions
     DEF AgentExit, AgentReadReturns, CloseHook, vars, Decision
<1>10. QED
  BY <1>1, <1>2, <1>3, <1>4, <1>5, <1>6, <1>7, <1>8, <1>9
     DEF Next, Callback, Agent, Shutdown, Respond

(* The hook implements the safety part of AuthOpen: an open settles once,
   and it is denied only if the engine decided to deny it. *)
THEOREM RefinesAuthOpen == Safety => AO!Safety
BY RefinesInit, RefinesStep, Invariance, PTL DEF Safety, AO!Safety
-----------------------------------------------------------------------------
(* Counters *)

Delivered == {m \in Msgs : goAt[m] # "kernel"}

(* The messages behind each counter. *)
Seen     == {m \in Msgs : goAt[m] \in {"queued", "agent"}}
Full     == {m \in Msgs : goAt[m] = "inline"}
Rejected == {m \in Msgs : kstat[m] = "rejected"}
ByAgent  == {m \in Msgs : goAt[m] = "agent" /\ winner[m] = "go" /\ pc[m]["go"] = "done"}
ByTimer  == {m \in Msgs : winner[m] = "timer" /\ pc[m]["timer"] = "done"}

Tallies ==
  /\ count["seen"] = Cardinality(Seen)
  /\ count["full"] = Cardinality(Full)
  /\ count["error"] = Cardinality(Rejected)
  /\ count["agent"] = Cardinality(ByAgent)
  /\ count["deadline"] = Cardinality(ByTimer)

(* Where a message can be that is not counted yet. *)
Placed ==
  /\ \A m \in Msgs : goAt[m] = "callback" => cb = m
  /\ Active => \A m \in Msgs : goAt[m] # "orphan"

CInv == IsFiniteSet(Delivered) /\ Placed /\ (Active => Tallies)

-----------------------------------------------------------------------------
LEMMA OneMore ==
  ASSUME NEW S, NEW T, NEW x, IsFiniteSet(S), x \notin S, T = S \cup {x}
  PROVE  IsFiniteSet(T) /\ Cardinality(T) = Cardinality(S) + 1
BY FS_AddElement

(* Every message that is counted has been delivered. *)
LEMMA CountedAreDelivered ==
  ASSUME IInv
  PROVE  /\ Seen \subseteq Delivered /\ Full \subseteq Delivered
         /\ Rejected \subseteq Delivered
         /\ ByAgent \subseteq Delivered /\ ByTimer \subseteq Delivered
<1>1. Seen \subseteq Delivered /\ Full \subseteq Delivered /\ ByAgent \subseteq Delivered
  BY DEF Seen, Full, ByAgent, Delivered
<1>2. ASSUME NEW m \in Msgs, goAt[m] = "kernel"
      PROVE  pc[m]["timer"] # "done" /\ kstat[m] # "rejected"
  <2>1. pc[m]["timer"] = "idle" /\ verdict[m] = "none" /\ pc[m]["go"] = "idle"
    BY <1>2 DEF IInv, RecordInv
  <2>2. winner[m] = "nobody"
    BY <2>1 DEF IInv, ExchangeInv, Parties, MessageType
  <2>3. QED
    BY <2>1, <2>2 DEF IInv, ExchangeInv, KernelInv
<1>3. Rejected \subseteq Delivered /\ ByTimer \subseteq Delivered
  BY <1>2 DEF Rejected, ByTimer, Delivered
<1>4. QED
  BY <1>1, <1>3

LEMMA CountedAreFinite ==
  ASSUME IInv, IsFiniteSet(Delivered)
  PROVE  /\ IsFiniteSet(Seen) /\ IsFiniteSet(Full) /\ IsFiniteSet(Rejected)
         /\ IsFiniteSet(ByAgent) /\ IsFiniteSet(ByTimer)
BY CountedAreDelivered, FS_Subset

LEMMA InitCounts == Init => CInv
<1> SUFFICES ASSUME Init PROVE CInv
  OBVIOUS
<1>1. /\ Delivered = {} /\ Seen = {} /\ Full = {} /\ Rejected = {}
      /\ ByAgent = {} /\ ByTimer = {}
  BY DEF Init, Delivered, Seen, Full, Rejected, ByAgent, ByTimer
<1>2. QED
  BY <1>1, FS_EmptySet DEF Init, CInv, Placed, Tallies, Counters

(* A step that moves no message from one of the sets to another. *)
Quiet ==
  /\ UNCHANGED <<Delivered, Seen, Full, Rejected, ByAgent, ByTimer>>
  /\ Active' => Active /\ UNCHANGED count

LEMMA QuietKeeps ==
  ASSUME CInv, Quiet, Placed'
  PROVE  CInv'
BY DEF CInv, Quiet, Tallies

-----------------------------------------------------------------------------
LEMMA KernelCounts ==
  ASSUME IInv, CInv, Shutdown \/ \E m \in Msgs : Open(m) \/ AgentReads(m)
  PROVE  CInv'
<1> USE DEF IInv, MessageType, kernelVars, pendVars, cbVars, loopVars
<1>1. /\ UNCHANGED <<goAt, cb, pc, winner, count>> /\ (Active' => Active)
      /\ \A x \in Msgs : kstat'[x] = "rejected" <=> kstat[x] = "rejected"
  BY DEF Shutdown, CloseHook, ReleaseClient, Open, AgentReads, Active
<1>2. Placed'
  BY <1>1 DEF CInv, Placed
<1>3. Quiet
  BY <1>1 DEF Quiet, Delivered, Seen, Full, Rejected, ByAgent, ByTimer
<1>4. QED
  BY <1>2, <1>3, QuietKeeps

LEMMA LoopCounts ==
  ASSUME IInv, CInv, Agent \/ AgentExit
  PROVE  CInv'
<1> USE DEF IInv, MessageType, kernelVars, pendVars, cbVars, loopVars
<1>1. CASE AgentNext
  <2>1. PICK m \in Msgs : /\ goAt[m] = "queued" /\ goAt' = [goAt EXCEPT ![m] = "agent"]
                          /\ UNCHANGED <<kstat, cb, pc, winner, count, closing>>
    BY <1>1, QueueReceive DEF AgentNext
  <2>2. pc[m]["go"] = "idle"
    BY <2>1 DEF RecordInv
  <2>3. Placed'
    BY <2>1 DEF CInv, Placed, Active
  <2>4. Quiet
    BY <2>1, <2>2 DEF Quiet, Delivered, Seen, Full, Rejected, ByAgent, ByTimer, Active
  <2>5. QED
    BY <2>3, <2>4, QuietKeeps
<1>2. CASE AgentReadReturns \/ AgentExit
  <2>1. UNCHANGED <<kstat, goAt, cb, pc, winner, count, closing>>
    BY <1>2 DEF AgentReadReturns, AgentExit
  <2>2. Placed' /\ Quiet
    BY <2>1 DEF CInv, Placed, Quiet, Delivered, Seen, Full, Rejected, ByAgent, ByTimer, Active
  <2>3. QED
    BY <2>2, QuietKeeps
<1>3. ASSUME NEW v \in Verdicts, AgentDecides(v) PROVE CInv'
  <2>1. loop \in Msgs /\ pc[loop]["go"] = "idle"
    BY <1>3 DEF AgentDecides, LoopInv, RecordInv, ThreadType
  <2>2. /\ UNCHANGED <<kstat, goAt, cb, winner, count, closing>>
        /\ pc' = [pc EXCEPT ![loop] = [@ EXCEPT !["go"] = "ready"]]
    BY <1>3 DEF AgentDecides
  <2>3. Placed'
    BY <2>2 DEF CInv, Placed, Active
  <2>4. \A x \in Msgs, r \in Parties : pc'[x][r] = "done" <=> pc[x][r] = "done"
    BY <2>1, <2>2 DEF Parties
  <2>5. Quiet
    BY <2>2, <2>4 DEF Quiet, Delivered, Seen, Full, Rejected, ByAgent, ByTimer, Active, Parties
  <2>6. QED
    BY <2>3, <2>5, QuietKeeps
<1>4. QED
  BY <1>1, <1>2, <1>3 DEF Agent

-----------------------------------------------------------------------------
(* The callback thread *)

LEMMA CallbackCounts ==
  ASSUME IInv, CInv, Callback
  PROVE  CInv'
<1> USE DEF IInv, MessageType, kernelVars, pendVars, cbVars, loopVars
<1>0. /\ cb = None <=> cbAt = "idle"
      /\ cbAt # "idle" => cb \in Msgs
      /\ cbAt \in {"armed", "handoff"} => goAt[cb] = "callback" /\ pc[cb]["go"] = "idle"
  BY DEF CallbackInv, ThreadType, RecordInv
<1>1. ASSUME NEW m \in Msgs, Deliver(m) PROVE CInv'
  <2>1. /\ goAt[m] = "kernel" /\ goAt' = [goAt EXCEPT ![m] = "callback"]
        /\ pc' = [pc EXCEPT ![m] = [@ EXCEPT !["timer"] = "ready"]]
        /\ cb = None /\ cb' = m
        /\ UNCHANGED <<kstat, winner, count, closing>>
    BY <1>1 DEF Deliver
  <2>2. pc[m]["timer"] = "idle"
    BY <2>1 DEF RecordInv
  <2>3. \A x \in Msgs, r \in Parties : pc'[x][r] = "done" <=> pc[x][r] = "done"
    BY <2>1, <2>2 DEF Parties
  <2>4. Placed'
    BY <2>1, EsGlueAssumption DEF CInv, Placed, Active
  <2>5. IsFiniteSet(Delivered')
    <3>1. Delivered' = Delivered \cup {m}
      BY <2>1 DEF Delivered
    <3>2. QED
      BY <3>1, FS_AddElement DEF CInv
  <2>6. UNCHANGED <<Seen, Full, Rejected, ByAgent, ByTimer>>
    BY <2>1, <2>3 DEF Seen, Full, Rejected, ByAgent, ByTimer, Parties
  <2>7. QED
    BY <2>1, <2>4, <2>5, <2>6 DEF CInv, Tallies, Active
<1>2. CASE ReadActive
  <2>1. /\ UNCHANGED <<kstat, pc, winner, count, closing>>
        /\ \/ Active /\ UNCHANGED <<cb, goAt>>
           \/ ~Active /\ cb' = None /\ goAt' = [goAt EXCEPT ![cb] = "orphan"]
    BY <1>2 DEF ReadActive
  <2>2. Placed'
    BY <1>0, <1>2, <2>1 DEF CInv, Placed, Active, ReadActive
  <2>3. Quiet
    BY <1>0, <1>2, <2>1
       DEF ReadActive, Quiet, Delivered, Seen, Full, Rejected, ByAgent, ByTimer, Active
  <2>4. QED
    BY <2>2, <2>3, QuietKeeps
<1>3. CASE Enqueue
  <2>1. /\ goAt[cb] = "callback" /\ cb \in Msgs
        /\ goAt' = [goAt EXCEPT ![cb] = "queued"] /\ pc[cb]["go"] = "idle"
        /\ count' = [count EXCEPT !["seen"] = @ + 1]
        /\ UNCHANGED <<kstat, pc, winner, closing>>
    BY <1>0, <1>3 DEF Enqueue, Bump
  <2>2. Placed'
    BY <2>1 DEF CInv, Placed, Active
  <2>3. UNCHANGED <<Delivered, Full, Rejected, ByAgent, ByTimer>>
    BY <2>1 DEF Delivered, Full, Rejected, ByAgent, ByTimer
  <2>4. Seen' = Seen \cup {cb} /\ cb \notin Seen
    BY <2>1 DEF Seen
  <2>5. Cardinality(Seen') = Cardinality(Seen) + 1
    BY <2>4, CountedAreFinite, OneMore DEF CInv
  <2>6. QED
    BY <2>1, <2>2, <2>3, <2>5 DEF CInv, Tallies, Active, Counters
<1>4. CASE AnswerInline
  <2>1. /\ goAt[cb] = "callback" /\ cb \in Msgs
        /\ goAt' = [goAt EXCEPT ![cb] = "inline"]
        /\ pc[cb]["go"] = "idle" /\ pc' = [pc EXCEPT ![cb] = [@ EXCEPT !["go"] = "ready"]]
        /\ count' = [count EXCEPT !["full"] = @ + 1]
        /\ UNCHANGED <<kstat, cb, winner, closing>>
    BY <1>0, <1>4 DEF AnswerInline, Bump
  <2>2. Placed'
    BY <2>1 DEF CInv, Placed, Active
  <2>3. UNCHANGED <<Delivered, Seen, Rejected, ByAgent, ByTimer>>
    BY <2>1 DEF Delivered, Seen, Rejected, ByAgent, ByTimer, Parties
  <2>4. Full' = Full \cup {cb} /\ cb \notin Full
    BY <2>1 DEF Full
  <2>5. Cardinality(Full') = Cardinality(Full) + 1
    BY <2>4, CountedAreFinite, OneMore DEF CInv
  <2>6. QED
    BY <2>1, <2>2, <2>3, <2>5 DEF CInv, Tallies, Active, Counters
<1>5. QED
  BY <1>1, <1>2, <1>3, <1>4 DEF Callback

-----------------------------------------------------------------------------
(* The two parties *)

LEMMA ExchangeCounts ==
  ASSUME IInv, CInv, NEW m \in Msgs, NEW p \in Parties, Exchange(m, p)
  PROVE  CInv'
<1> USE DEF IInv, MessageType, kernelVars, pendVars, cbVars, loopVars
<1>1. /\ UNCHANGED <<kstat, goAt, cb, count, closing>>
      /\ \A x \in Msgs, r \in Parties : pc'[x][r] = "done" <=> pc[x][r] = "done"
  BY DEF Exchange, Parties
<1>2. \A x \in Msgs, r \in Parties :
        winner'[x] = r /\ pc'[x][r] = "done" <=> winner[x] = r /\ pc[x][r] = "done"
  BY <1>1 DEF Exchange, ExchangeInv, Parties
<1>3. Placed'
  BY <1>1 DEF CInv, Placed, Active
<1>4. Quiet
  BY <1>1, <1>2
     DEF Quiet, Delivered, Seen, Full, Rejected, ByAgent, ByTimer, Active, Parties
<1>5. QED
  BY <1>3, <1>4, QuietKeeps

LEMMA AnswerCounts ==
  ASSUME IInv, CInv, NEW m \in Msgs, NEW p \in Parties, Answer(m, p)
  PROVE  CInv'
<1> USE DEF IInv, MessageType, kernelVars, pendVars, cbVars, loopVars
<1>1. PICK ok \in BOOLEAN :
        /\ kstat' = [kstat EXCEPT ![m] =
                       IF closing = "released" THEN @
                       ELSE IF ok THEN ResponseOf(m, p) ELSE "rejected"]
        /\ count' = Bump("error", ~ok /\ Active)
        /\ UNCHANGED <<goAt, winner, cb, closing>>
        /\ \A x \in Msgs, r \in Parties : pc'[x][r] = "done" <=> pc[x][r] = "done"
  BY DEF Answer, Parties
<1>2. kstat[m] # "rejected" /\ ResponseOf(m, p) # "rejected"
  BY DEF Answer, ExchangeInv, KernelInv, ResponseOf, Parties, Verdicts
<1>3. Placed'
  BY <1>1 DEF CInv, Placed, Active
<1>4. UNCHANGED <<Delivered, Seen, Full, ByAgent, ByTimer>>
  BY <1>1 DEF Delivered, Seen, Full, ByAgent, ByTimer, Parties
<1>5. CASE ~ok /\ Active
  <2>1. Rejected' = Rejected \cup {m} /\ m \notin Rejected
    BY <1>1, <1>2, <1>5 DEF Rejected, Active
  <2>2. Cardinality(Rejected') = Cardinality(Rejected) + 1
    BY <2>1, CountedAreFinite, OneMore DEF CInv
  <2>3. QED
    BY <1>1, <1>3, <1>4, <1>5, <2>2 DEF CInv, Tallies, Active, Counters, Bump
<1>6. CASE ok /\ Active
  <2>1. UNCHANGED <<Rejected, count>>
    BY <1>1, <1>2, <1>6 DEF Rejected, Active, Bump, Counters
  <2>2. QED
    BY <1>1, <1>3, <1>4, <2>1 DEF CInv, Tallies, Active
<1>7. CASE ~Active
  BY <1>1, <1>3, <1>4, <1>7 DEF CInv, Active
<1>8. QED
  BY <1>5, <1>6, <1>7

LEMMA UnrefCounts ==
  ASSUME IInv, CInv, NEW m \in Msgs, NEW p \in Parties, Unref(m, p)
  PROVE  CInv'
<1>1. /\ UNCHANGED <<kstat, goAt, winner, closing>>
      /\ pc[m][p] = "unref" /\ pc' = [pc EXCEPT ![m] = [@ EXCEPT ![p] = "done"]]
      /\ count' = CountWin(m, p)
      /\ pc \in [Msgs -> [Parties -> PC]] /\ count \in [Counters -> Nat]
      /\ RecordInv(m)
  BY DEF Unref, IInv, MessageType, kernelVars
<1>2. Placed'
  <2>1. goAt[m] # "callback" \/ p = "timer"
    BY <1>1 DEF RecordInv, Parties
  <2>2. cb' = cb \/ (p = "go" /\ cb = m)
    BY DEF Unref, cbVars
  <2>3. QED
    BY <1>1, <2>1, <2>2 DEF CInv, Placed, Active
<1>3. UNCHANGED <<Delivered, Seen, Full, Rejected>>
  BY <1>1 DEF Delivered, Seen, Full, Rejected
<1>4. \A x \in Msgs, r \in Parties :
        pc'[x][r] = "done" <=> (pc[x][r] = "done" \/ (x = m /\ r = p))
  BY <1>1 DEF Parties
<1>5. CASE winner[m] = "go" /\ p = "go" /\ goAt[m] = "agent"
  <2>1. ByAgent' = ByAgent \cup {m} /\ m \notin ByAgent /\ UNCHANGED ByTimer
    BY <1>1, <1>4, <1>5 DEF ByAgent, ByTimer, Parties
  <2>2. Cardinality(ByAgent') = Cardinality(ByAgent) + 1
    BY <2>1, CountedAreFinite, OneMore DEF CInv
  <2>3. count' = [count EXCEPT !["agent"] = @ + 1]
    BY <1>1, <1>5 DEF CountWin, Bump
  <2>4. QED
    BY <1>1, <1>2, <1>3, <2>1, <2>2, <2>3 DEF CInv, Tallies, Active, Counters
<1>6. CASE winner[m] = "timer" /\ p = "timer" /\ Active
  <2>1. ByTimer' = ByTimer \cup {m} /\ m \notin ByTimer /\ UNCHANGED ByAgent
    BY <1>1, <1>4, <1>6 DEF ByAgent, ByTimer, Parties
  <2>2. Cardinality(ByTimer') = Cardinality(ByTimer) + 1
    BY <2>1, CountedAreFinite, OneMore DEF CInv
  <2>3. count' = [count EXCEPT !["deadline"] = @ + 1]
    BY <1>1, <1>6 DEF CountWin, Bump
  <2>4. QED
    BY <1>1, <1>2, <1>3, <2>1, <2>2, <2>3 DEF CInv, Tallies, Active, Counters
<1>7. CASE winner[m] # p \/ (p = "go" /\ goAt[m] # "agent")
  <2>1. UNCHANGED <<ByAgent, ByTimer>>
    BY <1>1, <1>4, <1>7 DEF ByAgent, ByTimer, Parties
  <2>2. UNCHANGED count
    BY <1>1, <1>7 DEF CountWin, Bump, Counters, Parties
  <2>3. QED
    BY <1>1, <1>2, <1>3, <2>1, <2>2 DEF CInv, Tallies, Active
<1>8. CASE ~Active
  BY <1>1, <1>2, <1>3, <1>8 DEF CInv, Active
<1>9. QED
  BY <1>5, <1>6, <1>7, <1>8 DEF Parties

-----------------------------------------------------------------------------
LEMMA CountsStep == IInv /\ CInv /\ [Next]_vars => CInv'
<1> SUFFICES ASSUME IInv, CInv, [Next]_vars PROVE CInv'
  OBVIOUS
<1>1. ASSUME NEW m \in Msgs, NEW p \in Parties, Respond(m, p) PROVE CInv'
  BY <1>1, ExchangeCounts, AnswerCounts, UnrefCounts DEF Respond
<1>2. CASE UNCHANGED vars
  BY <1>2 DEF vars, kernelVars, pendVars, cbVars, CInv, Placed, Active, Tallies,
     Delivered, Seen, Full, Rejected, ByAgent, ByTimer
<1>3. QED
  BY <1>1, <1>2, KernelCounts, LoopCounts, CallbackCounts DEF Next

LEMMA CountsInvariance == Safety => [](IInv /\ CInv)
<1>1. Init => IInv /\ CInv
  BY InitInv, InitCounts
<1>2. IInv /\ CInv /\ [Next]_vars => (IInv /\ CInv)'
  BY Inductive, CountsStep
<1>3. QED
  BY <1>1, <1>2, PTL DEF Safety

(* For any number of messages: when all that was delivered is settled, the
   diagnostic counters of ESFHook account for each message and each rejected
   answer, and none is counted twice. *)
THEOREM CountersAddUp == Safety => []CountersBalance
<1>1. IInv /\ CInv => CountersBalance
  <2> SUFFICES ASSUME IInv, CInv, Active, cb = None, \A m \in Delivered : Settled(m)
               PROVE  /\ count["error"] = Cardinality(Rejected)
                      /\ count["seen"] + count["full"] = Cardinality(Delivered)
                      /\ count["agent"] + count["deadline"] <= Cardinality(Delivered)
                      /\ count["agent"] + count["deadline"] + count["full"]
                           >= Cardinality(Delivered)
    BY DEF CountersBalance, Delivered, Rejected
  <2>1. Tallies /\ IsFiniteSet(Delivered)
    BY DEF CInv
  <2>2. /\ Cardinality(Delivered) \in Nat /\ Cardinality(Seen) \in Nat
        /\ Cardinality(Full) \in Nat /\ Cardinality(ByAgent) \in Nat
        /\ Cardinality(ByTimer) \in Nat
    BY <2>1, CountedAreFinite, FS_CardinalityType
  <2>3. Seen \cup Full = Delivered /\ Seen \cap Full = {}
    <3>1. \A m \in Msgs : goAt[m] \notin {"callback", "orphan"}
      BY EsGlueAssumption DEF CInv, Placed
    <3>2. QED
      BY <3>1 DEF Seen, Full, Delivered, IInv, MessageType, GoAt
  <2>4. Cardinality(Seen) + Cardinality(Full) = Cardinality(Delivered)
    <3>1. Cardinality(Seen \cup Full)
            = Cardinality(Seen) + Cardinality(Full) - Cardinality(Seen \cap Full)
      BY <2>1, CountedAreFinite, FS_Union
    <3>2. /\ Cardinality(Seen \cap Full) = 0
          /\ Cardinality(Seen \cup Full) = Cardinality(Delivered)
      BY <2>3, FS_EmptySet, Zenon
    <3>3. QED
      BY <2>2, <3>1, <3>2
  <2>5. ByAgent \cap ByTimer = {}
    BY DEF ByAgent, ByTimer
  <2>6. Cardinality(ByAgent \cup ByTimer) = Cardinality(ByAgent) + Cardinality(ByTimer)
    <3>1. Cardinality(ByAgent \cup ByTimer)
            = Cardinality(ByAgent) + Cardinality(ByTimer) - Cardinality(ByAgent \cap ByTimer)
      BY <2>1, CountedAreFinite, FS_Union
    <3>2. QED
      BY <2>2, <2>5, <3>1, FS_EmptySet
  <2>7. Cardinality(ByAgent \cup ByTimer) <= Cardinality(Delivered)
    BY <2>1, CountedAreDelivered, FS_Subset
  <2>8. Delivered = (ByAgent \cup ByTimer) \cup Full
    <3>1. ASSUME NEW m \in Delivered, goAt[m] # "inline" PROVE m \in ByAgent \cup ByTimer
      <4>1. m \in Msgs /\ pc[m]["go"] = "done" /\ pc[m]["timer"] = "done"
        BY DEF Settled, Parties, Delivered
      <4>2. winner[m] \in Parties
        BY <4>1 DEF IInv, MessageType, ExchangeInv, Parties
      <4>3. goAt[m] = "agent"
        BY <3>1, <4>1 DEF IInv, RecordInv
      <4>4. QED
        BY <4>1, <4>2, <4>3 DEF ByAgent, ByTimer, Parties
    <3>2. QED
      BY <3>1, CountedAreDelivered DEF Full, Delivered
  <2>9. Cardinality(Delivered) <= Cardinality(ByAgent \cup ByTimer) + Cardinality(Full)
    <3> DEFINE A == ByAgent \cup ByTimer
    <3>1. IsFiniteSet(A) /\ IsFiniteSet(Full) /\ Cardinality(A) \in Nat
      BY <2>1, <2>2, <2>6, CountedAreFinite, CountedAreDelivered, FS_Subset
    <3> HIDE DEF A
    <3>2. /\ Cardinality(A \cup Full)
               = Cardinality(A) + Cardinality(Full) - Cardinality(A \cap Full)
          /\ Cardinality(A \cap Full) \in Nat
      BY <3>1, FS_Union, FS_Intersection, FS_CardinalityType
    <3>3. QED
      BY <2>2, <2>8, <3>1, <3>2 DEF A
  <2>10. QED
    BY <2>1, <2>2, <2>4, <2>6, <2>7, <2>9 DEF Tallies
<1>2. QED
  BY <1>1, CountsInvariance, PTL
=============================================================================

------------------------- MODULE PromptCycleProofs -------------------------
(***************************************************************************)
(* Proofs about prompts, for any identities, files, ids and bus, whatever  *)
(* the two processes and the user do and whenever either process restarts. *)
(* A request whose answer is not being processed is marked in `pending`    *)
(* (Marked), which is what keeps a second one away; one that was shown is  *)
(* in `presented` (Remembered); and whatever bears the id of a request is  *)
(* about what the request is about (Faithful), as no id in use is given to *)
(* a new one.                                                              *)
(***************************************************************************)
EXTENDS PromptCycle, FiniteSetTheorems, TLAPS

FilesType ==
  /\ reqs \subseteq RequestFile /\ replies \subseteq ReplyFile
  /\ \A q \in reqs : q.age <= StaleAfter + 1
  /\ pending \subseteq {DedupKey(s) : s \in Subjects}
  /\ closing \subseteq Ids

HelperType ==
  /\ helperUp \in BOOLEAN /\ beat \in BOOLEAN /\ presenting \in BOOLEAN
  /\ presented \subseteq Ids /\ modal \subseteq Dialog

TrustType == policyFile \in AtMostOne(PolicyDoc) /\ trusted \subseteq AppNames

EngineType ==
  /\ cooling \in [Paths -> 0..Cooldown]
  /\ bus \in Seq(Subjects) /\ Len(bus) <= BusCap

OneFile == \A q, r \in reqs : q.id = r.id => q = r

Marked == \A q \in reqs : q.id \notin closing => DedupKey(q.about) \in pending

Files == OneFile /\ Marked /\ SinglePrompt

Remembered ==
  \A q \in reqs : q.shown = 0 \/ (q.shown = 1 /\ (helperUp => q.id \in presented))

OneDialog == modal = {} \/ (presenting /\ \E d : modal = {d})

Faithful ==
  \A q \in reqs : /\ \A f \in replies : f.id = q.id => f.about = q.about
                  /\ \A d \in modal : d.id = q.id => d.about = q.about

IInv == /\ FilesType /\ HelperType /\ TrustType /\ EngineType
        /\ Files /\ Remembered /\ OneDialog /\ Faithful

-----------------------------------------------------------------------------
(* What a step leaves alone keeps its part of the invariant. *)
LEMMA Untouched ==
  ASSUME IInv
  PROVE  /\ UNCHANGED <<reqs, replies, pending, closing>> => FilesType' /\ Files'
         /\ UNCHANGED <<helperUp, beat, presenting, presented, modal>> => HelperType' /\ OneDialog'
         /\ UNCHANGED <<policyFile, trusted>> => TrustType'
         /\ UNCHANGED <<cooling, bus>> => EngineType'
         /\ UNCHANGED <<reqs, helperUp, presented>> => Remembered'
         /\ UNCHANGED <<reqs, replies, modal>> => Faithful'
<1>1. UNCHANGED <<reqs, replies, pending, closing>> => FilesType' /\ Files'
  BY DEF IInv, FilesType, Files, OneFile, Marked, SinglePrompt
<1>2. UNCHANGED <<helperUp, beat, presenting, presented, modal>> => HelperType' /\ OneDialog'
  BY DEF IInv, HelperType, OneDialog
<1>3. UNCHANGED <<policyFile, trusted>> => TrustType'
  BY DEF IInv, TrustType
<1>4. UNCHANGED <<cooling, bus>> => EngineType'
  BY DEF IInv, EngineType
<1>5. UNCHANGED <<reqs, helperUp, presented>> => Remembered'
  BY DEF IInv, Remembered
<1>6. UNCHANGED <<reqs, replies, modal>> => Faithful'
  BY DEF IInv, Faithful
<1>7. QED
  BY <1>1, <1>2, <1>3, <1>4, <1>5, <1>6

(* A step that adds no request, and changes none but in its age and count. *)
Touched == /\ \A x \in reqs' : \E q \in reqs : x.id = q.id /\ x.about = q.about
           /\ \A x, y \in reqs' : x.id = y.id => x = y

LEMMA TouchedKeepsFiles ==
  ASSUME Files, Touched, UNCHANGED <<pending, closing>>
  PROVE  Files'
<1>1. OneFile'
  BY DEF Touched, OneFile
<1>2. Marked'
  BY DEF Touched, Files, Marked, DedupKey
<1>3. SinglePrompt'
  <2> SUFFICES ASSUME NEW x \in reqs', NEW y \in reqs', x.id \notin closing, y.id \notin closing,
                      DedupKey(x.about) = DedupKey(y.about)
               PROVE  x = y
    BY DEF SinglePrompt, DedupKey
  <2>1. PICK q \in reqs : x.id = q.id /\ x.about = q.about
    BY DEF Touched
  <2>2. PICK r \in reqs : y.id = r.id /\ y.about = r.about
    BY DEF Touched
  <2>3. q = r
    BY <2>1, <2>2 DEF Files, SinglePrompt
  <2>4. QED
    BY <2>1, <2>2, <2>3 DEF Touched
<1>4. QED
  BY <1>1, <1>2, <1>3 DEF Files

LEMMA TouchedKeepsFaithful ==
  ASSUME Faithful, Touched, UNCHANGED <<replies, modal>>
  PROVE  Faithful'
BY DEF Faithful, Touched

LEMMA UsableDocs ==
  ASSUME policyFile \in AtMostOne(PolicyDoc)
  PROVE  \A doc \in Usable(policyFile) : policyFile = {doc} /\ doc.apps \subseteq AppNames
BY DEF AtMostOne, PolicyDoc, Usable

-----------------------------------------------------------------------------
(* The extension *)

LEMMA DrainStep ==
  ASSUME IInv, NEW id \in Ids, NEW ok \in BOOLEAN, Drain(id, ok)
  PROVE  IInv'
<1> DEFINE about == Head(bus)
           new   == [id |-> id, about |-> about, age |-> 0, shown |-> 0]
<1>1. about \in Subjects /\ Tail(bus) \in Seq(Subjects) /\ Len(Tail(bus)) <= BusCap
  BY PromptCycleAssumption DEF IInv, EngineType, Drain
<1>2. bus' = Tail(bus) /\ Write(about, id, ok) /\ UNCHANGED <<helperVars, cooling, trusted>>
      /\ id \in FreeIds
  BY DEF Drain
<1> HIDE DEF about
<1>3. EngineType'
  BY <1>1, <1>2 DEF IInv, EngineType
<1>4. HelperType' /\ OneDialog' /\ TrustType'
  BY <1>2, Untouched DEF helperVars
<1>5. UNCHANGED <<replies, closing, modal, helperUp, presented>>
  BY <1>2 DEF helperVars, Write
<1>6. CASE DedupKey(about) \in pending \/ ~ok
  <2>1. UNCHANGED <<reqs, pending>>
    BY <1>2, <1>6 DEF Write
  <2>2. QED
    BY <1>3, <1>4, <1>5, <2>1, Untouched DEF IInv
<1>7. CASE DedupKey(about) \notin pending /\ ok
  <2>1. reqs' = reqs \cup {new} /\ pending' = pending \cup {DedupKey(about)}
    BY <1>2, <1>7 DEF Write
  <2>2. new \in RequestFile /\ new.age <= StaleAfter + 1
    BY <1>1, PromptCycleAssumption DEF RequestFile
  <2>3. FilesType'
    BY <1>1, <1>5, <2>1, <2>2 DEF IInv, FilesType
  <2>4. /\ \A q \in reqs : q.id # id
        /\ id \notin closing /\ id \notin presented
        /\ \A f \in replies : f.id # id
        /\ \A d \in modal : d.id # id
    BY <1>2 DEF FreeIds, IdsOf
  <2>5. new.id = id /\ new.about = about /\ new.shown = 0
    OBVIOUS
  <2> HIDE DEF new
  <2>6. OneFile'
    BY <2>1, <2>4, <2>5 DEF IInv, Files, OneFile
  <2>7. Marked'
    BY <1>5, <2>1, <2>5 DEF IInv, Files, Marked, DedupKey
  <2>8. SinglePrompt'
    <3>1. \A q \in reqs : q.id \notin closing => DedupKey(q.about) # DedupKey(about)
      BY <1>7 DEF IInv, Files, Marked
    <3>2. QED
      BY <1>5, <2>1, <2>5, <3>1 DEF IInv, Files, SinglePrompt, DedupKey
  <2>9. Remembered'
    BY <1>5, <2>1, <2>5 DEF IInv, Remembered
  <2>10. Faithful'
    BY <1>5, <2>1, <2>4, <2>5 DEF IInv, Faithful
  <2>11. QED
    BY <1>3, <1>4, <2>3, <2>6, <2>7, <2>8, <2>9, <2>10 DEF IInv, Files
<1>8. QED
  BY <1>6, <1>7

LEMMA ReplyStep ==
  ASSUME IInv, NEW f \in replies, ProcessReply(f), UNCHANGED <<helperVars, engineVars>>
  PROVE  IInv'
<1> DEFINE q    == {r \in reqs : r.id = f.id}
           keys == IF q = {} THEN {ZeroKey} ELSE {DedupKey(r.about) : r \in q}
<1>1. /\ closing = {} /\ reqs' = reqs /\ replies' \subseteq replies
      /\ pending' = (IF f.whole THEN pending \ keys ELSE pending)
      /\ closing' = IF f.whole THEN IdsOf(q) ELSE {}
  BY DEF ProcessReply
<1>2. HelperType' /\ OneDialog' /\ TrustType' /\ EngineType' /\ Remembered'
  BY <1>1, Untouched DEF helperVars, engineVars
<1>3. Faithful'
  BY <1>1 DEF IInv, Faithful, helperVars
<1>4. FilesType'
  <2>1. closing' \subseteq Ids
    BY <1>1 DEF IInv, FilesType, RequestFile, IdsOf
  <2>2. pending' \subseteq pending
    BY <1>1
  <2> QED
    BY <1>1, <2>1, <2>2 DEF IInv, FilesType
<1>5. OneFile'
  BY <1>1 DEF IInv, Files, OneFile
<1>6. SinglePrompt'
  BY <1>1 DEF IInv, Files, SinglePrompt, DedupKey
<1>7. Marked'
  <2> SUFFICES ASSUME NEW x \in reqs, x.id \notin closing' PROVE DedupKey(x.about) \in pending'
    BY <1>1 DEF Marked, DedupKey
  <2>1. DedupKey(x.about) \in pending
    BY <1>1 DEF IInv, Files, Marked
  <2>2. CASE ~f.whole
    BY <1>1, <2>1, <2>2
  <2>3. CASE f.whole /\ q = {}
    <3>1. x.about.path \in Paths
      BY DEF IInv, FilesType, RequestFile, Subjects
    <3>2. DedupKey(x.about) # ZeroKey
      BY <3>1, SpoolDirAssumption DEF DedupKey, ZeroKey
    <3>3. QED
      BY <1>1, <2>1, <2>3, <3>2
  <2>4. CASE f.whole /\ q # {}
    <3>1. \A r \in q : r # x
      BY <1>1, <2>4 DEF IdsOf
    <3>2. \A r \in q : DedupKey(r.about) # DedupKey(x.about)
      BY <1>1, <3>1 DEF IInv, Files, SinglePrompt
    <3>3. QED
      BY <1>1, <2>1, <2>4, <3>2
  <2>5. QED
    BY <2>2, <2>3, <2>4
<1>8. QED
  BY <1>2, <1>3, <1>4, <1>5, <1>6, <1>7 DEF IInv, Files

LEMMA FinishStep ==
  ASSUME IInv, FinishReply, UNCHANGED <<helperVars, engineVars>>
  PROVE  IInv'
<1>1. reqs' = {q \in reqs : q.id \notin closing} /\ closing' = {} /\ UNCHANGED <<replies, pending>>
  BY DEF FinishReply
<1>2. HelperType' /\ OneDialog' /\ TrustType' /\ EngineType'
  BY Untouched DEF helperVars, engineVars
<1>3. FilesType'
  BY <1>1 DEF IInv, FilesType
<1>4. Files'
  BY <1>1 DEF IInv, Files, OneFile, Marked, SinglePrompt, DedupKey
<1>5. Remembered' /\ Faithful'
  BY <1>1 DEF IInv, Remembered, Faithful, helperVars
<1>6. QED
  BY <1>2, <1>3, <1>4, <1>5 DEF IInv

LEMMA RestartStep ==
  ASSUME IInv, Restart
  PROVE  IInv'
<1>1. reqs' = {} /\ replies' = {} /\ pending' = {} /\ closing' = {} /\ UNCHANGED helperVars
      /\ cooling' = [p \in Paths |-> 0] /\ bus' = <<>>
      /\ trusted' = UNION {doc.apps : doc \in Usable(policyFile)}
  BY DEF Restart, SpoolNew
<1>2. HelperType' /\ OneDialog'
  BY <1>1, Untouched DEF helperVars
<1>3. TrustType'
  <2>1. policyFile \in AtMostOne(PolicyDoc) /\ policyFile' = policyFile
    BY <1>1 DEF IInv, TrustType, helperVars
  <2>2. \A doc \in Usable(policyFile) : doc.apps \subseteq AppNames
    BY <2>1, UsableDocs
  <2>3. trusted' \subseteq AppNames
    BY <1>1, <2>2
  <2>4. QED
    BY <2>1, <2>3 DEF TrustType
<1>4. EngineType'
  BY <1>1, PromptCycleAssumption DEF EngineType
<1>5. FilesType' /\ Files' /\ Remembered' /\ Faithful'
  BY <1>1 DEF FilesType, Files, OneFile, Marked, SinglePrompt, Remembered, Faithful
<1>6. QED
  BY <1>2, <1>3, <1>4, <1>5 DEF IInv

LEMMA EngineStep ==
  ASSUME IInv, (\E s \in Subjects : Access(s)) \/ ReloadTrust
  PROVE  IInv'
<1>1. UNCHANGED <<reqs, replies, spoolVars, helperVars>>
  BY DEF Access, ReloadTrust
<1>2. FilesType' /\ Files' /\ HelperType' /\ OneDialog' /\ Remembered' /\ Faithful'
  BY <1>1, Untouched DEF spoolVars, helperVars
<1>3. ASSUME NEW s \in Subjects, Access(s) PROVE EngineType' /\ TrustType'
  <2>1. cooling' = [cooling EXCEPT ![s.path] = Cooldown] /\ bus' = Publish(bus, s)
        /\ UNCHANGED <<trusted, policyFile>>
    BY <1>3 DEF Access, helperVars
  <2>2. Publish(bus, s) \in Seq(Subjects) /\ Len(Publish(bus, s)) <= BusCap
    BY PromptCycleAssumption DEF IInv, EngineType, Publish
  <2>3. cooling' \in [Paths -> 0..Cooldown]
    <3>1. cooling \in [Paths -> 0..Cooldown] /\ Cooldown \in 0..Cooldown
      BY PromptCycleAssumption DEF IInv, EngineType
    <3>2. QED
      BY <2>1, <3>1
  <2>4. EngineType'
    BY <2>1, <2>2, <2>3 DEF EngineType
  <2>5. QED
    BY <2>1, <2>4, Untouched
<1>4. ASSUME ReloadTrust PROVE EngineType' /\ TrustType'
  <2>1. UNCHANGED <<cooling, bus, policyFile>> /\ \E doc \in Usable(policyFile) : trusted' = doc.apps
    BY <1>4 DEF ReloadTrust, helperVars
  <2>2. TrustType'
    BY <2>1, UsableDocs DEF IInv, TrustType
  <2>3. QED
    BY <2>1, <2>2, Untouched
<1>5. QED
  BY <1>2, <1>3, <1>4 DEF IInv

LEMMA TickStep ==
  ASSUME IInv, Tick
  PROVE  IInv'
<1>1. reqs' = {Older(q) : q \in reqs} /\ UNCHANGED <<replies, spoolVars, helperVars, bus, trusted>>
      /\ cooling' = [p \in Paths |-> IF cooling[p] = 0 THEN 0 ELSE cooling[p] - 1]
  BY DEF Tick
<1>2. \A q \in reqs : /\ Older(q) \in RequestFile /\ Older(q).age <= StaleAfter + 1
                      /\ Older(q).id = q.id /\ Older(q).about = q.about
                      /\ Older(q).shown = q.shown
  <2> SUFFICES ASSUME NEW q \in reqs
               PROVE  /\ Older(q) \in RequestFile /\ Older(q).age <= StaleAfter + 1
                      /\ Older(q).id = q.id /\ Older(q).about = q.about
                      /\ Older(q).shown = q.shown
    OBVIOUS
  <2>1. q \in RequestFile /\ q.age <= StaleAfter + 1
    BY DEF IInv, FilesType
  <2>2. QED
    BY <2>1, PromptCycleAssumption DEF Older, RequestFile
<1>3. Touched
  BY <1>1, <1>2 DEF Touched, IInv, Files, OneFile
<1>4. Files' /\ Faithful'
  BY <1>1, <1>3, TouchedKeepsFiles, TouchedKeepsFaithful DEF IInv, spoolVars, helperVars
<1>5. FilesType'
  BY <1>1, <1>2 DEF IInv, FilesType, spoolVars
<1>6. Remembered'
  BY <1>1, <1>2 DEF IInv, Remembered, helperVars
<1>7. HelperType' /\ OneDialog' /\ TrustType'
  BY <1>1, Untouched DEF helperVars
<1>8. EngineType'
  <2>1. cooling' \in [Paths -> 0..Cooldown]
    BY <1>1, PromptCycleAssumption DEF IInv, EngineType
  <2>2. QED
    BY <1>1, <2>1 DEF IInv, EngineType
<1>9. QED
  BY <1>4, <1>5, <1>6, <1>7, <1>8 DEF IInv

-----------------------------------------------------------------------------
(* The helper *)

LEMMA ScanStep ==
  ASSUME IInv, Scan, UNCHANGED <<spoolVars, engineVars>>
  PROVE  IInv'
<1> DEFINE show == Show(reqs, IdsOf(replies), presented, presenting)
           kept == Prune(presented, IdsOf(reqs))
<1>1. helperUp /\ UNCHANGED <<replies, helperUp, beat, policyFile, trusted, pending, closing, cooling, bus>>
  BY DEF Scan, spoolVars, engineVars
<1>2. TrustType' /\ EngineType'
  BY <1>1, Untouched
<1>3. Reap(reqs) \subseteq reqs /\ kept \subseteq presented /\ \A q \in reqs : q.id \in presented => q.id \in kept
  BY DEF Reap, Prune, IdsOf
<1>4. CASE show = {}
  <2>1. reqs' = Reap(reqs) /\ presented' = kept /\ UNCHANGED <<presenting, modal>>
    BY <1>4 DEF Scan
  <2>2. Touched
    BY <1>3, <2>1 DEF Touched, IInv, Files, OneFile
  <2>3. Files' /\ Faithful'
    BY <1>1, <2>1, <2>2, TouchedKeepsFiles, TouchedKeepsFaithful DEF IInv
  <2>4. FilesType' /\ HelperType' /\ OneDialog'
    BY <1>1, <1>3, <2>1 DEF IInv, FilesType, HelperType, OneDialog
  <2>5. Remembered'
    BY <1>1, <1>3, <2>1 DEF IInv, Remembered
  <2>6. QED
    BY <1>2, <2>3, <2>4, <2>5 DEF IInv
<1>5. CASE show # {}
  <2>1. PICK q \in show :
          /\ reqs' = (Reap(reqs) \ {q}) \cup {ShownOnce(q)}
          /\ presented' = kept \cup {q.id}
          /\ presenting' = TRUE
          /\ modal' = modal \cup {[id |-> q.id, about |-> q.about, stage |-> "open", saves |-> {}]}
    BY <1>5 DEF Scan
  <2>2. ~presenting /\ q \in reqs /\ q.id \notin presented
    BY DEF Show, Oldest
  <2>3. modal = {}
    BY <2>2 DEF IInv, OneDialog
  <2> DEFINE x == ShownOnce(q)
             d == [id |-> q.id, about |-> q.about, stage |-> "open", saves |-> {}]
  <2>4. q.shown = 0 /\ q \in RequestFile /\ q.age <= StaleAfter + 1
    BY <1>1, <2>2 DEF IInv, Remembered, FilesType
  <2>5. x \in RequestFile /\ x.age = q.age /\ x.id = q.id /\ x.about = q.about /\ x.shown = 1
    BY <2>4 DEF ShownOnce, RequestFile
  <2>6. d \in Dialog /\ d.id = q.id /\ d.about = q.about
    BY <2>4 DEF Dialog, RequestFile, AtMostOne
  <2>7. reqs' = (Reap(reqs) \ {q}) \cup {x} /\ modal' = {d} /\ presenting'
    BY <2>1, <2>3
  <2> HIDE DEF x, d
  <2>8. Touched
    BY <1>3, <2>2, <2>5, <2>7 DEF Touched, IInv, Files, OneFile
  <2>9. Files'
    BY <1>1, <2>8, TouchedKeepsFiles DEF IInv
  <2>10. Faithful'
    <3>1. \A y \in reqs' : y.id = q.id => y.about = q.about
      BY <2>2, <2>8 DEF Touched, IInv, Files, OneFile
    <3>2. QED
      BY <1>1, <2>6, <2>7, <2>8, <3>1 DEF IInv, Faithful, Touched
  <2>11. FilesType'
    BY <1>1, <1>3, <2>4, <2>5, <2>7 DEF IInv, FilesType
  <2>12. q.id \in Ids
    BY <2>4 DEF RequestFile
  <2>13. HelperType'
    <3>1. presenting' \in BOOLEAN
      BY <2>1
    <3>2. QED
      BY <1>1, <1>3, <2>1, <2>6, <2>7, <2>12, <3>1 DEF IInv, HelperType
  <2>14. OneDialog'
    BY <2>7 DEF OneDialog
  <2>15. Remembered'
    BY <1>1, <1>3, <2>1, <2>5, <2>7 DEF IInv, Remembered
  <2>16. QED
    BY <1>2, <2>9, <2>10, <2>11, <2>13, <2>14, <2>15 DEF IInv
<1>6. QED
  BY <1>4, <1>5

LEMMA ReplyBegins ==
  ASSUME IInv, NEW e \in modal, NEW v \in Decisions, NEW scope \in Scopes,
         BeginReply(e, v, scope), UNCHANGED <<spoolVars, engineVars>>
  PROVE  IInv'
<1> DEFINE f == [id |-> e.id, about |-> e.about, decision |-> v, scope |-> scope,
                 whole |-> FALSE]
           d == [e EXCEPT !.stage = "replying"]
<1>1. /\ replies' = Without(replies, e.id) \cup {f}
      /\ modal' = (modal \ {e}) \cup {d}
      /\ UNCHANGED <<reqs, helperUp, beat, presented, presenting, pending, closing, cooling,
                     bus, trusted, policyFile>>
  BY DEF BeginReply, spoolVars, engineVars
<1>2. e \in Dialog
  BY DEF IInv, HelperType
<1>3. f \in ReplyFile /\ f.id = e.id /\ f.about = e.about
  BY <1>2 DEF ReplyFile, Dialog
<1>4. d \in Dialog /\ d.id = e.id /\ d.about = e.about
  BY <1>2 DEF Dialog
<1>5. modal = {e} /\ presenting
  BY DEF IInv, OneDialog
<1>6. Without(replies, e.id) \subseteq replies
  BY DEF Without
<1> HIDE DEF f, d
<1>7. FilesType'
  BY <1>1, <1>3, <1>6 DEF IInv, FilesType
<1>8. Files'
  BY <1>1 DEF IInv, Files, OneFile, Marked, SinglePrompt, DedupKey
<1>9. HelperType' /\ OneDialog'
  BY <1>1, <1>4, <1>5 DEF IInv, HelperType, OneDialog
<1>10. EngineType' /\ Remembered' /\ TrustType'
  BY <1>1, Untouched
<1>11. Faithful'
  BY <1>1, <1>3, <1>4, <1>6 DEF IInv, Faithful
<1>12. QED
  BY <1>7, <1>8, <1>9, <1>10, <1>11 DEF IInv

LEMMA AnswerStep ==
  ASSUME IInv, NEW e \in modal, NEW a \in Answers, Answer(e, a[1], a[2]),
         UNCHANGED <<spoolVars, engineVars>>
  PROVE  IInv'
<1> DEFINE scope == IF a[2] = "trust" THEN "always" ELSE a[2]
<1>1. a[1] \in Decisions /\ scope \in Scopes
  BY PromptHelperAssumption DEF Scopes
<1>2. BeginReply(e, a[1], scope)
  BY DEF Answer
<1> HIDE DEF scope
<1>3. QED
  BY <1>1, <1>2, ReplyBegins

(* A step of addTrustedApp: the file and the dialog change, no more. *)
LEMMA PolicyWritten ==
  ASSUME IInv, NEW e \in modal, NEW d \in Dialog, d.id = e.id, d.about = e.about,
         modal' = (modal \ {e}) \cup {d}, policyFile' \in AtMostOne(PolicyDoc),
         UNCHANGED <<reqs, replies, helperUp, beat, presented, presenting, spoolVars, engineVars>>
  PROVE  IInv'
<1>1. UNCHANGED <<pending, closing, cooling, bus, trusted>>
  BY DEF spoolVars, engineVars
<1>2. FilesType' /\ Files' /\ EngineType' /\ Remembered'
  BY <1>1, Untouched
<1>3. modal = {e} /\ presenting
  BY DEF IInv, OneDialog
<1>4. HelperType' /\ OneDialog'
  BY <1>3 DEF IInv, HelperType, OneDialog
<1>5. TrustType'
  BY <1>1 DEF IInv, TrustType
<1>6. Faithful'
  BY <1>3 DEF IInv, Faithful
<1>7. QED
  BY <1>2, <1>4, <1>5, <1>6 DEF IInv

LEMMA AppendedDoc ==
  ASSUME policyFile \in AtMostOne(PolicyDoc), NEW apps \in SUBSET AppNames
  PROVE  Appended(apps) \in PolicyDoc
<1> DEFINE globs == \E doc \in policyFile : doc.globs
           old   == UNION {doc.apps : doc \in policyFile}
<1>1. globs \in BOOLEAN
  OBVIOUS
<1>2. old \subseteq AppNames
  <2>1. \A doc \in policyFile : doc.apps \subseteq AppNames
    BY DEF AtMostOne, PolicyDoc
  <2>2. QED
    BY <2>1
<1>3. Appended(apps) = [globs |-> globs, apps |-> apps \cup old]
  BY DEF Appended
<1> HIDE DEF globs, old
<1>4. apps \cup old \in SUBSET AppNames
  BY <1>2
<1>5. [globs |-> globs, apps |-> apps \cup old] \in [globs: BOOLEAN, apps: SUBSET AppNames]
  BY <1>1, <1>4, Zenon
<1>6. QED
  BY <1>3, <1>5 DEF PolicyDoc

LEMMA TrustAppStep ==
  ASSUME IInv, NEW e \in modal, TrustApp(e), UNCHANGED <<spoolVars, engineVars>>
  PROVE  IInv'
<1> DEFINE doc == Appended(Offered(e))
           d == [e EXCEPT !.stage = "trusting", !.saves = {doc}]
<1>1. e \in Dialog
  BY DEF IInv, HelperType
<1>2. Offered(e) \subseteq AppNames
  BY <1>1 DEF Dialog, Subjects, Offered, AppNames
<1>3. doc \in PolicyDoc
  BY <1>2, AppendedDoc DEF IInv, TrustType
<1>4. /\ policyFile' = {} /\ modal' = (modal \ {e}) \cup {d}
      /\ UNCHANGED <<reqs, replies, helperUp, beat, presented, presenting>>
  BY DEF TrustApp
<1> HIDE DEF doc
<1>5. d \in Dialog /\ d.id = e.id /\ d.about = e.about
  BY <1>1, <1>3 DEF Dialog, AtMostOne
<1> HIDE DEF d
<1>6. policyFile' \in AtMostOne(PolicyDoc)
  BY <1>4 DEF AtMostOne
<1>7. QED
  BY <1>4, <1>5, <1>6, PolicyWritten

LEMMA SaveStep ==
  ASSUME IInv, NEW e \in modal, SaveTrust(e), UNCHANGED <<spoolVars, engineVars>>
  PROVE  IInv'
<1> DEFINE d == [e EXCEPT !.stage = "trusted", !.saves = {}]
<1>1. e \in Dialog
  BY DEF IInv, HelperType
<1>2. /\ policyFile' = e.saves /\ modal' = (modal \ {e}) \cup {d}
      /\ UNCHANGED <<reqs, replies, helperUp, beat, presented, presenting>>
  BY DEF SaveTrust
<1>3. d \in Dialog /\ d.id = e.id /\ d.about = e.about
  BY <1>1 DEF Dialog, AtMostOne
<1> HIDE DEF d
<1>4. policyFile' \in AtMostOne(PolicyDoc)
  BY <1>1, <1>2 DEF Dialog
<1>5. QED
  BY <1>2, <1>3, <1>4, PolicyWritten

LEMMA WriteStep ==
  ASSUME IInv, NEW e \in modal, FinishWrite(e), UNCHANGED <<spoolVars, engineVars>>
  PROVE  IInv'
<1>1. /\ replies' = {IF f.id = e.id THEN [f EXCEPT !.whole = TRUE] ELSE f : f \in replies}
      /\ modal' = modal \ {e}
      /\ UNCHANGED <<reqs, helperUp, beat, presented, presenting, policyFile, trusted,
                     pending, closing, cooling, bus>>
  BY DEF FinishWrite, spoolVars, engineVars
<1>2. \A f \in replies : LET g == IF f.id = e.id THEN [f EXCEPT !.whole = TRUE] ELSE f
                         IN  g \in ReplyFile /\ g.id = f.id /\ g.about = f.about
  <2> SUFFICES ASSUME NEW f \in replies
               PROVE  LET g == IF f.id = e.id THEN [f EXCEPT !.whole = TRUE] ELSE f
                      IN  g \in ReplyFile /\ g.id = f.id /\ g.about = f.about
    OBVIOUS
  <2>1. f \in ReplyFile
    BY DEF IInv, FilesType
  <2>2. QED
    BY <2>1 DEF ReplyFile
<1>3. \A g \in replies' : g \in ReplyFile /\ \E f \in replies : g.id = f.id /\ g.about = f.about
  BY <1>1, <1>2
<1>4. FilesType'
  BY <1>1, <1>3 DEF IInv, FilesType
<1>5. Files'
  BY <1>1 DEF IInv, Files, OneFile, Marked, SinglePrompt, DedupKey
<1>6. HelperType' /\ OneDialog'
  BY <1>1 DEF IInv, HelperType, OneDialog
<1>7. TrustType' /\ EngineType' /\ Remembered'
  BY <1>1, Untouched
<1>8. Faithful'
  BY <1>1, <1>3 DEF IInv, Faithful
<1>9. QED
  BY <1>4, <1>5, <1>6, <1>7, <1>8 DEF IInv

Unseen(q) == [q EXCEPT !.shown = 0]

(* The gate, and the comings and goings of the helper. *)
LEMMA GateStep ==
  ASSUME IInv, GateOpens \/ HelperStops \/ HelperStarts \/ HeartbeatLapses,
         UNCHANGED <<spoolVars, engineVars>>
  PROVE  IInv'
<1>1. UNCHANGED <<replies, policyFile, trusted, pending, closing, cooling, bus>>
  BY DEF GateOpens, HelperStops, HelperStarts, HeartbeatLapses, spoolVars, engineVars
<1>2. TrustType' /\ EngineType'
  BY <1>1, Untouched
<1>3. HelperType' /\ OneDialog'
  BY DEF GateOpens, HelperStops, HelperStarts, HeartbeatLapses, IInv, HelperType, OneDialog
<1>4. CASE GateOpens \/ HelperStops \/ HeartbeatLapses
  <2>1. reqs' = reqs /\ modal' \subseteq modal
    BY <1>4 DEF GateOpens, HelperStops, HeartbeatLapses
  <2>2. FilesType' /\ Files'
    BY <1>1, <2>1, Untouched
  <2>3. Remembered'
    BY <1>4 DEF GateOpens, HelperStops, HeartbeatLapses, IInv, Remembered
  <2>4. Faithful'
    BY <1>1, <2>1 DEF IInv, Faithful
  <2>5. QED
    BY <1>2, <1>3, <2>2, <2>3, <2>4 DEF IInv
<1>5. CASE HelperStarts
  <2>1. reqs' = {Unseen(q) : q \in reqs} /\ modal' = modal
    BY <1>5 DEF HelperStarts, Unseen
  <2>2. \A q \in reqs : /\ Unseen(q) \in RequestFile /\ Unseen(q).age = q.age
                        /\ Unseen(q).id = q.id /\ Unseen(q).about = q.about
                        /\ Unseen(q).shown = 0
    BY DEF IInv, FilesType, RequestFile, Unseen
  <2>3. Touched
    BY <2>1, <2>2 DEF Touched, IInv, Files, OneFile
  <2>4. Files' /\ Faithful'
    BY <1>1, <2>1, <2>3, TouchedKeepsFiles, TouchedKeepsFaithful DEF IInv
  <2>5. FilesType'
    BY <1>1, <2>1, <2>2 DEF IInv, FilesType
  <2>6. Remembered'
    BY <2>1, <2>2 DEF Remembered
  <2>7. QED
    BY <1>2, <1>3, <2>4, <2>5, <2>6 DEF IInv
<1>6. QED
  BY <1>4, <1>5

-----------------------------------------------------------------------------
LEMMA InitHolds == Init => IInv
<1> SUFFICES ASSUME Init PROVE IInv
  OBVIOUS
<1> USE DEF Init, SpoolInit, HelperInit
<1>1. FilesType /\ Files /\ Remembered /\ Faithful
  BY DEF FilesType, Files, OneFile, Marked, SinglePrompt, Remembered, Faithful
<1>2. HelperType
  BY DEF HelperType
<1>3. OneDialog /\ TrustType
  BY DEF OneDialog, TrustType, AtMostOne, PolicyDoc
<1>4. EngineType
  BY PromptCycleAssumption DEF EngineType
<1>5. QED
  BY <1>1, <1>2, <1>3, <1>4 DEF IInv

LEMMA CycleStep == IInv /\ [Next]_vars => IInv'
<1> SUFFICES ASSUME IInv, [Next]_vars PROVE IInv'
  OBVIOUS
<1>1. CASE UNCHANGED vars
  BY <1>1, Untouched DEF vars, spoolVars, helperVars, engineVars, IInv
<1>2. CASE Spool
  BY <1>2, ReplyStep, FinishStep DEF Spool, Polls
<1>3. CASE User
  BY <1>3, AnswerStep, TrustAppStep DEF User
<1>4. CASE Modal
  <2>1. ASSUME NEW d \in modal, ReplyTrusted(d), UNCHANGED <<spoolVars, engineVars>> PROVE IInv'
    <3>1. "allow" \in Decisions /\ "once" \in Scopes
      BY DEF Decisions, Scopes
    <3>2. QED
      BY <2>1, <3>1, ReplyBegins DEF ReplyTrusted
  <2>2. QED
    BY <1>4, <2>1, SaveStep, WriteStep, GateStep DEF Modal
<1>5. CASE Scans \/ Stops \/ Starts \/ Lapses
  BY <1>5, ScanStep, GateStep DEF Scans, Stops, Starts, Lapses
<1>6. QED
  BY <1>1, <1>2, <1>3, <1>4, <1>5, EngineStep, DrainStep, RestartStep, TickStep DEF Next

LEMMA Invariance == Safety => []IInv
BY InitHolds, CycleStep, PTL DEF Safety

(* The types of both processes and of the files between them; with them, the
   bus keeps within its capacity. *)
THEOREM PromptsTyped == Safety => []TypeOK
<1>1. IInv => TypeOK
  BY DEF IInv, FilesType, HelperType, TrustType, EngineType, TypeOK
<1>2. QED
  BY <1>1, Invariance, PTL

(* Write's dedup (promptspool.go:88): an identity and a file have one request
   outstanding, through restarts of either process and late replies. *)
THEOREM OnePromptEach == Safety => []SinglePrompt
<1>1. IInv => SinglePrompt
  BY DEF IInv, Files
<1>2. QED
  BY <1>1, Invariance, PTL

(* One run of the helper shows a request once, and one dialog at a time
   (promptqueue.swift:50, main.swift:516). *)
THEOREM EachIsAskedOnce == Safety => []AskedOnce
<1>1. IInv => AskedOnce
  <2> SUFFICES ASSUME IInv PROVE AskedOnce
    OBVIOUS
  <2>1. \A q \in reqs : q.shown <= 1
    BY DEF IInv, Remembered
  <2>2. Cardinality(modal) <= 1
    <3>1. CASE modal = {}
      BY <3>1, FS_EmptySet
    <3>2. CASE \E d : modal = {d}
      BY <3>2, FS_Singleton
    <3>3. QED
      BY <3>1, <3>2 DEF IInv, OneDialog
  <2>3. QED
    BY <2>1, <2>2 DEF AskedOnce
<1>2. QED
  BY <1>1, Invariance, PTL

(* The rule r is what the reply f asks for. *)
ChosenIn(r, f) ==
  /\ f.whole /\ f.scope # "once"
  /\ r.file = f.about.path /\ r.fkind = "path" /\ r.verdict = f.decision
  /\ r.ident = IF f.scope = "always" THEN ChainOf[f.about.ident]
                                     ELSE ExeOf[f.about.ident]
  /\ r.ikind = IF f.scope = "always" THEN "chain" ELSE "exe-only"

LEMMA ReplyMakesChosen ==
  ASSUME IInv, NEW f \in replies, ProcessReply(f), NEW r \in rules' \ rules
  PROVE  ChosenIn(r, f)
<1> DEFINE q     == {x \in reqs : x.id = f.id}
           asked == UNION {RulesAsked(x.about, f.decision, f.scope) : x \in q}
<1>1. rules' = IF f.whole THEN Apply(rules, asked) ELSE rules
  BY DEF ProcessReply
<1>2. f.whole /\ asked # {}
  BY <1>1 DEF Apply
<1>3. PICK n \in asked : r = [n EXCEPT !.id = NextId(rules)]
  BY <1>1, <1>2 DEF Apply, InsertRow
<1>4. PICK x \in q : n \in RulesAsked(x.about, f.decision, f.scope)
  OBVIOUS
<1>5. x.about = f.about
  BY DEF IInv, Faithful
<1>6. f.scope \in Scopes
  BY DEF IInv, FilesType, ReplyFile
<1>7. f.scope # "once"
      /\ n = [id |-> 0, file |-> f.about.path, fkind |-> "path",
              ident |-> RuleIdentity(f.about, f.scope)[1],
              ikind |-> RuleIdentity(f.about, f.scope)[2],
              verdict |-> f.decision, expires |-> {}]
  BY <1>4, <1>5 DEF RulesAsked
<1>8. QED
  BY <1>2, <1>3, <1>6, <1>7 DEF RuleIdentity, Scopes, ChosenIn

LEMMA NewRulesAreChosen ==
  ASSUME IInv, Next, NEW r \in rules' \ rules
  PROVE  \E f \in replies : ChosenIn(r, f)
<1>1. \E f \in replies : ProcessReply(f)
  BY DEF Next, Access, Drain, Write, ReloadTrust, Restart, SpoolNew, Tick, Spool, Polls,
         FinishReply, Scans, User, Modal, Stops, Starts, Lapses, spoolVars
<1>2. QED
  BY <1>1, ReplyMakesChosen

(* Every rule the spool inserts (promptspool.go, apply) is one the user chose,
   for the file and identity that the dialog showed him. *)
THEOREM RulesAreTheUsers == Safety => RulesAreChosen
<1>1. IInv /\ [Next]_vars => [\A r \in rules' \ rules : \E f \in replies : ChosenIn(r, f)]_vars
  BY NewRulesAreChosen
<1>2. QED
  BY <1>1, Invariance, PTL DEF Safety, RulesAreChosen, ChosenIn

-----------------------------------------------------------------------------
(* A reply that is whole when it is read and asks for a rule, with its request
   file still there. *)
InTime(f) ==
  /\ f.whole /\ f.scope # "once" /\ f.id \in IdsOf(reqs)
  /\ RuleIdentity(f.about, f.scope)[1] # Empty

(* Its rule is made, unless one of its key is there, which then stays. *)
InTimeRules(f) ==
  IF \E r \in rules : RuleAsked(r, f) THEN rules' = rules
  ELSE \E r \in rules' : RuleAsked(r, f) /\ r.verdict = f.decision /\ r.expires = {}

(* What holds of AlwaysIsRemembered's claim, which the run prompt_always
   refutes: when no rule of its key is there, an "always" that is processed in
   time makes the rule the user chose, with his verdict and for good; when one
   is, whatever it says, the answer is dropped and the rules stay. *)
AlwaysInTimeMakesItsRule ==
  [][\A f \in replies \ replies' : Spool /\ InTime(f) => InTimeRules(f)]_vars

(* The engine trusts no app that the file, or what is being written into it,
   lacks: only a restart under a torn file can be behind it. *)
FileLeads ==
  /\ \A doc \in Usable(policyFile) : trusted \subseteq doc.apps
  /\ \A d \in modal :
       IF d.stage = "trusting"
       THEN policyFile = {} /\ \A doc \in Usable(d.saves) : trusted \subseteq doc.apps
       ELSE d.saves = {}

LEMMA FileLeadsOn == IInv /\ FileLeads /\ [Next]_vars => FileLeads'
<1> SUFFICES ASSUME IInv, FileLeads, [Next]_vars PROVE FileLeads'
  OBVIOUS
<1>1. CASE UNCHANGED <<policyFile, trusted>> /\ modal' \subseteq modal
  BY <1>1 DEF FileLeads, Usable
<1>2. CASE ReloadTrust \/ Restart
  <2>1. UNCHANGED <<policyFile, modal>>
    BY <1>2 DEF ReloadTrust, Restart, helperVars
  <2>2. \A doc \in Usable(policyFile) : policyFile = {doc}
    BY UsableDocs DEF IInv, TrustType
  <2>3. \A doc \in Usable(policyFile) : Usable(policyFile) = {doc}
    BY <2>2 DEF Usable
  <2>4. \A doc \in Usable(policyFile) : trusted' \subseteq doc.apps
    BY <1>2, <2>3 DEF ReloadTrust, Restart
  <2>5. Usable(policyFile) = {} => trusted' = {}
    BY <1>2 DEF ReloadTrust, Restart
  <2>6. policyFile = {} => trusted' = {}
    BY <2>5 DEF Usable
  <2>7. QED
    BY <2>1, <2>4, <2>6 DEF FileLeads, Usable
<1>3. ASSUME NEW e \in modal, TrustApp(e), UNCHANGED engineVars PROVE FileLeads'
  <2> DEFINE doc == Appended(Offered(e))
             d == [e EXCEPT !.stage = "trusting", !.saves = {doc}]
  <2>1. e \in Dialog /\ modal = {e}
    BY DEF IInv, HelperType, OneDialog
  <2>2. policyFile' = {} /\ modal' = {d} /\ trusted' = trusted
    BY <1>3, <2>1 DEF TrustApp, engineVars
  <2>3. doc.globs => trusted \subseteq doc.apps
    BY DEF FileLeads, Usable, Appended
  <2> HIDE DEF doc
  <2>4. d.stage = "trusting" /\ d.saves = {doc}
    BY <2>1 DEF Dialog
  <2>5. QED
    BY <2>2, <2>3, <2>4 DEF FileLeads, Usable
<1>4. ASSUME NEW e \in modal, SaveTrust(e), UNCHANGED engineVars PROVE FileLeads'
  <2> DEFINE d == [e EXCEPT !.stage = "trusted", !.saves = {}]
  <2>1. e \in Dialog /\ modal = {e}
    BY DEF IInv, HelperType, OneDialog
  <2>2. policyFile' = e.saves /\ modal' = {d} /\ trusted' = trusted /\ e.stage = "trusting"
    BY <1>4, <2>1 DEF SaveTrust, engineVars
  <2>3. d.stage = "trusted" /\ d.saves = {}
    BY <2>1 DEF Dialog
  <2>4. QED
    BY <2>2, <2>3 DEF FileLeads, Usable
<1>5. ASSUME NEW e \in modal, NEW v, NEW scope, BeginReply(e, v, scope), e.stage # "trusting",
             UNCHANGED engineVars
      PROVE  FileLeads'
  <2> DEFINE d == [e EXCEPT !.stage = "replying"]
  <2>1. e \in Dialog /\ modal = {e}
    BY DEF IInv, HelperType, OneDialog
  <2>2. UNCHANGED <<policyFile, trusted>> /\ modal' = {d}
    BY <1>5, <2>1 DEF BeginReply, engineVars
  <2>3. d.stage = "replying" /\ d.saves = {}
    BY <1>5, <2>1 DEF Dialog, FileLeads
  <2>4. QED
    BY <2>2, <2>3 DEF FileLeads, Usable
<1>6. CASE Scans
  <2>1. UNCHANGED <<policyFile, trusted>>
    BY <1>6 DEF Scans, Scan, engineVars
  <2>2. \A d \in modal' : d \in modal \/ (d.stage = "open" /\ d.saves = {})
    BY <1>6 DEF Scans, Scan
  <2>3. QED
    BY <2>1, <2>2 DEF FileLeads, Usable
<1>7. CASE User \/ ((\E d \in modal : SaveTrust(d) \/ ReplyTrusted(d)) /\ UNCHANGED engineVars)
  BY <1>3, <1>4, <1>5, <1>7 DEF User, Answer, ReplyTrusted
<1>8. ASSUME NEW d \in modal, FinishWrite(d), UNCHANGED engineVars PROVE FileLeads'
  BY <1>1, <1>8 DEF FinishWrite, engineVars
<1>9. CASE (\E s \in Subjects : Access(s)) \/ Tick \/ Spool \/ Stops \/ Starts \/ Lapses
           \/ (GateOpens /\ UNCHANGED engineVars)
  BY <1>1, <1>9 DEF Access, Tick, Spool, Polls, Stops, HelperStops, Starts, HelperStarts,
                    Lapses, HeartbeatLapses, GateOpens, helperVars, engineVars
<1>10. ASSUME NEW id \in Ids, NEW ok \in BOOLEAN, Drain(id, ok) PROVE FileLeads'
  BY <1>1, <1>10 DEF Drain, helperVars
<1>11. CASE UNCHANGED vars
  BY <1>1, <1>11 DEF vars, helperVars, engineVars
<1>12. CASE Modal
  <2>1. UNCHANGED engineVars
    BY <1>12 DEF Modal
  <2>2. QED
    BY <1>7, <1>8, <1>9, <1>12, <2>1 DEF Modal
<1>13. QED
  BY <1>2, <1>6, <1>7, <1>9, <1>10, <1>11, <1>12 DEF Next

LEMMA FileAlwaysLeads == Safety => []FileLeads
<1>1. Init => FileLeads
  BY DEF Init, HelperInit, FileLeads
<1>2. QED
  BY <1>1, FileLeadsOn, Invariance, PTL DEF Safety

(* Trust in the engine shrinks only at such a restart. *)
LEMMA TrustGrows ==
  ASSUME FileLeads, [Next]_vars, ~(Restart /\ Usable(policyFile) = {})
  PROVE  trusted \subseteq trusted'
<1>1. CASE ReloadTrust
  BY <1>1 DEF ReloadTrust, FileLeads
<1>2. CASE Restart
  <2>1. PICK doc \in Usable(policyFile) : TRUE
    BY <1>2
  <2>2. doc.apps \subseteq trusted'
    BY <1>2, <2>1 DEF Restart
  <2>3. QED
    BY <2>1, <2>2 DEF FileLeads
<1>3. UNCHANGED trusted \/ ReloadTrust \/ Restart
  BY DEF Next, vars, Access, Drain, Tick, Spool, Polls, Scans, User, Modal, Stops, Starts,
         Lapses, engineVars
<1>4. QED
  BY <1>1, <1>2, <1>3

(* HumanChain (identity.go), responsibleApp (main.swift) and TrustsChain
   (config.go) fit together for an ancestry that a prompt can show whole: the
   app offered, once trusted, covers the reader, as addTrustedApp's comment
   says ("allows that app's whole process tree without prompting").  Of a
   longer one the name offered is the ellipsis. *)
THEOREM OfferFitsShortChains ==
  \A i \in Identities :
    IF Len(Ancestry[i]) <= MaxDepth
    THEN \A apps : ResponsibleApp(Ancestry[i]) \cap apps # {} => TrustsChain(apps, Ancestry[i])
    ELSE ResponsibleApp(Ancestry[i]) = {Ellipsis}
<1> SUFFICES ASSUME NEW i \in Identities
             PROVE  IF Len(Ancestry[i]) <= MaxDepth
                    THEN \A apps : ResponsibleApp(Ancestry[i]) \cap apps # {}
                                     => TrustsChain(apps, Ancestry[i])
                    ELSE ResponsibleApp(Ancestry[i]) = {Ellipsis}
  OBVIOUS
<1> DEFINE chain == Ancestry[i]
           names == HumanChain(chain)
<1>1. DOMAIN chain = 1..Len(chain) /\ Len(chain) \in Nat
  <2>1. chain \in Seq({chain[k] : k \in DOMAIN chain})
    BY PromptHelperAssumption
  <2>2. QED
    BY <2>1
<1>2. MaxDepth \in Nat /\ Ellipsis # Launchd
  BY TrustedAppsAssumption
<1>3. CASE Len(chain) <= MaxDepth
  <2>1. \A k \in DOMAIN names : k \in DOMAIN chain /\ names[k] = chain[k].base
    BY <1>1, <1>2, <1>3 DEF HumanChain
  <2>2. ASSUME NEW apps, NEW app \in ResponsibleApp(chain), app \in apps
        PROVE  TrustsChain(apps, chain)
    <3>1. PICK k \in DOMAIN names : app = names[k]
      BY DEF ResponsibleApp
    <3>2. QED
      BY <2>1, <2>2, <3>1 DEF TrustsChain
  <2>3. QED
    BY <1>3, <2>2
<1>4. CASE ~(Len(chain) <= MaxDepth)
  <2>1. DOMAIN names = 1..(MaxDepth + 1) /\ names[MaxDepth + 1] = Ellipsis
    BY <1>1, <1>2, <1>4 DEF HumanChain
  <2> HIDE DEF names
  <2>2. \A j \in DOMAIN names :
          (names[j] # Launchd /\ \A l \in DOMAIN names : l > j => names[l] = Launchd)
            <=> j = MaxDepth + 1
    BY <1>2, <2>1
  <2>3. ResponsibleApp(chain) = {names[MaxDepth + 1]}
    BY <1>2, <2>1, <2>2 DEF ResponsibleApp, names
  <2>4. QED
    BY <1>4, <2>1, <2>3
<1>5. QED
  BY <1>3, <1>4

RuleVerdicts == \A r \in rules : r.verdict \in Decisions

LEMMA RulesHaveVerdicts == Safety => []RuleVerdicts
<1>1. Init => RuleVerdicts
  BY DEF Init, SpoolInit, RuleVerdicts
<1>2. IInv /\ RuleVerdicts /\ [Next]_vars => RuleVerdicts'
  <2> SUFFICES ASSUME IInv, RuleVerdicts, [Next]_vars, NEW r \in rules' PROVE r.verdict \in Decisions
    BY DEF RuleVerdicts
  <2>1. CASE r \in rules
    BY <2>1 DEF RuleVerdicts
  <2>2. CASE r \notin rules
    <3>1. Next
      BY <2>2 DEF vars, spoolVars
    <3>2. QED
      BY <2>2, <3>1, NewRulesAreChosen DEF ChosenIn, IInv, FilesType, ReplyFile
  <2>3. QED
    BY <2>1, <2>2
<1>3. QED
  BY <1>1, <1>2, Invariance, PTL DEF Safety

(* decideInner (engine.go) looks at the trusted apps before the rules, a save
   never takes an app away, and a restart loads what the file has: trust that
   is enforced ends only at a restart that finds the file torn. *)
THEOREM TrustStays == Safety => TrustIsKept
<1> DEFINE Kept == \A s \in Subjects :
                     Verdict(s) = "allow-trusted" =>
                       Verdict(s)' = "allow-trusted" \/ (Restart /\ Usable(policyFile) = {})
<1>1. FileLeads /\ RuleVerdicts /\ [Next]_vars => Kept
  <2> SUFFICES ASSUME FileLeads, RuleVerdicts, [Next]_vars,
                      NEW s \in Subjects, Verdict(s) = "allow-trusted",
                      ~(Restart /\ Usable(policyFile) = {})
               PROVE  Verdict(s)' = "allow-trusted"
    OBVIOUS
  <2> DEFINE row == Lookup(rules, LookupKey(s), 0)
             top == CHOOSE r \in row : TRUE
  <2>1. row # {} => top.verdict # "allow-trusted"
    <3>1. row \subseteq rules
      BY DEF Lookup, Candidates
    <3>2. row # {} => top \in row
      OBVIOUS
    <3>3. QED
      BY <3>1, <3>2 DEF RuleVerdicts, Decisions
  <2>2. TrustsChain(trusted, Ancestry[s.ident])
    BY <2>1 DEF Verdict
  <2>3. trusted \subseteq trusted'
    BY TrustGrows
  <2>4. TrustsChain(trusted', Ancestry[s.ident])
    BY <2>2, <2>3 DEF TrustsChain
  <2>5. QED
    BY <2>4 DEF Verdict
<1>2. QED
  BY <1>1, RulesHaveVerdicts, FileAlwaysLeads, PTL DEF Safety, TrustIsKept

LEMMA InTimeReply ==
  ASSUME IInv, NEW f \in replies, ProcessReply(f), InTime(f)
  PROVE  InTimeRules(f)
<1> DEFINE q     == {x \in reqs : x.id = f.id}
           key   == RuleIdentity(f.about, f.scope)
           n     == [id |-> 0, file |-> f.about.path, fkind |-> "path", ident |-> key[1],
                     ikind |-> key[2], verdict |-> f.decision, expires |-> {}]
           asked == UNION {RulesAsked(x.about, f.decision, f.scope) : x \in q}
<1>1. rules' = Apply(rules, asked)
  BY DEF ProcessReply, InTime
<1>2. q # {} /\ \A x \in q : x.about = f.about
  BY DEF InTime, IdsOf, IInv, Faithful
<1>3. key \in {RuleIdentity(f.about, s) : s \in {f.scope} \ {"once"}} \ ({Empty} \X IdentKinds)
  BY DEF InTime
<1>4. asked = {n}
  <2>1. RulesAsked(f.about, f.decision, f.scope) = {n}
    BY <1>3 DEF RulesAsked
  <2>2. QED
    BY <1>2, <2>1
<1>5. rules' = InsertRow(rules, n)
  BY <1>1, <1>4 DEF Apply
<1>6. /\ n.file = f.about.path /\ n.fkind = "path" /\ <<n.ident, n.ikind>> = key
      /\ n.verdict = f.decision /\ n.expires = {}
  BY DEF RuleIdentity
<1> HIDE DEF n, key
<1>7. Conflicts(rules, n) <=> \E r \in rules : RuleAsked(r, f)
  BY <1>6 DEF Conflicts, RuleAsked, Key, key
<1>8. CASE Conflicts(rules, n)
  BY <1>5, <1>7, <1>8 DEF InsertRow, InTimeRules
<1>9. CASE ~Conflicts(rules, n)
  <2> DEFINE r == [n EXCEPT !.id = NextId(rules)]
  <2>1. r \in rules'
    BY <1>5, <1>9 DEF InsertRow
  <2>2. /\ r.file = n.file /\ r.fkind = n.fkind /\ r.ident = n.ident /\ r.ikind = n.ikind
        /\ r.verdict = n.verdict /\ r.expires = n.expires
    BY DEF n
  <2> HIDE DEF r
  <2>3. RuleAsked(r, f) /\ r.verdict = f.decision /\ r.expires = {}
    BY <1>6, <2>2 DEF RuleAsked, key
  <2>4. QED
    BY <1>7, <1>9, <2>1, <2>3 DEF InTimeRules
<1>10. QED
  BY <1>8, <1>9

(* ProcessReplies and apply (promptspool.go): an "always" read while its
   request is on disk becomes the rule the user chose when its key is free,
   and leaves the rules alone when it is not (Insert fails on the unique index,
   whatever the older row says); it is about what the dialog showed. *)
THEOREM AnswersInTimeCount == Safety => AlwaysInTimeMakesItsRule
<1> DEFINE Kept == \A f \in replies \ replies' : Spool /\ InTime(f) => InTimeRules(f)
<1>1. IInv => Kept
  <2> SUFFICES ASSUME IInv, NEW f \in replies \ replies', Spool, InTime(f)
               PROVE  InTimeRules(f)
    OBVIOUS
  <2>1. PICK g \in replies : ProcessReply(g)
    BY DEF Spool, Polls, FinishReply
  <2>2. f = g
    BY <2>1 DEF ProcessReply, Removed
  <2>3. QED
    BY <2>1, <2>2, InTimeReply
<1>2. IInv /\ [Next]_vars => [Kept]_vars
  BY <1>1
<1>3. QED
  BY <1>2, Invariance, PTL DEF Safety, AlwaysInTimeMakesItsRule
=============================================================================

---------------------------- MODULE PromptCycle ----------------------------
(***************************************************************************)
(* The life of a prompt, from a denied access to a rule: the engine, the   *)
(* prompt bus and the spool in the extension, the helper in the user's     *)
(* session, and the directory between them.  Either process may stop and   *)
(* start again at any step.  The unit of time is 30 s.                     *)
(***************************************************************************)
EXTENDS PromptSpool, PromptHelper, Sequences

CONSTANTS Cooldown,   \* RepromptCooldown, 60 s: 2
          BusCap      \* capacity of the prompt bus, 64 in the agent

ASSUME PromptCycleAssumption ==
  Cooldown \in Nat /\ BusCap \in Nat /\ StaleAfter \in Nat

VARIABLES cooling,   \* path -> what is left of its cooldown
          bus,       \* published prompts not yet written
          trusted    \* trusted_apps as the engine last loaded them

engineVars == <<cooling, bus, trusted>>

vars == <<reqs, replies, spoolVars, helperVars, engineVars>>

TypeOK ==
  /\ reqs \subseteq RequestFile /\ replies \subseteq ReplyFile
  /\ \A q \in reqs : q.age <= StaleAfter + 1
  /\ pending \subseteq {DedupKey(s) : s \in Subjects}
  /\ closing \subseteq Ids
  /\ helperUp \in BOOLEAN /\ beat \in BOOLEAN /\ presenting \in BOOLEAN
  /\ presented \subseteq Ids /\ modal \subseteq Dialog
  /\ policyFile \in AtMostOne(PolicyDoc) /\ trusted \subseteq AppNames
  /\ cooling \in [Paths -> 0..Cooldown]
  /\ bus \in Seq(Subjects) /\ Len(bus) <= BusCap

Init ==
  /\ SpoolInit /\ HelperInit
  /\ cooling = [p \in Paths |-> 0] /\ bus = <<>> /\ trusted = {}

-----------------------------------------------------------------------------
LookupKey(s) == [path |-> s.path, category |-> Empty,
                 chain |-> ChainOf[s.ident], exe |-> ExeOf[s.ident]]

(* What decideInner answers to an access to a file that holds a secret. *)
Verdict(s) ==
  LET row == Lookup(rules, LookupKey(s), 0) IN
  IF TrustsChain(trusted, Ancestry[s.ident]) THEN "allow-trusted"
  ELSE IF row # {} THEN (CHOOSE r \in row : TRUE).verdict
  ELSE IF ~beat THEN "allow-no-helper"
  ELSE IF cooling[s.path] > 0 THEN "deny-cooldown"
  ELSE "ask"

Allowed(s) == Verdict(s) \in {"allow", "allow-trusted", "allow-no-helper"}

(* Mutant: no capacity. *)
PublishAlways(b, s) == Append(b, s)

(* Publish: dropped when the bus is full. *)
Publish(b, s) == IF Len(b) < BusCap THEN Append(b, s) ELSE b

(* The access that is denied with a prompt, the only one with an effect:
   it starts the cooldown, whether the prompt is published or dropped. *)
Access(s) ==
  /\ Verdict(s) = "ask"
  /\ cooling' = [cooling EXCEPT ![s.path] = Cooldown]
  /\ bus' = Publish(bus, s)
  /\ UNCHANGED <<reqs, replies, spoolVars, helperVars, trusted>>

FreeIds == Ids \ (IdsOf(reqs) \cup IdsOf(replies) \cup IdsOf(modal)
                    \cup presented \cup closing)

(* The drainer takes one prompt from the bus and writes its request. *)
Drain(id, ok) ==
  /\ bus # <<>>
  /\ id \in FreeIds
  /\ Write(Head(bus), id, ok)
  /\ bus' = Tail(bus)
  /\ UNCHANGED <<helperVars, cooling, trusted>>

(* A document with a policy; any other is not used. *)
Usable(file) == {doc \in file : doc.globs}

(* Mutant: a reload takes the globs only. *)
ReloadGlobs ==
  /\ Usable(policyFile) # {}
  /\ UNCHANGED vars

(* The control channel reloads policy.json, unless it is torn or empty. *)
ReloadTrust ==
  /\ \E doc \in Usable(policyFile) : trusted' = doc.apps
  /\ trusted' # trusted
  /\ UNCHANGED <<reqs, replies, spoolVars, helperVars, cooling, bus>>

(* Mutant: the trusted apps are not loaded at start. *)
RestartForgets ==
  /\ SpoolNew
  /\ cooling' = [p \in Paths |-> 0] /\ bus' = <<>> /\ trusted' = {}
  /\ UNCHANGED helperVars

(* The extension is stopped and started again: the rules and policy.json
   are on disk, the rest is not; the default, without trusted apps, is loaded
   for a file that is torn or empty. *)
Restart ==
  /\ SpoolNew
  /\ cooling' = [p \in Paths |-> 0] /\ bus' = <<>>
  /\ trusted' = UNION {doc.apps : doc \in Usable(policyFile)}
  /\ UNCHANGED helperVars

Older(q) == [q EXCEPT !.age = IF q.age > StaleAfter THEN q.age ELSE q.age + 1]

Tick ==
  /\ reqs' = {Older(q) : q \in reqs}
  /\ cooling' = [p \in Paths |-> IF cooling[p] = 0 THEN 0 ELSE cooling[p] - 1]
  /\ <<reqs', cooling'>> # <<reqs, cooling>>
  /\ UNCHANGED <<replies, spoolVars, helperVars, bus, trusted>>

Polls(id) == /\ \E f \in replies : f.id = id /\ ProcessReply(f)
             /\ UNCHANGED <<helperVars, engineVars>>
Spool  == \/ \E id \in Ids : Polls(id)
          \/ FinishReply /\ UNCHANGED <<helperVars, engineVars>>
Scans  == Scan /\ UNCHANGED <<spoolVars, engineVars>>
User   == /\ \E d \in modal : TrustApp(d) \/ \E a \in Answers : Answer(d, a[1], a[2])
          /\ UNCHANGED <<spoolVars, engineVars>>
Modal  == /\ \/ \E d \in modal : SaveTrust(d) \/ ReplyTrusted(d) \/ FinishWrite(d)
             \/ GateOpens
          /\ UNCHANGED <<spoolVars, engineVars>>
Stops  == HelperStops /\ UNCHANGED <<spoolVars, engineVars>>
Starts == HelperStarts /\ UNCHANGED <<spoolVars, engineVars>>
Lapses == HeartbeatLapses /\ UNCHANGED <<spoolVars, engineVars>>

Next ==
  \/ \E s \in Subjects : Access(s)
  \/ \E id \in Ids, ok \in BOOLEAN : Drain(id, ok)
  \/ ReloadTrust \/ Restart \/ Tick
  \/ Spool \/ Scans \/ User \/ Modal \/ Stops \/ Starts \/ Lapses

Safety == Init /\ [][Next]_vars

(* The tickers of the two processes never stop: the spool polls every 250
   ms and each time goes through all the replies it finds, the control
   channel polls policy.json as often, the drainer runs, time passes, launchd
   restarts the helper, a scan comes round whenever the helper stays up for
   0.3 s, and what the main thread has begun it finishes unless the helper
   stops; not every poll falls between the two halves of a write.  Of the user
   nothing is assumed. *)
Fairness ==
  /\ WF_vars(Spool) /\ SF_vars(ReloadTrust) /\ WF_vars(Tick) /\ WF_vars(Starts)
  /\ \A id \in Ids : SF_vars(Polls(id))
  /\ WF_vars(\E id \in Ids, ok \in BOOLEAN : Drain(id, ok))
  /\ SF_vars(Scans) /\ WF_vars(Modal)

Spec == Safety /\ Fairness

-----------------------------------------------------------------------------
(* A file that is read in a loop raises one prompt: two request files for
   one identity and file exist only in the moment between the answer to the
   first and its removal. *)
SinglePrompt ==
  \A q, r \in {x \in reqs : x.id \notin closing} :
     DedupKey(q.about) = DedupKey(r.about) => q = r

(* The user is shown a request once by one run of the helper, however its
   scans meet the writing, the processing and the removal of the reply, and
   there is one dialog at a time. *)
AskedOnce ==
  /\ \A q \in reqs : q.shown <= 1
  /\ Cardinality(modal) <= 1

(* A rule appears only when the user has answered "always" to a dialog, and
   it is for the file and the identity the dialog showed, with the verdict
   and the breadth he chose: late, lost, dropped and leftover replies and
   restarts of either side make no other rule. *)
RulesAreChosen ==
  [][\A r \in rules' \ rules : \E f \in replies :
        /\ f.whole /\ f.scope # "once"
        /\ r.file = f.about.path /\ r.fkind = "path" /\ r.verdict = f.decision
        /\ r.ident = IF f.scope = "always" THEN ChainOf[f.about.ident]
                                           ELSE ExeOf[f.about.ident]
        /\ r.ikind = IF f.scope = "always" THEN "chain" ELSE "exe-only"]_vars

(* Every request file disappears in the end, answered or abandoned, and so
   does every reply. *)
RequestsLeave == \A i \in Ids : (i \in IdsOf(reqs)) ~> (i \notin IdsOf(reqs))
RepliesLeave  == \A i \in Ids : (i \in IdsOf(replies)) ~> (i \notin IdsOf(replies))

(* A crash of the helper between the halves of a write has left policy.json
   without a policy. *)
Ruined == Usable(policyFile) = {} /\ \A d \in modal : d.stage # "trusting"

(* The engine comes to allow the process tree of every app that is in
   policy.json, unless a crash of the helper ruins the file: no restart and no
   save that is cut in two by a poll stops it. *)
TrustTakes ==
  \A s \in Subjects :
     (\E doc \in Usable(policyFile) : TrustsChain(doc.apps, Ancestry[s.ident]))
        ~> (Verdict(s) = "allow-trusted" \/ Ruined)

(* And it goes on doing so: only a restart of the extension that finds the
   file torn, by a write under way or a crash in one, takes trust away. *)
TrustIsKept ==
  [][\A s \in Subjects :
       Verdict(s) = "allow-trusted" =>
          Verdict(s)' = "allow-trusted" \/ (Restart /\ Usable(policyFile) = {})]_vars

-----------------------------------------------------------------------------
(* promptspool.go: "Repeated requests for the same (identity, file) while
   one is still outstanding are deduped": nothing is deduped when none is. *)
DedupOnlyOutstanding ==
  \A k \in pending : \E q \in reqs : DedupKey(q.about) = k

RuleAsked(r, f) ==
  /\ r.file = f.about.path /\ r.fkind = "path"
  /\ <<r.ident, r.ikind>> = RuleIdentity(f.about, f.scope)

(* promptspool.go: "On an "always" reply the spool inserts a persistent
   rule so the access isn't prompted again".  Stated for the requests the
   spool itself still counts as outstanding. *)
AlwaysIsRemembered ==
  [][Spool => \A f \in replies \ replies' :
        f.whole /\ f.scope # "once" /\ DedupKey(f.about) \in pending
           => \E r \in rules' : RuleAsked(r, f)]_vars

(* index.html: "Allow it once, always for that app, or deny -- then re-run,
   and approved reads go straight through": after an approval is applied in
   time, the same access is allowed. *)
ApprovedGoesThrough ==
  [][Spool => \A f \in replies \ replies' :
        f.whole /\ f.decision = "allow" /\ f.id \in IdsOf(reqs)
           => Allowed(f.about)']_vars
=============================================================================

------------------------------ MODULE Control ------------------------------
(***************************************************************************)
(* The control channel, internal/control, and the helper's side of it: the *)
(* dashboard edits policy.json in place, the kill switch is a marker file, *)
(* and a rule is revoked by a command file that names its id.  The         *)
(* extension polls all three from one goroutine.  Either process may stop  *)
(* and start again at any step, and the rule store may fail for a while:   *)
(* its disk is full, or main closes it on the way out while Watch, which   *)
(* nobody waits for, still runs.  The read of policy.json that follows a   *)
(* stat does not fail.                                                     *)
(***************************************************************************)
EXTENDS RuleStore, FiniteSetsExt

CONSTANTS Policies,   \* non-empty glob lists
          Default,    \* the built-in one
          Nothing,    \* the empty list
          Apps,       \* apps a user may trust
          NewRules,   \* rows the prompt spool and the IPC server may insert
          MaxId       \* bound on the rule ids given out

ASSUME ControlAssumption ==
  /\ Default \in Policies /\ Nothing \notin Policies
  /\ MaxId \in Nat /\ \A r \in NewRules : IsNewRow(r)

VARIABLES
  file,         \* policy.json: the document in it, if it parses
  newer,        \* its mtime is after lastMod
  marker,       \* the "disabled" file exists
  commands,     \* revoke-<id>.cmd files
  exported,     \* rules.json
  live,         \* the engine's policy and trusted apps
  enabled,      \* the engine's kill switch
  lastEnabled,  \* what the controller believes it is
  rules,        \* the rule table
  storeUp,      \* its statements succeed
  at, batch,    \* where Watch is, and the commands of this round
  writing,      \* the document the helper's main thread is writing, if any
  dashOpen, dashTrusted, dashRules   \* the dashboard

files     == <<file, newer, marker, commands, exported>>
engine    == <<live, enabled, rules, storeUp>>
watcher   == <<lastEnabled, at, batch>>
dashboard == <<writing, dashOpen, dashTrusted, dashRules>>
vars      == <<files, engine, watcher, dashboard>>

Doc  == [policy: Policies \cup {Nothing}, trusted: SUBSET Apps]
Ids  == 1..MaxId
Steps == {"poll", "stat", "read", "glob", "revoke", "remove"}

AtMostOne(S) == {{}} \cup {{x} : x \in S}

(* The engine never runs under an empty policy; every variable has its type. *)
TypeOK ==
  /\ file \in AtMostOne(Doc) /\ writing \in AtMostOne(Doc)
  /\ newer \in BOOLEAN /\ marker \in BOOLEAN /\ commands \subseteq Ids
  /\ live \in Doc /\ live.policy \in Policies
  /\ enabled \in BOOLEAN /\ lastEnabled \in BOOLEAN
  /\ UniqueIndex(rules) /\ PrimaryKey(rules) /\ storeUp \in BOOLEAN
  /\ at \in Steps /\ batch \subseteq Ids
  /\ dashOpen \in BOOLEAN /\ dashTrusted \subseteq Apps

DefaultDoc == [policy |-> Default, trusted |-> {}]

Init ==
  /\ file = {DefaultDoc} /\ newer = FALSE
  /\ marker = FALSE /\ commands = {} /\ exported = {}
  /\ live = DefaultDoc /\ enabled = TRUE /\ lastEnabled = TRUE
  /\ rules = {} /\ storeUp = TRUE
  /\ at = "poll" /\ batch = {}
  /\ writing = {} /\ dashOpen = FALSE /\ dashTrusted = {} /\ dashRules = {}

-----------------------------------------------------------------------------
(* The helper's main thread.  Data.write truncates policy.json and then
   writes it; nothing else happens on the thread meanwhile. *)

HelperIdle == writing = {}

PolicyIn(f)  == IF f = {} THEN Nothing ELSE (CHOOSE d \in f : TRUE).policy
TrustedIn(f) == UNION {d.trusted : d \in f}

BeginWrite(doc) ==
  /\ HelperIdle
  /\ writing' = {doc} /\ file' = {} /\ newer' = TRUE
  /\ UNCHANGED <<marker, commands, exported, engine, watcher, dashOpen, dashRules>>

(* Mutant: mtimes in seconds: the end of a write carries that of its start. *)
SameSecond(isNewer) == isNewer

(* mtimes have the grain of the file system, nanoseconds: a write is after
   every stat that came before it. *)
AfterWrite(isNewer) == TRUE

FinishWrite ==
  /\ ~HelperIdle
  /\ file' = writing /\ newer' = AfterWrite(newer) /\ writing' = {}
  /\ UNCHANGED <<marker, commands, exported, engine, watcher, dashOpen,
                 dashTrusted, dashRules>>

(* addTrustedApp, from a prompt: read policy.json, append, write. *)
TrustFromPrompt(a) ==
  /\ BeginWrite([policy |-> PolicyIn(file), trusted |-> TrustedIn(file) \cup {a}])
  /\ UNCHANGED dashTrusted

(* savePolicy: the edited list, and the trusted apps the file has now. *)
SavePolicy(p) ==
  /\ dashOpen
  /\ BeginWrite([policy |-> p, trusted |-> TrustedIn(file)])
  /\ UNCHANGED dashTrusted

(* persistTrusted: the policy the file has now, and the dashboard's list as
   it was when the window was opened, with the user's change. *)
PersistTrusted(apps) ==
  /\ dashOpen
  /\ dashTrusted' = apps
  /\ BeginWrite([policy |-> PolicyIn(file), trusted |-> apps])

BrowseTrusted(a) == PersistTrusted(dashTrusted \cup {a})
RemoveTrusted(a) == a \in dashTrusted /\ PersistTrusted(dashTrusted \ {a})

(* show: everything is read again, except what does not parse. *)
OpenDashboard ==
  /\ HelperIdle
  /\ dashOpen' = TRUE
  /\ dashTrusted' = IF file = {} THEN dashTrusted ELSE TrustedIn(file)
  /\ dashRules' = exported
  /\ UNCHANGED <<files, engine, watcher, writing>>

(* The refresh timer reads the rules, and leaves the edited tabs alone. *)
RefreshDashboard ==
  /\ HelperIdle /\ dashOpen
  /\ dashRules # exported /\ dashRules' = exported
  /\ UNCHANGED <<files, engine, watcher, writing, dashOpen, dashTrusted>>

CloseDashboard ==
  /\ HelperIdle /\ dashOpen
  /\ dashOpen' = FALSE
  /\ UNCHANGED <<files, engine, watcher, writing, dashTrusted, dashRules>>

RevokeSelected(id) ==
  /\ HelperIdle /\ dashOpen
  /\ \E r \in dashRules : r.id = id
  /\ commands' = commands \cup {id}
  /\ UNCHANGED <<file, newer, marker, exported, engine, watcher, dashboard>>

ToggleDisabled ==
  /\ HelperIdle
  /\ marker' = ~marker
  /\ UNCHANGED <<file, newer, commands, exported, engine, watcher, dashboard>>

(* The helper is quit or crashes, a half-written file included, and starts. *)
HelperRestarts ==
  /\ writing' = {} /\ dashOpen' = FALSE /\ dashTrusted' = {} /\ dashRules' = {}
  /\ UNCHANGED <<files, engine, watcher>>

Helper ==
  \/ \E a \in Apps : TrustFromPrompt(a) \/ BrowseTrusted(a) \/ RemoveTrusted(a)
  \/ \E p \in Policies \cup {Nothing} : SavePolicy(p)
  \/ OpenDashboard \/ RefreshDashboard \/ CloseDashboard
  \/ \E id \in Ids : RevokeSelected(id)
  \/ ToggleDisabled \/ HelperRestarts

-----------------------------------------------------------------------------
(* Controller.Watch: on each tick SyncEnabled, ReloadPolicyIfChanged and
   ApplyCommands; on the ticks of the slower one, export. *)

SyncEnabled ==
  /\ at = "poll"
  /\ IF lastEnabled = ~marker THEN UNCHANGED <<lastEnabled, enabled>>
     ELSE lastEnabled' = ~marker /\ enabled' = ~marker
  /\ at' = "stat"
  /\ UNCHANGED <<files, live, rules, storeUp, batch, dashboard>>

(* lastMod is set before the file is read. *)
StatPolicy ==
  /\ at = "stat"
  /\ newer' = FALSE
  /\ at' = IF newer THEN "read" ELSE "glob"
  /\ UNCHANGED <<file, marker, commands, exported, engine, lastEnabled, batch,
                 dashboard>>

(* Mutant: an empty policy is a policy. *)
AnyPolicy(doc) == TRUE

Usable(doc) == doc.policy # Nothing

(* A file that does not parse, or holds an empty list, is ignored. *)
ReadPolicy ==
  /\ at = "read"
  /\ live' = IF \E d \in file : Usable(d) THEN CHOOSE d \in file : TRUE ELSE live
  /\ at' = "glob"
  /\ UNCHANGED <<files, enabled, rules, storeUp, lastEnabled, batch, dashboard>>

GlobCommands ==
  /\ at = "glob"
  /\ batch' = commands
  /\ at' = IF commands = {} THEN "poll" ELSE "revoke"
  /\ UNCHANGED <<files, engine, lastEnabled, dashboard>>

(* Mutant: the file is removed first, the rule afterwards. *)
RemoveFirst ==
  /\ at = "revoke"
  /\ commands' = commands \ {Min(batch)}
  /\ at' = "remove"
  /\ UNCHANGED <<file, newer, marker, exported, engine, lastEnabled, batch, dashboard>>

(* Revoke(id); no such rule is no error, and an error is only logged. *)
ApplyCommand ==
  /\ at = "revoke"
  /\ rules' = IF storeUp THEN RevokeRow(rules, Min(batch)) ELSE rules
  /\ at' = "remove"
  /\ UNCHANGED <<files, live, enabled, storeUp, lastEnabled, batch, dashboard>>

(* os.Remove(p), obeyed or not, and on to the next command of this round. *)
RemoveCommand ==
  /\ at = "remove"
  /\ commands' = commands \ {Min(batch)}
  /\ batch' = batch \ {Min(batch)}
  /\ at' = IF batch' = {} THEN "poll" ELSE "revoke"
  /\ UNCHANGED <<file, newer, marker, exported, engine, lastEnabled, dashboard>>

(* Nothing is written when List fails. *)
Export ==
  /\ at = "poll" /\ storeUp
  /\ exported # rules /\ exported' = rules
  /\ UNCHANGED <<file, newer, marker, commands, engine, watcher, dashboard>>

Poll == \/ SyncEnabled \/ StatPolicy \/ ReadPolicy
        \/ GlobCommands \/ ApplyCommand \/ RemoveCommand

(* The prompt spool and the IPC server at the same table. *)
OthersEdit ==
  /\ storeUp
  /\ \/ NextId(rules) <= MaxId /\ \E r \in NewRules : rules' = InsertRow(rules, r)
     \/ \E r \in rules : rules' = RevokeRow(rules, r.id)
  /\ UNCHANGED <<files, live, enabled, storeUp, watcher, dashboard>>

StoreFailsOrRecovers ==
  /\ storeUp' = ~storeUp
  /\ UNCHANGED <<files, live, enabled, rules, watcher, dashboard>>

(* Mutant: the controller starts out believing what the marker says. *)
StartTrusting ==
  /\ live' = IF \E d \in file : Usable(d) THEN CHOOSE d \in file : TRUE ELSE DefaultDoc
  /\ enabled' = TRUE /\ lastEnabled' = ~marker
  /\ newer' = TRUE /\ at' = "poll" /\ batch' = {} /\ storeUp' = TRUE
  /\ UNCHANGED <<file, marker, commands, exported, rules, dashboard>>

(* The extension stops at any step and starts: main loads policy.json, or
   the default; the engine starts enabled, New syncs it with the marker, and
   with a zero lastMod the file will be read again.  The agent does not start
   without its store. *)
Restart ==
  /\ live' = IF \E d \in file : Usable(d) THEN CHOOSE d \in file : TRUE ELSE DefaultDoc
  /\ enabled' = ~marker /\ lastEnabled' = ~marker
  /\ newer' = TRUE /\ at' = "poll" /\ batch' = {} /\ storeUp' = TRUE
  /\ UNCHANGED <<file, marker, commands, exported, rules, dashboard>>

-----------------------------------------------------------------------------
Next ==
  \/ Helper \/ FinishWrite \/ Poll \/ Export
  \/ OthersEdit \/ StoreFailsOrRecovers \/ Restart

Safety == Init /\ [][Next]_vars

(* The 250 ms ticker drives Poll, a write that was begun is finished (unless
   the helper goes down), and the extension is not restarted for ever. *)
Fairness == WF_vars(Poll) /\ WF_vars(FinishWrite) /\ <>[][~Restart]_vars

Spec == Safety /\ Fairness

-----------------------------------------------------------------------------
(* The last usable policy saved is the one enforced: whatever moments the
   poll reads the mtime and the bytes at, torn writes included, the engine
   comes to the document in the file unless it is edited again. *)
PolicySettles ==
  \A d \in Doc : Usable(d) => (file = {d}) ~> (live = d \/ file # {d})

(* The kill switch follows its marker, in both directions, through restarts
   of the extension. *)
SwitchFollows == \A on \in BOOLEAN : (marker = ~on) ~> (enabled = on \/ marker = on)

(* The command waits: its file is there, and this round is not past it. *)
Outstanding(id) == id \in commands /\ ~(at = "remove" /\ id = Min(batch))

(* The controller has tried it, and the store has failed. *)
Refused(id) == at = "remove" /\ id = Min(batch) /\ ~storeUp

Gone(id) == \A r \in rules : r.id # id

(* A rule the user revokes goes away, unless the store fails just when the
   command is tried: the extension may stop between the deletion of the row
   and that of the command, or before either.  A click that falls between
   these two repeats the one just tried, and goes with it: no later row of
   that id can have been on the screen, and a refusal refuses both. *)
RevokeTakes == \A id \in Ids : Outstanding(id) ~> (Gone(id) \/ Refused(id))

(* main.swift, on the Trusted Apps tab: "Use Browse... to add one": adding
   an app there takes none away. *)
BrowseAdds ==
  [][\A a \in Apps : BrowseTrusted(a) => \A d \in writing' : TrustedIn(file) \subseteq d.trusted]_vars
=============================================================================

--------------------------- MODULE ControlProofs ---------------------------
(***************************************************************************)
(* Proofs about the control channel, for any documents, apps and rules.    *)
(* The engine never runs under an empty policy, and what a save, a toggle  *)
(* or a restart leaves to do for the polling goroutine is never forgotten: *)
(* the safety half of the properties that a run checks as liveness.        *)
(***************************************************************************)
EXTENDS Control, RuleStoreProofs

FileType  == file \in AtMostOne(Doc) /\ writing \in AtMostOne(Doc)
LiveType  == live \in Doc /\ live.policy \in Policies
OtherType ==
  /\ newer \in BOOLEAN /\ marker \in BOOLEAN /\ commands \subseteq Ids
  /\ enabled \in BOOLEAN /\ lastEnabled \in BOOLEAN /\ storeUp \in BOOLEAN
  /\ at \in Steps /\ batch \subseteq Ids
  /\ dashOpen \in BOOLEAN /\ dashTrusted \subseteq Apps

(* A usable document in policy.json that is not enforced is newer than the
   last look at the file's mtime, or about to be read. *)
NoEditIsMissed ==
  \A d \in file : Usable(d) => newer \/ at = "read" \/ live = d

(* While a write is under way the file is empty, and looks changed unless
   the poll has looked since. *)
TornWrite == writing # {} => file = {}

(* The controller knows the state of the engine's switch, so that it calls
   SetEnabled whenever the marker says otherwise. *)
SwitchIsKnown == enabled = lastEnabled

(* The round of commands has a next one while it lasts. *)
RoundInv == at \in {"revoke", "remove"} => batch # {}

IInv ==
  /\ FileType /\ LiveType /\ OtherType /\ Sound(rules)
  /\ NoEditIsMissed /\ TornWrite /\ SwitchIsKnown /\ RoundInv

(* A command that waits is never dropped: it keeps waiting until there is no
   row of its id or the store has failed as it was tried, whatever the
   extension and the other editors of the table do meanwhile. *)
CommandIsKept ==
  [][\A id \in Ids : Outstanding(id) => Outstanding(id)' \/ Gone(id)' \/ Refused(id)']_vars

-----------------------------------------------------------------------------
LEMMA InitHolds == Init => IInv
<1> SUFFICES ASSUME Init PROVE IInv
  OBVIOUS
<1>1. DefaultDoc \in Doc /\ DefaultDoc.policy \in Policies
  BY ControlAssumption DEF DefaultDoc, Doc
<1>2. FileType /\ LiveType
  BY <1>1 DEF Init, FileType, LiveType, AtMostOne
<1>3. OtherType
  BY DEF Init, OtherType, Steps
<1>4. NoEditIsMissed /\ TornWrite /\ SwitchIsKnown /\ RoundInv
  BY DEF Init, NoEditIsMissed, TornWrite, SwitchIsKnown, RoundInv
<1>5. QED
  BY <1>2, <1>3, <1>4, EmptyIsSound DEF Init, IInv

(* What the helper and the extension take out of the file is usable as what
   they put there. *)
LEMMA PolicyIsTyped ==
  ASSUME FileType
  PROVE  PolicyIn(file) \in Policies \cup {Nothing} /\ TrustedIn(file) \subseteq Apps
<1>1. CASE file = {}
  BY <1>1 DEF PolicyIn, TrustedIn
<1>2. ASSUME NEW d \in Doc, file = {d}
      PROVE  PolicyIn(file) \in Policies \cup {Nothing} /\ TrustedIn(file) \subseteq Apps
  <2>1. (CHOOSE e \in file : TRUE) = d
    BY <1>2
  <2>2. UNION {e.trusted : e \in file} = d.trusted
    BY <1>2
  <2>3. QED
    BY <1>2, <2>1, <2>2 DEF PolicyIn, TrustedIn, Doc
<1>3. QED
  BY <1>1, <1>2 DEF FileType, AtMostOne

LEMMA LoadedDoc ==
  ASSUME FileType, \E d \in file : Usable(d)
  PROVE  /\ file = {CHOOSE d \in file : TRUE}
         /\ (CHOOSE d \in file : TRUE) \in Doc
         /\ (CHOOSE d \in file : TRUE).policy \in Policies
<1>1. PICK d \in Doc : file = {d}
  BY DEF FileType, AtMostOne
<1>2. (CHOOSE e \in file : TRUE) = d
  BY <1>1
<1>3. d.policy \in Policies
  BY <1>1 DEF Usable, Doc
<1>4. QED
  BY <1>1, <1>2, <1>3

-----------------------------------------------------------------------------
(* A write that begins empties the file, and keeps everything but the file
   and the dashboard. *)
LEMMA WriteBegins ==
  ASSUME IInv, NEW doc \in Doc, BeginWrite(doc), dashTrusted' \subseteq Apps
  PROVE  IInv'
<1>1. FileType' /\ LiveType'
  BY DEF BeginWrite, IInv, FileType, LiveType, AtMostOne, engine
<1>2. OtherType'
  BY DEF BeginWrite, IInv, OtherType, engine, watcher
<1>3. Sound(rules')
  BY DEF BeginWrite, IInv, engine
<1>4. NoEditIsMissed' /\ TornWrite' /\ SwitchIsKnown' /\ RoundInv'
  BY DEF BeginWrite, IInv, NoEditIsMissed, TornWrite, SwitchIsKnown, RoundInv, engine, watcher
<1>5. QED
  BY <1>1, <1>2, <1>3, <1>4 DEF IInv, Sound, Numbered, UniqueIndex, PrimaryKey

LEMMA DocFields ==
  ASSUME NEW p \in Policies \cup {Nothing}, NEW S \in SUBSET Apps
  PROVE  [policy |-> p, trusted |-> S] \in Doc
BY DEF Doc

LEMMA TrustWrites ==
  ASSUME IInv, NEW a \in Apps,
         TrustFromPrompt(a) \/ BrowseTrusted(a) \/ RemoveTrusted(a)
  PROVE  IInv'
<1>1. /\ PolicyIn(file) \in Policies \cup {Nothing}
      /\ TrustedIn(file) \subseteq Apps /\ dashTrusted \subseteq Apps
  BY PolicyIsTyped DEF IInv, OtherType
<1>2. CASE TrustFromPrompt(a)
  <2> DEFINE doc == [policy |-> PolicyIn(file), trusted |-> TrustedIn(file) \cup {a}]
  <2>1. doc \in Doc
    BY <1>1, DocFields
  <2>2. BeginWrite(doc) /\ dashTrusted' \subseteq Apps
    BY <1>1, <1>2 DEF TrustFromPrompt
  <2> HIDE DEF doc
  <2>3. QED
    BY <2>1, <2>2, WriteBegins
<1>3. ASSUME NEW apps \in SUBSET Apps, PersistTrusted(apps) PROVE IInv'
  <2> DEFINE doc == [policy |-> PolicyIn(file), trusted |-> apps]
  <2>1. doc \in Doc
    BY <1>1, DocFields
  <2>2. BeginWrite(doc) /\ dashTrusted' \subseteq Apps
    BY <1>3 DEF PersistTrusted
  <2> HIDE DEF doc
  <2>3. QED
    BY <2>1, <2>2, WriteBegins
<1>4. QED
  BY <1>1, <1>2, <1>3 DEF BrowseTrusted, RemoveTrusted

(* What the helper does besides writing policy.json touches nothing that the
   engine or the watcher look at, but the marker and the command files. *)
LEMMA HelperKeeps ==
  ASSUME IInv,
         \/ OpenDashboard \/ RefreshDashboard \/ CloseDashboard
         \/ \E id \in Ids : RevokeSelected(id)
         \/ ToggleDisabled \/ HelperRestarts
  PROVE  IInv'
<1>1. /\ file' = file /\ newer' = newer /\ UNCHANGED <<engine, watcher>>
      /\ (writing' = writing) \/ (writing' = {})
  BY DEF OpenDashboard, RefreshDashboard, CloseDashboard, RevokeSelected,
         ToggleDisabled, HelperRestarts, files, dashboard
<1>2. FileType' /\ LiveType'
  BY <1>1 DEF IInv, FileType, LiveType, AtMostOne, engine
<1>3. OtherType'
  <2>1. TrustedIn(file) \subseteq Apps
    BY PolicyIsTyped DEF IInv
  <2>2. marker' \in BOOLEAN /\ commands' \subseteq Ids
    BY DEF OpenDashboard, RefreshDashboard, CloseDashboard, RevokeSelected,
           ToggleDisabled, HelperRestarts, files, IInv, OtherType
  <2>3. dashOpen' \in BOOLEAN /\ dashTrusted' \subseteq Apps
    BY <2>1 DEF OpenDashboard, RefreshDashboard, CloseDashboard, RevokeSelected,
                ToggleDisabled, HelperRestarts, dashboard, IInv, OtherType
  <2>4. QED
    BY <1>1, <2>2, <2>3 DEF IInv, OtherType, engine, watcher
<1>4. NoEditIsMissed' /\ TornWrite' /\ SwitchIsKnown' /\ RoundInv'
  BY <1>1 DEF IInv, NoEditIsMissed, TornWrite, SwitchIsKnown, RoundInv, engine, watcher
<1>5. QED
  BY <1>1, <1>2, <1>3, <1>4 DEF IInv, Sound, Numbered, UniqueIndex, PrimaryKey, engine

LEMMA WriteFinishes == IInv /\ FinishWrite => IInv'
<1> SUFFICES ASSUME IInv, FinishWrite PROVE IInv'
  OBVIOUS
<1>1. newer' = TRUE /\ UNCHANGED <<marker, commands, engine, watcher, dashOpen, dashTrusted>>
  BY DEF FinishWrite, AfterWrite
<1>2. FileType' /\ LiveType' /\ OtherType'
  BY <1>1 DEF FinishWrite, IInv, FileType, LiveType, OtherType, AtMostOne, engine, watcher
<1>3. NoEditIsMissed' /\ TornWrite' /\ SwitchIsKnown' /\ RoundInv'
  BY <1>1 DEF FinishWrite, IInv, NoEditIsMissed, TornWrite, SwitchIsKnown, RoundInv, engine, watcher
<1>4. QED
  BY <1>1, <1>2, <1>3 DEF IInv, Sound, Numbered, UniqueIndex, PrimaryKey, engine

-----------------------------------------------------------------------------
LEMMA WatcherKeeps == IInv /\ Poll => IInv'
<1> SUFFICES ASSUME IInv, Poll PROVE IInv'
  OBVIOUS
<1> USE DEF IInv
<1>1. CASE SyncEnabled
  <2>1. FileType' /\ LiveType' /\ OtherType'
    BY <1>1 DEF SyncEnabled, FileType, LiveType, OtherType, AtMostOne, Steps, files, dashboard
  <2>2. NoEditIsMissed' /\ TornWrite' /\ SwitchIsKnown' /\ RoundInv' /\ rules' = rules
    BY <1>1 DEF SyncEnabled, NoEditIsMissed, TornWrite, SwitchIsKnown, RoundInv, files, dashboard
  <2>3. QED
    BY <2>1, <2>2 DEF Sound, Numbered, UniqueIndex, PrimaryKey
<1>2. CASE StatPolicy
  <2>1. FileType' /\ LiveType' /\ OtherType'
    BY <1>2 DEF StatPolicy, FileType, LiveType, OtherType, AtMostOne, Steps, engine, dashboard
  <2>2. NoEditIsMissed' /\ TornWrite' /\ SwitchIsKnown' /\ RoundInv' /\ rules' = rules
    BY <1>2 DEF StatPolicy, NoEditIsMissed, TornWrite, SwitchIsKnown, RoundInv, engine, dashboard
  <2>3. QED
    BY <2>1, <2>2 DEF Sound, Numbered, UniqueIndex, PrimaryKey
<1>3. CASE ReadPolicy
  <2>1. FileType' /\ LiveType' /\ OtherType'
    BY <1>3, LoadedDoc DEF ReadPolicy, FileType, LiveType, OtherType, AtMostOne, Steps, files, dashboard
  <2>2. NoEditIsMissed'
    BY <1>3, LoadedDoc DEF ReadPolicy, NoEditIsMissed, files
  <2>3. TornWrite' /\ SwitchIsKnown' /\ RoundInv' /\ rules' = rules
    BY <1>3 DEF ReadPolicy, TornWrite, SwitchIsKnown, RoundInv, files, dashboard
  <2>4. QED
    BY <2>1, <2>2, <2>3 DEF Sound, Numbered, UniqueIndex, PrimaryKey
<1>4. CASE GlobCommands
  <2>1. FileType' /\ LiveType' /\ OtherType'
    BY <1>4 DEF GlobCommands, FileType, LiveType, OtherType, AtMostOne, Steps, files, engine, dashboard
  <2>2. NoEditIsMissed' /\ TornWrite' /\ SwitchIsKnown' /\ RoundInv' /\ rules' = rules
    BY <1>4 DEF GlobCommands, NoEditIsMissed, TornWrite, SwitchIsKnown, RoundInv, files, engine, dashboard
  <2>3. QED
    BY <2>1, <2>2 DEF Sound, Numbered, UniqueIndex, PrimaryKey
<1>5. CASE ApplyCommand
  <2>1. FileType' /\ LiveType' /\ OtherType'
    BY <1>5 DEF ApplyCommand, FileType, LiveType, OtherType, AtMostOne, Steps, files, dashboard
  <2>2. NoEditIsMissed' /\ TornWrite' /\ SwitchIsKnown' /\ RoundInv'
    BY <1>5 DEF ApplyCommand, NoEditIsMissed, TornWrite, SwitchIsKnown, RoundInv, files, dashboard
  <2>3. Sound(rules') \/ rules' = rules
    BY <1>5, RevokeKeepsSound DEF ApplyCommand
  <2>4. QED
    BY <2>1, <2>2, <2>3 DEF Sound, Numbered, UniqueIndex, PrimaryKey
<1>6. CASE RemoveCommand
  <2>1. FileType' /\ LiveType' /\ OtherType'
    BY <1>6 DEF RemoveCommand, FileType, LiveType, OtherType, AtMostOne, Steps, engine, dashboard
  <2>2. NoEditIsMissed' /\ TornWrite' /\ SwitchIsKnown' /\ RoundInv' /\ rules' = rules
    BY <1>6 DEF RemoveCommand, NoEditIsMissed, TornWrite, SwitchIsKnown, RoundInv, engine, dashboard
  <2>3. QED
    BY <2>1, <2>2 DEF Sound, Numbered, UniqueIndex, PrimaryKey
<1>7. QED
  BY <1>1, <1>2, <1>3, <1>4, <1>5, <1>6 DEF Poll

LEMMA OthersKeepSound ==
  ASSUME Sound(rules), OthersEdit
  PROVE  Sound(rules')
<1>1. ASSUME NEW r \in NewRules PROVE Sound(InsertRow(rules, r))
  <2>1. r \in AnyRow({r.file}, {r.ident}, {r.expires})
    BY ControlAssumption DEF IsNewRow, AnyRow
  <2>2. QED
    BY <2>1, InsertKeepsSound
<1>2. ASSUME NEW id PROVE Sound(RevokeRow(rules, id))
  BY RevokeKeepsSound
<1>3. QED
  BY <1>1, <1>2 DEF OthersEdit

LEMMA RestartKeeps == IInv /\ Restart => IInv'
<1> SUFFICES ASSUME IInv, Restart PROVE IInv'
  OBVIOUS
<1>1. LiveType'
  <2>1. DefaultDoc \in Doc /\ DefaultDoc.policy \in Policies
    BY ControlAssumption DEF DefaultDoc, Doc
  <2>2. QED
    BY <2>1, LoadedDoc DEF Restart, IInv, LiveType
<1>2. FileType' /\ OtherType'
  BY DEF Restart, IInv, FileType, OtherType, AtMostOne, Steps, dashboard
<1>3. NoEditIsMissed' /\ TornWrite' /\ SwitchIsKnown' /\ RoundInv'
  BY DEF Restart, IInv, NoEditIsMissed, TornWrite, SwitchIsKnown, RoundInv, dashboard
<1>4. rules' = rules
  BY DEF Restart
<1>5. QED
  BY <1>1, <1>2, <1>3, <1>4 DEF IInv, Sound, Numbered, UniqueIndex, PrimaryKey

LEMMA Step == IInv /\ [Next]_vars => IInv'
<1> SUFFICES ASSUME IInv, [Next]_vars PROVE IInv'
  OBVIOUS
<1>1. ASSUME UNCHANGED <<file, newer, marker, commands, live, enabled, watcher, dashboard>>,
             storeUp' \in BOOLEAN, Sound(rules')
      PROVE  IInv'
  <2>1. FileType' /\ LiveType' /\ OtherType'
    BY <1>1 DEF IInv, FileType, LiveType, OtherType, AtMostOne, watcher, dashboard
  <2>2. NoEditIsMissed' /\ TornWrite' /\ SwitchIsKnown' /\ RoundInv'
    BY <1>1 DEF IInv, NoEditIsMissed, TornWrite, SwitchIsKnown, RoundInv, watcher, dashboard
  <2>3. QED
    BY <1>1, <2>1, <2>2 DEF IInv, Sound, Numbered, UniqueIndex, PrimaryKey
<1>2. CASE UNCHANGED vars \/ Export
  <2>1. UNCHANGED <<file, newer, marker, commands, live, enabled, rules, storeUp, watcher, dashboard>>
    BY <1>2 DEF vars, Export, files, engine
  <2>2. QED
    BY <1>1, <2>1 DEF IInv, OtherType
<1>3. CASE OthersEdit
  <2>1. Sound(rules')
    BY <1>3, OthersKeepSound DEF IInv
  <2>2. QED
    BY <1>1, <1>3, <2>1 DEF OthersEdit, files, IInv, OtherType
<1>4. ASSUME NEW a \in Apps, TrustFromPrompt(a) \/ BrowseTrusted(a) \/ RemoveTrusted(a)
      PROVE  IInv'
  BY <1>4, TrustWrites
<1>5. ASSUME NEW p \in Policies \cup {Nothing}, SavePolicy(p) PROVE IInv'
  <2> DEFINE doc == [policy |-> p, trusted |-> TrustedIn(file)]
  <2>1. doc \in Doc
    BY PolicyIsTyped, DocFields DEF IInv
  <2>2. BeginWrite(doc) /\ dashTrusted' \subseteq Apps
    BY <1>5 DEF SavePolicy, IInv, OtherType
  <2> HIDE DEF doc
  <2>3. QED
    BY <2>1, <2>2, WriteBegins
<1>6. CASE Helper
  BY <1>4, <1>5, <1>6, HelperKeeps DEF Helper
<1>7. CASE StoreFailsOrRecovers
  <2>1. /\ UNCHANGED <<file, newer, marker, commands, live, enabled, rules, watcher, dashboard>>
        /\ storeUp' \in BOOLEAN
    BY <1>7 DEF StoreFailsOrRecovers, files
  <2>2. QED
    BY <1>1, <2>1 DEF IInv
<1>8. QED
  BY <1>2, <1>3, <1>6, <1>7, WriteFinishes, WatcherKeeps, RestartKeeps DEF Next

LEMMA IInvHolds == Safety => []IInv
BY InitHolds, Step, PTL DEF Safety

-----------------------------------------------------------------------------
(* Every variable keeps its type, the table its index and its key, and the
   engine never runs under the empty policy: whatever the helper writes,
   tears or leaves unfinished, ReloadPolicyIfChanged and a restart put only a
   policy that parses and is not empty in force. *)
THEOREM ControlIsTyped == Safety => []TypeOK
<1>1. IInv => TypeOK
  BY DEF IInv, FileType, LiveType, OtherType, Sound, TypeOK
<1>2. QED
  BY IInvHolds, <1>1, PTL

(* However the saves fall between the stat and the read of a poll, a usable
   document that is not the engine's still has its mtime after lastMod, or is
   about to be read: ReloadPolicyIfChanged cannot lose an edit. *)
THEOREM EditsAreNotMissed == Safety => []NoEditIsMissed
<1>1. IInv => NoEditIsMissed
  BY DEF IInv
<1>2. QED
  BY IInvHolds, <1>1, PTL

(* The engine's switch is what the controller last set it to, so the test of
   SyncEnabled against lastEnabled never leaves it where the marker does not
   want it, restarts of either process included. *)
THEOREM SwitchIsTracked == Safety => []SwitchIsKnown
<1>1. IInv => SwitchIsKnown
  BY DEF IInv
<1>2. QED
  BY IInvHolds, <1>1, PTL

LEMMA CommandStep ==
  ASSUME NEW id \in Ids, [Next]_vars, Outstanding(id)
  PROVE  Outstanding(id)' \/ Gone(id)' \/ Refused(id)'
<1>1. id \in commands /\ ~(at = "remove" /\ id = Min(batch))
  BY DEF Outstanding
<1>2. CASE ApplyCommand
  <2>1. /\ rules' = (IF storeUp THEN RevokeRow(rules, Min(batch)) ELSE rules)
        /\ at' = "remove" /\ UNCHANGED <<commands, batch, storeUp>>
    BY <1>2 DEF ApplyCommand, files
  <2>2. CASE id = Min(batch)
    BY <2>1, <2>2 DEF RevokeRow, Gone, Refused
  <2>3. CASE id # Min(batch)
    BY <1>1, <2>1, <2>3 DEF Outstanding
  <2>4. QED
    BY <2>2, <2>3
<1>3. CASE RemoveCommand
  BY <1>1, <1>3 DEF RemoveCommand, Outstanding
<1>4. ASSUME id \in commands', at' # "remove" PROVE Outstanding(id)'
  BY <1>4 DEF Outstanding
<1>5. CASE SyncEnabled \/ StatPolicy \/ ReadPolicy \/ GlobCommands \/ Restart
  BY <1>1, <1>4, <1>5 DEF SyncEnabled, StatPolicy, ReadPolicy, GlobCommands, Restart, files
<1>6. ASSUME id \in commands', UNCHANGED watcher PROVE Outstanding(id)'
  BY <1>1, <1>6 DEF Outstanding, watcher
<1>7. CASE Export \/ OthersEdit \/ StoreFailsOrRecovers \/ FinishWrite \/ UNCHANGED vars
  BY <1>1, <1>6, <1>7 DEF Export, OthersEdit, StoreFailsOrRecovers, FinishWrite, vars, files
<1>8. CASE Helper
  <2>1. ASSUME NEW doc, BeginWrite(doc) PROVE Outstanding(id)'
    BY <1>1, <1>6, <2>1 DEF BeginWrite
  <2>2. CASE OpenDashboard \/ RefreshDashboard \/ CloseDashboard \/ ToggleDisabled \/ HelperRestarts
    BY <1>1, <1>6, <2>2 DEF OpenDashboard, RefreshDashboard, CloseDashboard,
                            ToggleDisabled, HelperRestarts, files
  <2>3. ASSUME NEW i \in Ids, RevokeSelected(i) PROVE Outstanding(id)'
    BY <1>1, <1>6, <2>3 DEF RevokeSelected
  <2>4. QED
    BY <1>8, <2>1, <2>2, <2>3
    DEF Helper, TrustFromPrompt, SavePolicy, BrowseTrusted, RemoveTrusted, PersistTrusted
<1>9. QED
  BY <1>2, <1>3, <1>5, <1>7, <1>8 DEF Next, Poll

(* revoke-<id>.cmd is removed after the deletion, never before: no step of
   any process, a stop of the extension between the two included, takes away
   a command that has neither been obeyed nor met a store that fails.  This is
   what RevokeTakes rests on. *)
THEOREM CommandsAreKept == Safety => CommandIsKept
<1> DEFINE Kept == \A id \in Ids : Outstanding(id) => Outstanding(id)' \/ Gone(id)' \/ Refused(id)'
<1>1. [Next]_vars => [Kept]_vars
  BY CommandStep
<1>2. QED
  BY <1>1, PTL DEF Safety, CommandIsKept
=============================================================================

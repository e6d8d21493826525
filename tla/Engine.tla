------------------------------- MODULE Engine -------------------------------
(***************************************************************************)
(* The decision engine, internal/agent.  The run loop decides one open at  *)
(* a time, and every input of a decision -- the kill switch, the policy,   *)
(* the rules, whether their store answers, the file's contents, the        *)
(* helper, the cooldown -- may change between the moments the decision     *)
(* reads it.  Prompts go to a bounded bus, which may not block a decision, *)
(* and neither may the channel of audit rows, which is in Agent.tla.  Any  *)
(* step may panic, and a panic allows.                                     *)
(***************************************************************************)
EXTENDS RuleStore, Policy

CONSTANTS Opens,        \* opens: [path, writeOnly, apps, chain, exe]
          Policies,     \* policies: [entries, trusted]
          Globs,        \* the globs of their entries
          Paths,        \* the paths of Opens
          NewRules,     \* rows that may be inserted
          MonitorOnly,  \* --monitor
          Cooldown, BusCap,
          MaxId         \* bound on the rule ids given out

ASSUME EngineAssumption ==
  /\ Cooldown \in Nat /\ BusCap \in Nat /\ MaxId \in Nat
  /\ MonitorOnly \in BOOLEAN
  /\ \A o \in Opens : o.path \in Paths /\ o.writeOnly \in BOOLEAN
  /\ \A p \in Policies : \A n \in DOMAIN p.entries : p.entries[n].glob \in Globs
  /\ \A r \in NewRules : IsNewRow(r)

VARIABLES
  enabled, policy, rules, storeUp, contents, helper, cooling,   \* the inputs
  at,        \* the next step of the decision, "idle" between decisions
  open,      \* the open being decided
  action,    \* what matchPolicy answered...
  category,  \* ... and the glob that matched
  label,     \* the outcome, as the audit row names it; "skip" has no row
  answer,    \* what the last decision told the hook
  bus,       \* prompts in the bus
  could,     \* outcomes an instantaneous decision could have had (history)
  changes,   \* input changes since the decision began, at most 2 (history)
  swapped    \* one of them changed both parts of the policy (history)

inputs  == <<enabled, policy, rules, storeUp, contents, helper, cooling>>
local   == <<at, open, action, category, label, answer>>
ghosts  == <<could, changes, swapped>>
vars    == <<inputs, local, bus, ghosts>>

Contents == {"secret", "clean", "unreadable"}
DenyLabels  == {"block", "deny", "ask", "deny-cooldown"}
AllowLabels == {"skip", "allow", "allow-trusted", "allow-clean", "allow-no-helper"}
Labels == DenyLabels \cup AllowLabels
Steps  == {"idle", "match", "trust", "lookup", "scan", "helper", "ask", "push"}

TypeOK ==
  /\ enabled \in BOOLEAN /\ policy \in Policies /\ helper \in BOOLEAN
  /\ UniqueIndex(rules) /\ storeUp \in BOOLEAN
  /\ contents \in [Paths -> Contents]
  /\ cooling \in [Paths -> 0..Cooldown]
  /\ at \in Steps /\ open \in Opens /\ action \in Actions \cup {"ignore"}
  /\ category \in Globs \cup {"none"}
  /\ label \in Labels \cup {"none"} /\ answer \in Verdicts
  /\ bus \in 0..BusCap
  /\ could \subseteq Labels /\ changes \in 0..2 /\ swapped \in BOOLEAN

Init ==
  /\ enabled = TRUE /\ policy \in Policies /\ rules = {} /\ storeUp = TRUE
  /\ helper \in BOOLEAN
  /\ contents \in [Paths -> Contents]
  /\ cooling = [p \in Paths |-> 0]
  /\ at = "idle" /\ open \in Opens /\ action = "ignore" /\ category = "none"
  /\ label = "none" /\ answer = "allow"
  /\ bus = 0
  /\ could = {} /\ changes = 0 /\ swapped = FALSE

(* What Lookup is asked for: the file by its path and by the glob g. *)
LookupKey(o, g) == [path |-> o.path, category |-> g, chain |-> o.chain, exe |-> o.exe]

(* The verdict of the rule found.  A failed lookup is logged and then counts
   as no rule. *)
RuleFor(o, g) ==
  IF storeUp THEN {r.verdict : r \in Lookup(rules, LookupKey(o, g), 0)} ELSE {}

-----------------------------------------------------------------------------
(* One decision.  Each step reads one input. *)

Outcome(l) == at' = "push" /\ label' = l

Goto(step) == at' = step /\ UNCHANGED label

Reads == UNCHANGED <<inputs, open, action, category, answer, bus>>

(* Next returned an event; decideInner loads `enabled`, then looks at the
   flags of the open. *)
Begin(o) ==
  /\ at = "idle"
  /\ open' = o
  /\ IF ~enabled \/ o.writeOnly THEN Outcome("skip") ELSE at' = "match" /\ label' = "none"
  /\ UNCHANGED <<inputs, action, category, answer, bus>>

(* The first look at the policy; its glob is kept for the lookup. *)
MatchPolicy ==
  LET m == Matched(policy.entries, open.path)
      a == m[1] IN
  /\ at = "match"
  /\ action' = a /\ category' = m[2]
  /\ IF a = "ignore" THEN Outcome("skip")
     ELSE IF a = "allow" THEN Outcome("allow")
     ELSE Goto("trust")
  /\ UNCHANGED <<inputs, open, answer, bus>>

(* Mutant: "block" is answered before trust is looked at. *)
BlockFirst ==
  /\ at = "trust"
  /\ IF action = "block" THEN Outcome("block")
     ELSE IF TrustsChain(policy.trusted, open.apps) THEN Outcome("allow-trusted")
     ELSE Goto("lookup")
  /\ Reads

(* The identity is resolved, then the trusted apps are read, the second
   look at the policy; "block" comes after trust. *)
CheckTrust ==
  /\ at = "trust"
  /\ IF TrustsChain(policy.trusted, open.apps) THEN Outcome("allow-trusted")
     ELSE IF action = "block" THEN Outcome("block")
     ELSE Goto("lookup")
  /\ Reads

(* Mutant: the policy is matched again for the glob. *)
LookupAfresh ==
  LET verdict == RuleFor(open, Matched(policy.entries, open.path)[2]) IN
  /\ at = "lookup"
  /\ IF verdict = {} THEN Goto("scan") ELSE \E v \in verdict : Outcome(v)
  /\ Reads

LookupRule ==
  LET verdict == RuleFor(open, category) IN
  /\ at = "lookup"
  /\ IF verdict = {} THEN Goto("scan") ELSE \E v \in verdict : Outcome(v)
  /\ Reads

(* The content tier: a head that cannot be read counts as a secret. *)
ScanHead ==
  /\ at = "scan"
  /\ IF contents[open.path] = "clean" THEN Outcome("allow-clean") ELSE Goto("helper")
  /\ Reads

CheckHelper ==
  /\ at = "helper"
  /\ IF helper THEN Goto("ask") ELSE Outcome("allow-no-helper")
  /\ Reads

(* Mutant: no capacity. *)
PublishAlways(b) == b + 1

(* Publish never waits. *)
Publish(b) == IF b < BusCap THEN b + 1 ELSE b

(* Mutant: a full bus is waited for. *)
AskWaits ==
  /\ at = "ask" /\ (cooling[open.path] > 0 \/ bus < BusCap)
  /\ IF cooling[open.path] > 0
     THEN Outcome("deny-cooldown") /\ UNCHANGED <<cooling, bus>>
     ELSE /\ Outcome("ask")
          /\ cooling' = [cooling EXCEPT ![open.path] = Cooldown]
          /\ bus' = bus + 1
  /\ UNCHANGED <<enabled, policy, rules, storeUp, contents, helper>>
  /\ UNCHANGED <<open, action, category, answer>>

(* shouldPrompt and Publish: a prompt is dropped when the bus is full, and
   has started the cooldown all the same. *)
Ask ==
  /\ at = "ask"
  /\ IF cooling[open.path] > 0
     THEN Outcome("deny-cooldown") /\ UNCHANGED <<cooling, bus>>
     ELSE /\ Outcome("ask")
          /\ cooling' = [cooling EXCEPT ![open.path] = Cooldown]
          /\ bus' = Publish(bus)
  /\ UNCHANGED <<enabled, policy, rules, storeUp, contents, helper>>
  /\ UNCHANGED <<open, action, category, answer>>

(* Decide, after decideInner: monitor-only turns a deny into an allow. *)
Push ==
  /\ at = "push"
  /\ answer' = IF label \in DenyLabels /\ ~MonitorOnly THEN "deny" ELSE "allow"
  /\ at' = "idle" /\ label' = "none" /\ action' = "ignore" /\ category' = "none"
  /\ UNCHANGED <<inputs, open, bus>>

(* The deferred recover: an allow, without a row. *)
Panic ==
  /\ at \notin {"idle", "push"}
  /\ at' = "idle" /\ label' = "none" /\ action' = "ignore" /\ category' = "none"
  /\ answer' = "allow"
  /\ UNCHANGED <<inputs, open, bus>>

Decide == \/ MatchPolicy \/ CheckTrust \/ LookupRule
          \/ ScanHead \/ CheckHelper \/ Ask

-----------------------------------------------------------------------------
(* What goes on around it. *)

SetEnabled ==
  /\ enabled' = ~enabled
  /\ UNCHANGED <<policy, rules, storeUp, contents, helper, cooling>>

SetPolicy(p) ==
  /\ p # policy /\ p.entries # << >>
  /\ policy' = p
  /\ UNCHANGED <<enabled, rules, storeUp, contents, helper, cooling>>

EditRules ==
  /\ \/ NextId(rules) <= MaxId /\ \E r \in NewRules : rules' = InsertRow(rules, r)
     \/ \E r \in rules : rules' = RevokeRow(rules, r.id)
  /\ rules' # rules
  /\ UNCHANGED <<enabled, policy, storeUp, contents, helper, cooling>>

(* The store begins or ceases to fail: a disk error, a lock, a closed handle. *)
StoreFailsOrRecovers ==
  /\ storeUp' = ~storeUp
  /\ UNCHANGED <<enabled, policy, rules, contents, helper, cooling>>

EditFile(p, c) ==
  /\ c # contents[p]
  /\ contents' = [contents EXCEPT ![p] = c]
  /\ UNCHANGED <<enabled, policy, rules, storeUp, helper, cooling>>

HelperComesOrGoes ==
  /\ helper' = ~helper
  /\ UNCHANGED <<enabled, policy, rules, storeUp, contents, cooling>>

Tick ==
  /\ \E p \in Paths : cooling[p] > 0
  /\ cooling' = [p \in Paths |-> IF cooling[p] = 0 THEN 0 ELSE cooling[p] - 1]
  /\ UNCHANGED <<enabled, policy, rules, storeUp, contents, helper>>

InputChanges ==
  /\ \/ SetEnabled \/ (\E p \in Policies : SetPolicy(p)) \/ EditRules
     \/ StoreFailsOrRecovers
     \/ (\E p \in Paths, c \in Contents : EditFile(p, c)) \/ HelperComesOrGoes \/ Tick
  /\ UNCHANGED <<local, bus>>

Drain ==
  /\ bus > 0 /\ bus' = bus - 1
  /\ UNCHANGED <<inputs, local>>

-----------------------------------------------------------------------------
(* What one instantaneous decision would answer: the first tier that holds. *)
Tiers(o) ==
  LET m == Matched(policy.entries, o.path)
      a == m[1] IN
  << <<~enabled \/ o.writeOnly \/ a = "ignore",      "skip">>,
     <<a = "allow",                                  "allow">>,
     <<TrustsChain(policy.trusted, o.apps),          "allow-trusted">>,
     <<a = "block",                                  "block">>,
     <<"allow" \in RuleFor(o, m[2]),                 "allow">>,
     <<"deny" \in RuleFor(o, m[2]),                  "deny">>,
     <<contents[o.path] = "clean",                   "allow-clean">>,
     <<~helper,                                      "allow-no-helper">>,
     <<cooling[o.path] > 0,                          "deny-cooldown">>,
     <<TRUE,                                         "ask">> >>

Instant(o) ==
  LET t == Tiers(o)
  IN t[CHOOSE n \in DOMAIN t : t[n][1] /\ \A k \in 1..(n - 1) : ~t[k][1]][2]

(* History: what an instantaneous decision would have answered at each step
   of this one, and how much has changed since it began; beyond one change
   nothing is claimed and nothing remembered. *)
Remember(o) ==
  /\ could' = IF changes = 2 THEN {} ELSE could \cup {Instant(o)}
  /\ UNCHANGED <<changes, swapped>>

Notice ==
  IF at = "idle" \/ changes = 2 THEN UNCHANGED ghosts
  ELSE /\ changes' = changes + 1
       /\ could' = IF changes = 1 THEN {} ELSE could
       /\ swapped' = /\ changes = 0
                     /\ policy'.entries # policy.entries
                     /\ policy'.trusted # policy.trusted

Forget == could' = {} /\ changes' = 0 /\ swapped' = FALSE

Run == (Decide /\ Remember(open)) \/ (Push /\ Forget)

Next ==
  \/ \E o \in Opens : Begin(o) /\ Remember(o)
  \/ Run
  \/ Panic /\ Forget
  \/ InputChanges /\ Notice
  \/ Drain /\ UNCHANGED ghosts

Safety == Init /\ [][Next]_vars

(* The run loop runs: a decision that can take a step takes it. *)
Spec == Safety /\ WF_at(Decide \/ Push)

-----------------------------------------------------------------------------
(* A decision reads its inputs one after the other, yet when one of them
   changes meanwhile, and not both parts of the policy at once, the outcome
   is the one an instantaneous decision has before or after that change:
   the order of the tiers, and the glob kept from the first look at the
   policy, leave no gap for one edit, or a rule store that begins or ceases to
   fail, to slip through.  A swap of both parts of the policy is left out
   because it does slip through: the action comes from the old policy and the
   trusted apps from the new one. *)
OneChangeIsAtomic ==
  at = "push" /\ changes <= 1 /\ ~swapped => label \in could

(* A decision always returns, whatever the prompt drainer and the user do:
   the bus is never waited for. *)
DecideReturns == (at # "idle") ~> (at = "idle")
=============================================================================

---------------------------- MODULE EngineProofs ----------------------------
(***************************************************************************)
(* Proofs about the decision engine, for any opens, policies and rules.    *)
(*                                                                         *)
(* A decision is a walk down a list of tiers.  Rest is what it will answer *)
(* if nothing changes any more, which its own steps do not alter.  As long *)
(* as nothing has changed, the tiers passed do not hold (Passed), so Rest  *)
(* is the answer of an instantaneous decision.  One change either leaves   *)
(* Rest alone, because what it touches has been read for good, or leaves   *)
(* Passed true, because what it touches has yet to be read.                *)
(***************************************************************************)
EXTENDS Engine, RuleStoreProofs

(* What is left of a decision from each tier on. *)
FromAsk    == IF cooling[open.path] > 0 THEN "deny-cooldown" ELSE "ask"
FromHelper == IF helper THEN FromAsk ELSE "allow-no-helper"
FromScan   == IF contents[open.path] = "clean" THEN "allow-clean" ELSE FromHelper
FromLookup(verdicts) == IF "allow" \in verdicts THEN "allow"
                        ELSE IF "deny" \in verdicts THEN "deny"
                        ELSE FromScan
Trusted    == TrustsChain(policy.trusted, open.apps)
FromTrust(a, verdicts) == IF Trusted THEN "allow-trusted"
                          ELSE IF a = "block" THEN "block"
                          ELSE FromLookup(verdicts)
Match      == Matched(policy.entries, open.path)
Action     == Match[1]
Glob       == Match[2]
Kept       == RuleFor(open, category)   \* by the glob kept from the match,
Fresh      == RuleFor(open, Glob)       \* and by the glob that matches now
FromMatch  == IF Action = "ignore" THEN "skip"
              ELSE IF Action = "allow" THEN "allow"
              ELSE FromTrust(Action, Fresh)

Rest ==
  CASE at = "match"  -> FromMatch
    [] at = "trust"  -> FromTrust(action, Kept)
    [] at = "lookup" -> FromLookup(Kept)
    [] at = "scan"   -> FromScan
    [] at = "helper" -> FromHelper
    [] at = "ask"    -> FromAsk
    [] OTHER         -> label

Deciding == at \notin {"idle", "push"}

(* The tiers a decision has passed do not hold. *)
Passed ==
  /\ enabled /\ ~open.writeOnly
  /\ at # "match" => action = Action /\ category = Glob /\ action \notin {"ignore", "allow"}
  /\ at \notin {"match", "trust"} => ~Trusted /\ action # "block"
  /\ at \in {"scan", "helper", "ask"} => Kept = {}
  /\ at \in {"helper", "ask"} => contents[open.path] # "clean"
  /\ at = "ask" => helper

History ==
  /\ at = "idle" => changes = 0
  /\ changes = 0 => ~swapped
  /\ at = "push" /\ changes <= 1 /\ ~swapped => label \in could
  /\ Deciding /\ changes = 0 => Passed /\ Instant(open) \in could
  /\ Deciding /\ changes = 1 /\ ~swapped => Rest \in could \cup {Instant(open)}

(* A lookup gives a verdict. *)
Verdict == \A r \in rules : r.verdict \in Verdicts

IInv == TypeOK /\ Sound(rules) /\ Shaped(rules) /\ Verdict /\ History

-----------------------------------------------------------------------------
(* The list of tiers, as a nested conditional. *)
LEMMA FirstTier ==
  ASSUME NEW t, DOMAIN t = 1..10, t[10][1]
  PROVE  t[CHOOSE n \in DOMAIN t : t[n][1] /\ \A k \in 1..(n - 1) : ~t[k][1]][2]
           = IF t[1][1] THEN t[1][2] ELSE IF t[2][1] THEN t[2][2]
             ELSE IF t[3][1] THEN t[3][2] ELSE IF t[4][1] THEN t[4][2]
             ELSE IF t[5][1] THEN t[5][2] ELSE IF t[6][1] THEN t[6][2]
             ELSE IF t[7][1] THEN t[7][2] ELSE IF t[8][1] THEN t[8][2]
             ELSE IF t[9][1] THEN t[9][2] ELSE t[10][2]
<1> DEFINE Is(n) == t[n][1] /\ \A k \in 1..(n - 1) : ~t[k][1]
           first == CHOOSE n \in DOMAIN t : Is(n)
<1>1. ASSUME NEW i \in 1..10, Is(i) PROVE first = i
  <2>1. first \in 1..10 /\ Is(first)
    BY <1>1
  <2> HIDE DEF first
  <2>2. ~(first < i) /\ ~(i < first)
    BY <1>1, <2>1
  <2>3. QED
    BY <2>1, <2>2
<1> HIDE DEF first
<1>2. CASE t[1][1]
  <2>1. Is(1)
    BY <1>2
  <2>2. first = 1
    BY <1>1, <2>1
  <2>3. QED
    BY <1>2, <2>2 DEF first
<1>3. CASE ~t[1][1] /\ t[2][1]
  <2>1. Is(2)
    BY <1>3
  <2>2. first = 2
    BY <1>1, <2>1
  <2>3. QED
    BY <1>3, <2>2 DEF first
<1>4. CASE ~t[1][1] /\ ~t[2][1] /\ t[3][1]
  <2>1. Is(3)
    BY <1>4
  <2>2. first = 3
    BY <1>1, <2>1
  <2>3. QED
    BY <1>4, <2>2 DEF first
<1>5. CASE ~t[1][1] /\ ~t[2][1] /\ ~t[3][1] /\ t[4][1]
  <2>1. Is(4)
    BY <1>5
  <2>2. first = 4
    BY <1>1, <2>1
  <2>3. QED
    BY <1>5, <2>2 DEF first
<1>6. CASE ~t[1][1] /\ ~t[2][1] /\ ~t[3][1] /\ ~t[4][1] /\ t[5][1]
  <2>1. Is(5)
    BY <1>6
  <2>2. first = 5
    BY <1>1, <2>1
  <2>3. QED
    BY <1>6, <2>2 DEF first
<1>7. CASE ~t[1][1] /\ ~t[2][1] /\ ~t[3][1] /\ ~t[4][1] /\ ~t[5][1] /\ t[6][1]
  <2>1. Is(6)
    BY <1>7
  <2>2. first = 6
    BY <1>1, <2>1
  <2>3. QED
    BY <1>7, <2>2 DEF first
<1>8. CASE ~t[1][1] /\ ~t[2][1] /\ ~t[3][1] /\ ~t[4][1] /\ ~t[5][1] /\ ~t[6][1]
            /\ t[7][1]
  <2>1. Is(7)
    BY <1>8
  <2>2. first = 7
    BY <1>1, <2>1
  <2>3. QED
    BY <1>8, <2>2 DEF first
<1>9. CASE ~t[1][1] /\ ~t[2][1] /\ ~t[3][1] /\ ~t[4][1] /\ ~t[5][1] /\ ~t[6][1]
            /\ ~t[7][1] /\ t[8][1]
  <2>1. Is(8)
    BY <1>9
  <2>2. first = 8
    BY <1>1, <2>1
  <2>3. QED
    BY <1>9, <2>2 DEF first
<1>10. CASE ~t[1][1] /\ ~t[2][1] /\ ~t[3][1] /\ ~t[4][1] /\ ~t[5][1] /\ ~t[6][1]
            /\ ~t[7][1] /\ ~t[8][1] /\ t[9][1]
  <2>1. Is(9)
    BY <1>10
  <2>2. first = 9
    BY <1>1, <2>1
  <2>3. QED
    BY <1>10, <2>2 DEF first
<1>11. CASE ~t[1][1] /\ ~t[2][1] /\ ~t[3][1] /\ ~t[4][1] /\ ~t[5][1] /\ ~t[6][1]
            /\ ~t[7][1] /\ ~t[8][1] /\ ~t[9][1]
  <2>1. Is(10)
    BY <1>11
  <2>2. first = 10
    BY <1>1, <2>1
  <2>3. QED
    BY <1>11, <2>2 DEF first
<1>12. QED
  BY <1>2, <1>3, <1>4, <1>5, <1>6, <1>7, <1>8, <1>9, <1>10, <1>11

-----------------------------------------------------------------------------
LEMMA InstantIsRest ==
  Instant(open) = IF ~enabled \/ open.writeOnly THEN "skip" ELSE FromMatch
<1> DEFINE t == Tiers(open)
<1>1. DOMAIN t = 1..10
  BY DEF Tiers
<1>2. /\ t[1][1] <=> ~enabled \/ open.writeOnly \/ Action = "ignore"
      /\ t[2][1] <=> Action = "allow"
      /\ t[3][1] <=> Trusted
      /\ t[4][1] <=> Action = "block"
      /\ t[5][1] <=> "allow" \in Fresh
      /\ t[6][1] <=> "deny" \in Fresh
      /\ t[7][1] <=> contents[open.path] = "clean"
      /\ t[8][1] <=> ~helper
      /\ t[9][1] <=> cooling[open.path] > 0
      /\ t[10][1] = TRUE
  BY DEF Tiers, Match, Action, Glob, Fresh, Trusted
<1>3. /\ t[1][2] = "skip" /\ t[2][2] = "allow" /\ t[3][2] = "allow-trusted"
      /\ t[4][2] = "block" /\ t[5][2] = "allow" /\ t[6][2] = "deny"
      /\ t[7][2] = "allow-clean" /\ t[8][2] = "allow-no-helper"
      /\ t[9][2] = "deny-cooldown" /\ t[10][2] = "ask"
  BY DEF Tiers
<1>4. Instant(open) = t[CHOOSE n \in DOMAIN t : t[n][1] /\ \A k \in 1..(n - 1) : ~t[k][1]][2]
  BY DEF Instant
<1> HIDE DEF t
<1>5. Instant(open)
        = IF t[1][1] THEN t[1][2] ELSE IF t[2][1] THEN t[2][2]
          ELSE IF t[3][1] THEN t[3][2] ELSE IF t[4][1] THEN t[4][2]
          ELSE IF t[5][1] THEN t[5][2] ELSE IF t[6][1] THEN t[6][2]
          ELSE IF t[7][1] THEN t[7][2] ELSE IF t[8][1] THEN t[8][2]
          ELSE IF t[9][1] THEN t[9][2] ELSE t[10][2]
  <2>1. t[10][1]
    BY <1>2
  <2>2. QED
    BY <1>1, <1>4, <2>1, FirstTier
<1>6. QED
  BY <1>2, <1>3, <1>5
     DEF FromMatch, FromTrust, FromLookup, FromScan, FromHelper, FromAsk

(* The policy answers with an action and one of its globs. *)
LEMMA MatchedType ==
  ASSUME NEW p \in Policies, NEW path
  PROVE  /\ Matched(p.entries, path)[1] \in Actions \cup {"ignore"}
         /\ Matched(p.entries, path)[2] \in Globs \cup {"none"}
<1> DEFINE hit == FirstMatch(p.entries, path)
           n   == CHOOSE i \in hit : TRUE
<1>1. CASE hit = {}
  BY <1>1 DEF Matched
<1>2. CASE hit # {}
  <2>1. n \in DOMAIN p.entries
    BY <1>2 DEF FirstMatch
  <2>2. p.entries[n].glob \in Globs
    BY <2>1, EngineAssumption
  <2>3. Matched(p.entries, path)
          = <<IF p.entries[n].action \in {"allow", "block"} THEN p.entries[n].action
              ELSE "prompt", p.entries[n].glob>>
    BY <1>2 DEF Matched
  <2>4. QED
    BY <2>2, <2>3 DEF Actions
<1>3. QED
  BY <1>1, <1>2

(* A rule lookup has one answer at most, and it is a verdict. *)
LEMMA OneVerdict ==
  ASSUME IInv, NEW v \in Kept
  PROVE  v \in Verdicts /\ Kept = {v}
<1> DEFINE k == LookupKey(open, category)
<1>1. storeUp /\ \E r \in Lookup(rules, k, 0) : v = r.verdict
  BY DEF Kept, RuleFor
<1>2. PICK r \in Lookup(rules, k, 0) : v = r.verdict
  BY <1>1
<1>3. \A s \in Lookup(rules, k, 0) : s = r
  BY OneAnswer DEF IInv, Sound
<1>4. r \in rules
  BY DEF Lookup, Candidates
<1>5. QED
  BY <1>1, <1>2, <1>3, <1>4 DEF Kept, RuleFor, IInv, Verdict

-----------------------------------------------------------------------------
(* What nothing has invalidated is what an instantaneous decision answers. *)
LEMMA PassedIsInstant == at \in Steps /\ Deciding /\ Passed => Rest = Instant(open)
<1> SUFFICES ASSUME at \in Steps, Deciding, Passed PROVE Rest = Instant(open)
  OBVIOUS
<1>1. Instant(open) = FromMatch
  BY InstantIsRest DEF Passed
<1>2. at \in {"match", "trust", "lookup", "scan", "helper", "ask"}
  BY DEF Deciding, Steps
<1>3. CASE at = "match"
  BY <1>1, <1>3 DEF Rest
<1>4. CASE at # "match"
  <2>1. Kept = Fresh /\ action = Action /\ action \notin {"ignore", "allow"}
    BY <1>4 DEF Passed, Kept, Fresh
  <2>2. QED
    BY <1>1, <1>2, <1>4, <2>1
       DEF Rest, Passed, FromMatch, FromTrust, FromLookup, FromScan, FromHelper
<1>5. QED
  BY <1>3, <1>4

LEMMA InstantIsLabel == Instant(open) \in Labels
BY InstantIsRest DEF FromMatch, FromTrust, FromLookup, FromScan, FromHelper, FromAsk,
                     Labels, DenyLabels, AllowLabels

(* It depends on the inputs and on the open. *)
LEMMA SameInstant ==
  ASSUME UNCHANGED inputs, NEW o, open' = o
  PROVE  Instant(open)' = Instant(o)
BY DEF inputs, Instant, Tiers, RuleFor, LookupKey

LEMMA SameRest ==
  ASSUME UNCHANGED <<inputs, open>>
  PROVE  /\ UNCHANGED <<Trusted, Action, Glob, Fresh, FromMatch, FromScan, FromHelper, FromAsk>>
         /\ category' = category => Kept' = Kept
         /\ category' = Glob => Kept' = Fresh
<1>1. UNCHANGED <<Trusted, Action, Glob, FromScan, FromHelper, FromAsk>>
  BY DEF inputs, Trusted, Match, Action, Glob, FromScan, FromHelper, FromAsk
<1>2. Fresh' = Fresh
  BY <1>1 DEF inputs, Fresh, RuleFor, LookupKey
<1>3. FromMatch' = FromMatch
  BY <1>1, <1>2 DEF FromMatch, FromTrust, FromLookup
<1>4. /\ category' = category => Kept' = Kept
      /\ category' = Glob => Kept' = Fresh
  BY <1>1 DEF inputs, Kept, Fresh, RuleFor, LookupKey
<1>5. QED
  BY <1>1, <1>2, <1>3, <1>4

-----------------------------------------------------------------------------
(* The steps of a decision follow the list. *)

LEMMA DecideFollows ==
  ASSUME IInv, Decide
  PROVE  /\ Rest' = Rest /\ Deciding /\ at' \in Steps \ {"idle"} /\ open' = open
         /\ label' \in Labels \cup {"none"} /\ action' \in Actions \cup {"ignore"}
         /\ category' \in Globs \cup {"none"}
         /\ Passed /\ Deciding' => Passed'
         /\ Deciding' => UNCHANGED inputs
<1> USE DEF Outcome, Goto, Reads, Rest, Deciding, Steps, Labels, DenyLabels, AllowLabels
<1>0. /\ label \in Labels \cup {"none"} /\ action \in Actions \cup {"ignore"}
      /\ category \in Globs \cup {"none"}
  BY DEF IInv, TypeOK
<1>1. CASE MatchPolicy
  <2>1. UNCHANGED <<inputs, open>> /\ action' = Action /\ category' = Glob
    BY <1>1 DEF MatchPolicy, Match, Action, Glob
  <2>2. Action \in Actions \cup {"ignore"} /\ Glob \in Globs \cup {"none"}
    BY MatchedType DEF IInv, TypeOK, Match, Action, Glob
  <2>3. (FromTrust(action, Kept))' = FromTrust(Action, Fresh)
    BY <2>1, SameRest DEF FromTrust, FromLookup
  <2>4. QED
    BY <1>0, <1>1, <2>1, <2>2, <2>3, SameRest
       DEF MatchPolicy, Match, Action, FromMatch, Passed, inputs
<1>2. CASE CheckTrust
  <2>1. UNCHANGED <<inputs, open, action, category>>
    BY <1>2 DEF CheckTrust
  <2>2. QED
    BY <1>0, <1>2, <2>1, SameRest DEF CheckTrust, Trusted, FromTrust, FromLookup, Passed, inputs
<1>3. CASE LookupRule
  <2>1. UNCHANGED <<inputs, open, action, category>>
    BY <1>3 DEF LookupRule
  <2>2. CASE Kept = {}
    BY <1>0, <1>3, <2>1, <2>2, SameRest DEF LookupRule, Kept, FromLookup, Passed, inputs
  <2>3. CASE Kept # {}
    <3>1. PICK v \in Kept : at' = "push" /\ label' = v
      BY <1>3, <2>3 DEF LookupRule, Kept
    <3>2. v \in Verdicts /\ Kept = {v}
      BY OneVerdict
    <3>3. QED
      BY <1>0, <1>3, <2>1, <3>1, <3>2 DEF LookupRule, FromLookup, Verdicts
  <2>4. QED
    BY <2>2, <2>3
<1>4. CASE ScanHead
  <2>1. UNCHANGED <<inputs, open, action, category>>
    BY <1>4 DEF ScanHead
  <2>2. QED
    BY <1>0, <1>4, <2>1, SameRest DEF ScanHead, FromScan, Passed, inputs
<1>5. CASE CheckHelper
  <2>1. UNCHANGED <<inputs, open, action, category>>
    BY <1>5 DEF CheckHelper
  <2>2. QED
    BY <1>0, <1>5, <2>1, SameRest DEF CheckHelper, FromHelper, Passed, inputs
<1>6. CASE Ask
  BY <1>0, <1>6 DEF Ask, FromAsk
<1>7. QED
  BY <1>1, <1>2, <1>3, <1>4, <1>5, <1>6 DEF Decide

LEMMA DecideStep ==
  ASSUME IInv, Decide, Remember(open)
  PROVE  History'
<1>1. UNCHANGED <<changes, swapped>>
  BY DEF Remember
<1>2. changes # 2 => could' = could \cup {Instant(open)}
  BY DEF Remember
<1>3. changes \in 0..2
  BY DEF IInv, TypeOK
<1>4. at' = "push" => Rest' = label'
  BY DEF Rest
<1>5. Deciding /\ changes = 0 => Rest = Instant(open)
  BY PassedIsInstant DEF IInv, TypeOK, History
<1>6. Deciding' => Instant(open)' = Instant(open)
  BY DecideFollows, SameInstant
<1>7. QED
  BY <1>1, <1>2, <1>3, <1>4, <1>5, <1>6, DecideFollows DEF IInv, History, Deciding

-----------------------------------------------------------------------------
(* One change of the inputs. *)

LEMMA ChangeKeeps ==
  ASSUME IInv, InputChanges, Deciding, Passed,
         policy'.entries = policy.entries \/ policy'.trusted = policy.trusted
  PROVE  Passed' \/ Rest' = Rest
<1> USE DEF Deciding
<1>0. at \in {"match", "trust", "lookup", "scan", "helper", "ask"} /\ UNCHANGED <<at, open, action, category, label>>
  BY DEF InputChanges, local, IInv, TypeOK, Steps
<1>1. CASE SetEnabled
  <2>1. UNCHANGED <<policy, rules, storeUp, contents, helper, cooling>>
    BY <1>1 DEF SetEnabled
  <2>2. UNCHANGED <<Trusted, Action, Glob, Kept, FromScan, FromHelper, FromAsk>>
    BY <1>0, <2>1 DEF Trusted, Match, Action, Glob, Kept, RuleFor, LookupKey,
                      FromScan, FromHelper, FromAsk
  <2>3. Fresh' = Fresh
    BY <1>0, <2>1, <2>2 DEF Fresh, RuleFor, LookupKey
  <2>4. QED
    BY <1>0, <2>2, <2>3 DEF Rest, FromMatch, FromTrust, FromLookup
<1>2. ASSUME NEW p \in Policies, SetPolicy(p) PROVE Passed' \/ Rest' = Rest
  <2>1. UNCHANGED <<Kept, FromScan, FromHelper, FromAsk>>
    BY <1>0, <1>2 DEF SetPolicy, Kept, RuleFor, LookupKey, FromScan, FromHelper, FromAsk
  <2>2. CASE at = "match"
    BY <1>0, <1>2, <2>2 DEF SetPolicy, Passed
  <2>3. CASE at = "trust" /\ policy'.trusted = policy.trusted
    <3>1. Trusted' = Trusted
      BY <1>0, <2>3 DEF Trusted
    <3>2. QED
      BY <1>0, <2>1, <2>3, <3>1 DEF Rest, FromTrust, FromLookup
  <2>4. CASE at = "trust" /\ policy'.entries = policy.entries
    <3>1. UNCHANGED <<Action, Glob>>
      BY <1>0, <2>4 DEF Match, Action, Glob
    <3>2. QED
      BY <1>0, <1>2, <2>4, <3>1 DEF SetPolicy, Passed
  <2>5. CASE at \in {"lookup", "scan", "helper", "ask"}
    BY <1>0, <2>1, <2>5 DEF Rest, FromLookup
  <2>6. QED
    BY <1>0, <2>2, <2>3, <2>4, <2>5
<1>3. CASE EditRules \/ StoreFailsOrRecovers
  <2>1. UNCHANGED <<enabled, policy, contents, helper, cooling>>
    BY <1>3 DEF EditRules, StoreFailsOrRecovers
  <2>2. UNCHANGED <<Trusted, Action, Glob, FromScan, FromHelper, FromAsk>>
    BY <1>0, <2>1 DEF Trusted, Match, Action, Glob, FromScan, FromHelper, FromAsk
  <2>3. CASE at \in {"match", "trust", "lookup"}
    BY <1>0, <2>1, <2>2, <2>3 DEF Passed
  <2>4. CASE at \in {"scan", "helper", "ask"}
    BY <1>0, <2>2, <2>4 DEF Rest
  <2>5. QED
    BY <1>0, <2>3, <2>4
<1>4. ASSUME NEW p \in Paths, NEW c \in Contents, EditFile(p, c) PROVE Passed' \/ Rest' = Rest
  <2>1. UNCHANGED <<enabled, policy, rules, storeUp, helper, cooling>>
    BY <1>4 DEF EditFile
  <2>2. UNCHANGED <<Trusted, Action, Glob, Kept, FromHelper, FromAsk>>
    BY <1>0, <2>1 DEF Trusted, Match, Action, Glob, Kept, RuleFor, LookupKey, FromHelper, FromAsk
  <2>3. CASE at \in {"match", "trust", "lookup", "scan"}
    BY <1>0, <2>1, <2>2, <2>3 DEF Passed
  <2>4. CASE at \in {"helper", "ask"}
    BY <1>0, <2>2, <2>4 DEF Rest
  <2>5. QED
    BY <1>0, <2>3, <2>4
<1>5. CASE HelperComesOrGoes
  <2>1. UNCHANGED <<enabled, policy, rules, storeUp, contents, cooling>>
    BY <1>5 DEF HelperComesOrGoes
  <2>2. UNCHANGED <<Trusted, Action, Glob, Kept, FromAsk>>
    BY <1>0, <2>1 DEF Trusted, Match, Action, Glob, Kept, RuleFor, LookupKey, FromAsk
  <2>3. CASE at # "ask"
    BY <1>0, <2>1, <2>2, <2>3 DEF Passed
  <2>4. CASE at = "ask"
    BY <1>0, <2>2, <2>4 DEF Rest
  <2>5. QED
    BY <2>3, <2>4
<1>6. CASE Tick
  <2>1. UNCHANGED <<enabled, policy, rules, storeUp, contents, helper>>
    BY <1>6 DEF Tick
  <2>2. UNCHANGED <<Trusted, Action, Glob, Kept>>
    BY <1>0, <2>1 DEF Trusted, Match, Action, Glob, Kept, RuleFor, LookupKey
  <2>3. QED
    BY <1>0, <2>1, <2>2 DEF Passed
<1>7. QED
  BY <1>1, <1>2, <1>3, <1>4, <1>5, <1>6 DEF InputChanges

LEMMA ChangeStep ==
  ASSUME IInv, InputChanges, Notice
  PROVE  History'
<1>1. UNCHANGED <<at, label, open>> /\ changes \in 0..2
  BY DEF InputChanges, local, IInv, TypeOK
<1>2. CASE at = "idle" \/ changes = 2
  <2>1. UNCHANGED <<could, changes, swapped>>
    BY <1>2 DEF Notice, ghosts
  <2>2. CASE at = "idle"
    BY <1>1, <2>1, <2>2 DEF IInv, History, Deciding
  <2>3. CASE changes = 2 /\ at # "idle"
    BY <1>1, <2>1, <2>3 DEF History, Deciding
  <2>4. QED
    BY <1>2, <2>2, <2>3
<1>3. CASE at # "idle" /\ changes # 2
  <2>1. changes' = changes + 1 /\ could' = IF changes = 1 THEN {} ELSE could
    BY <1>3 DEF Notice
  <2>2. changes = 0 /\ ~swapped' => policy'.entries = policy.entries \/ policy'.trusted = policy.trusted
    BY <1>3 DEF Notice
  <2>3. CASE changes = 1
    BY <1>1, <1>3, <2>1, <2>3 DEF History, Deciding
  <2>4. CASE changes = 0 /\ at = "push"
    BY <1>1, <2>1, <2>4 DEF IInv, History, Deciding
  <2>5. CASE changes = 0 /\ Deciding
    <3>1. Passed /\ Rest = Instant(open) /\ Instant(open) \in could
      BY <2>5, PassedIsInstant DEF IInv, TypeOK, History
    <3>2. (at \in Steps /\ Deciding /\ Passed => Rest = Instant(open))'
      BY PassedIsInstant, PTL
    <3>3. ~swapped' => Rest' \in could' \cup {Instant(open)'}
      BY <1>1, <2>1, <2>2, <2>5, <3>1, <3>2, ChangeKeeps DEF Deciding, IInv, TypeOK
    <3>4. QED
      BY <1>1, <2>1, <2>5, <3>3 DEF History, Deciding
  <2>6. QED
    BY <1>1, <1>3, <2>3, <2>4, <2>5 DEF Deciding
<1>4. QED
  BY <1>2, <1>3

LEMMA BeginStep ==
  ASSUME IInv, NEW o \in Opens, Begin(o), Remember(o)
  PROVE  History'
<1>1. UNCHANGED <<inputs, changes, swapped>> /\ open' = o /\ changes = 0 /\ ~swapped
  BY DEF Begin, Remember, IInv, History
<1>2. could' = could \cup {Instant(o)}
  BY <1>1 DEF Remember
<1>3. Instant(open)' = Instant(o)
  BY <1>1, SameInstant
<1>4. CASE ~enabled \/ o.writeOnly
  <2>1. at' = "push" /\ label' = "skip"
    BY <1>4 DEF Begin, Outcome
  <2>2. (Instant(open) = IF ~enabled \/ open.writeOnly THEN "skip" ELSE FromMatch)'
    BY InstantIsRest, PTL
  <2>3. Instant(o) = "skip"
    BY <1>1, <1>3, <1>4, <2>2 DEF inputs
  <2>4. QED
    BY <1>1, <1>2, <2>1, <2>3 DEF History, Deciding
<1>5. CASE enabled /\ ~o.writeOnly
  <2>1. at' = "match"
    BY <1>5 DEF Begin
  <2>2. Passed'
    BY <1>1, <1>5, <2>1 DEF Passed, inputs
  <2>3. QED
    BY <1>1, <1>2, <1>3, <2>1, <2>2 DEF History, Deciding
<1>6. QED
  BY <1>4, <1>5

(* What the engine shares with the other components keeps its shape. *)
Stable == /\ Sound(rules) /\ Shaped(rules) /\ Verdict
          /\ enabled \in BOOLEAN /\ policy \in Policies /\ helper \in BOOLEAN
          /\ storeUp \in BOOLEAN
          /\ contents \in [Paths -> Contents] /\ cooling \in [Paths -> 0..Cooldown]

LEMMA EditKeepsStable ==
  ASSUME IInv, EditRules
  PROVE  Sound(rules') /\ Shaped(rules') /\ Verdict'
<1>1. Sound(rules) /\ Shaped(rules) /\ Verdict
  BY DEF IInv
<1>2. ASSUME NEW r \in NewRules, rules' = InsertRow(rules, r)
      PROVE  Sound(rules') /\ Shaped(rules') /\ Verdict'
  <2>1. r \in AnyRow({r.file}, {r.ident}, {r.expires})
    BY EngineAssumption DEF IsNewRow, AnyRow
  <2>2. Sound(rules')
    BY <1>1, <1>2, <2>1, InsertKeepsSound
  <2>3. Stored(rules, r) \in AnyRow({r.file}, {r.ident}, {r.expires})
    BY <1>1, <2>1, StoredRow DEF Sound
  <2>4. rules' \subseteq rules \cup {Stored(rules, r)}
    BY <1>2 DEF InsertRow, Stored
  <2>5. QED
    BY <1>1, <2>2, <2>3, <2>4 DEF AnyRow, Shaped, Verdict
<1>3. ASSUME NEW r \in rules, rules' = RevokeRow(rules, r.id)
      PROVE  Sound(rules') /\ Shaped(rules') /\ Verdict'
  <2>1. Sound(rules')
    BY <1>1, <1>3, RevokeKeepsSound
  <2>2. rules' \subseteq rules
    BY <1>3 DEF RevokeRow
  <2>3. QED
    BY <1>1, <2>1, <2>2 DEF Shaped, Verdict
<1>4. QED
  BY <1>2, <1>3 DEF EditRules

LEMMA ChangeKeepsStable ==
  ASSUME IInv, InputChanges
  PROVE  Stable'
<1> USE EngineAssumption DEF Stable
<1>1. Stable
  BY DEF IInv, TypeOK
<1>2. rules' = rules => Sound(rules') /\ Shaped(rules') /\ Verdict'
  BY <1>1 DEF Verdict
<1>3. CASE SetEnabled
  BY <1>1, <1>2, <1>3 DEF SetEnabled
<1>4. ASSUME NEW p \in Policies, SetPolicy(p) PROVE Stable'
  BY <1>1, <1>2, <1>4 DEF SetPolicy
<1>5. CASE EditRules
  BY <1>1, <1>5, EditKeepsStable DEF EditRules
<1>6. ASSUME NEW p \in Paths, NEW c \in Contents, EditFile(p, c) PROVE Stable'
  BY <1>1, <1>2, <1>6 DEF EditFile
<1>7. CASE HelperComesOrGoes
  BY <1>1, <1>2, <1>7 DEF HelperComesOrGoes
<1>10. CASE StoreFailsOrRecovers
  BY <1>1, <1>2, <1>10 DEF StoreFailsOrRecovers
<1>8. CASE Tick
  <2>1. cooling' \in [Paths -> 0..Cooldown]
    BY <1>1, <1>8 DEF Tick
  <2>2. QED
    BY <1>1, <1>2, <1>8, <2>1 DEF Tick
<1>9. QED
  BY <1>3, <1>4, <1>5, <1>6, <1>7, <1>8, <1>10 DEF InputChanges

(* The variables of the run loop keep their types. *)
LocalType ==
  /\ at \in Steps /\ open \in Opens /\ action \in Actions \cup {"ignore"}
  /\ category \in Globs \cup {"none"}
  /\ label \in Labels \cup {"none"} /\ answer \in Verdicts
  /\ bus \in 0..BusCap

GhostType == could \subseteq Labels /\ changes \in 0..2 /\ swapped \in BOOLEAN

LEMMA Parts == IInv <=> Stable /\ LocalType /\ GhostType /\ History
BY DEF IInv, TypeOK, Stable, LocalType, GhostType, Sound

LEMMA DecideKeepsTypes ==
  ASSUME IInv, Decide
  PROVE  Stable' /\ LocalType'
<1>1. LocalType /\ Stable /\ bus \in 0..BusCap
  BY Parts DEF LocalType
<1>2. open' \in Opens /\ at' \in Steps /\ action' \in Actions \cup {"ignore"}
      /\ label' \in Labels \cup {"none"} /\ category' \in Globs \cup {"none"}
  BY <1>1, DecideFollows DEF LocalType
<1>3. CASE Ask
  <2>1. cooling' \in [Paths -> 0..Cooldown]
    BY <1>1, <1>3, EngineAssumption DEF Ask, Stable
  <2>2. bus' \in 0..BusCap
    BY <1>1, <1>3, EngineAssumption DEF Ask, Publish
  <2>3. UNCHANGED <<enabled, policy, rules, storeUp, contents, helper, answer>>
    BY <1>3 DEF Ask
  <2>4. QED
    BY <1>1, <1>2, <2>1, <2>2, <2>3 DEF Stable, LocalType, Verdict
<1>4. CASE ~Ask
  <2>1. UNCHANGED <<inputs, answer, bus>>
    BY <1>4 DEF Decide, MatchPolicy, CheckTrust, LookupRule, ScanHead, CheckHelper, Reads
  <2>2. QED
    BY <1>1, <1>2, <2>1 DEF inputs, Stable, LocalType, Verdict
<1>5. QED
  BY <1>3, <1>4

LEMMA InitHolds == Init => IInv
<1> SUFFICES ASSUME Init PROVE IInv
  OBVIOUS
<1>1. Stable
  BY EmptyIsSound, EngineAssumption DEF Init, Stable, Shaped, Verdict
<1>2. LocalType /\ GhostType
  <2>1. LocalType
    BY EngineAssumption DEF Init, LocalType, Steps, Verdicts
  <2>2. could \subseteq Labels /\ changes \in 0..2
    BY DEF Init
  <2>3. swapped \in BOOLEAN
    BY DEF Init
  <2>4. QED
    BY <2>1, <2>2, <2>3 DEF GhostType
<1>3. History
  BY DEF Init, History, Deciding
<1>4. QED
  BY <1>1, <1>2, <1>3, Parts

LEMMA EngineStep == IInv /\ [Next]_vars => IInv'
<1> SUFFICES ASSUME IInv, [Next]_vars PROVE IInv'
  OBVIOUS
<1>0. Stable /\ LocalType /\ GhostType /\ History
  BY Parts
<1>1. ASSUME Stable', LocalType', GhostType', History' PROVE IInv'
  BY <1>1 DEF IInv, TypeOK, Stable, LocalType, GhostType, Sound
<1>2. UNCHANGED inputs => Stable'
  BY <1>0 DEF inputs, Stable, Verdict
<1>3. ASSUME NEW o \in Opens, Remember(o), Instant(o) \in Labels PROVE GhostType'
  BY <1>0, <1>3 DEF Remember, GhostType
<1>4. ASSUME NEW o \in Opens, Begin(o), Remember(o) PROVE IInv'
  <2>1. UNCHANGED <<inputs, action, category, answer, bus>> /\ open' = o
    BY <1>4 DEF Begin
  <2>2. LocalType'
    BY <1>0, <1>4, <2>1 DEF Begin, Outcome, LocalType, Steps, Labels, AllowLabels
  <2>3. Instant(o) \in Labels
    <3>1. (Instant(open) \in Labels)'
      BY InstantIsLabel, PTL
    <3>2. Instant(open)' = Instant(o)
      BY <2>1, SameInstant
    <3>3. QED
      BY <3>1, <3>2 DEF Labels, DenyLabels, AllowLabels
  <2>4. QED
    BY <1>1, <1>2, <1>3, <1>4, <2>1, <2>2, <2>3, BeginStep
<1>5. CASE Decide /\ Remember(open)
  <2>1. GhostType'
    BY <1>0, <1>3, <1>5, InstantIsLabel DEF LocalType
  <2>2. QED
    BY <1>1, <1>5, <2>1, DecideKeepsTypes, DecideStep
<1>6. CASE (Push \/ Panic) /\ Forget
  <2>1. UNCHANGED <<inputs, open, bus>> /\ at' = "idle" /\ label' = "none" /\ action' = "ignore"
        /\ category' = "none" /\ answer' \in Verdicts
    BY <1>6 DEF Push, Panic, Verdicts
  <2>2. LocalType'
    BY <1>0, <2>1 DEF LocalType, Steps
  <2>3. could' = {} /\ changes' = 0 /\ ~swapped' /\ swapped' \in BOOLEAN
    BY <1>6 DEF Forget
  <2>4. GhostType' /\ History'
    BY <2>1, <2>3 DEF GhostType, History, Deciding
  <2>5. QED
    BY <1>1, <1>2, <2>1, <2>2, <2>4
<1>7. CASE InputChanges /\ Notice
  <2>1. LocalType'
    BY <1>0, <1>7 DEF InputChanges, local, LocalType
  <2>2. GhostType'
    <3>1. could' \subseteq Labels /\ changes' \in 0..2
      <4>1. changes \in 0..2 /\ could \subseteq Labels
        BY <1>0 DEF GhostType
      <4>2. \/ changes' = changes /\ could' = could
            \/ changes # 2 /\ changes' = changes + 1 /\ could' = (IF changes = 1 THEN {} ELSE could)
        BY <1>7 DEF Notice, ghosts
      <4>3. QED
        BY <4>1, <4>2
    <3>2. swapped' \in BOOLEAN
      <4>1. CASE at = "idle" \/ changes = 2
        BY <1>0, <1>7, <4>1 DEF Notice, ghosts, GhostType
      <4>2. CASE ~(at = "idle" \/ changes = 2)
        BY <1>7, <4>2, ZenonT(30) DEF Notice
      <4>3. QED
        BY <4>1, <4>2
    <3>3. QED
      BY <3>1, <3>2 DEF GhostType
  <2>3. QED
    BY <1>1, <1>7, <2>1, <2>2, ChangeKeepsStable, ChangeStep
<1>8. CASE UNCHANGED <<inputs, local, ghosts>> /\ bus' \in 0..BusCap
  <2>1. LocalType' /\ GhostType'
    BY <1>0, <1>8 DEF local, ghosts, LocalType, GhostType
  <2>2. Passed' = Passed /\ Rest' = Rest /\ Instant(open)' = Instant(open)
    <3>1. UNCHANGED <<inputs, open, at, action, category, label>>
      BY <1>8 DEF local
    <3>2. QED
      BY <3>1, SameRest, SameInstant DEF Rest, Passed, FromTrust, FromLookup, inputs
  <2>3. History'
    BY <1>0, <1>8, <2>2 DEF local, ghosts, History, Deciding
  <2>4. QED
    BY <1>1, <1>2, <1>8, <2>1, <2>3
<1>9. Drain \/ UNCHANGED vars => bus' \in 0..BusCap
  BY <1>0, EngineAssumption DEF Drain, vars, LocalType
<1>10. QED
  BY <1>4, <1>5, <1>6, <1>7, <1>8, <1>9 DEF Next, Run, Drain, vars

LEMMA Invariance == Safety => []IInv
BY InitHolds, EngineStep, PTL DEF Safety

(* The types of the engine's state, for any opens, policies and rules; with
   them, the bus of prompts keeps within its capacity. *)
THEOREM EngineTyped == Safety => []TypeOK
<1>1. IInv => TypeOK
  BY DEF IInv
<1>2. QED
  BY <1>1, Invariance, PTL

(* When one input changes during a decision, and not both parts of the policy,
   the outcome is one an instantaneous decision has before or after the change:
   the order in which decideInner looks at its tiers, and its keeping the glob
   that matched for the rule lookup (engine.go), see to it.  The inputs include
   category rules and a rule store that begins or ceases to fail. *)
THEOREM OneChangeDoesNotSlip == Safety => []OneChangeIsAtomic
<1>1. IInv => OneChangeIsAtomic
  BY DEF IInv, History, OneChangeIsAtomic
<1>2. QED
  BY <1>1, Invariance, PTL
=============================================================================

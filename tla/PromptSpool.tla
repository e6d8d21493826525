---------------------------- MODULE PromptSpool ----------------------------
(***************************************************************************)
(* The extension's side of the prompt spool, internal/promptspool: writing *)
(* requests, at most one at a time for an identity and a file, and turning *)
(* replies into rules.                                                     *)
(***************************************************************************)
EXTENDS SpoolDir, RuleStore

VARIABLES rules,     \* the rule table
          pending,   \* dedup keys with a request outstanding
          closing    \* ids whose reply file is gone and request file not yet

spoolVars == <<rules, pending, closing>>

SpoolInit == reqs = {} /\ replies = {} /\ rules = {} /\ pending = {} /\ closing = {}

DedupKey(about) == <<ChainOf[about.ident], about.path>>

(* The key of a zero Request. *)
ZeroKey == <<Empty, Empty>>

(* Mutant: pending is not looked at. *)
WriteAlways(about, id, ok) ==
  /\ pending' = IF ok THEN pending \cup {DedupKey(about)} ELSE pending
  /\ reqs' = IF ok THEN reqs \cup {[id |-> id, about |-> about, age |-> 0, shown |-> 0]}
                   ELSE reqs
  /\ UNCHANGED <<rules, closing, replies>>

(* Write: nothing when one is outstanding; the file appears whole (rename),
   and a failure to write it takes the mark back. *)
Write(about, id, ok) ==
  LET write == DedupKey(about) \notin pending /\ ok IN
  /\ pending' = IF write THEN pending \cup {DedupKey(about)} ELSE pending
  /\ reqs' = IF write
             THEN reqs \cup {[id |-> id, about |-> about, age |-> 0, shown |-> 0]}
             ELSE reqs
  /\ UNCHANGED <<rules, closing, replies>>

(* Mutant: the two scopes mixed up. *)
KeySwapped(about, scope) ==
  IF scope = "always-exe" THEN <<ChainOf[about.ident], "chain">>
                          ELSE <<ExeOf[about.ident], "exe-only">>

(* Which identity an "always" reply names, and how. *)
RuleIdentity(about, scope) ==
  IF scope = "always-exe" THEN <<ExeOf[about.ident], "exe-only">>
                          ELSE <<ChainOf[about.ident], "chain">>

(* The rule a reply asks for: none for "once", and none without the keys. *)
RulesAsked(about, decision, scope) ==
  {[id |-> 0, file |-> about.path, fkind |-> "path",
    ident |-> k[1], ikind |-> k[2], verdict |-> decision, expires |-> {}] :
      k \in {RuleIdentity(about, s) : s \in {scope} \ {"once"}} \ ({Empty} \X IdentKinds)}

(* apply: Insert, whose error is logged and no more. *)
Apply(rows, asked) ==
  IF asked = {} THEN rows ELSE InsertRow(rows, CHOOSE r \in asked : TRUE)

(* Mutant: a reply that does not parse is left for the next round. *)
RemovedIfWhole(f) == {g \in {f} : g.whole}

Removed(f) == {f}

(* ProcessReplies, for one reply file.  A reply read while it is being
   written does not parse: it is removed and nothing else happens.  A whole
   one is applied to the request on disk, or to a zero Request when the
   file is gone; then the key of that request is cleared and the reply file
   removed.  The request file goes a moment later (FinishReply). *)
ProcessReply(f) ==
  /\ closing = {}
  /\ LET q == {r \in reqs : r.id = f.id}
         asked == UNION {RulesAsked(r.about, f.decision, f.scope) : r \in q}
         keys == IF q = {} THEN {ZeroKey} ELSE {DedupKey(r.about) : r \in q}
     IN /\ rules' = IF f.whole THEN Apply(rules, asked) ELSE rules
        /\ pending' = IF f.whole THEN pending \ keys ELSE pending
        /\ closing' = IF f.whole THEN IdsOf(q) ELSE {}
  /\ replies' = replies \ Removed(f)
  /\ UNCHANGED reqs

(* os.Remove(reqPath): the helper may have removed it already. *)
FinishReply ==
  /\ closing # {}
  /\ reqs' = {q \in reqs : q.id \notin closing}
  /\ closing' = {}
  /\ UNCHANGED <<replies, rules, pending>>

(* The extension is started again: New clears the directory. *)
SpoolNew ==
  /\ reqs' = {} /\ replies' = {} /\ pending' = {} /\ closing' = {}
  /\ UNCHANGED rules
=============================================================================

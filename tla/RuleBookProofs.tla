--------------------------- MODULE RuleBookProofs ---------------------------
(***************************************************************************)
(* Proofs about the rule store, for any keys and any history.  The unique  *)
(* index is an invariant, and with it two equally specific rules for one   *)
(* access are the same row: Lookup's LIMIT 1 never has a choice.  That the *)
(* id of a new row is free needs the table to be finite (Sound).           *)
(***************************************************************************)
EXTENDS RuleBook, RuleStoreProofs

IInv == TypeOK /\ Sound(rows)

LEMMA IInvFacts == IInv => Shaped(rows) /\ UniqueIndex(rows)
BY DEF IInv, TypeOK, Row, Shaped, Sound

LEMMA RowsAreAnyRows ==
  /\ Row = AnyRow(Paths \cup Categories, Chains \cup Exes, SUBSET Nat)
  /\ NewRows \subseteq Row
<1>1. \A e \in {{}} \cup {{t} : t \in 1..Horizon} : e \in SUBSET Nat
  BY RuleBookAssumption
<1>2. QED
  BY <1>1 DEF Row, AnyRow, NewRows

LEMMA Inductive == IInv /\ [Next]_vars => IInv'
<1> SUFFICES ASSUME IInv, [Next]_vars PROVE IInv'
  OBVIOUS
<1>1. ASSUME NEW r \in NewRows, Insert(r) PROVE IInv'
  <2>1. r \in AnyRow(Paths \cup Categories, Chains \cup Exes, SUBSET Nat)
    BY RowsAreAnyRows
  <2>2. Sound(rows')
    BY <1>1, <2>1, InsertKeepsSound DEF Insert, IInv
  <2>3. Stored(rows, r) \in Row
    BY <2>1, StoredRow, RowsAreAnyRows DEF IInv, Sound
  <2>4. TypeOK'
    BY <1>1, <2>3 DEF Insert, InsertRow, Stored, IInv, TypeOK
  <2>5. QED
    BY <2>2, <2>4 DEF IInv
<1>2. ASSUME NEW id, Revoke(id) PROVE IInv'
  <2>1. Sound(rows')
    BY <1>2, RevokeKeepsSound DEF Revoke, IInv
  <2>2. TypeOK'
    BY <1>2 DEF Revoke, RevokeRow, IInv, TypeOK
  <2>3. QED
    BY <2>1, <2>2 DEF IInv
<1>3. CASE Tick \/ UNCHANGED vars
  BY <1>3 DEF Tick, vars, IInv, TypeOK
<1>4. QED
  BY <1>1, <1>2, <1>3 DEF Next

LEMMA Invariance == Spec => []IInv
<1>1. Init => IInv
  BY EmptyIsSound DEF Init, IInv, TypeOK
<1>2. QED
  BY <1>1, Inductive, PTL DEF Spec

(* The table keeps the types of its columns: no statement writes half a row
   (Insert, Revoke and the CHECK constraints of schema.sql). *)
THEOREM TableIsTyped == Spec => []TypeOK
<1>1. IInv => TypeOK
  BY DEF IInv
<1>2. QED
  BY <1>1, Invariance, PTL

(* At most one rule is the most specific for an access, whatever was
   inserted, revoked and lapsed (Lookup in rules.go and the unique index in
   schema.sql). *)
THEOREM LookupHasNoChoice == Spec => []LookupDeterministic
<1>1. IInv => LookupDeterministic
  <2> SUFFICES ASSUME IInv, NEW k \in LookupKeys,
                      NEW r \in Lookup(rows, k, now), NEW s \in Lookup(rows, k, now)
               PROVE  r = s
    BY DEF LookupDeterministic
  <2>1. QED
    BY IInvFacts, OneAnswer
<1>2. QED
  BY <1>1, Invariance, PTL

(* No statement changes a rule under its key: an insert whose key is taken
   is refused (the UNIQUE index turns it into an error), and a revoke only
   removes. *)
THEOREM RulesAreNeverOverwritten == Spec => NeverOverwritten
<1>1. IInv /\ IInv' /\ [Next]_vars =>
        [\A r \in rows, s \in rows' : Key(r) = Key(s) => r = s]_vars
  <2> SUFFICES ASSUME IInv, IInv', Next, NEW r \in rows, NEW s \in rows', Key(r) = Key(s)
               PROVE  r = s
    OBVIOUS
  <2>1. ASSUME NEW n \in NewRows, Insert(n) PROVE r \in rows'
    BY <2>1 DEF Insert, InsertRow
  <2>2. ASSUME NEW id, Revoke(id) PROVE s \in rows
    BY <2>2 DEF Revoke, RevokeRow
  <2>3. CASE Tick
    BY <2>3, IInvFacts DEF Tick, UniqueIndex
  <2>4. UniqueIndex(rows) /\ UniqueIndex(rows')
    BY DEF IInv, Sound
  <2>5. QED
    BY <2>1, <2>2, <2>3, <2>4 DEF Next, UniqueIndex
<1>2. QED
  BY <1>1, Invariance, PTL DEF Spec, NeverOverwritten

(* A category rule is used only when no live rule names the file itself. *)
THEOREM PathWins == Spec => []PathBeatsCategory
<1>1. IInv => PathBeatsCategory
  <2> SUFFICES ASSUME IInv, NEW k \in LookupKeys, NEW r \in Lookup(rows, k, now),
                      r.fkind = "category", NEW s \in rows, s.fkind = "path",
                      s.file = k.path,
                      s.ident = IF s.ikind = "chain" THEN k.chain ELSE k.exe,
                      \A t \in s.expires : t > now
               PROVE  FALSE
    BY DEF PathBeatsCategory
  <2>1. s \in Candidates(rows, k, now) => Rank(r) <= Rank(s)
    BY DEF Lookup
  <2>2. Rank(r) >= 2 /\ Rank(s) <= 1
    BY DEF Rank
  <2>3. Matches(s, k, now)
    BY IInvFacts DEF Matches, Live, Shaped, IdentKinds
  <2>4. Rank(r) <= Rank(s)
    BY <2>1, <2>3 DEF Candidates
  <2>5. QED
    BY <2>2, <2>4, RankIsNumber
<1>2. QED
  BY <1>1, Invariance, PTL
=============================================================================

-------------------------- MODULE RuleStoreProofs --------------------------
(***************************************************************************)
(* Lemmas about the statements of the rule store, for any table: what they *)
(* keep of the unique index and of the primary key, and that a lookup has  *)
(* one answer.  An id is one more than the largest, which exists because a *)
(* table is finite.                                                        *)
(***************************************************************************)
EXTENDS RuleStore, FiniteSetTheorems, TLAPS

(* Rows of any files, identities and times, with and without their ids. *)
AnyRow(F, I, T) ==
  [id: Nat, file: F, fkind: FileKinds, ident: I, ikind: IdentKinds,
   verdict: Verdicts, expires: T]

Numbered(S) == IsFiniteSet(S) /\ \A r \in S : r.id \in Nat

(* What the statements keep of a table. *)
Sound(S) == UniqueIndex(S) /\ PrimaryKey(S) /\ Numbered(S)

Stored(S, r) == [r EXCEPT !.id = NextId(S)]

(* A table that is not empty has a largest id: of the sets of rows above
   some row, take a smallest one. *)
LEMMA LargestId ==
  ASSUME NEW S, Numbered(S), S # {}
  PROVE  \E k \in S : \A s \in S : k.id >= s.id
<1> DEFINE Above(k) == {s \in S : s.id > k.id}
           Family   == {Above(k) : k \in S}
<1>1. IsWellFoundedOn(StrictSubsetOrdering(S), FiniteSubsetsOf(S))
  BY FS_StrictSubsetOrderingWellFounded
<1>2. Family \subseteq FiniteSubsetsOf(S)
  BY FS_FiniteSubsetsOfFinite DEF Numbered
<1>3. Family # {}
  OBVIOUS
<1> HIDE DEF Family
<1>4. PICK U \in Family : \A V \in Family : ~(<<V, U>> \in StrictSubsetOrdering(S))
  BY <1>1, <1>2, <1>3, WFMin
<1> USE DEF Family
<1>5. PICK k \in S : U = Above(k)
  OBVIOUS
<1>6. U = {}
  <2> SUFFICES ASSUME NEW m \in U PROVE FALSE
    OBVIOUS
  <2>1. m \in S /\ m.id > k.id
    BY <1>5
  <2>2. Above(m) \subseteq U /\ m \notin Above(m)
    BY <1>5, <2>1 DEF Numbered
  <2>3. <<Above(m), U>> \in StrictSubsetOrdering(S)
    BY <2>1, <2>2, <1>5 DEF StrictSubsetOrdering
  <2>4. QED
    BY <1>4, <2>1, <2>3
<1>7. QED
  BY <1>5, <1>6 DEF Numbered

(* The id of a new row is not in use. *)
LEMMA NextIdIsNew ==
  ASSUME NEW S, Numbered(S)
  PROVE  NextId(S) \in Nat /\ \A s \in S : s.id # NextId(S)
<1>1. CASE S = {}
  BY <1>1 DEF NextId
<1>2. CASE S # {}
  <2> DEFINE Ids    == {r.id : r \in S}
             Top(i) == \A r \in S : i >= r.id
             top    == CHOOSE i \in Ids : Top(i)
  <2>1. \E i \in Ids : Top(i)
    BY <1>2, LargestId
  <2>2. top \in Ids /\ Top(top)
    BY <2>1
  <2>3. NextId(S) = 1 + top
    BY <1>2 DEF NextId
  <2>4. top \in Nat
    BY <2>2 DEF Numbered
  <2> HIDE DEF top
  <2>5. QED
    BY <2>2, <2>3, <2>4 DEF Numbered
<1>3. QED
  BY <1>1, <1>2

(* INSERT writes an id and leaves the other columns alone. *)
LEMMA StoredRow ==
  ASSUME NEW S, Numbered(S), NEW F, NEW I, NEW T, NEW r \in AnyRow(F, I, T)
  PROVE  /\ Stored(S, r) \in AnyRow(F, I, T)
         /\ Stored(S, r).id = NextId(S)
         /\ Key(Stored(S, r)) = Key(r)
BY NextIdIsNew DEF Stored, AnyRow, Key

LEMMA InsertKeepsSound ==
  ASSUME NEW S, Sound(S), NEW F, NEW I, NEW T, NEW r \in AnyRow(F, I, T)
  PROVE  Sound(InsertRow(S, r))
<1>1. CASE Conflicts(S, r)
  BY <1>1 DEF InsertRow
<1>2. CASE ~Conflicts(S, r)
  <2> DEFINE t == Stored(S, r)
  <2>1. InsertRow(S, r) = S \cup {t}
    BY <1>2 DEF InsertRow, Stored
  <2>2. Key(t) = Key(r) /\ t.id = NextId(S)
    BY StoredRow DEF Sound
  <2>3. \A s \in S : Key(s) # Key(t) /\ s.id # t.id
    BY <1>2, <2>2, NextIdIsNew DEF Conflicts, Sound
  <2>4. t.id \in Nat
    BY <2>2, NextIdIsNew DEF Sound
  <2> HIDE DEF t
  <2>5. UniqueIndex(S \cup {t}) /\ PrimaryKey(S \cup {t})
    BY <2>3 DEF UniqueIndex, PrimaryKey, Sound
  <2>6. IsFiniteSet(S \cup {t})
    BY FS_AddElement DEF Sound, Numbered
  <2>7. QED
    BY <2>1, <2>4, <2>5, <2>6 DEF Sound, Numbered
<1>3. QED
  BY <1>1, <1>2

LEMMA RevokeKeepsSound ==
  ASSUME NEW S, Sound(S), NEW id
  PROVE  Sound(RevokeRow(S, id))
<1>1. RevokeRow(S, id) \subseteq S
  BY DEF RevokeRow
<1>2. IsFiniteSet(RevokeRow(S, id))
  BY <1>1, FS_Subset DEF Sound, Numbered
<1>3. QED
  BY <1>1, <1>2 DEF Sound, Numbered, UniqueIndex, PrimaryKey

LEMMA EmptyIsSound == Sound({})
BY FS_EmptySet DEF Sound, Numbered, UniqueIndex, PrimaryKey

-----------------------------------------------------------------------------
(* Lookups *)

(* What the lookups need to know of the rows. *)
Shaped(S) == \A r \in S : r.fkind \in FileKinds /\ r.ikind \in IdentKinds

(* Two rules that match one access at the same rank have the same key. *)
LEMMA RankFixesKey ==
  ASSUME NEW r, NEW s, NEW k, NEW t,
         r.fkind \in FileKinds, r.ikind \in IdentKinds,
         s.fkind \in FileKinds, s.ikind \in IdentKinds,
         Matches(r, k, t), Matches(s, k, t), Rank(r) = Rank(s)
  PROVE  Key(r) = Key(s)
<1>1. r.fkind = s.fkind /\ r.ikind = s.ikind
  BY DEF Rank, FileKinds, IdentKinds
<1>2. r.file = s.file /\ r.ident = s.ident
  BY <1>1 DEF Matches, FileKinds, IdentKinds
<1>3. QED
  BY <1>1, <1>2 DEF Key

LEMMA RankIsNumber ==
  ASSUME NEW r
  PROVE  Rank(r) \in Int
BY DEF Rank

(* LIMIT 1 never has a choice. *)
LEMMA OneAnswer ==
  ASSUME NEW S, Shaped(S), UniqueIndex(S), NEW k, NEW t,
         NEW r \in Lookup(S, k, t), NEW s \in Lookup(S, k, t)
  PROVE  r = s
<1>1. /\ r \in S /\ s \in S
      /\ Matches(r, k, t) /\ Matches(s, k, t)
      /\ Rank(r) <= Rank(s) /\ Rank(s) <= Rank(r)
  BY DEF Lookup, Candidates
<1>2. Rank(r) = Rank(s)
  BY <1>1, RankIsNumber
<1>3. Key(r) = Key(s)
  BY <1>1, <1>2, RankFixesKey DEF Shaped
<1>4. QED
  BY <1>1, <1>3 DEF UniqueIndex
=============================================================================

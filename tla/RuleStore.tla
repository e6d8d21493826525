----------------------------- MODULE RuleStore -----------------------------
(***************************************************************************)
(* The SQLite rule table of internal/rules, as operators on a set of rows. *)
(* A row gives a verdict to a file (by path, or by category, i.e. the glob *)
(* that matched) and an identity (the whole ancestry chain, or the leaf    *)
(* executable only).  expires_at is a set: empty for NULL.                 *)
(***************************************************************************)
EXTENDS Integers, FiniteSets

FileKinds  == {"path", "category"}
IdentKinds == {"chain", "exe-only"}
Verdicts   == {"allow", "deny"}

(* A rule as the callers of Insert make it, without its id.  The CHECK
   constraints hold or nothing is inserted. *)
IsNewRow(r) ==
  r \in [id: {0}, file: {r.file}, fkind: FileKinds, ident: {r.ident},
         ikind: IdentKinds, verdict: Verdicts, expires: {r.expires}]

(* The columns of the unique index rules_lookup_idx. *)
Key(r) == <<r.file, r.fkind, r.ident, r.ikind>>

(* The index, and the primary key. *)
UniqueIndex(rows) == \A r, s \in rows : Key(r) = Key(s) => r = s
PrimaryKey(rows)  == \A r, s \in rows : r.id = s.id => r = s

(* INTEGER PRIMARY KEY without AUTOINCREMENT: one more than the largest id
   in the table, so the id of a deleted last row is given out again. *)
NextId(rows) ==
  IF rows = {} THEN 1
  ELSE 1 + (CHOOSE i \in {r.id : r \in rows} : \A r \in rows : i >= r.id)

(* Mutant: no unique index. *)
NoConflict(rows, r) == FALSE

Conflicts(rows, r) == \E s \in rows : Key(s) = Key(r)

(* Mutant: INSERT OR REPLACE. *)
UpsertRow(rows, r) ==
  {s \in rows : Key(s) # Key(r)} \cup {[r EXCEPT !.id = NextId(rows)]}

(* INSERT: an error, and no change, when the key is taken. *)
InsertRow(rows, r) ==
  IF Conflicts(rows, r) THEN rows
  ELSE rows \cup {[r EXCEPT !.id = NextId(rows)]}

(* Mutant: a soft delete. *)
MarkRevoked(rows, id) ==
  {IF r.id = id THEN [r EXCEPT !.verdict = "revoked"] ELSE r : r \in rows}

(* DELETE ... WHERE id = ? *)
RevokeRow(rows, id) == {r \in rows : r.id # id}

Live(r, now) == \A t \in r.expires : t > now

(* The WHERE clause of Lookup, for key k = [path, category, chain, exe]. *)
Matches(r, k, now) ==
  /\ \/ r.fkind = "path"     /\ r.file = k.path
     \/ r.fkind = "category" /\ r.file = k.category
  /\ \/ r.ikind = "chain"    /\ r.ident = k.chain
     \/ r.ikind = "exe-only" /\ r.ident = k.exe
  /\ Live(r, now)

(* Mutant: the two ORDER BY terms swapped. *)
RankSwapped(r) ==
  (IF r.fkind = "path" THEN 0 ELSE 1) + (IF r.ikind = "chain" THEN 0 ELSE 2)

(* ORDER BY: path before category, then chain before exe-only. *)
Rank(r) ==
  (IF r.fkind = "path" THEN 0 ELSE 2) + (IF r.ikind = "chain" THEN 0 ELSE 1)

Candidates(rows, k, now) == {r \in rows : Matches(r, k, now)}

(* LIMIT 1: any row of least rank.  Empty when there is none. *)
Lookup(rows, k, now) ==
  {r \in Candidates(rows, k, now) :
     \A s \in Candidates(rows, k, now) : Rank(r) <= Rank(s)}
=============================================================================

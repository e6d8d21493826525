------------------------------ MODULE RuleBook ------------------------------
(***************************************************************************)
(* The rule store at work: the prompt spool and the IPC server insert, the *)
(* IPC server and the control channel revoke, time makes rules lapse, and  *)
(* the engine looks rules up.  Every statement runs on one connection      *)
(* (SetMaxOpenConns(1)), so a step is one statement.                       *)
(***************************************************************************)
EXTENDS RuleStore

CONSTANTS Paths, Categories,   \* file keys of either kind
          Chains, Exes,        \* identity keys of either kind
          Horizon,             \* bound on the clock
          MaxId                \* bound on the ids given out

ASSUME RuleBookAssumption == Horizon \in Nat /\ MaxId \in Nat

VARIABLES rows,   \* the table
          now     \* unix time

vars == <<rows, now>>

Row == [id: Nat, file: Paths \cup Categories, fkind: FileKinds,
        ident: Chains \cup Exes, ikind: IdentKinds, verdict: Verdicts,
        expires: SUBSET Nat]

(* Whatever the callers pass: the CHECK constraints bound the two kinds and
   the verdict, and leave the keys alone. *)
NewRows ==
  {[id |-> 0, file |-> f, fkind |-> fk, ident |-> i, ikind |-> ik,
    verdict |-> v, expires |-> e] :
       f \in Paths \cup Categories, fk \in FileKinds,
       i \in Chains \cup Exes, ik \in IdentKinds,
       v \in Verdicts, e \in {{}} \cup {{t} : t \in 1..Horizon}}

TypeOK == rows \subseteq Row /\ now \in Nat

Init == rows = {} /\ now = 0

Insert(r) ==
  /\ NextId(rows) <= MaxId
  /\ rows' = InsertRow(rows, r)
  /\ UNCHANGED now

Revoke(id) ==
  /\ rows' = RevokeRow(rows, id)
  /\ UNCHANGED now

Tick ==
  /\ now < Horizon
  /\ now' = now + 1
  /\ UNCHANGED rows

Next ==
  \/ \E r \in NewRows : Insert(r)
  \/ \E id \in {r.id : r \in rows} : Revoke(id)
  \/ Tick

Spec == Init /\ [][Next]_vars

-----------------------------------------------------------------------------
LookupKeys == [path: Paths, category: Categories, chain: Chains, exe: Exes]

(* LIMIT 1 never has a choice: whatever was inserted, revoked and lapsed,
   one rule at most is the most specific for an access, so the verdict does
   not depend on the order SQLite stores rows in. *)
LookupDeterministic ==
  \A k \in LookupKeys : \A r, s \in Lookup(rows, k, now) : r = s

(* A live rule for the exact file beats every category rule, whichever
   identity either names (TestStore_Lookup_PathBeatsCategory). *)
PathBeatsCategory ==
  \A k \in LookupKeys : \A r \in Lookup(rows, k, now) :
     r.fkind = "category" =>
        ~\E s \in rows : /\ s.fkind = "path" /\ s.file = k.path
                         /\ s.ident = IF s.ikind = "chain" THEN k.chain ELSE k.exe
                         /\ \A t \in s.expires : t > now

(* A rule never changes under its key: a second answer for the same file
   and identity does not overwrite the first, it is refused. *)
NeverOverwritten ==
  [][\A r \in rows, s \in rows' : Key(r) = Key(s) => r = s]_vars
=============================================================================

------------------------------ MODULE Identity ------------------------------
(***************************************************************************)
(* Who is reading?  internal/identity walks from the process that opened a *)
(* file up to launchd with two system calls per ancestor, while processes  *)
(* fork, exec, exit and have their pids given to others.  The engine falls *)
(* back on what the event said, looks for rules by the keys of the walk,   *)
(* and an "always" answer makes a rule with the same keys.  Hashes are     *)
(* taken to be injective: a key is what is hashed.                         *)
(***************************************************************************)
EXTENDS Naturals, Sequences, FiniteSets

CONSTANTS Pids, launchd,    \* launchd is pid 1
          Exes,             \* executable paths
          Unknown,          \* the empty string
          MaxDepth,         \* ancestors in a key (8 in the source)
          MaxRules          \* bound on the rules of a history

ASSUME IdentityAssumption ==
  /\ launchd \in Pids /\ Unknown \notin Exes
  /\ MaxDepth \in Nat \ {0} /\ MaxRules \in Nat

VARIABLES
  exe,       \* what each process runs, Unknown for a pid not in use
  parent,    \* its parent
  at,        \* the next step of the walk, or how it ended
  opener,    \* the process that opened the file
  evExe,     \* its executable, as the event has it
  current,   \* the process the walk has come to
  chain,     \* Identity.Chain
  keys,      \* Identity.KeyHex and Identity.ExeOnlyKey
  rules,     \* keys of the user's rules
  past,      \* ancestries the opener has had since it opened (history)
  changes    \* disturbances since then, at most 2 (history)

table  == <<exe, parent>>
walk   == <<at, opener, evExe, current, chain, keys>>
ghosts == <<past, changes>>
vars   == <<table, walk, rules, ghosts>>

Live == {p \in Pids : exe[p] # Unknown}

(* Mutant: one ancestor more. *)
TenEntries == MaxDepth + 2

(* What the loop of Resolve may append. *)
ChainLimit == MaxDepth + 1

NoKeys == [chain |-> << >>, exe |-> Unknown]

(* Mutant: the key covers all of the chain. *)
WholeChain(c) == c

(* The chain as it goes into the key. *)
Nearest(c) == SubSeq(c, 1, IF Len(c) < MaxDepth THEN Len(c) ELSE MaxDepth)

Compute(c, e) == [chain |-> Nearest(c), exe |-> e]

Ended == {"resolved", "failed"}

TypeOK ==
  /\ exe \in [Pids -> Exes \cup {Unknown}] /\ parent \in [Pids -> Pids]
  /\ at \in {"idle", "path", "parent"} \cup Ended
  /\ opener \in Pids /\ current \in Pids /\ evExe \in Exes \cup {Unknown}
  /\ chain \in Seq(Exes) /\ Len(chain) <= MaxDepth + 1
  /\ keys.chain \in Seq(Exes) /\ keys.exe \in Exes \cup {Unknown}
  /\ changes \in 0..2

Init ==
  /\ exe \in [Pids -> Exes \cup {Unknown}]
  /\ \A p \in Pids : exe[p] # Unknown <=> p = launchd
  /\ parent = [p \in Pids |-> launchd]
  /\ at = "idle" /\ opener = launchd /\ current = launchd /\ evExe = Unknown
  /\ chain = << >> /\ keys = NoKeys
  /\ rules = {}
  /\ past = {} /\ changes = 0

-----------------------------------------------------------------------------
(* Processes *)

Fork(p, child) ==
  /\ p \in Live /\ child \notin Live
  /\ exe' = [exe EXCEPT ![child] = exe[p]]
  /\ parent' = [parent EXCEPT ![child] = p]

Exec(p, e) ==
  /\ p \in Live \ {launchd} /\ e # exe[p]
  /\ exe' = [exe EXCEPT ![p] = e]
  /\ UNCHANGED parent

(* Children go to launchd.  An opener may exit too: the timer has let it go
   on, or it is killed. *)
Exit(p) ==
  /\ p \in Live \ {launchd}
  /\ exe' = [exe EXCEPT ![p] = Unknown]
  /\ parent' = [q \in Pids |-> IF q = p \/ parent[q] = p THEN launchd ELSE parent[q]]

Processes ==
  \/ \E p, q \in Pids : Fork(p, q)
  \/ \E p \in Pids : Exit(p) \/ \E e \in Exes : Exec(p, e)

-----------------------------------------------------------------------------
(* One decision *)

(* decideInner calls Resolve, some time after the open. *)
Begin(p) ==
  /\ at = "idle"
  /\ p \in Live \ {launchd}
  /\ at' = "path" /\ opener' = p /\ current' = p /\ evExe' = exe[p]
  /\ UNCHANGED <<table, chain, keys, rules>>

(* Mutant: an ancestor that is gone ends the chain. *)
FailsShort ==
  IF chain = << >> THEN /\ at' = "failed" /\ chain' = <<evExe>>
                        /\ keys' = Compute(<<evExe>>, evExe)
  ELSE at' = "resolved" /\ keys' = Compute(chain, chain[1]) /\ UNCHANGED chain

(* Resolve returns an error and what it has, without the keys.  With not
   even the executable, decideInner makes an identity of the event's. *)
Fails ==
  /\ at' = "failed"
  /\ IF chain = << >> THEN chain' = <<evExe>> /\ keys' = Compute(<<evExe>>, evExe)
                      ELSE UNCHANGED <<chain, keys>>

Resolves(c) == at' = "resolved" /\ keys' = Compute(c, c[1])

(* pathForPid *)
ReadPath ==
  /\ at = "path"
  /\ IF current \notin Live THEN Fails
     ELSE /\ chain' = Append(chain, exe[current])
          /\ IF current = launchd THEN Resolves(chain')
             ELSE at' = "parent" /\ UNCHANGED keys
  /\ UNCHANGED <<table, opener, evExe, current, rules>>

(* parentOf, asked for the last entry as well. *)
ReadParent ==
  /\ at = "parent"
  /\ IF current \notin Live THEN Fails /\ UNCHANGED current
     ELSE IF Len(chain) = ChainLimit THEN Resolves(chain) /\ UNCHANGED <<chain, current>>
     ELSE at' = "path" /\ current' = parent[current] /\ UNCHANGED <<chain, keys>>
  /\ UNCHANGED <<table, opener, evExe, rules>>

(* The rules that admit an access with these keys. *)
RulesOf(k) == {<<"chain", k.chain>>, <<"exe-only", k.exe>>}

Allowed == RulesOf(keys) \cap rules # {}

(* Mutant: a rule is made whatever the key is. *)
AskedAnyway(r) == {r}

(* apply makes no rule of an empty key. *)
Asked(r) == {r} \ RulesOf(NoKeys)

(* The decision ends; when it asks, the user may answer "always". *)
Decide ==
  /\ at \in Ended
  /\ \/ UNCHANGED rules
     \/ /\ ~Allowed /\ Cardinality(rules) < MaxRules
        /\ \E r \in RulesOf(keys) : rules' = rules \cup Asked(r)
  /\ at' = "idle" /\ opener' = launchd /\ current' = launchd /\ evExe' = Unknown
  /\ chain' = << >> /\ keys' = NoKeys
  /\ past' = {} /\ changes' = 0
  /\ UNCHANGED table

-----------------------------------------------------------------------------
(* Where k steps along the table up lead from p. *)
Climb(up, p) ==
  LET to[k \in 0..ChainLimit] == IF k = 0 THEN p ELSE up[to[k - 1]] IN to

(* The first n entries a walk from p would give if it were instantaneous,
   with the executables of x and the parents of up. *)
Ancestors(x, up, p, n) ==
  LET to   == Climb(up, p)
      last == CHOOSE k \in 0..(n - 1) :
                /\ k = n - 1 \/ to[k] = launchd
                /\ \A j \in 0..(k - 1) : to[j] # launchd
  IN IF x[p] = Unknown THEN << >> ELSE [i \in 1..(last + 1) |-> x[to[i - 1]]]

Ancestry(p) == Ancestors(exe, parent, p, ChainLimit)

(* How far up the walk has come, and what it has before it. *)
Climbed == Len(chain) - IF at = "parent" THEN 1 ELSE 0
Ahead   == Ancestors(exe, parent, current, ChainLimit - Climbed)

(* History: a step of the processes changes the opener's ancestry, or what
   the walk has before it, which need not be part of that any more. *)
Disturbed ==
  /\ at \in {"path", "parent"}
  /\ Ancestry(opener)' # Ancestry(opener) \/ Ahead' # Ahead

Notice ==
  IF ~Disturbed \/ changes = 2 THEN UNCHANGED ghosts
  ELSE /\ changes' = changes + 1
       /\ past' = IF changes = 1 THEN {} ELSE past \cup {Ancestry(opener)'}

Next ==
  \/ Processes /\ UNCHANGED <<walk, rules>> /\ Notice
  \/ \E p \in Pids : Begin(p) /\ past' = {Ancestry(p)} /\ UNCHANGED changes
  \/ (ReadPath \/ ReadParent) /\ UNCHANGED ghosts
  \/ Decide

Spec == Init /\ [][Next]_vars

-----------------------------------------------------------------------------
(* The walk is not atomic, yet a chain it returns without an error is one
   the opener had at some moment since it opened the file, if its ancestry
   changed once at most meanwhile and it still runs.  (With two changes it
   may be of processes that never were parent and child.) *)
OneChangeSeen ==
  at = "resolved" /\ changes <= 1 /\ << >> \notin past => chain \in past

FirstOf(c) == [i \in {i \in DOMAIN c : i <= MaxDepth} |-> c[i]]

(* An "always" holds: an access by a process that has the executable of a
   rule, or whose nearest ancestors are those of a rule whatever comes beyond
   them, is allowed, provided that its ancestry stays put during the walk;
   other processes may come and go. *)
AlwaysHolds ==
  at \in Ended /\ changes = 0 =>
     \A a \in past, r \in rules :
        (\/ r[1] = "exe-only" /\ r[2] = a[1]
         \/ r[1] = "chain" /\ FirstOf(r[2]) = FirstOf(a)) => Allowed

(* A walk that fails half-way has empty keys, the same for everyone: no rule
   is made of them, and none admits such an access. *)
NobodysRule == at = "failed" /\ keys = NoKeys => ~Allowed
=============================================================================

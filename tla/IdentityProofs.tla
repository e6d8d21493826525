--------------------------- MODULE IdentityProofs ---------------------------
(***************************************************************************)
(* Proofs about the ancestry walk, for any processes, executables and key  *)
(* depth.  First what the walk climbs: tables of parents, and what a fork, *)
(* an exec or an exit does to the path from a process (ProcessesOvertake). *)
(* Then the types: the chain is bounded because the walk asks for a parent *)
(* before it appends (DepthInv), and the fallback of the engine can be     *)
(* used because the event has an executable (OpenerInv).  Then what the    *)
(* walk returns although it is not atomic (WalkInv, EndInv).               *)
(***************************************************************************)
EXTENDS Identity, SequenceTheorems, WellFoundedInduction, TLAPS

(***************************************************************************)
(* Induction, with sets of numbers for the operators that the library's    *)
(* theorem takes: a set with 0 that is closed under successor is all of    *)
(* Nat, because the numbers outside of it would have a least one.          *)
(***************************************************************************)
LEMMA SetInduction ==
  ASSUME NEW S, 0 \in S, \A n \in Nat : n \in S => n + 1 \in S
  PROVE  Nat \subseteq S
<1> DEFINE R == {ss \in Nat \X Nat : ss[1] < ss[2]}
           T == Nat \ S
<1>1. IsWellFoundedOn(R, Nat)
  BY NatLessThanWellFounded DEF OpToRel
<1>2. ASSUME NEW m \in Nat, NEW k \in Nat, k < m PROVE <<k, m>> \in R
  BY <1>2
<1> HIDE DEF R
<1>3. SUFFICES ASSUME T # {} PROVE FALSE
  OBVIOUS
<1>4. T \subseteq Nat
  OBVIOUS
<1>5. PICK m \in T : \A k \in T : ~(<<k, m>> \in R)
  BY <1>1, <1>3, <1>4, WFMin
<1>6. m \in Nat /\ m # 0 /\ m \notin S
  BY <1>5
<1>7. m - 1 \in Nat /\ m - 1 < m /\ (m - 1) + 1 = m
  BY <1>6
<1>8. m - 1 \notin S
  BY <1>6, <1>7
<1>9. QED
  BY <1>2, <1>5, <1>6, <1>7, <1>8

-----------------------------------------------------------------------------
(* The table of parents, climbed. *)

LEMMA LimitType == ChainLimit \in Nat /\ ChainLimit >= 2
BY IdentityAssumption DEF ChainLimit

(* The recursive definition of Climb has a solution. *)
LEMMA ClimbIs ==
  ASSUME NEW up \in [Pids -> Pids], NEW p \in Pids
  PROVE  /\ Climb(up, p) \in [0..ChainLimit -> Pids]
         /\ Climb(up, p)[0] = p
         /\ \A k \in 1..ChainLimit : Climb(up, p)[k] = up[Climb(up, p)[k - 1]]
<1> DEFINE Solves(f, n) == f[0] = p /\ \A k \in 1..n : f[k] = up[f[k - 1]]
           Solved(n) == \E f \in [0..n -> Pids] : Solves(f, n)
           S == {n \in Nat : Solved(n)}
<1>1. 0 \in S
  <2> DEFINE f == [k \in 0..0 |-> p]
  <2>1. f \in [0..0 -> Pids] /\ Solves(f, 0)
    OBVIOUS
  <2>2. QED
    BY <2>1
<1>2. ASSUME NEW n \in Nat, n \in S PROVE n + 1 \in S
  <2>1. PICK f \in [0..n -> Pids] : Solves(f, n)
    BY <1>2
  <2> DEFINE g == [k \in 0..(n + 1) |-> IF k = n + 1 THEN up[f[n]] ELSE f[k]]
  <2>2. g \in [0..(n + 1) -> Pids]
    OBVIOUS
  <2>3. g[0] = p
    BY <2>1
  <2>4. ASSUME NEW k \in 1..(n + 1) PROVE g[k] = up[g[k - 1]]
    <3>1. CASE k = n + 1
      BY <3>1
    <3>2. CASE k # n + 1
      <4>1. k \in 1..n /\ k - 1 \in 0..n /\ k - 1 # n + 1
        BY <3>2
      <4>2. QED
        BY <2>1, <4>1
    <3>3. QED
      BY <3>1, <3>2
  <2> HIDE DEF g
  <2>5. n + 1 \in Nat /\ Solves(g, n + 1)
    BY <2>3, <2>4
  <2>6. Solved(n + 1)
    BY <2>2, <2>5, Zenon
  <2> HIDE DEF Solved
  <2>7. QED
    BY <2>5, <2>6
<1>3. ChainLimit \in S
  <2> HIDE DEF S
  <2>1. QED
    BY <1>1, <1>2, SetInduction, LimitType
<1>4. PICK f \in [0..ChainLimit -> Pids] : Solves(f, ChainLimit)
  BY <1>3
<1> DEFINE rhs == [k \in 0..ChainLimit |-> IF k = 0 THEN p ELSE up[f[k - 1]]]
<1>5. f = rhs
  <2>1. ASSUME NEW k \in 0..ChainLimit PROVE f[k] = rhs[k]
    BY <1>4, LimitType
  <2>2. QED
    BY <2>1
<1>6. Climb(up, p) = [k \in 0..ChainLimit |-> IF k = 0 THEN p ELSE up[Climb(up, p)[k - 1]]]
  BY <1>5 DEF Climb
<1> DEFINE c == Climb(up, p)
<1>7. c = [k \in 0..ChainLimit |-> IF k = 0 THEN p ELSE up[c[k - 1]]]
  BY <1>6
<1> HIDE DEF c
<1>8. c[0] = p /\ \A k \in 1..ChainLimit : c[k] = up[c[k - 1]]
  BY <1>7, LimitType
<1> DEFINE D == {k \in Nat : k <= ChainLimit => c[k] \in Pids}
<1>9. Nat \subseteq D
  <2>1. 0 \in D
    BY <1>8
  <2>2. ASSUME NEW n \in Nat, n \in D PROVE n + 1 \in D
    <3>1. n + 1 <= ChainLimit => n + 1 \in 1..ChainLimit /\ n <= ChainLimit /\ (n + 1) - 1 = n
      BY LimitType
    <3>2. n + 1 <= ChainLimit => c[n + 1] = up[c[n]] /\ c[n] \in Pids
      BY <1>8, <2>2, <3>1
    <3>3. QED
      BY <3>2
  <2> HIDE DEF D
  <2>3. QED
    BY <2>1, <2>2, SetInduction
<1>10. c \in [0..ChainLimit -> Pids]
  <2>1. \A k \in 0..ChainLimit : c[k] \in Pids
    BY <1>9, LimitType
  <2>2. QED
    BY <1>7, <2>1
<1>11. QED
  BY <1>8, <1>10 DEF c

(* To climb on from where i steps lead is to climb i steps more. *)
LEMMA ClimbFrom ==
  ASSUME NEW up \in [Pids -> Pids], NEW p \in Pids, NEW i \in 0..ChainLimit
  PROVE  \A k \in 0..(ChainLimit - i) :
            Climb(up, Climb(up, p)[i])[k] = Climb(up, p)[i + k]
<1> DEFINE to == Climb(up, p)
           q  == to[i]
           on == Climb(up, q)
           S  == {k \in Nat : i + k <= ChainLimit => on[k] = to[i + k]}
<1>1. /\ to \in [0..ChainLimit -> Pids]
      /\ \A k \in 1..ChainLimit : to[k] = up[to[k - 1]]
  BY ClimbIs
<1>2. q \in Pids
  BY <1>1
<1>3. on[0] = q /\ \A k \in 1..ChainLimit : on[k] = up[on[k - 1]]
  BY <1>2, ClimbIs
<1> HIDE DEF to, on
<1>4. 0 \in S
  BY <1>3
<1>5. ASSUME NEW k \in Nat, k \in S PROVE k + 1 \in S
  <2>1. SUFFICES ASSUME i + (k + 1) <= ChainLimit PROVE on[k + 1] = to[i + (k + 1)]
    OBVIOUS
  <2>2. /\ k + 1 \in 1..ChainLimit /\ (k + 1) - 1 = k
        /\ i + (k + 1) \in 1..ChainLimit /\ (i + (k + 1)) - 1 = i + k /\ i + k <= ChainLimit
    BY <2>1, LimitType
  <2>3. on[k + 1] = up[on[k]] /\ to[i + (k + 1)] = up[to[i + k]]
    BY <1>1, <1>3, <2>2
  <2>4. QED
    BY <1>5, <2>2, <2>3
<1>6. Nat \subseteq S
  <2> HIDE DEF S
  <2>1. QED
    BY <1>4, <1>5, SetInduction
<1>7. ASSUME NEW k \in 0..(ChainLimit - i) PROVE on[k] = to[i + k]
  <2>1. k \in Nat /\ i + k <= ChainLimit
    BY LimitType
  <2>2. QED
    BY <1>6, <2>1
<1>8. QED
  BY <1>7 DEF to, on

(* Two tables lead the same way as long as they agree on who is met. *)
LEMMA SameClimb ==
  ASSUME NEW up \in [Pids -> Pids], NEW vp \in [Pids -> Pids], NEW p \in Pids,
         NEW n \in 0..ChainLimit,
         \A j \in 0..(n - 1) : vp[Climb(up, p)[j]] = up[Climb(up, p)[j]]
  PROVE  \A k \in 0..n : Climb(vp, p)[k] = Climb(up, p)[k]
<1> DEFINE to == Climb(up, p)
           on == Climb(vp, p)
           S  == {k \in Nat : k <= n => on[k] = to[k]}
<1>1. to[0] = p /\ \A k \in 1..ChainLimit : to[k] = up[to[k - 1]]
  BY ClimbIs
<1>2. on[0] = p /\ \A k \in 1..ChainLimit : on[k] = vp[on[k - 1]]
  BY ClimbIs
<1>3. \A j \in 0..(n - 1) : vp[to[j]] = up[to[j]]
  OBVIOUS
<1> HIDE DEF to, on
<1>4. 0 \in S
  BY <1>1, <1>2
<1>5. ASSUME NEW k \in Nat, k \in S PROVE k + 1 \in S
  <2>1. SUFFICES ASSUME k + 1 <= n PROVE on[k + 1] = to[k + 1]
    OBVIOUS
  <2>2. k + 1 \in 1..ChainLimit /\ (k + 1) - 1 = k /\ k \in 0..(n - 1) /\ k <= n
    BY <2>1, LimitType
  <2>3. on[k + 1] = vp[on[k]] /\ to[k + 1] = up[to[k]]
    BY <1>1, <1>2, <2>2
  <2>4. QED
    BY <1>3, <1>5, <2>2, <2>3
<1>6. Nat \subseteq S
  <2> HIDE DEF S
  <2>1. QED
    BY <1>4, <1>5, SetInduction
<1>7. ASSUME NEW k \in 0..n PROVE on[k] = to[k]
  BY <1>6
<1>8. QED
  BY <1>7 DEF to, on

-----------------------------------------------------------------------------
(* A process table: launchd is up and its own parent, parents are alive, and
   nobody is an ancestor of his own. *)
Ranks(d, up) ==
  d[launchd] = 0 /\ \A p \in Pids \ {launchd} : d[up[p]] < d[p]

GoodTable(x, up) ==
  /\ x \in [Pids -> Exes \cup {Unknown}] /\ up \in [Pids -> Pids]
  /\ x[launchd] # Unknown /\ up[launchd] = launchd
  /\ \A p \in Pids : x[up[p]] # Unknown
  /\ \E d \in [Pids -> Nat] : Ranks(d, up)

LEMMA AliveAbove ==
  ASSUME NEW x, NEW up, GoodTable(x, up), NEW p \in Pids, x[p] # Unknown
  PROVE  \A k \in 0..ChainLimit : x[Climb(up, p)[k]] \in Exes
<1>1. up \in [Pids -> Pids] /\ x \in [Pids -> Exes \cup {Unknown}]
  BY DEF GoodTable
<1>2. /\ Climb(up, p) \in [0..ChainLimit -> Pids] /\ Climb(up, p)[0] = p
      /\ \A k \in 1..ChainLimit : Climb(up, p)[k] = up[Climb(up, p)[k - 1]]
  BY <1>1, ClimbIs
<1> DEFINE to == Climb(up, p)
<1> HIDE DEF to
<1>3. ASSUME NEW k \in 0..ChainLimit PROVE x[to[k]] \in Exes
  <2>1. to[k] \in Pids
    BY <1>2 DEF to
  <2>2. x[to[k]] # Unknown
    <3>1. CASE k = 0
      BY <1>2, <3>1 DEF to
    <3>2. CASE k # 0
      <4>1. k \in 1..ChainLimit /\ k - 1 \in 0..ChainLimit
        BY <3>2, LimitType
      <4>2. to[k] = up[to[k - 1]] /\ to[k - 1] \in Pids
        BY <1>2, <4>1 DEF to
      <4>3. QED
        BY <4>2 DEF GoodTable
    <3>3. QED
      BY <3>1, <3>2
  <2>3. QED
    BY <1>1, <2>1, <2>2
<1>4. QED
  BY <1>3 DEF to

(* Who is met before launchd is not met again. *)
LEMMA NoReturn ==
  ASSUME NEW x, NEW up, GoodTable(x, up), NEW p \in Pids, NEW n \in 0..ChainLimit,
         \A j \in 0..(n - 1) : Climb(up, p)[j] # launchd
  PROVE  \A j \in 0..(n - 1) : Climb(up, p)[n] # Climb(up, p)[j]
<1> DEFINE to == Climb(up, p)
<1>1. up \in [Pids -> Pids]
  BY DEF GoodTable
<1>2. /\ to \in [0..ChainLimit -> Pids]
      /\ \A k \in 1..ChainLimit : to[k] = up[to[k - 1]]
  BY <1>1, ClimbIs
<1>3. \A j \in 0..(n - 1) : to[j] # launchd
  OBVIOUS
<1>4. PICK d \in [Pids -> Nat] : Ranks(d, up)
  BY DEF GoodTable
<1> HIDE DEF to
<1> DEFINE S == {k \in Nat : k <= n => \A j \in 0..(k - 1) : d[to[k]] < d[to[j]]}
<1>5. 0 \in S
  OBVIOUS
<1>6. ASSUME NEW k \in Nat, k \in S PROVE k + 1 \in S
  <2>1. SUFFICES ASSUME k + 1 <= n, NEW j \in 0..((k + 1) - 1)
                 PROVE  d[to[k + 1]] < d[to[j]]
    OBVIOUS
  <2>2. k + 1 \in 1..ChainLimit /\ (k + 1) - 1 = k /\ k \in 0..(n - 1) /\ k \in 0..ChainLimit
    BY <2>1, LimitType
  <2>3. to[k] \in Pids \ {launchd} /\ to[k + 1] = up[to[k]]
    BY <1>2, <1>3, <2>2
  <2>4. d[to[k + 1]] < d[to[k]]
    BY <1>4, <2>3 DEF Ranks
  <2>5. CASE j = k
    BY <2>4, <2>5
  <2>6. CASE j # k
    <3>1. j \in 0..(k - 1) /\ k <= n /\ j \in 0..ChainLimit
      BY <2>1, <2>2, <2>6, LimitType
    <3>2. d[to[k]] < d[to[j]]
      BY <1>6, <3>1
    <3>3. to[j] \in Pids /\ to[k + 1] \in Pids
      BY <1>1, <1>2, <2>3, <3>1
    <3>4. d[to[j]] \in Nat /\ d[to[k]] \in Nat /\ d[to[k + 1]] \in Nat
      BY <2>3, <3>3
    <3>5. QED
      BY <2>4, <3>2, <3>4
  <2>7. QED
    BY <2>5, <2>6
<1>7. Nat \subseteq S
  <2> HIDE DEF S
  <2>1. QED
    BY <1>5, <1>6, SetInduction
<1>8. ASSUME NEW j \in 0..(n - 1) PROVE to[n] # to[j]
  <2>1. d[to[n]] < d[to[j]]
    BY <1>7
  <2>2. to[n] \in Pids
    BY <1>2
  <2>3. d[to[n]] \in Nat
    BY <2>2
  <2>4. QED
    BY <2>1, <2>3
<1>9. QED
  BY <1>8 DEF to
-----------------------------------------------------------------------------
(* Walks *)

(* s is what an instantaneous walk of at most n entries from p gives. *)
IsWalk(s, x, up, p, n) ==
  /\ s \in Seq(Exes) /\ Len(s) \in 1..n
  /\ \A k \in 1..Len(s) : s[k] = x[Climb(up, p)[k - 1]]
  /\ \A k \in 1..(Len(s) - 1) : Climb(up, p)[k - 1] # launchd
  /\ Len(s) = n \/ Climb(up, p)[Len(s) - 1] = launchd

(* There is one at most. *)
LEMMA OneWalk ==
  ASSUME NEW x, NEW up, NEW p, NEW n \in Nat, NEW s, NEW t,
         IsWalk(s, x, up, p, n), IsWalk(t, x, up, p, n)
  PROVE  s = t
<1>1. /\ s \in Seq(Exes) /\ t \in Seq(Exes) /\ Len(s) \in 1..n /\ Len(t) \in 1..n
      /\ \A k \in 1..Len(s) : s[k] = x[Climb(up, p)[k - 1]]
      /\ \A k \in 1..Len(t) : t[k] = x[Climb(up, p)[k - 1]]
      /\ \A k \in 1..(Len(s) - 1) : Climb(up, p)[k - 1] # launchd
      /\ \A k \in 1..(Len(t) - 1) : Climb(up, p)[k - 1] # launchd
      /\ Len(s) = n \/ Climb(up, p)[Len(s) - 1] = launchd
      /\ Len(t) = n \/ Climb(up, p)[Len(t) - 1] = launchd
  BY DEF IsWalk
<1>2. Len(s) = Len(t)
  <2>1. ASSUME Len(s) < Len(t) PROVE FALSE
    <3>1. Len(s) \in 1..(Len(t) - 1) /\ Len(s) # n
      BY <1>1, <2>1
    <3>2. QED
      BY <1>1, <3>1
  <2>2. ASSUME Len(t) < Len(s) PROVE FALSE
    <3>1. Len(t) \in 1..(Len(s) - 1) /\ Len(t) # n
      BY <1>1, <2>2
    <3>2. QED
      BY <1>1, <3>1
  <2>3. QED
    BY <1>1, <2>1, <2>2
<1>3. \A k \in 1..Len(s) : s[k] = t[k]
  BY <1>1, <1>2
<1>4. QED
  BY <1>1, <1>2, <1>3, SeqEqual

(* Ancestors is one. *)
LEMMA AncestorsWalk ==
  ASSUME NEW x, NEW up, GoodTable(x, up), NEW p \in Pids, x[p] # Unknown,
         NEW n \in 1..ChainLimit
  PROVE  IsWalk(Ancestors(x, up, p, n), x, up, p, n)
<1> DEFINE to == Climb(up, p)
           Stops(k) == /\ k = n - 1 \/ to[k] = launchd
                       /\ \A j \in 0..(k - 1) : to[j] # launchd
           S == {k \in Nat : k <= n - 1 => \A j \in 0..k : to[j] # launchd /\ j # n - 1}
           last == CHOOSE k \in 0..(n - 1) : Stops(k)
<1>1. n \in Nat /\ n >= 1 /\ n - 1 \in Nat
  BY LimitType
<1>2. \A k \in 0..ChainLimit : x[to[k]] \in Exes
  BY AliveAbove
<1>3. Ancestors(x, up, p, n) = [i \in 1..(last + 1) |-> x[to[i - 1]]]
  BY DEF Ancestors
<1> HIDE DEF to
<1>4. \E k \in 0..(n - 1) : Stops(k)
  <2> SUFFICES ASSUME \A k \in 0..(n - 1) : ~Stops(k) PROVE FALSE
    OBVIOUS
  <2>1. 0 \in S
    BY <1>1
  <2>2. ASSUME NEW k \in Nat, k \in S PROVE k + 1 \in S
    <3>1. SUFFICES ASSUME k + 1 <= n - 1 PROVE to[k + 1] # launchd /\ k + 1 # n - 1
      BY <1>1, <2>2
    <3>2. k <= n - 1 /\ k + 1 \in 0..(n - 1)
      BY <1>1, <3>1
    <3>3. \A j \in 0..((k + 1) - 1) : to[j] # launchd
      BY <1>1, <2>2, <3>2
    <3>4. QED
      BY <3>2, <3>3
  <2>3. Nat \subseteq S
    <3> HIDE DEF S
    <3>1. QED
      BY <2>1, <2>2, SetInduction
  <2>4. QED
    BY <1>1, <2>3
<1>5. last \in 0..(n - 1) /\ Stops(last)
  <2> HIDE DEF Stops
  <2>1. QED
    BY <1>4
<1> HIDE DEF last
<1> DEFINE s == [i \in 1..(last + 1) |-> x[to[i - 1]]]
<1>6. s \in Seq(Exes) /\ Len(s) = last + 1
  <2>1. last + 1 \in Nat
    BY <1>1, <1>5
  <2>2. \A i \in 1..(last + 1) : i - 1 \in 0..ChainLimit
    BY <1>1, <1>5, LimitType
  <2>3. \A i \in 1..(last + 1) : x[to[i - 1]] \in Exes
    BY <1>2, <2>2
  <2>4. QED
    BY <2>1, <2>3
<1>7. Len(s) \in 1..n /\ Len(s) - 1 = last
  BY <1>1, <1>5, <1>6
<1>8. \A k \in 1..Len(s) : s[k] = x[to[k - 1]]
  BY <1>6
<1>9. \A k \in 1..(Len(s) - 1) : to[k - 1] # launchd
  <2>1. \A k \in 1..last : k - 1 \in 0..(last - 1)
    BY <1>1, <1>5
  <2>2. QED
    BY <1>5, <1>7, <2>1
<1>10. Len(s) = n \/ to[Len(s) - 1] = launchd
  BY <1>1, <1>5, <1>6, <1>7
<1> HIDE DEF s
<1>11. IsWalk(s, x, up, p, n)
  BY <1>6, <1>7, <1>8, <1>9, <1>10 DEF IsWalk, to
<1>12. QED
  BY <1>3, <1>11 DEF s

(* So a walk is the ancestry. *)
LEMMA WalkIsAncestors ==
  ASSUME NEW x, NEW up, GoodTable(x, up), NEW p \in Pids, x[p] # Unknown,
         NEW n \in 1..ChainLimit, NEW s, IsWalk(s, x, up, p, n)
  PROVE  s = Ancestors(x, up, p, n)
BY AncestorsWalk, OneWalk, LimitType

-----------------------------------------------------------------------------
(* The chain c has been read from o up to its ancestor p, i steps above, and
   agrees with the table still.  It may hold p's own entry. *)
Fresh(x, up, o, c, p, i) ==
  /\ x[o] # Unknown /\ p = Climb(up, o)[i]
  /\ \A j \in 0..(i - 1) : Climb(up, o)[j] # launchd
  /\ \A k \in 1..Len(c) : c[k] = x[Climb(up, o)[k - 1]]

(* The chain a walk returns that has read c, stands i steps up, and is to
   find a there. *)
Joined(c, a, i) == [k \in 1..(i + Len(a)) |-> IF k <= Len(c) THEN c[k] ELSE a[k - i]]

Standing(c, i, n) ==
  c \in Seq(Exes) /\ i \in 0..(n - 1) /\ (Len(c) = i \/ Len(c) = i + 1)

LEMMA JoinedIs ==
  ASSUME NEW n \in Nat, NEW i, NEW c, Standing(c, i, n),
         NEW a \in Seq(Exes), Len(a) \in 1..(n - i)
  PROVE  /\ Joined(c, a, i) \in Seq(Exes) /\ Len(Joined(c, a, i)) = i + Len(a)
         /\ i + Len(a) \in 1..n /\ Len(c) <= i + Len(a)
         /\ \A k \in 1..Len(c) : Joined(c, a, i)[k] = c[k]
         /\ \A k \in (Len(c) + 1)..(i + Len(a)) :
               k - i \in 1..Len(a) /\ Joined(c, a, i)[k] = a[k - i]
<1> DEFINE m == i + Len(a)
           T == [k \in 1..m |-> IF k <= Len(c) THEN c[k] ELSE a[k - i]]
<1>1. /\ i \in Nat /\ m \in Nat /\ m \in 1..n /\ c \in Seq(Exes) /\ Len(c) \in Nat
      /\ Len(a) \in Nat /\ Len(c) <= m /\ i <= Len(c) /\ Len(c) <= i + 1 /\ m = i + Len(a)
  BY DEF Standing
<1> HIDE DEF m
<1>2. \A k \in 1..m : k > Len(c) => k - i \in 1..Len(a)
  BY <1>1
<1>3. \A k \in 1..m : (IF k <= Len(c) THEN c[k] ELSE a[k - i]) \in Exes
  <2>1. ASSUME NEW k \in 1..m, k <= Len(c) PROVE c[k] \in Exes
    BY <1>1, <2>1
  <2>2. ASSUME NEW k \in 1..m, ~(k <= Len(c)) PROVE a[k - i] \in Exes
    BY <1>1, <1>2, <2>2
  <2>3. QED
    BY <2>1, <2>2
<1>4. T \in Seq(Exes) /\ Len(T) = m
  BY <1>1, <1>3
<1>5. \A k \in 1..Len(c) : T[k] = c[k]
  BY <1>1
<1>6. \A k \in (Len(c) + 1)..m : k - i \in 1..Len(a) /\ T[k] = a[k - i]
  BY <1>1, <1>2
<1>7. QED
  BY <1>1, <1>4, <1>5, <1>6 DEF Joined, m

(* As long as what was read is right, the walk is to return the ancestry. *)
LEMMA FreshJoined ==
  ASSUME NEW x, NEW up, GoodTable(x, up), NEW o \in Pids, NEW n \in 1..ChainLimit,
         NEW i, NEW c, Standing(c, i, n), NEW p, Fresh(x, up, o, c, p, i)
  PROVE  /\ p \in Pids /\ x[p] # Unknown
         /\ Joined(c, Ancestors(x, up, p, n - i), i) = Ancestors(x, up, o, n)
<1> DEFINE to == Climb(up, o)
           on == Climb(up, p)
           a  == Ancestors(x, up, p, n - i)
           T  == Joined(c, a, i)
<1>1. /\ n \in Nat /\ i \in Nat /\ i <= n - 1 /\ n <= ChainLimit /\ n - i \in 1..ChainLimit
      /\ i \in 0..ChainLimit /\ ChainLimit \in Nat
      /\ c \in Seq(Exes) /\ Len(c) \in Nat /\ i <= Len(c) /\ Len(c) <= i + 1
  BY LimitType DEF Standing
<1>2. up \in [Pids -> Pids] /\ to \in [0..ChainLimit -> Pids]
  BY ClimbIs DEF GoodTable
<1>3. p = to[i] /\ p \in Pids /\ x[p] # Unknown
  <2>1. x[to[i]] \in Exes
    BY <1>1, AliveAbove DEF Fresh
  <2>2. QED
    BY <1>1, <1>2, <2>1, IdentityAssumption DEF Fresh
<1>4. \A k \in 0..(ChainLimit - i) : on[k] = to[i + k]
  BY <1>1, <1>2, <1>3, ClimbFrom
<1>5. /\ a \in Seq(Exes) /\ Len(a) \in 1..(n - i)
      /\ \A k \in 1..Len(a) : a[k] = x[on[k - 1]]
      /\ \A k \in 1..(Len(a) - 1) : on[k - 1] # launchd
      /\ Len(a) = n - i \/ on[Len(a) - 1] = launchd
  <2>1. IsWalk(a, x, up, p, n - i)
    BY <1>1, <1>3, AncestorsWalk
  <2> HIDE DEF a, on
  <2>2. QED
    BY <2>1 DEF IsWalk, on
<1>6. /\ \A j \in 0..(i - 1) : to[j] # launchd
      /\ \A k \in 1..Len(c) : c[k] = x[to[k - 1]]
  BY DEF Fresh
<1> HIDE DEF a, to, on
<1>7. /\ T \in Seq(Exes) /\ Len(T) = i + Len(a) /\ Len(T) \in 1..n
      /\ \A k \in 1..Len(c) : T[k] = c[k]
      /\ \A k \in (Len(c) + 1)..(i + Len(a)) : k - i \in 1..Len(a) /\ T[k] = a[k - i]
  <2>1. n \in Nat /\ a \in Seq(Exes) /\ Len(a) \in 1..(n - i) /\ Standing(c, i, n)
    BY <1>1, <1>5
  <2>2. /\ T \in Seq(Exes) /\ Len(T) = i + Len(a)
        /\ i + Len(a) \in 1..n
        /\ \A k \in 1..Len(c) : T[k] = c[k]
        /\ \A k \in (Len(c) + 1)..(i + Len(a)) : k - i \in 1..Len(a) /\ T[k] = a[k - i]
    BY ONLY <2>1, JoinedIs
  <2>3. QED
    BY <2>2
<1> HIDE DEF T
<1>8. ASSUME NEW k \in 1..Len(T) PROVE T[k] = x[to[k - 1]]
  <2>1. CASE k <= Len(c)
    BY <1>6, <1>7, <2>1
  <2>2. CASE k > Len(c)
    <3>1. k \in (Len(c) + 1)..(i + Len(a)) /\ k - i \in 1..Len(a)
      BY <1>1, <1>5, <1>7, <2>2
    <3>2. T[k] = x[on[(k - i) - 1]]
      BY <1>5, <1>7, <3>1
    <3>3. (k - i) - 1 \in 0..(ChainLimit - i) /\ i + ((k - i) - 1) = k - 1
      BY <1>1, <1>5, <3>1
    <3>4. QED
      BY <1>4, <3>2, <3>3
  <2>3. QED
    BY <1>1, <1>7, <2>1, <2>2
<1>9. ASSUME NEW k \in 1..(Len(T) - 1) PROVE to[k - 1] # launchd
  <2>1. CASE k <= i
    <3>1. k - 1 \in 0..(i - 1)
      BY <1>1, <2>1
    <3>2. QED
      BY <1>6, <3>1
  <2>2. CASE k > i
    <3>1. k - i \in 1..(Len(a) - 1) /\ (k - i) - 1 \in 0..(ChainLimit - i) /\ i + ((k - i) - 1) = k - 1
      BY <1>1, <1>5, <1>7, <2>2
    <3>2. QED
      BY <1>4, <1>5, <3>1
  <2>3. QED
    BY <1>1, <1>7, <2>1, <2>2
<1>10. Len(T) = n \/ to[Len(T) - 1] = launchd
  <2>1. Len(a) - 1 \in 0..(ChainLimit - i) /\ i + (Len(a) - 1) = Len(T) - 1
    BY <1>1, <1>5, <1>7
  <2>2. QED
    BY <1>1, <1>4, <1>5, <1>7, <2>1
<1>11. IsWalk(T, x, up, o, n)
  BY <1>7, <1>8, <1>9, <1>10 DEF IsWalk, to
<1>12. T = Ancestors(x, up, o, n)
  BY <1>11, WalkIsAncestors DEF Fresh
<1>13. QED
  BY <1>3, <1>12 DEF T, a

(* A walk of one entry more is this entry and the walk from the parent. *)
LEMMA Unfold ==
  ASSUME NEW x, NEW up, GoodTable(x, up), NEW p \in Pids \ {launchd}, x[p] # Unknown,
         NEW n \in 2..ChainLimit
  PROVE  Ancestors(x, up, p, n) = Joined(<<x[p]>>, Ancestors(x, up, up[p], n - 1), 1)
<1> DEFINE c == <<x[p]>>
<1>1. n \in Nat /\ n \in 1..ChainLimit /\ 1 \in 0..(n - 1) /\ 1 \in 1..ChainLimit
  BY LimitType
<1>2. up \in [Pids -> Pids] /\ x[p] \in Exes
  BY DEF GoodTable
<1>3. Standing(c, 1, n)
  BY <1>1, <1>2 DEF Standing
<1>4. Climb(up, p)[0] = p /\ Climb(up, p)[1] = up[p]
  BY <1>1, <1>2, ClimbIs
<1>5. Fresh(x, up, p, c, up[p], 1)
  <2>1. \A k \in 1..Len(c) : c[k] = x[Climb(up, p)[k - 1]]
    BY <1>4
  <2>2. \A j \in 0..(1 - 1) : Climb(up, p)[j] # launchd
    BY <1>4
  <2>3. QED
    BY <1>4, <2>1, <2>2 DEF Fresh
<1> HIDE DEF c
<1>6. Joined(c, Ancestors(x, up, up[p], n - 1), 1) = Ancestors(x, up, p, n)
  BY <1>1, <1>3, <1>5, FreshJoined
<1>7. QED
  BY <1>6 DEF c
-----------------------------------------------------------------------------
(* The table stays one. *)
LEMMA TableKept ==
  ASSUME GoodTable(exe, parent), Processes
  PROVE  GoodTable(exe', parent')
<1>1. /\ exe \in [Pids -> Exes \cup {Unknown}] /\ parent \in [Pids -> Pids]
      /\ exe[launchd] # Unknown /\ parent[launchd] = launchd /\ launchd \in Pids
      /\ \A p \in Pids : exe[parent[p]] # Unknown
  BY IdentityAssumption DEF GoodTable
<1>2. PICK d \in [Pids -> Nat] : Ranks(d, parent)
  BY DEF GoodTable
<1>3. ASSUME NEW p \in Pids, NEW child \in Pids, Fork(p, child)
      PROVE  GoodTable(exe', parent')
  <2>1. /\ exe[p] # Unknown /\ exe[child] = Unknown /\ child # launchd /\ p # child
        /\ exe' = [exe EXCEPT ![child] = exe[p]] /\ parent' = [parent EXCEPT ![child] = p]
    BY <1>1, <1>3 DEF Fork, Live
  <2> DEFINE b == [d EXCEPT ![child] = d[p] + 1]
  <2>2. b \in [Pids -> Nat] /\ b[launchd] = 0
    BY <1>1, <1>2, <2>1 DEF Ranks
  <2>3. ASSUME NEW q \in Pids \ {launchd} PROVE b[parent'[q]] < b[q]
    <3>1. CASE q = child
      BY <1>1, <2>1, <3>1
    <3>2. CASE q # child
      <4>1. parent'[q] = parent[q] /\ parent[q] # child /\ parent[q] \in Pids
        BY <1>1, <2>1, <3>2
      <4>2. d[parent[q]] < d[q]
        BY <1>2 DEF Ranks
      <4>3. QED
        BY <3>2, <4>1, <4>2
    <3>3. QED
      BY <3>1, <3>2
  <2> HIDE DEF b
  <2>4. \E r \in [Pids -> Nat] : Ranks(r, parent')
    BY <2>2, <2>3 DEF Ranks
  <2>5. QED
    BY <1>1, <2>1, <2>4 DEF GoodTable
<1>4. ASSUME NEW p \in Pids, NEW e \in Exes, Exec(p, e) PROVE GoodTable(exe', parent')
  <2>1. exe' = [exe EXCEPT ![p] = e] /\ parent' = parent /\ e # Unknown
    BY <1>4, IdentityAssumption DEF Exec
  <2>2. QED
    BY <1>1, <1>2, <2>1 DEF GoodTable
<1>5. ASSUME NEW p \in Pids, Exit(p) PROVE GoodTable(exe', parent')
  <2>1. /\ p # launchd /\ exe' = [exe EXCEPT ![p] = Unknown]
        /\ parent' = [q \in Pids |-> IF q = p \/ parent[q] = p THEN launchd ELSE parent[q]]
    BY <1>5 DEF Exit
  <2>2. ASSUME NEW q \in Pids \ {launchd} PROVE d[parent'[q]] < d[q]
    <3>1. d[parent[q]] < d[q] /\ d[parent[q]] \in Nat /\ d[q] \in Nat /\ d[launchd] = 0
      BY <1>1, <1>2 DEF Ranks
    <3>2. QED
      BY <2>1, <3>1
  <2>3. Ranks(d, parent')
    BY <1>2, <2>2 DEF Ranks
  <2>4. parent' \in [Pids -> Pids] /\ parent'[launchd] = launchd
    BY <1>1, <2>1
  <2>5. QED
    BY <1>1, <2>1, <2>3, <2>4 DEF GoodTable
<1>6. QED
  BY <1>3, <1>4, <1>5 DEF Processes

(* What was read stays right when those it is about stay as they are. *)
LEMMA StaysFresh ==
  ASSUME NEW x, NEW up \in [Pids -> Pids], NEW y, NEW vp \in [Pids -> Pids],
         NEW o \in Pids, NEW n \in 1..ChainLimit, NEW i, NEW c, Standing(c, i, n), NEW p,
         Fresh(x, up, o, c, p, i), y[o] # Unknown,
         \A j \in 0..(i - 1) : vp[Climb(up, o)[j]] = up[Climb(up, o)[j]],
         \A j \in 0..i : j < Len(c) => y[Climb(up, o)[j]] = x[Climb(up, o)[j]]
  PROVE  Fresh(y, vp, o, c, p, i)
<1>1. /\ i \in Nat /\ i \in 0..ChainLimit /\ i \in 0..i /\ Len(c) \in Nat /\ Len(c) <= i + 1
  BY LimitType DEF Standing
<1>2. \A k \in 0..i : Climb(vp, o)[k] = Climb(up, o)[k]
  BY <1>1, SameClimb
<1>3. ASSUME NEW k \in 1..Len(c) PROVE c[k] = y[Climb(vp, o)[k - 1]]
  <2>1. k - 1 \in 0..i /\ k - 1 < Len(c)
    BY <1>1
  <2>2. QED
    BY <1>2, <2>1 DEF Fresh
<1>4. \A j \in 0..(i - 1) : Climb(vp, o)[j] # launchd
  <2>1. \A j \in 0..(i - 1) : j \in 0..i
    BY <1>1
  <2>2. QED
    BY <1>2, <2>1 DEF Fresh
<1>5. p = Climb(vp, o)[i]
  BY <1>1, <1>2 DEF Fresh
<1>6. QED
  BY <1>3, <1>4, <1>5 DEF Fresh

-----------------------------------------------------------------------------
(* What a step of the processes, from <<x, up>> to <<y, vp>>, does to a walk:
   what was read stays right, or the walk cannot go on, or it goes on to
   return the ancestry there was, which is not the ancestry there is. *)
Overtaken(x, up, y, vp, o, c, p, i, n) ==
  /\ Joined(c, Ancestors(y, vp, p, n - i), i) = Ancestors(x, up, o, n)
  /\ Ancestors(y, vp, o, n) # Ancestors(x, up, o, n)

(* The ancestry goes beyond what was read, and holds nobody twice. *)
LEMMA FreshPath ==
  ASSUME NEW x, NEW up, GoodTable(x, up), NEW o \in Pids, NEW n \in 1..ChainLimit,
         NEW i, NEW c, Standing(c, i, n), NEW p, Fresh(x, up, o, c, p, i)
  PROVE  LET A == Ancestors(x, up, o, n)
             to == Climb(up, o)
         IN /\ IsWalk(A, x, up, o, n) /\ i + 1 <= Len(A) /\ Len(c) <= Len(A)
            /\ Len(A) \in 1..ChainLimit
            /\ Len(A) = i + Len(Ancestors(x, up, p, n - i))
            /\ \A k \in 1..Len(A) : \A j \in 1..(k - 1) : to[k - 1] # to[j - 1]
<1> DEFINE A == Ancestors(x, up, o, n)
           a == Ancestors(x, up, p, n - i)
           to == Climb(up, o)
<1>1. /\ n \in Nat /\ i \in Nat /\ i <= n - 1 /\ n <= ChainLimit /\ n - i \in 1..ChainLimit
      /\ ChainLimit \in Nat /\ c \in Seq(Exes) /\ Len(c) \in Nat /\ i <= Len(c) /\ Len(c) <= i + 1
  BY LimitType DEF Standing
<1>2. p \in Pids /\ x[p] # Unknown /\ Joined(c, a, i) = A
  BY FreshJoined
<1>3. IsWalk(A, x, up, o, n)
  BY AncestorsWalk DEF Fresh
<1>4. a \in Seq(Exes) /\ Len(a) \in 1..(n - i)
  <2>1. IsWalk(a, x, up, p, n - i)
    BY <1>1, <1>2, AncestorsWalk
  <2> HIDE DEF a
  <2>2. QED
    BY <2>1 DEF IsWalk
<1> HIDE DEF a
<1>5. Len(Joined(c, a, i)) = i + Len(a)
  BY <1>1, <1>4, JoinedIs
<1>6. Len(A) = i + Len(a)
  BY <1>2, <1>5
<1> HIDE DEF A, to
<1>7. \A k \in 1..(Len(A) - 1) : to[k - 1] # launchd
  BY <1>3 DEF IsWalk, to
<1>8. i + 1 <= Len(A) /\ Len(c) <= Len(A) /\ Len(A) \in 1..ChainLimit
  BY <1>1, <1>4, <1>6
<1>9. ASSUME NEW k \in 1..Len(A), NEW j \in 1..(k - 1) PROVE to[k - 1] # to[j - 1]
  <2>1. k - 1 \in 0..ChainLimit /\ j - 1 \in 0..((k - 1) - 1)
    BY <1>1, <1>8
  <2>2. \A m \in 0..((k - 1) - 1) : to[m] # launchd
    <3>1. \A m \in 0..((k - 1) - 1) : m + 1 \in 1..(Len(A) - 1) /\ (m + 1) - 1 = m
      BY <1>8
    <3>2. QED
      BY <1>7, <3>1
  <2>3. QED
    BY <2>1, <2>2, NoReturn DEF to
<1>10. QED
  BY <1>3, <1>6, <1>8, <1>9 DEF A, a, to
(* A fork changes nothing for the processes that are there: the path from
   one of them has no pid that is not in use. *)
LEMMA ForkIsMissed ==
  ASSUME NEW x, NEW up, GoodTable(x, up), NEW o \in Pids, NEW n \in 1..ChainLimit,
         NEW i, NEW c, Standing(c, i, n), NEW p, Fresh(x, up, o, c, p, i),
         NEW q \in Pids, NEW child \in Pids, x[child] = Unknown
  PROVE  Fresh([x EXCEPT ![child] = x[q]], [up EXCEPT ![child] = q], o, c, p, i)
<1> DEFINE y == [x EXCEPT ![child] = x[q]]
           vp == [up EXCEPT ![child] = q]
<1>1. /\ x \in [Pids -> Exes \cup {Unknown}] /\ up \in [Pids -> Pids] /\ vp \in [Pids -> Pids]
      /\ x[o] # Unknown /\ i \in Nat /\ i \in 0..ChainLimit
  BY LimitType DEF GoodTable, Fresh, Standing
<1>2. \A j \in 0..i : Climb(up, o)[j] \in Pids /\ Climb(up, o)[j] # child
  <2>1. \A j \in 0..ChainLimit : x[Climb(up, o)[j]] \in Exes
    BY <1>1, AliveAbove
  <2>2. Climb(up, o) \in [0..ChainLimit -> Pids]
    BY <1>1, ClimbIs
  <2>3. \A j \in 0..i : j \in 0..ChainLimit
    BY <1>1, LimitType
  <2>4. QED
    BY <2>1, <2>2, <2>3, IdentityAssumption
<1>3. y[o] # Unknown
  BY <1>1
<1>4. \A j \in 0..(i - 1) : vp[Climb(up, o)[j]] = up[Climb(up, o)[j]]
  <2>1. \A j \in 0..(i - 1) : j \in 0..i
    BY <1>1
  <2>2. QED
    BY <1>1, <1>2, <2>1
<1>5. \A j \in 0..i : j < Len(c) => y[Climb(up, o)[j]] = x[Climb(up, o)[j]]
  BY <1>1, <1>2
<1> HIDE DEF y, vp
<1>6. Fresh(y, vp, o, c, p, i)
  <2>1. /\ up \in [Pids -> Pids] /\ vp \in [Pids -> Pids] /\ o \in Pids /\ n \in 1..ChainLimit
        /\ Standing(c, i, n) /\ Fresh(x, up, o, c, p, i)
    BY <1>1
  <2>2. QED
    BY ONLY <2>1, <1>3, <1>4, <1>5, StaysFresh, SMTT(60)
<1>7. QED
  BY <1>6 DEF y, vp

(* An exec of an ancestor whose entry was read: what follows is the same, so
   the walk returns the old ancestry, entry and all. *)
LEMMA ExecOvertakes ==
  ASSUME NEW x, NEW up, GoodTable(x, up), NEW o \in Pids, NEW n \in 1..ChainLimit,
         NEW i, NEW c, Standing(c, i, n), NEW p, Fresh(x, up, o, c, p, i),
         NEW q \in Pids, x[q] # Unknown, NEW e \in Exes, e # x[q],
         NEW y, y = [x EXCEPT ![q] = e], GoodTable(y, up)
  PROVE  Fresh(y, up, o, c, p, i) \/ Overtaken(x, up, y, up, o, c, p, i, n)
<1> DEFINE to == Climb(up, o)
           A  == Ancestors(x, up, o, n)
           B  == Ancestors(y, up, o, n)
           b  == Ancestors(y, up, p, n - i)
           T  == Joined(c, b, i)
<1>0. c \in Seq(Exes) /\ n - i \in 1..ChainLimit /\ i \in 0..ChainLimit
  BY LimitType DEF Standing
<1>1. /\ n \in Nat /\ i \in Nat /\ i <= n - 1 /\ n <= ChainLimit /\ ChainLimit \in Nat
      /\ Len(c) \in Nat /\ i <= Len(c) /\ Len(c) <= i + 1
  BY <1>0, LimitType DEF Standing
<1>2. /\ x \in [Pids -> Exes \cup {Unknown}] /\ up \in [Pids -> Pids] /\ e # Unknown
      /\ x[o] # Unknown /\ y[o] # Unknown
      /\ \A r \in Pids \ {q} : y[r] = x[r]
  BY IdentityAssumption DEF GoodTable, Fresh
<1>3. to \in [0..ChainLimit -> Pids]
  BY <1>2, ClimbIs
<1>4. CASE \A j \in 0..i : j < Len(c) => to[j] # q
  <2>1. \A j \in 0..i : j < Len(c) => y[to[j]] = x[to[j]]
    <3>1. \A j \in 0..i : to[j] \in Pids
      BY <1>1, <1>3
    <3>2. QED
      BY <1>2, <1>4, <3>1
  <2>2. Fresh(y, up, o, c, p, i)
    <3>1. /\ up \in [Pids -> Pids] /\ o \in Pids /\ n \in 1..ChainLimit
          /\ Standing(c, i, n) /\ Fresh(x, up, o, c, p, i) /\ y[o] # Unknown
          /\ \A j \in 0..(i - 1) : up[Climb(up, o)[j]] = up[Climb(up, o)[j]]
      BY <1>2
    <3>2. QED
      BY ONLY <2>1, <3>1, StaysFresh
  <2>3. QED
    BY <2>2
<1>5. ASSUME NEW j \in 0..i, j < Len(c), to[j] = q PROVE Overtaken(x, up, y, up, o, c, p, i, n)
  <2>1. /\ IsWalk(A, x, up, o, n) /\ i + 1 <= Len(A) /\ Len(c) <= Len(A) /\ Len(A) \in 1..ChainLimit
        /\ \A k \in 1..Len(A) : \A m \in 1..(k - 1) : to[k - 1] # to[m - 1]
    BY FreshPath
  <2>2. p \in Pids /\ x[p] # Unknown /\ p = to[i]
    BY FreshJoined DEF Fresh
  <2>3. y[p] # Unknown
    BY <1>2, <2>2
  <2>4. IsWalk(b, y, up, p, n - i)
    BY <1>0, <2>2, <2>3, AncestorsWalk
  <2>5. IsWalk(B, y, up, o, n)
    BY <1>2, AncestorsWalk
  <2>6. \A k \in 0..(ChainLimit - i) : Climb(up, p)[k] = to[i + k]
    BY <1>0, <1>2, <2>2, ClimbFrom
  <2> HIDE DEF A, B, b
  <2>7. /\ b \in Seq(Exes) /\ Len(b) \in 1..(n - i)
        /\ \A k \in 1..Len(b) : b[k] = y[Climb(up, p)[k - 1]]
        /\ \A k \in 1..(Len(b) - 1) : Climb(up, p)[k - 1] # launchd
        /\ Len(b) = n - i \/ Climb(up, p)[Len(b) - 1] = launchd
    BY <2>4 DEF IsWalk
  <2>8. \A k \in 1..Len(b) : k - 1 \in 0..(ChainLimit - i) /\ i + (k - 1) = (i + k) - 1
    BY <1>1, <2>7
  <2>9. /\ \A k \in 1..Len(b) : b[k] = y[to[(i + k) - 1]]
        /\ \A k \in 1..(Len(b) - 1) : to[(i + k) - 1] # launchd
        /\ Len(b) = n - i \/ to[(i + Len(b)) - 1] = launchd
    BY <2>6, <2>7, <2>8
  <2>10. /\ T \in Seq(Exes) /\ Len(T) = i + Len(b)
         /\ i + Len(b) \in 1..n /\ Len(c) <= i + Len(b)
         /\ \A k \in 1..Len(c) : T[k] = c[k]
         /\ \A k \in (Len(c) + 1)..(i + Len(b)) : k - i \in 1..Len(b) /\ T[k] = b[k - i]
    <3>1. n \in Nat /\ b \in Seq(Exes) /\ Len(b) \in 1..(n - i) /\ Standing(c, i, n)
      BY <1>1, <2>7
    <3>2. QED
      BY ONLY <3>1, JoinedIs
  <2>0. /\ Len(b) \in Nat /\ Len(T) \in Nat /\ Len(b) >= 1 /\ Len(T) <= n
        /\ Len(T) = i + Len(b) /\ Len(c) <= Len(T)
    BY <1>1, <2>7, <2>10
  <2> HIDE DEF T
  <2>11. /\ \A m \in 0..(i - 1) : to[m] # launchd
         /\ \A k \in 1..Len(c) : c[k] = x[to[k - 1]]
    BY DEF Fresh
  <2> HIDE DEF to
  <2>12. ASSUME NEW k \in 1..(Len(T) - 1) PROVE to[k - 1] # launchd
    <3>1. CASE k <= i
      <4>1. k - 1 \in 0..(i - 1)
        BY <1>1, <3>1
      <4>2. QED
        BY <2>11, <4>1
    <3>2. CASE k > i
      <4>1. k - i \in 1..(Len(b) - 1) /\ (i + (k - i)) - 1 = k - 1
        BY <1>1, <2>0, <3>2
      <4>2. QED
        BY <2>9, <4>1
    <3>3. QED
      BY <1>1, <2>0, <3>1, <3>2
  <2>13. ASSUME NEW k \in (Len(c) + 1)..Len(T) PROVE to[k - 1] # q
    <3>1. k - 1 \in 0..ChainLimit /\ j \in 0..((k - 1) - 1)
      BY <1>1, <1>5, <2>0
    <3>2. \A m \in 0..((k - 1) - 1) : to[m] # launchd
      <4>1. \A m \in 0..((k - 1) - 1) : m + 1 \in 1..(Len(T) - 1) /\ (m + 1) - 1 = m
        BY <1>1, <2>0
      <4>2. QED
        BY <2>12, <4>1
    <3>3. to[k - 1] # to[j]
      BY <3>1, <3>2, NoReturn DEF to
    <3>4. QED
      BY <1>5, <3>3
  <2>14. ASSUME NEW k \in 1..Len(T) PROVE T[k] = x[to[k - 1]]
    <3>1. CASE k <= Len(c)
      BY <2>10, <2>11, <3>1
    <3>2. CASE k > Len(c)
      <4>1. k \in (Len(c) + 1)..Len(T) /\ k - i \in 1..Len(b) /\ (i + (k - i)) - 1 = k - 1
            /\ k - 1 \in 0..ChainLimit
        BY <1>1, <2>0, <3>2
      <4>2. T[k] = y[to[k - 1]]
        BY <2>9, <2>10, <4>1
      <4>3. to[k - 1] \in Pids \ {q}
        BY <1>3, <2>13, <4>1
      <4>4. QED
        BY <1>2, <4>2, <4>3
    <3>3. QED
      BY <1>1, <2>0, <3>1, <3>2
  <2>15. Len(T) = n \/ to[Len(T) - 1] = launchd
    BY <1>1, <2>9, <2>10
  <2>16. IsWalk(T, x, up, o, n)
    BY <2>10, <2>12, <2>14, <2>15 DEF IsWalk, to
  <2>17. T = A
    BY <1>2, <2>16, WalkIsAncestors DEF A
  <2>18. B # A
    <3>1. j + 1 \in 1..Len(A) /\ (j + 1) - 1 = j
      BY <1>1, <1>5, <2>1
    <3>2. A[j + 1] = x[q]
      BY <1>5, <2>1, <3>1 DEF IsWalk, to
    <3>3. ASSUME B = A PROVE A[j + 1] = y[q]
      BY <1>5, <2>5, <3>1, <3>3 DEF IsWalk, to
    <3>4. y[q] # x[q]
      BY <1>2
    <3>5. QED
      BY <3>2, <3>3, <3>4
  <2>19. QED
    BY <2>17, <2>18 DEF Overtaken, T, b, A, B
<1>6. QED
  BY <1>4, <1>5
(* An exit of an ancestor the walk has passed: the process it stands at is
   cut off from the opener, and leads up as before. *)
LEMMA ExitOvertakes ==
  ASSUME NEW x, NEW up, GoodTable(x, up), NEW o \in Pids, NEW n \in 1..ChainLimit,
         NEW i, NEW c, Standing(c, i, n), NEW p, Fresh(x, up, o, c, p, i),
         NEW q \in Pids \ {launchd},
         NEW y, y = [x EXCEPT ![q] = Unknown],
         NEW vp, vp = [r \in Pids |-> IF r = q \/ up[r] = q THEN launchd ELSE up[r]],
         GoodTable(y, vp), q # o, q # p
  PROVE  Fresh(y, vp, o, c, p, i) \/ Overtaken(x, up, y, vp, o, c, p, i, n)
<1> DEFINE to == Climb(up, o)
           on == Climb(vp, o)
           A  == Ancestors(x, up, o, n)
           B  == Ancestors(y, vp, o, n)
           a  == Ancestors(x, up, p, n - i)
           b  == Ancestors(y, vp, p, n - i)
<1>0. c \in Seq(Exes) /\ n - i \in 1..ChainLimit /\ i \in 0..ChainLimit
  BY LimitType DEF Standing
<1>1. /\ n \in Nat /\ i \in Nat /\ i <= n - 1 /\ n <= ChainLimit /\ ChainLimit \in Nat
      /\ Len(c) \in Nat /\ i <= Len(c) /\ Len(c) <= i + 1
  BY <1>0, LimitType DEF Standing
<1>2. /\ x \in [Pids -> Exes \cup {Unknown}] /\ up \in [Pids -> Pids] /\ vp \in [Pids -> Pids]
      /\ x[o] # Unknown /\ y[o] # Unknown
      /\ \A r \in Pids \ {q} : y[r] = x[r]
      /\ \A r \in Pids \ {q} : up[r] # q => vp[r] = up[r]
      /\ \A r \in Pids : up[r] = q => vp[r] = launchd
  BY IdentityAssumption DEF GoodTable, Fresh
<1>3. /\ to \in [0..ChainLimit -> Pids] /\ to[0] = o
      /\ \A k \in 1..ChainLimit : to[k] = up[to[k - 1]]
  BY <1>2, ClimbIs
<1>4. p = to[i] /\ p \in Pids /\ x[p] # Unknown /\ y[p] # Unknown
  BY <1>2, FreshJoined DEF Fresh
<1>5. ASSUME NEW j \in 0..ChainLimit, \A m \in 0..j : to[m] # q
      PROVE  \A m \in 0..(j - 1) : vp[to[m]] = up[to[m]]
  <2>1. ASSUME NEW m \in 0..(j - 1) PROVE vp[to[m]] = up[to[m]]
    <3>1. m \in 0..j /\ m + 1 \in 0..j /\ m + 1 \in 1..ChainLimit /\ (m + 1) - 1 = m
          /\ m \in 0..ChainLimit
      BY <1>1
    <3>2. to[m] \in Pids \ {q} /\ up[to[m]] # q
      BY <1>3, <1>5, <3>1
    <3>3. QED
      BY <1>2, <3>2
  <2>2. QED
    BY <2>1
<1>6. CASE \A j \in 0..i : to[j] # q
  <2>1. \A m \in 0..(i - 1) : vp[to[m]] = up[to[m]]
    BY <1>0, <1>5, <1>6
  <2>2. \A j \in 0..i : j < Len(c) => y[to[j]] = x[to[j]]
    <3>1. \A j \in 0..i : to[j] \in Pids \ {q}
      BY <1>0, <1>1, <1>3, <1>6
    <3>2. QED
      BY <1>2, <3>1
  <2>3. /\ up \in [Pids -> Pids] /\ vp \in [Pids -> Pids] /\ o \in Pids /\ n \in 1..ChainLimit
        /\ Standing(c, i, n) /\ Fresh(x, up, o, c, p, i) /\ y[o] # Unknown
    BY <1>2
  <2>4. Fresh(y, vp, o, c, p, i)
    BY ONLY <2>1, <2>2, <2>3, StaysFresh, SMTT(60)
  <2>5. QED
    BY <2>4
<1>7. ASSUME NEW j \in 0..i, to[j] = q PROVE Overtaken(x, up, y, vp, o, c, p, i, n)
  <2>0. j \in Nat /\ j >= 1 /\ j < i /\ j \in 1..ChainLimit /\ j - 1 \in 0..ChainLimit
    <3>1. j # 0 /\ j # i
      BY <1>3, <1>4, <1>7
    <3>2. QED
      BY <1>1, <3>1
  <2>1. /\ IsWalk(A, x, up, o, n) /\ i + 1 <= Len(A) /\ Len(A) \in 1..ChainLimit
        /\ Len(A) = i + Len(a)
        /\ \A k \in 1..Len(A) : \A m \in 1..(k - 1) : to[k - 1] # to[m - 1]
    BY FreshPath
  <2>2. IsWalk(a, x, up, p, n - i)
    BY <1>0, <1>4, AncestorsWalk
  <2>3. IsWalk(B, y, vp, o, n)
    BY <1>2, AncestorsWalk
  <2>4. \A k \in 0..(ChainLimit - i) : Climb(up, p)[k] = to[i + k]
    BY <1>0, <1>2, <1>4, ClimbFrom
  <2>5. Joined(c, a, i) = A
    BY FreshJoined
  <2> HIDE DEF A, B, a, b
  <2>6. /\ a \in Seq(Exes) /\ Len(a) \in 1..(n - i)
        /\ \A k \in 1..Len(a) : a[k] = x[Climb(up, p)[k - 1]]
        /\ \A k \in 1..(Len(a) - 1) : Climb(up, p)[k - 1] # launchd
        /\ Len(a) = n - i \/ Climb(up, p)[Len(a) - 1] = launchd
    BY <2>2 DEF IsWalk
  <2>7. Len(a) \in Nat /\ Len(a) >= 1 /\ i + Len(a) <= n /\ Len(A) = i + Len(a)
    BY <1>1, <2>1, <2>6
  <2>8. ASSUME NEW k \in 0..(Len(a) - 1) PROVE Climb(up, p)[k] \in Pids \ {q}
    <3>1. /\ k \in 0..(ChainLimit - i) /\ i + k \in 0..ChainLimit
          /\ (i + k) + 1 \in 1..Len(A) /\ j + 1 \in 1..(((i + k) + 1) - 1)
          /\ ((i + k) + 1) - 1 = i + k /\ (j + 1) - 1 = j
      BY <1>1, <2>0, <2>7
    <3>2. to[i + k] # to[j]
      BY <2>1, <3>1
    <3>3. QED
      BY <1>3, <1>7, <2>4, <3>1, <3>2
  <2>9. \A m \in 0..(Len(a) - 2) : vp[Climb(up, p)[m]] = up[Climb(up, p)[m]]
    <3>1. ASSUME NEW m \in 0..(Len(a) - 2) PROVE vp[Climb(up, p)[m]] = up[Climb(up, p)[m]]
      <4>1. /\ m \in 0..(Len(a) - 1) /\ m + 1 \in 0..(Len(a) - 1) /\ m + 1 \in 1..ChainLimit
            /\ (m + 1) - 1 = m
        BY <1>1, <2>7
      <4>2. Climb(up, p)[m + 1] = up[Climb(up, p)[m]]
        BY <1>2, <1>4, <4>1, ClimbIs
      <4>3. QED
        BY <1>2, <2>8, <4>1, <4>2
    <3>2. QED
      BY <3>1
  <2>10. \A k \in 0..(Len(a) - 1) : Climb(vp, p)[k] = Climb(up, p)[k]
    <3>1. Len(a) - 1 \in 0..ChainLimit /\ (Len(a) - 1) - 1 = Len(a) - 2
      BY <1>1, <2>7
    <3>2. \A m \in 0..((Len(a) - 1) - 1) : vp[Climb(up, p)[m]] = up[Climb(up, p)[m]]
      BY <2>9, <3>1
    <3>3. up \in [Pids -> Pids] /\ vp \in [Pids -> Pids] /\ p \in Pids
      BY <1>2, <1>4
    <3>4. QED
      BY ONLY <3>1, <3>2, <3>3, SameClimb
  <2>11. IsWalk(a, y, vp, p, n - i)
    <3>1. ASSUME NEW k \in 1..Len(a) PROVE a[k] = y[Climb(vp, p)[k - 1]]
      <4>1. k - 1 \in 0..(Len(a) - 1)
        BY <2>7
      <4>2. QED
        BY <1>2, <2>6, <2>8, <2>10, <4>1
    <3>2. ASSUME NEW k \in 1..(Len(a) - 1) PROVE Climb(vp, p)[k - 1] # launchd
      <4>1. k - 1 \in 0..(Len(a) - 1)
        BY <2>7
      <4>2. QED
        BY <2>6, <2>10, <4>1
    <3>3. Len(a) = n - i \/ Climb(vp, p)[Len(a) - 1] = launchd
      <4>1. Len(a) - 1 \in 0..(Len(a) - 1)
        BY <2>7
      <4>2. QED
        BY <2>6, <2>10, <4>1
    <3>4. QED
      BY <2>6, <3>1, <3>2, <3>3 DEF IsWalk
  <2>12. a = b
    BY <1>0, <1>4, <2>11, WalkIsAncestors DEF b
  <2>13. on[j] = launchd
    <3>1. \A m \in 0..(j - 1) : to[m] # q
      <4>1. ASSUME NEW m \in 0..(j - 1) PROVE to[m] # q
        <5>1. /\ m + 1 \in 1..((j + 1) - 1) /\ j + 1 \in 1..Len(A) /\ (m + 1) - 1 = m
              /\ (j + 1) - 1 = j
          BY <1>1, <2>0, <2>7
        <5>2. QED
          BY <1>7, <2>1, <5>1
      <4>2. QED
        BY <4>1
    <3>2. \A m \in 0..((j - 1) - 1) : vp[to[m]] = up[to[m]]
      BY <1>5, <2>0, <3>1
    <3>3. on[j - 1] = to[j - 1]
      <4>1. j - 1 \in 0..(j - 1)
        BY <2>0
      <4>2. /\ up \in [Pids -> Pids] /\ vp \in [Pids -> Pids] /\ o \in Pids
            /\ j - 1 \in 0..ChainLimit
        BY <1>2, <2>0
      <4>3. \A k \in 0..(j - 1) : on[k] = to[k]
        BY ONLY <3>2, <4>2, SameClimb
      <4>4. QED
        BY <4>1, <4>3
    <3>4. on[j] = vp[on[j - 1]]
      <4>0. vp \in [Pids -> Pids] /\ o \in Pids
        BY <1>2
      <4>1. \A k \in 1..ChainLimit : on[k] = vp[on[k - 1]]
        BY ONLY <4>0, ClimbIs
      <4> HIDE DEF on
      <4>2. QED
        BY <2>0, <4>1
    <3>5. to[j - 1] \in Pids /\ up[to[j - 1]] = q
      BY <1>3, <1>7, <2>0
    <3>6. QED
      BY <1>2, <3>3, <3>4, <3>5
  <2>14. B # A
    <3>1. ASSUME B = A PROVE FALSE
      <4>1. j + 1 \in 1..(Len(B) - 1) /\ (j + 1) - 1 = j
        BY <1>1, <2>0, <2>7, <3>1
      <4>2. on[j] # launchd
        BY <2>3, <4>1 DEF IsWalk
      <4>3. QED
        BY <2>13, <4>2
    <3>2. QED
      BY <3>1
  <2>15. QED
    BY <2>5, <2>12, <2>14 DEF Overtaken, A, B, a, b
<1>8. QED
  BY <1>6, <1>7
(* So one step of the processes leaves these four cases. *)
LEMMA ProcessesOvertake ==
  ASSUME GoodTable(exe, parent), GoodTable(exe', parent'), Processes,
         NEW o \in Pids, NEW n \in 1..ChainLimit,
         NEW i, NEW c, Standing(c, i, n), NEW p, Fresh(exe, parent, o, c, p, i)
  PROVE  \/ Fresh(exe', parent', o, c, p, i)
         \/ exe'[o] = Unknown \/ exe'[p] = Unknown
         \/ Overtaken(exe, parent, exe', parent', o, c, p, i, n)
<1>0. exe \in [Pids -> Exes \cup {Unknown}] /\ p \in Pids
  BY FreshJoined DEF GoodTable
<1>1. ASSUME NEW q \in Pids, NEW child \in Pids, Fork(q, child)
      PROVE  Fresh(exe', parent', o, c, p, i)
  <2>1. /\ exe[child] = Unknown
        /\ exe' = [exe EXCEPT ![child] = exe[q]] /\ parent' = [parent EXCEPT ![child] = q]
    BY <1>1 DEF Fork, Live
  <2>2. Fresh([exe EXCEPT ![child] = exe[q]], [parent EXCEPT ![child] = q], o, c, p, i)
    BY <2>1, ForkIsMissed
  <2>3. QED
    BY <2>1, <2>2
<1>2. ASSUME NEW q \in Pids, NEW e \in Exes, Exec(q, e)
      PROVE  Fresh(exe', parent', o, c, p, i) \/ Overtaken(exe, parent, exe', parent', o, c, p, i, n)
  <2>1. /\ exe[q] # Unknown /\ e # exe[q]
        /\ exe' = [exe EXCEPT ![q] = e] /\ parent' = parent
    BY <1>2 DEF Exec, Live
  <2>2. GoodTable(exe', parent)
    BY <2>1
  <2>3. Fresh(exe', parent, o, c, p, i) \/ Overtaken(exe, parent, exe', parent, o, c, p, i, n)
    BY <2>1, <2>2, ExecOvertakes
  <2>4. QED
    BY <2>1, <2>3
<1>3. ASSUME NEW q \in Pids, Exit(q), q # o, q # p
      PROVE  Fresh(exe', parent', o, c, p, i) \/ Overtaken(exe, parent, exe', parent', o, c, p, i, n)
  <2>1. /\ q \in Pids \ {launchd} /\ exe' = [exe EXCEPT ![q] = Unknown]
        /\ parent' = [r \in Pids |-> IF r = q \/ parent[r] = q THEN launchd ELSE parent[r]]
    BY <1>3 DEF Exit
  <2>2. QED
    BY <1>3, <2>1, ExitOvertakes
<1>4. ASSUME NEW q \in Pids, Exit(q), q = o \/ q = p PROVE exe'[o] = Unknown \/ exe'[p] = Unknown
  BY <1>0, <1>4 DEF Exit
<1>5. QED
  BY <1>1, <1>2, <1>3, <1>4 DEF Processes

-----------------------------------------------------------------------------
(* What a step of the walk does to the chain it is to return: nothing. *)
LEMMA JoinedWhenRead ==
  ASSUME NEW c \in Seq(Exes), NEW a \in Seq(Exes), Len(a) >= 1
  PROVE  Joined(Append(c, a[1]), a, Len(c)) = Joined(c, a, Len(c))
<1>1. a[1] \in Exes /\ Len(c) \in Nat /\ Len(a) \in Nat
  OBVIOUS
<1>2. Len(Append(c, a[1])) = Len(c) + 1
  BY <1>1
<1>3. ASSUME NEW k \in 1..(Len(c) + Len(a))
      PROVE  (IF k <= Len(Append(c, a[1])) THEN Append(c, a[1])[k] ELSE a[k - Len(c)])
               = (IF k <= Len(c) THEN c[k] ELSE a[k - Len(c)])
  <2>1. CASE k <= Len(c)
    BY <1>1, <1>2, <2>1
  <2>2. CASE k = Len(c) + 1
    BY <1>1, <1>2, <2>2
  <2>3. CASE k > Len(c) + 1
    BY <1>1, <1>2, <2>3
  <2>4. QED
    BY <1>1, <2>1, <2>2, <2>3
<1>4. QED
  BY <1>3 DEF Joined

LEMMA JoinedAtTop ==
  ASSUME NEW c \in Seq(Exes), NEW a \in Seq(Exes), Len(a) = 1
  PROVE  Joined(c, a, Len(c)) = Append(c, a[1])
<1>1. a[1] \in Exes /\ Len(c) \in Nat
  OBVIOUS
<1>2. Append(c, a[1]) = [k \in 1..(Len(c) + 1) |-> IF k = Len(c) + 1 THEN a[1] ELSE c[k]]
  <2>1. Append(c, a[1]) \in Seq(Exes) /\ Len(Append(c, a[1])) = Len(c) + 1
    BY <1>1
  <2>2. \A k \in 1..(Len(c) + 1) : Append(c, a[1])[k] = IF k = Len(c) + 1 THEN a[1] ELSE c[k]
    BY <1>1
  <2>3. QED
    BY <1>1, <2>1, <2>2
<1>3. ASSUME NEW k \in 1..(Len(c) + 1)
      PROVE  (IF k <= Len(c) THEN c[k] ELSE a[k - Len(c)]) = (IF k = Len(c) + 1 THEN a[1] ELSE c[k])
  BY <1>1
<1>4. QED
  BY <1>2, <1>3 DEF Joined

LEMMA JoinedAtLimit ==
  ASSUME NEW c \in Seq(Exes), NEW a \in Seq(Exes), Len(a) = 1, NEW i \in Nat, Len(c) = i + 1
  PROVE  Joined(c, a, i) = c
<1>1. \A k \in 1..(i + 1) : (IF k <= Len(c) THEN c[k] ELSE a[k - i]) = c[k]
  OBVIOUS
<1>2. c = [k \in 1..(i + 1) |-> c[k]]
  OBVIOUS
<1>3. QED
  BY <1>1, <1>2 DEF Joined

LEMMA JoinedWhenClimbed ==
  ASSUME NEW c \in Seq(Exes), NEW b \in Seq(Exes), NEW e, NEW i \in Nat, Len(c) = i + 1
  PROVE  Joined(c, b, i + 1) = Joined(c, Joined(<<e>>, b, 1), i)
<1> DEFINE a == Joined(<<e>>, b, 1)
<1>1. Len(b) \in Nat /\ Len(c) \in Nat
  OBVIOUS
<1>2. a = [k \in 1..(1 + Len(b)) |-> IF k <= 1 THEN <<e>>[k] ELSE b[k - 1]]
  BY DEF Joined
<1> HIDE DEF a
<1>3. Len(a) = 1 + Len(b)
  BY <1>1, <1>2
<1>4. \A k \in 2..(1 + Len(b)) : a[k] = b[k - 1]
  BY <1>1, <1>2
<1>5. i + Len(a) = (i + 1) + Len(b)
  BY <1>1, <1>3
<1>6. ASSUME NEW k \in 1..((i + 1) + Len(b))
      PROVE  (IF k <= Len(c) THEN c[k] ELSE b[k - (i + 1)]) = (IF k <= Len(c) THEN c[k] ELSE a[k - i])
  <2>1. CASE k <= Len(c)
    BY <2>1
  <2>2. CASE ~(k <= Len(c))
    <3>1. k - i \in 2..(1 + Len(b)) /\ (k - i) - 1 = k - (i + 1)
      BY <1>1, <2>2
    <3>2. QED
      BY <1>4, <2>2, <3>1
  <2>3. QED
    BY <2>1, <2>2
<1>7. QED
  BY <1>5, <1>6 DEF Joined, a

(* The first entry, and when there is no other. *)
LEMMA AncestorsStart ==
  ASSUME NEW x, NEW up, GoodTable(x, up), NEW p \in Pids, x[p] # Unknown, NEW n \in 1..ChainLimit
  PROVE  LET a == Ancestors(x, up, p, n)
         IN /\ a \in Seq(Exes) /\ Len(a) \in 1..n /\ a[1] = x[p] /\ a # << >>
            /\ p = launchd \/ n = 1 => Len(a) = 1
<1> DEFINE a == Ancestors(x, up, p, n)
<1>1. IsWalk(a, x, up, p, n)
  BY AncestorsWalk
<1>2. up \in [Pids -> Pids] /\ n \in Nat
  BY LimitType DEF GoodTable
<1>3. Climb(up, p)[0] = p
  BY <1>2, ClimbIs
<1> HIDE DEF a
<1>4. a \in Seq(Exes) /\ Len(a) \in 1..n /\ a[1] = x[p]
  <2>1. a \in Seq(Exes) /\ Len(a) \in 1..n /\ 1 \in 1..Len(a) /\ 1 - 1 = 0
    BY <1>1, <1>2 DEF IsWalk
  <2>2. a[1] = x[Climb(up, p)[1 - 1]]
    BY <1>1, <2>1 DEF IsWalk
  <2>3. QED
    BY <1>3, <2>1, <2>2
<1>0. ASSUME 1 \in 1..(Len(a) - 1) PROVE p # launchd
  <2>1. Climb(up, p)[1 - 1] # launchd /\ 1 - 1 = 0
    BY <1>0, <1>1 DEF IsWalk
  <2>2. QED
    BY <1>3, <2>1
<1> DEFINE l == Len(a)
<1>5. l \in Nat /\ l >= 1 /\ l <= n /\ a # << >>
  BY <1>2, <1>4
<1>6. 1 \in 1..(l - 1) => p # launchd
  BY <1>0
<1> HIDE DEF l
<1>7. p = launchd \/ n = 1 => l = 1
  BY <1>2, <1>5, <1>6
<1>8. QED
  BY <1>4, <1>5, <1>7 DEF a, l
-----------------------------------------------------------------------------
(* Types *)

DepthInv ==
  /\ at = "idle" => chain = << >>
  /\ at = "path" => Len(chain) <= MaxDepth

OpenerInv == at \in {"path", "parent"} => evExe \in Exes

(* No rule has the keys of a failed walk. *)
NoEmptyRule == rules \cap RulesOf(NoKeys) = {}

IInv == TypeOK /\ DepthInv /\ OpenerInv /\ NoEmptyRule

-----------------------------------------------------------------------------
LEMMA ComputeType ==
  ASSUME NEW c \in Seq(Exes), NEW e \in Exes \cup {Unknown}
  PROVE  Compute(c, e).chain \in Seq(Exes) /\ Compute(c, e).exe = e
<1> DEFINE n == IF Len(c) < MaxDepth THEN Len(c) ELSE MaxDepth
<1>1. n \in 0..Len(c)
  BY IdentityAssumption
<1> HIDE DEF n
<1>2. SubSeq(c, 1, n) \in Seq(Exes)
  BY <1>1
<1>3. QED
  BY <1>2 DEF Compute, Nearest, n

(* A failed walk keeps what it has read, or is given the executable of the
   event. *)
LEMMA FailsType ==
  ASSUME IInv, at \in {"path", "parent"}, Fails
  PROVE  /\ at' = "failed" /\ chain' \in Seq(Exes) /\ Len(chain') <= MaxDepth + 1
         /\ keys'.chain \in Seq(Exes) /\ keys'.exe \in Exes \cup {Unknown}
<1>1. evExe \in Exes /\ TypeOK
  BY DEF IInv, OpenerInv
<1>2. CASE chain = << >>
  <2>1. chain' = <<evExe>> /\ keys' = Compute(<<evExe>>, evExe)
    BY <1>2 DEF Fails
  <2>2. <<evExe>> \in Seq(Exes) /\ Len(<<evExe>>) = 1
    BY <1>1
  <2>3. keys'.chain \in Seq(Exes) /\ keys'.exe = evExe
    BY <1>1, <2>1, <2>2, ComputeType
  <2>4. Len(chain') <= MaxDepth + 1
    BY <2>1, <2>2, IdentityAssumption
  <2>5. QED
    BY <1>1, <2>1, <2>2, <2>3, <2>4 DEF Fails
<1>3. CASE chain # << >>
  BY <1>1, <1>3 DEF Fails, TypeOK
<1>4. QED
  BY <1>2, <1>3

LEMMA ResolvesType ==
  ASSUME NEW c \in Seq(Exes), c # << >>, Resolves(c)
  PROVE  /\ at' = "resolved"
         /\ keys'.chain \in Seq(Exes) /\ keys'.exe \in Exes \cup {Unknown}
BY ComputeType DEF Resolves

-----------------------------------------------------------------------------
LEMMA InitHolds == Init => IInv
<1> SUFFICES ASSUME Init PROVE IInv
  OBVIOUS
<1>1. << >> \in Seq(Exes) /\ Len(<< >>) = 0
  OBVIOUS
<1>2. TypeOK
  BY <1>1, IdentityAssumption DEF Init, TypeOK, NoKeys, Ended
<1>3. QED
  BY <1>2 DEF Init, IInv, DepthInv, OpenerInv, NoEmptyRule

LEMMA ProcessesKeepTable ==
  ASSUME TypeOK, Processes
  PROVE  exe' \in [Pids -> Exes \cup {Unknown}] /\ parent' \in [Pids -> Pids]
BY IdentityAssumption DEF TypeOK, Processes, Fork, Exec, Exit, Live

LEMMA WalkStep ==
  ASSUME IInv, ReadPath \/ ReadParent, UNCHANGED ghosts
  PROVE  IInv'
<1>1. /\ UNCHANGED <<table, opener, evExe, rules>> /\ UNCHANGED ghosts
      /\ at \in {"path", "parent"} /\ TypeOK /\ MaxDepth \in Nat \ {0}
  BY IdentityAssumption DEF IInv, ReadPath, ReadParent
<1>2. /\ exe' \in [Pids -> Exes \cup {Unknown}] /\ parent' \in [Pids -> Pids]
      /\ opener' \in Pids /\ evExe' \in Exes /\ changes' \in 0..2 /\ NoEmptyRule'
  BY <1>1 DEF IInv, TypeOK, OpenerInv, NoEmptyRule, table, ghosts
<1> DEFINE Walked ==
      /\ at' \in {"path", "parent"} \cup Ended /\ current' \in Pids
      /\ chain' \in Seq(Exes) /\ Len(chain') <= MaxDepth + 1
      /\ keys'.chain \in Seq(Exes) /\ keys'.exe \in Exes \cup {Unknown}
      /\ at' = "path" => Len(chain') <= MaxDepth
<1>3. ASSUME Walked PROVE IInv'
  BY <1>1, <1>2, <1>3 DEF Ended, IInv, TypeOK, DepthInv, OpenerInv
<1>4. ASSUME Fails, UNCHANGED current PROVE Walked
  <2>1. current \in Pids
    BY <1>1 DEF TypeOK
  <2>2. QED
    BY <1>1, <1>4, <2>1, FailsType DEF Ended
<1>5. ASSUME ReadPath PROVE Walked
  <2>1. CASE current \notin Live
    <3>1. Fails /\ UNCHANGED current
      BY <1>5, <2>1 DEF ReadPath
    <3>2. QED
      BY <1>4, <3>1
  <2>2. CASE current \in Live
    <3>1. /\ exe[current] \in Exes /\ current' = current
          /\ chain' = Append(chain, exe[current])
          /\ Len(chain) <= MaxDepth
      BY <1>1, <1>5, <2>2 DEF ReadPath, IInv, DepthInv, TypeOK, Live
    <3>2. chain' \in Seq(Exes) /\ Len(chain') = Len(chain) + 1 /\ chain' # << >>
      BY <1>1, <3>1 DEF TypeOK
    <3>3. current' \in Pids /\ Len(chain') <= MaxDepth + 1
      BY <1>1, <3>1, <3>2 DEF TypeOK
    <3>4. CASE current = launchd
      <4>1. Resolves(chain')
        BY <1>5, <2>2, <3>4 DEF ReadPath
      <4>2. /\ at' = "resolved"
            /\ keys'.chain \in Seq(Exes) /\ keys'.exe \in Exes \cup {Unknown}
        BY <3>2, <4>1, ResolvesType
      <4>3. QED
        BY <3>2, <3>3, <4>2 DEF Ended
    <3>5. CASE current # launchd
      <4>1. at' = "parent" /\ keys' = keys
        BY <1>5, <2>2, <3>5 DEF ReadPath
      <4>2. keys.chain \in Seq(Exes) /\ keys.exe \in Exes \cup {Unknown}
        BY <1>1 DEF TypeOK
      <4>3. QED
        BY <3>2, <3>3, <4>1, <4>2
    <3>6. QED
      BY <3>4, <3>5
  <2>3. QED
    BY <2>1, <2>2
<1>6. ASSUME ReadParent PROVE Walked
  <2>1. CASE current \notin Live
    <3>1. Fails /\ UNCHANGED current
      BY <1>6, <2>1 DEF ReadParent
    <3>2. QED
      BY <1>4, <3>1
  <2>2. CASE current \in Live /\ Len(chain) = ChainLimit
    <3>1. chain \in Seq(Exes) /\ chain # << >> /\ Resolves(chain) /\ UNCHANGED <<chain, current>>
      BY <1>1, <1>6, <2>2 DEF ReadParent, TypeOK, ChainLimit
    <3>2. /\ at' = "resolved"
          /\ keys'.chain \in Seq(Exes) /\ keys'.exe \in Exes \cup {Unknown}
      BY <3>1, ResolvesType
    <3>3. current \in Pids /\ Len(chain) <= MaxDepth + 1
      BY <1>1 DEF TypeOK
    <3>4. QED
      BY <3>1, <3>2, <3>3 DEF Ended
  <2>3. CASE current \in Live /\ Len(chain) # ChainLimit
    <3>1. at' = "path" /\ current' = parent[current] /\ UNCHANGED <<chain, keys>>
      BY <1>6, <2>3 DEF ReadParent
    <3>2. /\ chain \in Seq(Exes) /\ Len(chain) <= MaxDepth /\ parent[current] \in Pids
          /\ keys.chain \in Seq(Exes) /\ keys.exe \in Exes \cup {Unknown}
      BY <1>1, <2>3 DEF TypeOK, ChainLimit
    <3>3. Len(chain) <= MaxDepth + 1
      BY <1>1, <3>2
    <3>4. QED
      BY <3>1, <3>2, <3>3
  <2>4. QED
    BY <2>1, <2>2, <2>3
<1> HIDE DEF Walked
<1>7. Walked
  BY <1>5, <1>6
<1>8. QED
  BY <1>3, <1>7

LEMMA IdentityStep == IInv /\ [Next]_vars => IInv'
<1> SUFFICES ASSUME IInv, [Next]_vars PROVE IInv'
  OBVIOUS
<1>1. CASE UNCHANGED vars
  BY <1>1 DEF vars, table, walk, ghosts, IInv, TypeOK, DepthInv, OpenerInv, NoEmptyRule
<1>2. CASE Processes /\ UNCHANGED <<walk, rules>> /\ Notice
  <2>1. exe' \in [Pids -> Exes \cup {Unknown}] /\ parent' \in [Pids -> Pids]
    BY <1>2, ProcessesKeepTable DEF IInv
  <2>2. changes' \in 0..2
    BY <1>2 DEF Notice, ghosts, IInv, TypeOK
  <2>3. QED
    BY <1>2, <2>1, <2>2 DEF walk, IInv, TypeOK, DepthInv, OpenerInv, NoEmptyRule
<1>3. ASSUME NEW p \in Pids, Begin(p), UNCHANGED changes PROVE IInv'
  <2>1. Len(chain) = 0 /\ 0 <= MaxDepth
    BY <1>3, IdentityAssumption DEF Begin, IInv, DepthInv
  <2>2. QED
    BY <1>3, <2>1 DEF Begin, Live, table, IInv, TypeOK, DepthInv, OpenerInv, NoEmptyRule
<1>4. CASE (ReadPath \/ ReadParent) /\ UNCHANGED ghosts
  BY <1>4, WalkStep
<1>5. CASE Decide
  <2>1. NoEmptyRule'
    BY <1>5 DEF Decide, Asked, IInv, NoEmptyRule
  <2>2. QED
    BY <1>5, <2>1, IdentityAssumption
       DEF Decide, table, NoKeys, IInv, TypeOK, DepthInv, OpenerInv
<1>6. QED
  BY <1>1, <1>2, <1>3, <1>4, <1>5 DEF Next

LEMMA Invariance == Spec => []IInv
BY InitHolds, IdentityStep, PTL DEF Spec

(* What Resolve returns is a chain of executables with one entry more than a
   key has at most, however the process table changes under it. *)
THEOREM WalkIsTyped == Spec => []TypeOK
<1>1. IInv => TypeOK
  BY DEF IInv
<1>2. QED
  BY <1>1, Invariance, PTL

(* No "always" ever admits the processes whose walk failed, all of which have
   the same empty keys: apply (promptspool.go) makes no rule of them. *)
THEOREM NobodyIsAllowed == Spec => []NobodysRule
<1>1. IInv => NobodysRule
  BY DEF IInv, NoEmptyRule, NobodysRule, Allowed
<1>2. QED
  BY <1>1, Invariance, PTL
-----------------------------------------------------------------------------
(* What the walk returns *)

(* The chain the walk returns if nothing disturbs it from now on. *)
Returns == Joined(chain, Ahead, Climbed)

(* With no disturbance, what was read is right; with one, either the walk
   fails or it returns one of the two ancestries. *)
WalkInv ==
  at \in {"path", "parent"} =>
     /\ at = "parent" => current # launchd /\ chain # << >>
     /\ changes = 0 => /\ Fresh(exe, parent, opener, chain, current, Climbed)
                       /\ past = {Ancestry(opener)}
     /\ changes = 1 => << >> \in past \/ exe[current] = Unknown \/ Returns \in past

EndInv ==
  /\ at = "resolved" => chain # << >> /\ keys = Compute(chain, chain[1])
  /\ at = "resolved" /\ changes <= 1 /\ << >> \notin past => chain \in past
  /\ at \in Ended /\ changes = 0 => at = "resolved" /\ past = {chain}

IdleInv == at = "idle" => changes = 0

(* Keys and rules hold no more of a chain than a key covers. *)
ChainRule(r) ==
  r[1] = "chain" /\ r[2] \in Seq(Exes) /\ Len(r[2]) <= MaxDepth

RuleInv ==
  /\ Len(keys.chain) <= MaxDepth
  /\ \A r \in rules : r = <<r[1], r[2]>> /\ (r[1] = "exe-only" \/ ChainRule(r))

HistoryInv == IInv /\ GoodTable(exe, parent) /\ WalkInv /\ EndInv /\ IdleInv /\ RuleInv

(* Where the walk stands, i is Climbed and n the limit of the loop. *)
LEMMA WalkStanding ==
  ASSUME IInv, at \in {"path", "parent"}, at = "parent" => chain # << >>
  PROVE  /\ Standing(chain, Climbed, ChainLimit) /\ Climbed \in Nat
         /\ ChainLimit - Climbed \in 1..ChainLimit /\ ChainLimit \in 1..ChainLimit
         /\ at = "path" => Climbed = Len(chain)
         /\ at = "parent" => Len(chain) = Climbed + 1
<1>1. chain \in Seq(Exes) /\ Len(chain) \in Nat /\ Len(chain) <= MaxDepth + 1 /\ MaxDepth \in Nat
  BY IdentityAssumption DEF IInv, TypeOK
<1>2. CASE at = "path"
  <2>1. Len(chain) <= MaxDepth /\ Climbed = Len(chain)
    BY <1>1, <1>2 DEF IInv, DepthInv, Climbed
  <2>2. QED
    BY <1>1, <1>2, <2>1 DEF Standing, ChainLimit
<1>3. CASE at = "parent"
  <2>1. Len(chain) >= 1 /\ Climbed = Len(chain) - 1
    BY <1>1, <1>3 DEF Climbed
  <2>2. QED
    BY <1>1, <1>3, <2>1 DEF Standing, ChainLimit
<1>4. QED
  BY <1>2, <1>3

(* What lies ahead of a process that runs is a walk that starts with it. *)
LEMMA AheadStarts ==
  ASSUME IInv, GoodTable(exe, parent), at \in {"path", "parent"},
         at = "parent" => chain # << >>, exe[current] # Unknown
  PROVE  /\ Ahead \in Seq(Exes) /\ Ahead # << >> /\ Len(Ahead) >= 1 /\ Ahead[1] = exe[current]
         /\ current = launchd \/ ChainLimit - Climbed = 1 => Len(Ahead) = 1
<1>1. current \in Pids /\ ChainLimit - Climbed \in 1..ChainLimit
  BY WalkStanding DEF IInv, TypeOK
<1>2. QED
  BY <1>1, AncestorsStart DEF Ahead

(* With no disturbance the process at hand runs, so that the walk cannot
   fail, and the walk returns the ancestry. *)
LEMMA FreshReturns ==
  ASSUME IInv, GoodTable(exe, parent), WalkInv, at \in {"path", "parent"}, changes = 0
  PROVE  /\ exe[current] # Unknown /\ exe[opener] # Unknown /\ Returns = Ancestry(opener)
         /\ past = {Ancestry(opener)}
<1>1. /\ Fresh(exe, parent, opener, chain, current, Climbed) /\ past = {Ancestry(opener)}
      /\ at = "parent" => chain # << >>
  BY DEF WalkInv
<1>2. opener \in Pids
  BY DEF IInv, TypeOK
<1>3. Standing(chain, Climbed, ChainLimit) /\ ChainLimit \in 1..ChainLimit
  BY <1>1, WalkStanding
<1>4. QED
  BY <1>1, <1>2, <1>3, FreshJoined DEF Returns, Ahead, Ancestry, Fresh

-----------------------------------------------------------------------------
(* A step of the processes while the walk is under way. *)
LEMMA ProcessesKeepWalk ==
  ASSUME HistoryInv, IInv', GoodTable(exe', parent'), Processes, UNCHANGED <<walk, rules>>, Notice,
         at \in {"path", "parent"}
  PROVE  WalkInv'
<1> DEFINE A == Ancestors(exe, parent, opener, ChainLimit)
           B == Ancestors(exe', parent', opener, ChainLimit)
           a == Ancestors(exe, parent, current, ChainLimit - Climbed)
           b == Ancestors(exe', parent', current, ChainLimit - Climbed)
           changed == B # A \/ b # a
<1>1. /\ IInv /\ GoodTable(exe, parent) /\ WalkInv
      /\ at = "parent" => current # launchd /\ chain # << >>
  BY DEF HistoryInv, WalkInv
<1>2. /\ at' = at /\ opener' = opener /\ current' = current /\ chain' = chain /\ Climbed' = Climbed
      /\ opener \in Pids /\ current \in Pids
  BY <1>1 DEF walk, Climbed, IInv, TypeOK
<1>3. /\ Standing(chain, Climbed, ChainLimit) /\ Climbed \in Nat
      /\ ChainLimit - Climbed \in 1..ChainLimit /\ ChainLimit \in 1..ChainLimit
  BY <1>1, WalkStanding
<1>4. /\ Ancestry(opener) = A /\ Ancestry(opener)' = B /\ Ahead = a /\ Ahead' = b
      /\ Returns = Joined(chain, a, Climbed) /\ Returns' = Joined(chain, b, Climbed)
  BY <1>2 DEF Ancestry, Ahead, Returns
<1>5. /\ exe[opener] # Unknown => A # << >>
      /\ exe[current] # Unknown => a # << >>
      /\ exe'[current] # Unknown => b # << >>
      /\ exe'[opener] = Unknown => B = << >>
      /\ exe[current] = Unknown => a = << >>
      /\ exe'[current] = Unknown => b = << >>
  <2>1. /\ exe[opener] # Unknown => A # << >>
        /\ exe[current] # Unknown => a # << >>
        /\ exe'[current] # Unknown => b # << >>
    BY <1>1, <1>2, <1>3, AncestorsStart
  <2>2. /\ exe'[opener] = Unknown => B = << >>
        /\ exe[current] = Unknown => a = << >>
        /\ exe'[current] = Unknown => b = << >>
    BY DEF Ancestors
  <2>3. QED
    BY <2>1, <2>2
<1>6. /\ ~changed => past' = past /\ changes' = changes
      /\ changed /\ changes = 0 => changes' = 1 /\ past' = past \cup {B}
      /\ changed /\ changes = 1 => changes' = 2
      /\ changes = 2 => changes' = 2
  BY <1>4 DEF Notice, Disturbed, ghosts
<1>7. SUFFICES /\ changes' = 0 => /\ Fresh(exe', parent', opener, chain, current, Climbed)
                                   /\ past' = {B}
               /\ changes' = 1 => \/ << >> \in past' \/ exe'[current] = Unknown
                                  \/ Joined(chain, b, Climbed) \in past'
  BY <1>1, <1>2, <1>4 DEF WalkInv
<1>8. CASE changes = 0
  <2>1. /\ exe[current] # Unknown /\ exe[opener] # Unknown /\ past = {A}
        /\ Fresh(exe, parent, opener, chain, current, Climbed)
    BY <1>1, <1>4, <1>8, FreshReturns DEF WalkInv
  <2>2. \/ Fresh(exe', parent', opener, chain, current, Climbed)
        \/ exe'[opener] = Unknown \/ exe'[current] = Unknown
        \/ Overtaken(exe, parent, exe', parent', opener, chain, current, Climbed, ChainLimit)
    BY <1>1, <1>2, <1>3, <2>1, ProcessesOvertake
  <2>3. CASE Fresh(exe', parent', opener, chain, current, Climbed)
    <3>1. Joined(chain, b, Climbed) = B
      BY <1>2, <1>3, <2>3, FreshJoined
    <3> HIDE DEF A, B, a, b
    <3>2. QED
      BY <1>6, <1>8, <2>1, <2>3, <3>1
  <2> HIDE DEF A, B, a, b
  <2>4. CASE exe'[opener] = Unknown
    BY <1>5, <1>6, <1>8, <2>1, <2>4
  <2>5. CASE exe'[current] = Unknown
    BY <1>5, <1>6, <1>8, <2>1, <2>5
  <2>6. CASE Overtaken(exe, parent, exe', parent', opener, chain, current, Climbed, ChainLimit)
    <3>1. Joined(chain, b, Climbed) = A /\ B # A
      BY <2>6 DEF Overtaken, A, B, b
    <3>2. QED
      BY <1>6, <1>8, <2>1, <3>1
  <2>7. QED
    BY <2>2, <2>3, <2>4, <2>5, <2>6
<1> HIDE DEF A, B, a, b
<1>9. CASE changes = 1
  <2>1. << >> \in past \/ exe[current] = Unknown \/ Joined(chain, a, Climbed) \in past
    BY <1>1, <1>4, <1>9 DEF WalkInv
  <2>2. CASE changed
    BY <1>6, <1>9, <2>2
  <2>3. CASE ~changed
    <3>1. past' = past /\ changes' = 1 /\ b = a
      BY <1>6, <1>9, <2>3
    <3>2. exe[current] = Unknown => exe'[current] = Unknown
      BY <1>5, <3>1
    <3>3. QED
      BY <2>1, <3>1, <3>2
  <2>4. QED
    BY <2>2, <2>3
<1>10. CASE changes = 2
  BY <1>6, <1>10
<1>11. QED
  BY <1>1, <1>8, <1>9, <1>10 DEF IInv, TypeOK
LEMMA KeyIsShort ==
  ASSUME NEW c \in Seq(Exes), NEW e
  PROVE  Len(Compute(c, e).chain) <= MaxDepth
<1> DEFINE n == IF Len(c) < MaxDepth THEN Len(c) ELSE MaxDepth
<1>1. n \in 0..Len(c) /\ n <= MaxDepth /\ n \in Nat
  BY IdentityAssumption
<1> HIDE DEF n
<1>2. Len(SubSeq(c, 1, n)) = n
  BY <1>1
<1>3. QED
  BY <1>1, <1>2 DEF Compute, Nearest, n

(* A walk that ends in error has been disturbed. *)
LEMMA FailKeepsHistory ==
  ASSUME HistoryInv, at \in {"path", "parent"}, current \notin Live, Fails, UNCHANGED ghosts
  PROVE  WalkInv' /\ EndInv' /\ IdleInv' /\ Len(keys'.chain) <= MaxDepth
<1>1. /\ IInv /\ GoodTable(exe, parent) /\ WalkInv /\ exe[current] = Unknown
      /\ changes' = changes /\ at' = "failed"
  BY DEF HistoryInv, Fails, ghosts, Live, IInv, TypeOK
<1>2. changes # 0
  BY <1>1, FreshReturns
<1>3. Len(keys'.chain) <= MaxDepth
  <2>1. CASE chain = << >>
    <3>1. keys' = Compute(<<evExe>>, evExe) /\ evExe \in Exes
      BY <1>1, <2>1 DEF Fails, IInv, OpenerInv
    <3>2. <<evExe>> \in Seq(Exes)
      BY <3>1
    <3>3. QED
      BY <3>1, <3>2, KeyIsShort
  <2>2. CASE chain # << >>
    BY <2>2 DEF Fails, HistoryInv, RuleInv
  <2>3. QED
    BY <2>1, <2>2
<1>4. QED
  BY <1>1, <1>2, <1>3 DEF WalkInv, EndInv, IdleInv, Ended

(* A walk that ends well returns what it was to return. *)
LEMMA ResolveKeepsHistory ==
  ASSUME HistoryInv, at \in {"path", "parent"}, exe[current] # Unknown, UNCHANGED ghosts,
         chain' \in Seq(Exes), chain' # << >>, Resolves(chain'), chain' = Returns
  PROVE  WalkInv' /\ EndInv' /\ IdleInv' /\ Len(keys'.chain) <= MaxDepth
<1>1. /\ IInv /\ GoodTable(exe, parent) /\ WalkInv
      /\ changes' = changes /\ past' = past /\ changes \in 0..2
      /\ at' = "resolved" /\ keys' = Compute(chain', chain'[1])
  BY DEF HistoryInv, Resolves, ghosts, IInv, TypeOK
<1>2. Len(keys'.chain) <= MaxDepth
  BY <1>1, KeyIsShort
<1>3. changes = 0 => past = {chain'}
  BY <1>1, FreshReturns
<1>4. changes = 1 => << >> \in past \/ chain' \in past
  BY <1>1 DEF WalkInv
<1>5. QED
  BY <1>1, <1>2, <1>3, <1>4 DEF WalkInv, EndInv, IdleInv, Ended

LEMMA ReadPathKeepsHistory ==
  ASSUME HistoryInv, IInv', ReadPath, UNCHANGED ghosts
  PROVE  WalkInv' /\ EndInv' /\ IdleInv' /\ Len(keys'.chain) <= MaxDepth
<1>1. /\ at = "path" /\ IInv /\ GoodTable(exe, parent) /\ WalkInv
      /\ exe' = exe /\ parent' = parent /\ opener' = opener /\ current' = current
      /\ changes' = changes /\ past' = past
      /\ chain \in Seq(Exes) /\ current \in Pids /\ opener \in Pids
  BY DEF HistoryInv, ReadPath, table, ghosts, IInv, TypeOK
<1>2. CASE current \notin Live
  <2>1. Fails
    BY <1>2 DEF ReadPath
  <2>2. QED
    BY <1>1, <1>2, <2>1, FailKeepsHistory
<1>3. CASE current \in Live
  <2>1. exe[current] # Unknown /\ exe[current] \in Exes /\ chain' = Append(chain, exe[current])
    BY <1>1, <1>3 DEF ReadPath, Live, IInv, TypeOK
  <2>2. /\ Ahead \in Seq(Exes) /\ Len(Ahead) >= 1 /\ Ahead[1] = exe[current]
        /\ current = launchd => Len(Ahead) = 1
    BY <1>1, <2>1, AheadStarts
  <2>3. Standing(chain, Climbed, ChainLimit) /\ Climbed = Len(chain) /\ Climbed \in Nat
    BY <1>1, WalkStanding
  <2>4. chain' \in Seq(Exes) /\ chain' # << >> /\ Len(chain') = Len(chain) + 1
    BY <1>1, <2>1
  <2>5. CASE current = launchd
    <3>1. Resolves(chain')
      BY <1>3, <2>5 DEF ReadPath
    <3>2. chain' = Returns
      BY <1>1, <2>1, <2>2, <2>3, <2>5, JoinedAtTop DEF Returns
    <3>3. QED
      BY <1>1, <2>1, <2>4, <3>1, <3>2, ResolveKeepsHistory
  <2>6. CASE current # launchd
    <3>1. at' = "parent" /\ keys' = keys
      BY <1>3, <2>6 DEF ReadPath
    <3>2. Climbed' = Climbed
      BY <2>3, <2>4, <3>1 DEF Climbed
    <3>3. Ahead' = Ahead
      BY <1>1, <3>2 DEF Ahead
    <3>4. Returns' = Returns
      BY <1>1, <2>1, <2>2, <2>3, <3>2, <3>3, JoinedWhenRead DEF Returns
    <3>5. changes = 0 => Fresh(exe, parent, opener, chain', current, Climbed)
      <4>1. SUFFICES ASSUME Fresh(exe, parent, opener, chain, current, Climbed)
                     PROVE  Fresh(exe, parent, opener, chain', current, Climbed)
        BY <1>1 DEF WalkInv
      <4>2. ASSUME NEW k \in 1..Len(chain') PROVE chain'[k] = exe[Climb(parent, opener)[k - 1]]
        <5>1. CASE k <= Len(chain)
          <6>1. k \in 1..Len(chain) /\ chain'[k] = chain[k]
            BY <1>1, <2>1, <2>4, <5>1
          <6>2. QED
            BY <4>1, <6>1 DEF Fresh
        <5>2. CASE k = Len(chain) + 1
          <6>1. chain'[k] = exe[current] /\ k - 1 = Climbed
            BY <1>1, <2>1, <2>3, <5>2
          <6>2. QED
            BY <4>1, <6>1 DEF Fresh
        <5>3. QED
          BY <1>1, <2>4, <5>1, <5>2
      <4>3. QED
        BY <4>1, <4>2 DEF Fresh
    <3>6. Ancestry(opener)' = Ancestry(opener)
      BY <1>1 DEF Ancestry
    <3>7. WalkInv'
      BY <1>1, <2>4, <2>6, <3>1, <3>2, <3>4, <3>5, <3>6 DEF WalkInv
    <3>8. QED
      BY <1>1, <3>1, <3>7 DEF HistoryInv, EndInv, IdleInv, RuleInv, Ended
  <2>7. QED
    BY <2>5, <2>6
<1>4. QED
  BY <1>2, <1>3

LEMMA ReadParentKeepsHistory ==
  ASSUME HistoryInv, IInv', ReadParent, UNCHANGED ghosts
  PROVE  WalkInv' /\ EndInv' /\ IdleInv' /\ Len(keys'.chain) <= MaxDepth
<1>1. /\ at = "parent" /\ IInv /\ GoodTable(exe, parent) /\ WalkInv
      /\ exe' = exe /\ parent' = parent /\ opener' = opener
      /\ changes' = changes /\ past' = past
      /\ chain \in Seq(Exes) /\ current \in Pids /\ opener \in Pids
  BY DEF HistoryInv, ReadParent, table, ghosts, IInv, TypeOK
<1>2. current # launchd /\ chain # << >> /\ parent \in [Pids -> Pids]
  BY <1>1 DEF WalkInv, GoodTable
<1>3. /\ Standing(chain, Climbed, ChainLimit) /\ Len(chain) = Climbed + 1
      /\ Climbed \in Nat /\ ChainLimit - Climbed \in 1..ChainLimit
  BY <1>1, <1>2, WalkStanding
<1>4. CASE current \notin Live
  <2>1. Fails
    BY <1>4 DEF ReadParent
  <2>2. QED
    BY <1>1, <1>4, <2>1, FailKeepsHistory
<1>5. ASSUME current \in Live
      PROVE  /\ exe[current] # Unknown /\ Ahead \in Seq(Exes)
             /\ ChainLimit - Climbed = 1 => Len(Ahead) = 1
  <2>1. exe[current] # Unknown
    BY <1>5 DEF Live
  <2>2. QED
    BY <1>1, <1>2, <2>1, AheadStarts
<1>6. CASE current \in Live /\ Len(chain) = ChainLimit
  <2>1. Resolves(chain) /\ chain' = chain
    BY <1>6 DEF ReadParent
  <2>2. Len(Ahead) = 1
    BY <1>3, <1>5, <1>6
  <2>3. Returns = chain
    BY <1>1, <1>3, <1>5, <1>6, <2>2, JoinedAtLimit DEF Returns
  <2>4. QED
    BY <1>1, <1>2, <1>5, <1>6, <2>1, <2>3, ResolveKeepsHistory
<1>7. CASE current \in Live /\ Len(chain) # ChainLimit
  <2>1. at' = "path" /\ current' = parent[current] /\ chain' = chain /\ keys' = keys
    BY <1>7 DEF ReadParent
  <2>2. Climbed' = Climbed + 1 /\ Climbed + 1 = Len(chain)
    BY <1>1, <1>3, <2>1 DEF Climbed
  <2> DEFINE n == ChainLimit - Climbed
             b == Ancestors(exe, parent, parent[current], n - 1)
  <2>3. n \in 2..ChainLimit /\ n - 1 \in 1..ChainLimit /\ ChainLimit - (Climbed + 1) = n - 1
    <3>1. n # 1
      BY <1>3, <1>7, LimitType
    <3>2. QED
      BY <1>3, <3>1, LimitType
  <2>4. Ahead = Joined(<<exe[current]>>, b, 1)
    BY <1>1, <1>2, <1>5, <1>7, <2>3, Unfold DEF Ahead
  <2>5. Ahead' = b
    BY <1>1, <2>1, <2>2, <2>3 DEF Ahead
  <2>6. b \in Seq(Exes)
    <3>1. parent[current] \in Pids /\ exe[parent[current]] # Unknown
      BY <1>1, <1>2 DEF GoodTable
    <3>2. QED
      BY <1>1, <2>3, <3>1, AncestorsStart
  <2> HIDE DEF b, n
  <2>7. Returns' = Returns
    BY <1>1, <1>3, <2>1, <2>2, <2>4, <2>5, <2>6, JoinedWhenClimbed DEF Returns
  <2>8. changes = 0 => Fresh(exe, parent, opener, chain, parent[current], Climbed + 1)
    <3>1. SUFFICES ASSUME Fresh(exe, parent, opener, chain, current, Climbed)
                   PROVE  Fresh(exe, parent, opener, chain, parent[current], Climbed + 1)
      BY <1>1 DEF WalkInv
    <3>2. Climbed + 1 \in 1..ChainLimit /\ (Climbed + 1) - 1 = Climbed
      BY <1>3, <2>3, LimitType DEF n
    <3>3. Climb(parent, opener)[Climbed + 1] = parent[Climb(parent, opener)[Climbed]]
      BY <1>1, <1>2, <3>2, ClimbIs
    <3>4. ASSUME NEW j \in 0..Climbed PROVE Climb(parent, opener)[j] # launchd
      BY <1>2, <1>3, <3>1 DEF Fresh
    <3>5. QED
      BY <3>1, <3>2, <3>3, <3>4 DEF Fresh
  <2>9. Ancestry(opener)' = Ancestry(opener)
    BY <1>1 DEF Ancestry
  <2>10. exe[current] # Unknown
    BY <1>5, <1>7
  <2>11. WalkInv'
    BY <1>1, <1>2, <2>1, <2>2, <2>7, <2>8, <2>9, <2>10 DEF WalkInv
  <2>12. QED
    BY <1>1, <2>1, <2>11 DEF HistoryInv, EndInv, IdleInv, RuleInv, Ended
<1>8. QED
  BY <1>4, <1>6, <1>7
LEMMA HistoryInit == Init => HistoryInv
<1> SUFFICES ASSUME Init PROVE HistoryInv
  OBVIOUS
<1>1. IInv
  BY InitHolds
<1>2. /\ exe \in [Pids -> Exes \cup {Unknown}] /\ exe[launchd] # Unknown
      /\ parent = [p \in Pids |-> launchd] /\ launchd \in Pids
  BY IdentityAssumption DEF Init
<1> DEFINE d == [p \in Pids |-> IF p = launchd THEN 0 ELSE 1]
<1>3. d \in [Pids -> Nat] /\ Ranks(d, parent)
  BY <1>2 DEF Ranks
<1> HIDE DEF d
<1>4. GoodTable(exe, parent)
  BY <1>2, <1>3 DEF GoodTable
<1>5. at = "idle" /\ changes = 0 /\ rules = {} /\ keys.chain = << >>
  BY DEF Init, NoKeys
<1>6. Len(keys.chain) <= MaxDepth
  BY <1>5, IdentityAssumption
<1>7. QED
  BY <1>1, <1>4, <1>5, <1>6 DEF HistoryInv, WalkInv, EndInv, IdleInv, RuleInv, Ended

LEMMA HistoryStep == HistoryInv /\ [Next]_vars => HistoryInv'
<1> SUFFICES ASSUME HistoryInv, [Next]_vars PROVE HistoryInv'
  OBVIOUS
<1>1. IInv' /\ IInv /\ GoodTable(exe, parent)
  BY IdentityStep DEF HistoryInv
<1>2. CASE UNCHANGED vars
  BY <1>1, <1>2 DEF vars, table, walk, ghosts, HistoryInv, WalkInv, EndInv, IdleInv, RuleInv,
                    Climbed, Ahead, Ancestry, Returns
<1>3. CASE Processes /\ UNCHANGED <<walk, rules>> /\ Notice
  <2>1. GoodTable(exe', parent')
    BY <1>1, <1>3, TableKept
  <2>2. at' = at /\ chain' = chain /\ keys' = keys /\ rules' = rules
    BY <1>3 DEF walk
  <2>3. RuleInv'
    BY <2>2 DEF HistoryInv, RuleInv, ChainRule
  <2>4. CASE at \in {"path", "parent"}
    <3>1. WalkInv'
      BY <1>1, <1>3, <2>1, <2>4, ProcessesKeepWalk
    <3>2. QED
      BY <1>1, <2>1, <2>2, <2>3, <2>4, <3>1 DEF HistoryInv, EndInv, IdleInv, Ended
  <2>5. CASE at \notin {"path", "parent"}
    <3>1. past' = past /\ changes' = changes
      BY <1>3, <2>5 DEF Notice, Disturbed, ghosts
    <3>2. QED
      BY <1>1, <2>1, <2>2, <2>3, <2>5, <3>1 DEF HistoryInv, WalkInv, EndInv, IdleInv
  <2>6. QED
    BY <2>4, <2>5
<1>4. ASSUME NEW p \in Pids, Begin(p), past' = {Ancestry(p)}, UNCHANGED changes PROVE HistoryInv'
  <2>1. /\ exe' = exe /\ parent' = parent /\ keys' = keys /\ rules' = rules
        /\ chain' = << >> /\ at' = "path" /\ opener' = p /\ current' = p
        /\ changes' = 0 /\ exe[p] # Unknown /\ p # launchd
    BY <1>1, <1>4 DEF Begin, table, Live, HistoryInv, IInv, DepthInv, IdleInv
  <2>2. Climbed' = 0
    BY <2>1 DEF Climbed
  <2>3. Climb(parent, p)[0] = p
    BY <1>1, ClimbIs DEF GoodTable
  <2>4. Fresh(exe, parent, p, << >>, p, 0)
    BY <2>1, <2>3 DEF Fresh
  <2>5. Ancestry(opener)' = Ancestry(p)
    BY <2>1 DEF Ancestry
  <2>6. WalkInv'
    BY <1>4, <2>1, <2>2, <2>4, <2>5 DEF WalkInv
  <2>7. RuleInv'
    BY <2>1 DEF HistoryInv, RuleInv, ChainRule
  <2>8. QED
    BY <1>1, <2>1, <2>6, <2>7 DEF HistoryInv, EndInv, IdleInv, Ended
<1>5. CASE (ReadPath \/ ReadParent) /\ UNCHANGED ghosts
  <2>1. WalkInv' /\ EndInv' /\ IdleInv' /\ Len(keys'.chain) <= MaxDepth
    BY <1>1, <1>5, ReadPathKeepsHistory, ReadParentKeepsHistory
  <2>2. exe' = exe /\ parent' = parent /\ rules' = rules
    BY <1>5 DEF ReadPath, ReadParent, table
  <2>3. RuleInv'
    BY <2>1, <2>2 DEF HistoryInv, RuleInv, ChainRule
  <2>4. QED
    BY <1>1, <2>1, <2>2, <2>3 DEF HistoryInv
<1>6. CASE Decide
  <2>1. /\ at' = "idle" /\ changes' = 0 /\ keys' = NoKeys
        /\ exe' = exe /\ parent' = parent
    BY <1>6 DEF Decide, table
  <2>2. keys'.chain = << >> /\ Len(<< >>) <= MaxDepth
    BY <2>1, IdentityAssumption DEF NoKeys
  <2>3. \A r \in RulesOf(keys) : r = <<r[1], r[2]>> /\ (r[1] = "exe-only" \/ ChainRule(r))
    BY <1>1 DEF RulesOf, ChainRule, HistoryInv, RuleInv, IInv, TypeOK
  <2>4. \A r \in rules' : r \in rules \/ r \in RulesOf(keys)
    BY <1>6 DEF Decide, Asked
  <2>5. RuleInv'
    BY <2>2, <2>3, <2>4 DEF HistoryInv, RuleInv, ChainRule
  <2>6. QED
    BY <1>1, <2>1, <2>5 DEF HistoryInv, WalkInv, EndInv, IdleInv, Ended
<1>7. QED
  BY <1>2, <1>3, <1>4, <1>5, <1>6 DEF Next

LEMMA HistoryHolds == Spec => []HistoryInv
BY HistoryInit, HistoryStep, PTL DEF Spec

(* The chain Resolve returns without an error is one the opener had since it
   opened the file, if one change met the walk at most: for any number of
   processes and any length of a key, whichever ancestor forks, execs or exits
   and at whichever of the system calls. *)
THEOREM ChangeIsSeen == Spec => []OneChangeSeen
<1>1. HistoryInv => OneChangeSeen
  BY DEF HistoryInv, EndInv, OneChangeSeen
<1>2. QED
  BY <1>1, HistoryHolds, PTL

(* A key is the first of the ancestry, and a rule holds no more than that. *)
LEMMA KeyIsFirst ==
  ASSUME NEW c \in Seq(Exes), NEW e
  PROVE  Compute(c, e).chain = FirstOf(c)
<1> DEFINE n == IF Len(c) < MaxDepth THEN Len(c) ELSE MaxDepth
<1>1. n \in 0..Len(c) /\ n \in Nat /\ {i \in DOMAIN c : i <= MaxDepth} = 1..n
  BY IdentityAssumption
<1> HIDE DEF n
<1>2. SubSeq(c, 1, n) = [i \in 1..n |-> c[i]]
  BY <1>1
<1>3. QED
  BY <1>1, <1>2 DEF Compute, Nearest, FirstOf, n

LEMMA ShortIsFirst ==
  ASSUME NEW c \in Seq(Exes), Len(c) <= MaxDepth
  PROVE  FirstOf(c) = c
<1>1. {i \in DOMAIN c : i <= MaxDepth} = 1..Len(c)
  BY IdentityAssumption
<1>2. c = [i \in 1..Len(c) |-> c[i]]
  OBVIOUS
<1>3. QED
  BY <1>1, <1>2 DEF FirstOf

(* A rule made of an "always" admits each later access of the same program,
   or by the same nearest ancestors, whose ancestry stays during the walk:
   the walk succeeds, and its key is the first of the ancestry (Compute). *)
THEOREM AlwaysIsKept == Spec => []AlwaysHolds
<1>1. ASSUME HistoryInv PROVE AlwaysHolds
  <2>1. SUFFICES ASSUME at \in Ended, changes = 0, NEW a \in past, NEW r \in rules,
                        \/ r[1] = "exe-only" /\ r[2] = a[1]
                        \/ r[1] = "chain" /\ FirstOf(r[2]) = FirstOf(a)
                 PROVE  Allowed
    BY DEF AlwaysHolds
  <2>2. a = chain /\ keys = Compute(chain, chain[1]) /\ chain \in Seq(Exes)
    BY <1>1, <2>1 DEF HistoryInv, EndInv, IInv, TypeOK
  <2>3. r = <<r[1], r[2]>> /\ (r[1] = "exe-only" \/ ChainRule(r))
    BY <1>1 DEF HistoryInv, RuleInv
  <2>4. CASE r[1] = "exe-only" /\ r[2] = a[1]
    <3>1. r = <<"exe-only", keys.exe>>
      BY <2>2, <2>3, <2>4 DEF Compute
    <3>2. QED
      BY <3>1 DEF Allowed, RulesOf
  <2>5. CASE r[1] = "chain" /\ FirstOf(r[2]) = FirstOf(a)
    <3>1. FirstOf(r[2]) = r[2]
      BY <2>3, <2>5, ShortIsFirst DEF ChainRule
    <3>2. keys.chain = FirstOf(chain)
      BY <2>2, KeyIsFirst
    <3>3. r = <<"chain", keys.chain>>
      BY <2>2, <2>3, <2>5, <3>1, <3>2
    <3>4. QED
      BY <3>3 DEF Allowed, RulesOf
  <2>6. QED
    BY <2>1, <2>4, <2>5
<1>2. QED
  BY <1>1, HistoryHolds, PTL
=============================================================================

--------------------------- MODULE MCPromptCycle ---------------------------
(* Two process chains of one program in one app read a file: they share
   "any launch" rules but not chain rules.  The second is longer than a
   readable chain, three names here, so that its app is not named. *)
EXTENDS PromptCycle, TLC

CONSTANTS i1, i2, c1, c2, e1, a1, sh

MCChainOf == [i \in Identities |-> IF i = i1 THEN c1 ELSE c2]
MCExeOf   == [i \in Identities |-> e1]

Entry(name, apps) == [base |-> name, bundles |-> apps]

MCAncestry ==
  [i \in Identities |->
     IF i = i1
     THEN <<Entry(e1, {}), Entry(a1, {a1}), Entry(Launchd, {})>>
     ELSE <<Entry(e1, {}), Entry(sh, {}), Entry(sh, {}), Entry(a1, {a1})>>]

MCAnswers ==
  {<<"allow", "once">>, <<"allow", "always-exe">>, <<"deny", "trust">>}

(* The app is trusted each time. *)
MCTrust == {<<"allow", "trust">>}

(* Neither process ever stops. *)
Steady == Init /\ [][Next /\ ~Stops /\ ~Restart]_vars

Symmetry == Permutations(Ids)
=============================================================================

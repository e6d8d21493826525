------------------------------- MODULE Policy -------------------------------
(***************************************************************************)
(* internal/config: the policy is a list of entries, each a glob and an    *)
(* action, and the names of trusted apps.  covers is the set of paths the  *)
(* glob matches; a process chain is the set of apps it runs through.       *)
(***************************************************************************)
EXTENDS Naturals, Sequences

Actions == {"prompt", "allow", "block"}

(* The first entry whose glob matches, if any. *)
FirstMatch(entries, path) ==
  LET hits == {n \in DOMAIN entries : path \in entries[n].covers}
  IN {n \in hits : \A k \in hits : n <= k}

(* The action and the glob, which serves as the file's category.  A token
   that is no action means "prompt"; no match means "ignore". *)
Matched(entries, path) ==
  LET hit == FirstMatch(entries, path)
      e   == entries[CHOOSE n \in hit : TRUE]
  IN IF hit = {} THEN <<"ignore", "none">>
     ELSE <<IF e.action \in {"allow", "block"} THEN e.action ELSE "prompt", e.glob>>

TrustsChain(apps, chain) == apps \cap chain # {}
=============================================================================

----------------------------- MODULE MCRuleBook -----------------------------
(* One path, one category, one chain and one executable make all four kinds
   of rule for a single access, and rules that match none because their key
   is of the other kind; each with or without an expiry date. *)
EXTENDS RuleBook, TLC
=============================================================================

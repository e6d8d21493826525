----------------------------- MODULE MCControl -----------------------------
(* One rule that comes and goes under one id, and two policies. *)
EXTENDS Control

CONSTANTS p1, c1

MCNewRules ==
  {[id |-> 0, file |-> p1, fkind |-> "path", ident |-> c1, ikind |-> "chain",
    verdict |-> "allow", expires |-> {}]}
=============================================================================

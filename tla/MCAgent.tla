------------------------------ MODULE MCAgent ------------------------------
(* Two connections at a time, and one rule that comes and goes under id 1. *)
EXTENDS Agent, TLC

CONSTANTS k1, k2, p1, c1

MCConns == {k1, k2}

MCRow == [id |-> 0, file |-> p1, fkind |-> "path", ident |-> c1, ikind |-> "chain",
          verdict |-> "allow", expires |-> {}]

(* Status asks of the agent what tail does, and list and an unknown tag what
   the revocation of a rule that is not there does. *)
MCRequests == k1 :> {AddCmd(MCRow), TailCmd} @@ k2 :> {RevokeCmd(1), Malformed}
=============================================================================

------------------------------ MODULE MCEngine ------------------------------
(* One file, opened for reading by one process or for writing only; rules of
   both kinds of identity and of both kinds of file; policies that differ in
   one part or in both, and two that match the file by different globs. *)
EXTENDS Engine, TLC

CONSTANTS p1, p2, a1, c1, e1, g1, g2

MCOpens ==
  {[path |-> p1, writeOnly |-> w, apps |-> {a1}, chain |-> c1, exe |-> e1] : w \in BOOLEAN}

Entry(g, paths, a) == [glob |-> g, covers |-> paths, action |-> a]

Prompts  == << Entry(g1, {p1, p2}, "prompt") >>
Narrowed == << Entry(g2, {p1}, "prompt"), Entry(g1, {p1, p2}, "allow") >>
Blocks   == << Entry(g2, {p1}, "block"), Entry(g1, {p1, p2}, "allow") >>
Ignores  == << Entry(g1, {p2}, "prompt") >>

MCPolicies ==
  {[entries |-> e, trusted |-> t] : e \in {Prompts, Blocks}, t \in {{}, {a1}}}
  \cup {[entries |-> e, trusted |-> {}] : e \in {Narrowed, Ignores}}

Rule(f, fk, i, ik, v) == [id |-> 0, file |-> f, fkind |-> fk, ident |-> i, ikind |-> ik,
                          verdict |-> v, expires |-> {}]

MCNewRules == {Rule(p1, "path", e1, "exe-only", "deny"), Rule(g1, "category", c1, "chain", "allow")}
=============================================================================

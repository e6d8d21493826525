---------------------------- MODULE PromptQueue ----------------------------
(***************************************************************************)
(* The helper's choice of the next prompt, helper/promptqueue.swift.  A    *)
(* request has an age, in units of the code's 30 s.                        *)
(***************************************************************************)
EXTENDS Integers

CONSTANT StaleAfter   \* the age beyond which a request is abandoned

Stale(requests) == {q \in requests : q.age > StaleAfter}

Oldest(requests) == {q \in requests : \A s \in requests : s.age <= q.age}

(* Mutant: shown ids are not remembered, an answer alone stops a request. *)
ShowUnanswered(requests, answered, presented, busy) ==
  IF busy THEN {}
  ELSE Oldest({q \in requests \ Stale(requests) : q.id \notin answered})

(* The request to show: the oldest that has no reply and was not shown;
   among requests of one age the random ids decide, so any of them. *)
Show(requests, answered, presented, busy) ==
  IF busy THEN {}
  ELSE Oldest({q \in requests \ Stale(requests) :
                 q.id \notin answered \cup presented})

Prune(presented, existing) == presented \cap existing
=============================================================================

------------------------------ MODULE AuthOpen ------------------------------
(***************************************************************************)
(* What the EndpointSecurity client promises the kernel about AUTH_OPEN    *)
(* messages, seen from the process that is blocked in open(2).  An open is *)
(* pending until it is settled, and it is settled once.  An open may be    *)
(* allowed at any time (the client fails open), but it is denied only when *)
(* the decision engine said so.                                            *)
(***************************************************************************)

CONSTANT Msgs          \* the opens of one history

VARIABLES status,      \* what the kernel holds for each open
          decided,     \* the engine's decision for each open, if any
          gone         \* TRUE once the client is deleted

avars == <<status, decided, gone>>

Verdicts == {"allow", "deny"}
Status   == {"unopened", "waiting", "rejected", "detached"} \cup Verdicts

TypeOK ==
  /\ status \in [Msgs -> Status]
  /\ decided \in [Msgs -> Verdicts \cup {"none"}]
  /\ gone \in BOOLEAN

Init ==
  /\ status = [m \in Msgs |-> "unopened"]
  /\ decided = [m \in Msgs |-> "none"]
  /\ gone = FALSE

(* A process opens a file: the kernel blocks it and asks the client. *)
Open(m) ==
  /\ ~gone
  /\ status[m] = "unopened"
  /\ status' = [status EXCEPT ![m] = "waiting"]
  /\ UNCHANGED <<decided, gone>>

(* The engine reaches a decision; whether it arrives in time is another matter. *)
Decide(m, v) ==
  /\ decided[m] = "none"
  /\ status[m] # "unopened"
  /\ decided' = [decided EXCEPT ![m] = v]
  /\ UNCHANGED <<status, gone>>

(* The open is settled: allowed by default or by decision, denied by
   decision only, or rejected by the framework. *)
Settle(m) ==
  /\ ~gone
  /\ status[m] = "waiting"
  /\ \E s \in {"allow", "deny", "rejected"} :
        /\ s = "deny" => decided[m] = "deny"
        /\ status' = [status EXCEPT ![m] = s]
  /\ UNCHANGED <<decided, gone>>

(* The client is deleted: the kernel stops waiting for it. *)
Detach ==
  /\ ~gone
  /\ gone' = TRUE
  /\ status' = [m \in Msgs |-> IF status[m] = "waiting" THEN "detached" ELSE status[m]]
  /\ UNCHANGED decided

Next ==
  \/ \E m \in Msgs : Open(m) \/ Settle(m) \/ \E v \in Verdicts : Decide(m, v)
  \/ Detach

Safety == Init /\ [][Next]_avars

(* No open is left pending for ever while the client lives. *)
Fairness == \A m \in Msgs : WF_avars(Settle(m))

Spec == Safety /\ Fairness
=============================================================================

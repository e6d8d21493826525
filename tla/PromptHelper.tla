---------------------------- MODULE PromptHelper ----------------------------
(***************************************************************************)
(* The menu-bar helper's prompting, helper/main.swift: a scan of the spool *)
(* directory every 0.3 s on a work queue, and one modal dialog at a time   *)
(* on the main thread.                                                     *)
(***************************************************************************)
EXTENDS SpoolDir, PromptQueue, TrustedApps

CONSTANTS Ancestry,  \* identity -> the executables of its chain, reader first
          Answers    \* the answers the user gives: <<decision, scope>> pairs

ASSUME PromptHelperAssumption ==
  /\ DOMAIN Ancestry = Identities
  /\ \A i \in Identities : Ancestry[i] \in Seq({Ancestry[i][k] : k \in DOMAIN Ancestry[i]})
  /\ Answers \subseteq Decisions \X (Scopes \cup {"trust"})

VARIABLES helperUp,     \* the helper runs
          beat,         \* its heartbeat file is fresh
          presented,    \* ids it has shown (presentedIDs)
          presenting,   \* the gate of the work queue
          modal,        \* the dialog on the main thread, if any
          policyFile    \* policy.json: the document in it, if it parses

helperVars == <<helperUp, beat, presented, presenting, modal, policyFile>>

AppNames == UNION {ResponsibleApp(Ancestry[i]) : i \in Identities}

(* Of a policy only that there is one is kept: Paths are under its "prompt"
   globs, and under the default's. *)
PolicyDoc == [globs: BOOLEAN, apps: SUBSET AppNames]

AtMostOne(S) == {{}} \cup {{x} : x \in S}

(* The main thread: the dialog waits, writes policy.json, has written it,
   writes the reply. *)
Dialog == [id: Ids, about: Subjects,
           stage: {"open", "trusting", "trusted", "replying"},
           saves: AtMostOne(PolicyDoc)]

HelperInit ==
  /\ helperUp = FALSE /\ beat = FALSE
  /\ presented = {} /\ presenting = FALSE /\ modal = {}
  /\ policyFile = {[globs |-> TRUE, apps |-> {}]}

(* Mutant: the stale requests are not reaped while a modal is up. *)
ReapWhenFree(requests) == IF presenting THEN requests ELSE requests \ Stale(requests)

(* The request files a scan leaves; shown counts the dialogs of each. *)
Reap(requests) == requests \ Stale(requests)

ShownOnce(q) == [q EXCEPT !.shown = q.shown + 1]

(* scan: abandoned requests are removed, answered or not and modal or not;
   ids whose file was gone when the scan began are forgotten; then at most
   one request is shown. *)
Scan ==
  LET show == Show(reqs, IdsOf(replies), presented, presenting)
      kept == Prune(presented, IdsOf(reqs))
  IN /\ helperUp
     /\ IF show = {}
        THEN /\ reqs' = Reap(reqs)
             /\ presented' = kept
             /\ UNCHANGED <<presenting, modal>>
        ELSE \E q \in show :
               /\ reqs' = (Reap(reqs) \ {q}) \cup {ShownOnce(q)}
               /\ presented' = kept \cup {q.id}
               /\ presenting' = TRUE
               /\ modal' = modal \cup {[id |-> q.id, about |-> q.about,
                                        stage |-> "open", saves |-> {}]}
     /\ UNCHANGED <<replies, helperUp, beat, policyFile>>

(* The entry of the menu that trusts an app is there when an app is. *)
Offered(d) == ResponsibleApp(Ancestry[d.about.ident])

(* The reply file exists before its bytes. *)
BeginReply(d, decision, scope) ==
  /\ replies' = Without(replies, d.id) \cup
                  {[id |-> d.id, about |-> d.about, decision |-> decision,
                    scope |-> scope, whole |-> FALSE]}
  /\ modal' = (modal \ {d}) \cup {[d EXCEPT !.stage = "replying"]}
  /\ UNCHANGED <<reqs, helperUp, beat, presented, presenting, policyFile>>

(* The user answers.  The trust entry means nothing with Deny, and its index
   is clamped to the entry before it. *)
Answer(d, decision, choice) ==
  /\ d.stage = "open"
  /\ choice = "trust" => decision = "deny" /\ Offered(d) # {}
  /\ BeginReply(d, decision, IF choice = "trust" THEN "always" ELSE choice)

(* The document addTrustedApp writes; a file that does not parse counts as
   one without a policy. *)
Appended(apps) ==
  [globs |-> \E doc \in policyFile : doc.globs,
   apps  |-> apps \cup (UNION {doc.apps : doc \in policyFile})]

(* Or he trusts the app: policy.json is read, truncated... *)
TrustApp(d) ==
  /\ d.stage = "open" /\ <<"allow", "trust">> \in Answers /\ Offered(d) # {}
  /\ policyFile' = {}
  /\ modal' = (modal \ {d}) \cup
                {[d EXCEPT !.stage = "trusting", !.saves = {Appended(Offered(d))}]}
  /\ UNCHANGED <<reqs, replies, helperUp, beat, presented, presenting>>

(* ... and written; then the reply allows the access "once". *)
SaveTrust(d) ==
  /\ d.stage = "trusting"
  /\ policyFile' = d.saves
  /\ modal' = (modal \ {d}) \cup {[d EXCEPT !.stage = "trusted", !.saves = {}]}
  /\ UNCHANGED <<reqs, replies, helperUp, beat, presented, presenting>>

ReplyTrusted(d) == d.stage = "trusted" /\ BeginReply(d, "allow", "once")

(* The bytes arrive, in the file if it still has its name, and the dialog
   is closed. *)
FinishWrite(d) ==
  /\ d.stage = "replying"
  /\ replies' = {IF f.id = d.id THEN [f EXCEPT !.whole = TRUE] ELSE f : f \in replies}
  /\ modal' = modal \ {d}
  /\ UNCHANGED <<reqs, helperUp, beat, presented, presenting, policyFile>>

(* The deferred block releases the gate on the work queue. *)
GateOpens ==
  /\ presenting /\ modal = {}
  /\ presenting' = FALSE
  /\ UNCHANGED <<reqs, replies, helperUp, beat, presented, modal, policyFile>>

(* The user quits the helper, or it crashes, dialog and all... *)
HelperStops ==
  /\ helperUp
  /\ helperUp' = FALSE
  /\ presented' = {} /\ presenting' = FALSE /\ modal' = {}
  /\ UNCHANGED <<reqs, replies, beat, policyFile>>

(* ... launchd starts it again (KeepAlive); it touches its heartbeat file
   at once and then every 2 s ... *)
HelperStarts ==
  /\ ~helperUp
  /\ helperUp' = TRUE /\ beat' = TRUE
  /\ reqs' = {[q EXCEPT !.shown = 0] : q \in reqs}
  /\ UNCHANGED <<replies, presented, presenting, modal, policyFile>>

(* ... and 6 s without it make the extension stop asking. *)
HeartbeatLapses ==
  /\ ~helperUp /\ beat
  /\ beat' = FALSE
  /\ UNCHANGED <<reqs, replies, helperUp, presented, presenting, modal, policyFile>>
=============================================================================

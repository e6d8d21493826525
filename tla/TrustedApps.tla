---------------------------- MODULE TrustedApps ----------------------------
(***************************************************************************)
(* Which app a prompt offers to trust, and whom the engine trusts then: a  *)
(* name goes from a process ancestry through its readable form and         *)
(* trusted_apps back to an ancestry.  An entry of an ancestry has a base   *)
(* name and lies in the bundles of some apps ("/<app>.app/"); names are    *)
(* equal up to case.                                                       *)
(***************************************************************************)
EXTENDS Integers, Sequences

CONSTANTS MaxDepth,   \* entries a readable chain names, 8 in the agent
          Launchd,    \* the name of pid 1
          Ellipsis    \* what stands for the rest of a longer chain

ASSUME TrustedAppsAssumption == MaxDepth \in Nat /\ Ellipsis # Launchd

(* The names the helper is sent. *)
HumanChain(chain) ==
  [k \in {j \in DOMAIN chain : j <= MaxDepth + 1} |->
     IF k > MaxDepth THEN Ellipsis ELSE chain[k].base]

(* The outermost name but launchd; none when there is no other. *)
ResponsibleApp(chain) ==
  LET names == HumanChain(chain) IN
  {names[k] : k \in {j \in DOMAIN names :
                       /\ names[j] # Launchd
                       /\ \A l \in DOMAIN names : l > j => names[l] = Launchd}}

(* The engine goes by base names and bundles, of every entry. *)
TrustsChain(apps, chain) ==
  \E k \in DOMAIN chain : chain[k].base \in apps \/ chain[k].bundles \cap apps # {}
=============================================================================

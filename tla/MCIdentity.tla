---------------------------- MODULE MCIdentity ----------------------------
(* Three processes under launchd and keys of two: chains shorter than a key,
   of its length, of what the walk reads, and longer. *)
EXTENDS Identity, TLC

Symmetry == Permutations(Pids \ {launchd}) \cup Permutations(Exes)
=============================================================================

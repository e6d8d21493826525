------------------------------ MODULE MCEsGlue ------------------------------
(* Two messages and a channel of one: while the loop decides, or has yet to
   take the first, the second finds the queue free, full, or is the loop's
   own open. *)
EXTENDS EsGlue, TLC
=============================================================================

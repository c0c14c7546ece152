---------------------------- MODULE MCServiceMain ----------------------------
(***************************************************************************)
(* Three calls, a queue of two spans and batches of one: the queue can be  *)
(* full, and the shutdown has more than one batch to export.  Calls are    *)
(* alike, but liveness is checked, so there is no symmetry.                *)
(***************************************************************************)
EXTENDS ServiceMain
=============================================================================

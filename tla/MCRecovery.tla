----------------------------- MODULE MCRecovery -----------------------------
(***************************************************************************)
(* Two tasks that meet two troubles each.                                   *)
(***************************************************************************)
EXTENDS Recovery

CONSTANTS t1, t2
=============================================================================

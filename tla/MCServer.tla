------------------------------ MODULE MCServer ------------------------------
(***************************************************************************)
(* A client with two files and a live stream.                               *)
(***************************************************************************)
EXTENDS Server

CONSTANTS s1, a, b, cam
=============================================================================

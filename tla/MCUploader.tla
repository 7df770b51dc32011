----------------------------- MODULE MCUploader -----------------------------
(***************************************************************************)
(* A small client for TLC.  "a" is an mp4 of two segments with a keyframe   *)
(* at each; "b" is a generic file of one.                                   *)
(***************************************************************************)
EXTENDS Uploader

CONSTANTS a, b, s1

MCFiles == {a, b}
MCChunks == [f \in MCFiles |-> IF f = a THEN 2 ELSE 1]
MCKeyframes == [f \in MCFiles |-> IF f = a THEN {0, 1} ELSE {0}]
MCGeneric == {b}
MCRequestSeeks == {None, 1}
MCCommandSeeks == {1, 9}
=============================================================================

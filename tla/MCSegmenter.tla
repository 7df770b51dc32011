---------------------------- MODULE MCSegmenter ----------------------------
(***************************************************************************)
(* A file in a few chunks: one that fills half a segment, one that is       *)
(* larger than a segment may be, one that is larger than the buffer, and    *)
(* empty ones.                                                              *)
(***************************************************************************)
EXTENDS Segmenter

ChunkSizes == {0, 300 * 1024, 6 * 1024 * 1024, 50 * 1024 * 1024 + 1}

=============================================================================

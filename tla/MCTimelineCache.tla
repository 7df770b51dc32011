-------------------------- MODULE MCTimelineCache ---------------------------
(***************************************************************************)
(* Two videos, with a timeline file each: the cache is full with either.    *)
(***************************************************************************)
EXTENDS TimelineCache

CONSTANTS small, large, smallPath, largePath

MCTimelinePath == [v \in {small, large} |-> IF v = large THEN largePath ELSE smallPath]
MCSize == [v \in {small, large} |-> IF v = large THEN 2 ELSE 1]
=============================================================================

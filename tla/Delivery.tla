------------------------------ MODULE Delivery ------------------------------
(***************************************************************************)
(* What a stream of video promises: the items a producer makes, numbered    *)
(* in the order they were made, reach the other side at most once and in    *)
(* that order, some may be missing, and an open stream is closed some day.  *)
(* The live streams (LiveStream) and the segment stream of a file           *)
(* (Segmenter) are shown to implement it.                                   *)
(***************************************************************************)
EXTENDS Naturals, Sequences

CONSTANT Streams

VARIABLES
    produced,   \* stream -> how many items were made
    delivered,  \* stream -> the items that reached the other side, in that order
    phase       \* stream -> "waiting", "open" or "closed"

vars == <<produced, delivered, phase>>

Init ==
    /\ produced = [s \in Streams |-> 0]
    /\ delivered = [s \in Streams |-> <<>>]
    /\ phase = [s \in Streams |-> "waiting"]

Open(s) ==
    /\ phase[s] = "waiting"
    /\ phase' = [phase EXCEPT ![s] = "open"]
    /\ UNCHANGED <<produced, delivered>>

Produce(s) ==
    /\ produced' = [produced EXCEPT ![s] = @ + 1]
    /\ UNCHANGED <<delivered, phase>>

Ascending(items) == \A i, j \in DOMAIN items : i < j => items[i] < items[j]

\* What extends the items before by newer ones, none of them from the future.
Extends(after, before, last) ==
    /\ Len(before) < Len(after)
    /\ SubSeq(after, 1, Len(before)) = before
    /\ \A i \in DOMAIN after : after[i] \in 1 .. last
    /\ Ascending(after)

\* What is delivered may be made in the same step.
Deliver(s) ==
    /\ phase[s] = "open"
    /\ \E last \in {produced[s], produced[s] + 1} :
          /\ produced' = [produced EXCEPT ![s] = last]
          /\ Extends(delivered'[s], delivered[s], last)
    /\ delivered' = [delivered EXCEPT ![s] = delivered'[s]]
    /\ UNCHANGED phase

Close(s) ==
    /\ phase[s] = "open"
    /\ phase' = [phase EXCEPT ![s] = "closed"]
    /\ UNCHANGED <<produced, delivered>>

Next == \E s \in Streams : Open(s) \/ Produce(s) \/ Deliver(s) \/ Close(s)

Spec == Init /\ [][Next]_vars /\ \A s \in Streams : WF_vars(Close(s))

=============================================================================

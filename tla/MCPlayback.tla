----------------------------- MODULE MCPlayback -----------------------------
(***************************************************************************)
(* Files of many key frames at even distances, with start codes at the ends *)
(* of the reader's buffers; and one small file that was segmented in every  *)
(* way, in order or with its first two segments exchanged.                  *)
(***************************************************************************)
EXTENDS Playback

Even(count, gap, bytes) ==
    [size |-> count * gap + 10,
     start_codes |-> {[offset |-> i * gap, bytes |-> bytes] : i \in 0 .. count - 1}]

\* A code in the last five, six or seven bytes of a buffer, or of the file.
AtTheEnd(buffer, back) ==
    [size |-> buffer + 2000,
     start_codes |-> {[offset |-> 100, bytes |-> 4],
                      [offset |-> buffer - back, bytes |-> 4],
                      [offset |-> buffer + 2000 - back, bytes |-> 3]}]

\* More codes in the first buffer than an Adaptive index takes, then one in each.
ManyThenFew ==
    [size |-> 61 * 98304,
     start_codes |-> {[offset |-> i * 1500, bytes |-> 3] : i \in 0 .. 64}
                     \cup {[offset |-> i * 98304, bytes |-> 3] : i \in 1 .. 60}]

Files ==
    {Even(0, 0, 3), Even(1, 5000, 4), Even(35, 7000, 3), Even(40, 2000, 4), ManyThenFew}
    \cup {AtTheEnd(65536, back) : back \in 4 .. 7}

InOrder(keys) == [i \in DOMAIN keys |-> [timestamp |-> (i - 1) * 5, is_key_frame |-> keys[i]]]

Exchanged(segments) ==
    [segments EXCEPT ![1].timestamp = segments[2].timestamp,
                     ![2].timestamp = segments[1].timestamp]

Segmentations ==
    LET ordered == {InOrder(keys) : keys \in [1 .. 6 -> BOOLEAN]} IN
    ordered \cup {Exchanged(InOrder(keys)) : keys \in [1 .. 3 -> BOOLEAN]}

OneSegment == <<[timestamp |-> 0, is_key_frame |-> TRUE]>>

AllVideos ==
    {[file |-> f, segments |-> OneSegment] : f \in Files}
    \cup {[file |-> Even(1, 5000, 3), segments |-> s] : s \in Segmentations}

=============================================================================

----------------------------- MODULE Segmenter ------------------------------
(***************************************************************************)
(* SegmentingStream (src/src/segmenter.rs): the chunks of a file become     *)
(* segments of about half a megabyte.                                       *)
(*                                                                         *)
(* Its owner polls it until it ends, and goes on after an error, as the     *)
(* upload manager does.  Between two polls the owner may adjust it to the   *)
(* network, save a checkpoint, or drop it and go on from the checkpoint     *)
(* with the rest of the input; a checkpoint does not say where in the input *)
(* it was taken.  One poll runs a loop of three steps, recover, create and  *)
(* input, until it has an item to return.                                   *)
(*                                                                         *)
(* Chunks are known by their number and their size in bytes.  A timestamp   *)
(* is counted in frames (the code divides it by frame_rate).  What nobody   *)
(* reads is left out: modes, the positions and texts of errors, the private *)
(* copy of a checkpoint.  The input is external; when it has nothing yet,   *)
(* the poll ends and a later one begins again from the first step.          *)
(***************************************************************************)
EXTENDS Integers, FiniteSets, SequencesExt

CONSTANTS
    None,        \* the Rust None
    Sizes,       \* sizes of chunks, 0 for an empty one
    Targets,     \* the target_size the options may begin with, or None
    MaxChunks,   \* bound: chunks of the input
    MaxCalls     \* bound: how often the owner adjusts or resumes the stream

ASSUME SegmenterOK ==
    /\ None \notin Nat
    /\ Sizes \subseteq Nat
    /\ Targets \subseteq Nat \cup {None}
    /\ MaxChunks \in Nat /\ MaxCalls \in Nat

VARIABLES
    at,           \* "new", a step of poll_next, "ready" after a poll, "ended"
    buffer,       \* the chunks in the buffer
    counters,     \* current_timestamp, segment_counter and frame_counter
    error_log,    \* the errors: their type and whether recovery was attempted
    recovery_mode,
    target_size,  \* options.target_size
    checkpoint,   \* what the CheckpointManager keeps, or None
    size,         \* chunk -> its size; as many as were taken from the input
    input,        \* "open", "over" when it has returned None
    segments,     \* history: the segments returned
    lost,         \* history: chunks that left the buffer, or never reached it
    adjusts,      \* how often the stream was adjusted
    resumes,      \* how often it was resumed
    stale         \* history: it was resumed from before its last segment

stream == <<buffer, counters, error_log, recovery_mode>>
vars == <<at, stream, target_size, checkpoint, size, input, segments, lost, adjusts, resumes, stale>>

SegmentSize == 512 * 1024            \* target_segment_size
SegmentLimit == 5 * 1024 * 1024      \* of create_current_segment
BufferLimit == 50 * 1024 * 1024      \* of poll_next

ErrorTypes == {"BufferOverflow", "EncodingError", "Recovery"}

Counters == [current_timestamp : Nat, segment_counter : Nat, frame_counter : Nat]

Init ==
    /\ at = "new"
    /\ buffer = <<>>
    /\ counters = [current_timestamp |-> 0, segment_counter |-> 0, frame_counter |-> 0]
    /\ error_log = <<>>
    /\ recovery_mode = FALSE
    /\ target_size \in Targets
    /\ checkpoint = None
    /\ size = <<>>
    /\ input = "open"
    /\ segments = <<>>
    /\ lost = {}
    /\ adjusts = 0 /\ resumes = 0 /\ stale = FALSE

BufferSize(chunks) == FoldSeq(LAMBDA c, sum : sum + size[c], 0, chunks)

\* A frame per KB, of a buffer that is not empty.
EstimatedFrames(bytes) == Max({bytes \div 1024, 1})

Recorded(log, type) == Append(log, [error_type |-> type, recovery_attempted |-> FALSE])

ownerUnchanged == <<target_size, checkpoint, adjusts, resumes, stale>>

-----------------------------------------------------------------------------
(* The owner, between two polls. *)

BetweenPolls == at \in {"new", "ready"}
MayCall == BetweenPolls /\ adjusts + resumes < MaxCalls

Poll ==
    /\ BetweenPolls
    /\ at' = "recover"
    /\ UNCHANGED <<stream, size, input, segments, lost, ownerUnchanged>>

\* adjust_for_network_conditions: high, medium or low bandwidth.
AdjustForNetworkConditions ==
    /\ MayCall
    /\ adjusts' = adjusts + 1
    /\ \E kilobytes \in {1024, 512, 256} : target_size' = kilobytes * 1024
    /\ UNCHANGED <<at, stream, checkpoint, size, input, segments, lost, resumes, stale>>

\* create_checkpoint and save_checkpoint: what is in the buffer is not in it.
SaveCheckpoint ==
    /\ MayCall
    /\ checkpoint' = [counters |-> counters, error_log |-> error_log]
    /\ UNCHANGED <<at, stream, target_size, size, input, segments, lost, adjusts, resumes, stale>>

\* Mutant of Resume: the last segment is numbered again.
ResumeOneBack ==
    /\ MayCall
    /\ checkpoint # None
    /\ resumes' = resumes + 1
    /\ buffer' = <<>>
    /\ counters' = [checkpoint.counters EXCEPT !.segment_counter = @ - 1]
    /\ error_log' = checkpoint.error_log
    /\ recovery_mode' = TRUE
    /\ lost' = lost \cup ToSet(buffer)
    /\ UNCHANGED <<at, target_size, checkpoint, size, input, segments, adjusts, stale>>

\* load_checkpoint and from_checkpoint, with the rest of the input.
Resume ==
    /\ MayCall
    /\ checkpoint # None
    /\ resumes' = resumes + 1
    /\ buffer' = <<>>
    /\ counters' = checkpoint.counters
    /\ error_log' = checkpoint.error_log
    /\ recovery_mode' = TRUE
    /\ lost' = lost \cup ToSet(buffer)
    /\ stale' = (stale \/ checkpoint.counters.segment_counter # counters.segment_counter)
    /\ UNCHANGED <<at, target_size, checkpoint, size, input, segments, adjusts>>

-----------------------------------------------------------------------------
(* create_current_segment *)

TooLarge(bytes) == bytes > SegmentLimit

\* Mutant of CreateCurrentSegment: the buffer is not cleared.
CreateSegmentKeepingBuffer(chunks, bytes, frame_counter) ==
    /\ segments' = Append(segments,
           [chunks      |-> chunks,
            segment_id  |-> counters.segment_counter,
            timestamp   |-> counters.current_timestamp,
            start_frame |-> frame_counter - EstimatedFrames(bytes),
            end_frame   |-> frame_counter])
    /\ counters' = [current_timestamp |-> counters.current_timestamp + EstimatedFrames(bytes),
                    segment_counter   |-> counters.segment_counter + 1,
                    frame_counter     |-> frame_counter]
    /\ buffer' = chunks
    /\ at' = "ready"

\* Mutant of CreateCurrentSegment: the time goes on to where the frames are.
CreateSegmentAtFrames(chunks, bytes, frame_counter) ==
    /\ segments' = Append(segments,
           [chunks      |-> chunks,
            segment_id  |-> counters.segment_counter,
            timestamp   |-> counters.current_timestamp,
            start_frame |-> frame_counter - EstimatedFrames(bytes),
            end_frame   |-> frame_counter])
    /\ counters' = [current_timestamp |-> frame_counter,
                    segment_counter   |-> counters.segment_counter + 1,
                    frame_counter     |-> frame_counter]
    /\ buffer' = <<>>
    /\ at' = "ready"

\* The chunks, of so many bytes, become a segment, the buffer is cleared and the
\* poll returns.
CreateCurrentSegment(chunks, bytes, frame_counter) ==
    LET frames == EstimatedFrames(bytes) IN
    /\ segments' = Append(segments,
           [chunks      |-> chunks,
            segment_id  |-> counters.segment_counter,
            timestamp   |-> counters.current_timestamp,
            start_frame |-> frame_counter - frames,
            end_frame   |-> frame_counter])
    /\ counters' = [current_timestamp |-> counters.current_timestamp + frames,
                    segment_counter   |-> counters.segment_counter + 1,
                    frame_counter     |-> frame_counter]
    /\ buffer' = <<>>
    /\ at' = "ready"

\* The buffer stays: once more around the loop, later an error is returned.
CreationFails(log) ==
    /\ error_log' = Recorded(log, "BufferOverflow")
    /\ recovery_mode' = TRUE
    /\ at' = IF recovery_mode THEN "ready" ELSE "recover"
    /\ UNCHANGED segments

\* The outcome of either, of the chunks that are in the buffer by now.
CreateOrFail(chunks, bytes, frame_counter, log) ==
    \/ /\ ~TooLarge(bytes)
       /\ CreateCurrentSegment(chunks, bytes, frame_counter)
       /\ error_log' = log
       /\ UNCHANGED recovery_mode
    \/ /\ TooLarge(bytes)
       /\ CreationFails(log)
       /\ buffer' = chunks
       /\ counters' = [counters EXCEPT !.frame_counter = frame_counter]

-----------------------------------------------------------------------------
(* poll_next *)

\* The unrecovered ones of the last five errors.
NeedsRecovery ==
    LET n == Len(error_log) IN
    Cardinality({i \in 1 .. n : i > n - 5 /\ ~error_log[i].recovery_attempted}) > 2

\* The oldest error is recovered from, whatever has happened since: after an
\* overflow the buffer is cleared.  The other types change nothing.
AttemptRecovery ==
    LET i == SelectInSeq(error_log, LAMBDA e : ~e.recovery_attempted)
        marked == [error_log EXCEPT ![i].recovery_attempted = TRUE]
    IN \/ /\ error_log[i].error_type = "BufferOverflow"
          /\ buffer' = <<>>
          /\ lost' = lost \cup ToSet(buffer)
          /\ error_log' = Recorded(marked, "Recovery")
       \/ /\ error_log[i].error_type # "BufferOverflow"
          /\ error_log' = marked
          /\ UNCHANGED <<buffer, lost>>

RecoverStep ==
    /\ at = "recover"
    /\ at' = "create"
    /\ \/ NeedsRecovery /\ AttemptRecovery
       \/ ~NeedsRecovery /\ UNCHANGED <<buffer, error_log, lost>>
    /\ UNCHANGED <<counters, recovery_mode, size, input, segments, ownerUnchanged>>

\* should_create_segment and what follows it.
CreateStep ==
    /\ at = "create"
    /\ \/ /\ BufferSize(buffer) < SegmentSize
          /\ at' = "input"
          /\ UNCHANGED <<stream, segments>>
       \/ /\ BufferSize(buffer) >= SegmentSize
          /\ CreateOrFail(buffer, BufferSize(buffer), counters.frame_counter, error_log)
    /\ UNCHANGED <<size, input, lost, ownerUnchanged>>

\* The input has nothing yet.
Pending ==
    /\ at = "input"
    /\ input = "open"
    /\ at' = "ready"
    /\ UNCHANGED <<stream, size, input, segments, lost, ownerUnchanged>>

Chunk == Len(size) + 1

Take(bytes) ==
    /\ at = "input"
    /\ input = "open"
    /\ Len(size) < MaxChunks
    /\ size' = Append(size, bytes)
    /\ UNCHANGED <<input, ownerUnchanged>>

EmptyChunk ==
    /\ 0 \in Sizes
    /\ Take(0)
    /\ error_log' = Recorded(error_log, "EncodingError")
    /\ at' = "recover"
    /\ UNCHANGED <<buffer, counters, recovery_mode, segments, lost>>

Overflows(bytes) == BufferSize(buffer) + bytes > BufferLimit

\* The buffer is returned as a segment, and the chunk is not kept.
DropChunk == \E bytes \in Sizes :
    /\ Overflows(bytes) /\ buffer # <<>>
    /\ Take(bytes)
    /\ CreateCurrentSegment(buffer, BufferSize(buffer), counters.frame_counter)
    /\ error_log' = Recorded(error_log, "BufferOverflow")
    /\ lost' = lost \cup {Chunk}
    /\ UNCHANGED recovery_mode

TargetReached(bytes) == target_size # None /\ bytes >= target_size

\* A chunk that is too large by itself is logged and kept.  frame_counter grows
\* by the whole buffer every time.
AppendChunk == \E bytes \in Sizes \ {0} :
    LET total == BufferSize(buffer) + bytes
        frame_counter == counters.frame_counter + EstimatedFrames(total)
        log == IF Overflows(bytes) THEN Recorded(error_log, "BufferOverflow") ELSE error_log
        appended == Append(buffer, Chunk)
    IN
    /\ Overflows(bytes) => buffer = <<>>
    /\ Take(bytes)
    /\ \/ /\ ~TargetReached(total)
          /\ buffer' = appended
          /\ counters' = [counters EXCEPT !.frame_counter = frame_counter]
          /\ error_log' = log
          /\ at' = "recover"
          /\ UNCHANGED <<recovery_mode, segments>>
       \/ /\ TargetReached(total)
          /\ CreateOrFail(appended, total, frame_counter, log)
    /\ UNCHANGED lost

\* Mutant of EndOfInput: the stream does not say that it ended.
EndOfInputUnsaid ==
    /\ at = "input"
    /\ input' = "over"
    /\ \/ /\ buffer # <<>>
          /\ CreateOrFail(buffer, BufferSize(buffer), counters.frame_counter, error_log)
       \/ /\ buffer = <<>>
          /\ at' = "ready"
          /\ UNCHANGED <<stream, segments>>
    /\ UNCHANGED <<size, lost, ownerUnchanged>>

\* The last segment is what the buffer holds; the next poll ends the stream.
EndOfInput ==
    /\ at = "input"
    /\ input' = "over"
    /\ \/ /\ buffer # <<>>
          /\ CreateOrFail(buffer, BufferSize(buffer), counters.frame_counter, error_log)
       \/ /\ buffer = <<>>
          /\ at' = "ended"
          /\ UNCHANGED <<stream, segments>>
    /\ UNCHANGED <<size, lost, ownerUnchanged>>

InputStep == EmptyChunk \/ DropChunk \/ AppendChunk \/ EndOfInput

Next ==
    \/ Poll \/ AdjustForNetworkConditions \/ SaveCheckpoint \/ Resume
    \/ RecoverStep \/ CreateStep \/ Pending \/ InputStep

\* The owner polls until the stream ends, and the input delivers or ends one day.
Fairness ==
    /\ WF_vars(Poll) /\ WF_vars(RecoverStep) /\ WF_vars(CreateStep)
    /\ SF_vars(InputStep)

Spec == Init /\ [][Next]_vars /\ Fairness

-----------------------------------------------------------------------------
(* Properties. *)

TypeOK ==
    /\ at \in {"new", "recover", "create", "input", "ready", "ended"}
    /\ buffer \in Seq(1 .. Len(size))
    /\ counters \in Counters
    /\ error_log \in Seq([error_type : ErrorTypes, recovery_attempted : BOOLEAN])
    /\ recovery_mode \in BOOLEAN
    /\ target_size \in Nat \cup {None}
    /\ checkpoint = None \/ checkpoint.counters \in Counters
    /\ size \in Seq(Sizes)
    /\ input \in {"open", "over"}
    /\ segments \in Seq([chunks : Seq(1 .. Len(size)), segment_id : Nat,
                         timestamp : Nat, start_frame : Nat, end_frame : Nat])
    /\ lost \subseteq 1 .. Len(size)
    /\ adjusts + resumes \in 0 .. MaxCalls /\ stale \in BOOLEAN

Delivered == FlattenSeq([i \in DOMAIN segments |-> segments[i].chunks])

Oversized(c) == size[c] > SegmentLimit - SegmentSize

\* Every chunk with data is in one place: in the buffer, in a segment, or lost.
\* None is lost unless the owner went on from a checkpoint or some chunk was
\* larger than a segment may grow; then the errors of that one clear the buffer
\* again and again.  A segment is never larger than its limit, and a stream that
\* ended kept nothing back (segmenter.rs:658-669, 907-926, 949-963).
ChunksAccounted ==
    LET delivered == ToSet(Delivered)
        kept == ToSet(buffer)
    IN
    /\ delivered \cup kept \cup lost = {c \in DOMAIN size : size[c] # 0}
    /\ delivered \cap kept = {} /\ (delivered \cup kept) \cap lost = {}
    /\ lost # {} => resumes > 0 \/ \E c \in DOMAIN size : Oversized(c)
    /\ \A i \in DOMAIN segments : ~TooLarge(BufferSize(segments[i].chunks))
    /\ at = "ended" => kept = {}

\* Segments are numbered from 0, the timestamp of each is where the one before
\* ended, and no frame belongs to two of them: the frames of a cleared buffer are
\* counted but their time is not.  A stream that went on from a checkpoint older
\* than its last segment repeats numbers and times (segmenter.rs:572-592, 831-835).
SegmentsInLine ==
    ~stale => \A i \in DOMAIN segments :
        LET s == segments[i] IN
        /\ s.segment_id = i - 1
        /\ s.timestamp <= s.start_frame /\ s.start_frame < s.end_frame
        /\ i = 1 => s.timestamp = 0
        /\ i > 1 =>
              LET before == segments[i - 1] IN
              /\ s.timestamp = before.timestamp + (before.end_frame - before.start_frame)
              /\ before.end_frame <= s.start_frame

Phase ==
    CASE at = "new" -> "waiting"
      [] at = "ended" -> "closed"
      [] OTHER -> "open"

File == INSTANCE Delivery WITH
    Streams <- {"file"},
    produced <- [f \in {"file"} |-> Len(size)],
    delivered <- [f \in {"file"} |-> Delivered],
    phase <- [f \in {"file"} |-> Phase]

\* A segmented file keeps what Delivery promises: its chunks come out at most
\* once and in their order, and the polls come to an end also when every one of
\* them only returns an error (segmenter.rs:854-966).
Delivers == File!Spec

=============================================================================

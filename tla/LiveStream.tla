----------------------------- MODULE LiveStream -----------------------------
(***************************************************************************)
(* A live stream from the screen to the platform: the encoder               *)
(* (src/src/live_encoder.rs) and the transmission loop that                 *)
(* start_live_stream spawns (src/src/on_demand_uploader.rs).                *)
(*                                                                         *)
(* The processor of platform messages handles StartLive and StopLive one    *)
(* after the other.  Every StartLive makes an encoder of its own, whose     *)
(* task reads what FFmpeg writes and puts it, chunk by chunk, into a        *)
(* bounded channel, and a loop that takes chunks from the channel and       *)
(* sends each on a stream of its own.  The tasks of one stream share the    *)
(* flag is_encoding; streams share nothing but the processor.               *)
(*                                                                         *)
(* A chunk is known by the number FFmpeg's output gave it; a timestamp is   *)
(* counted in frames (the code divides it by fps).  FFmpeg, the screen and  *)
(* the transport are external.  An elapsed time is counted in ticks.  The   *)
(* sleeps of the loop only delay it, last_activity only logs, statistics    *)
(* are left out.                                                            *)
(***************************************************************************)
EXTENDS Integers, Sequences, FiniteSets

CONSTANTS
    Lives,          \* the StartLive commands, in the order they arrive
    Fps,            \* the fps a command may ask for
    Intervals,      \* the keyframe_interval a command may ask for
    ChannelSize,    \* 1000 in the code
    MaxDuration,    \* 30 seconds in the code, in ticks
    MaxChunks,      \* bound: chunks FFmpeg writes
    MaxStops        \* bound: StopLive commands

ASSUME LiveOK ==
    /\ Lives \subseteq Nat
    /\ Fps \subseteq Nat /\ Intervals \subseteq Nat
    /\ ChannelSize \in Nat \ {0} /\ MaxDuration \in Nat /\ MaxChunks \in Nat
    /\ MaxStops \in Nat

VARIABLES
    processor,    \* "running", or "panicked": the task of process_platform_messages
    loop,         \* stream -> where its transmission loop is
    interval,     \* stream -> keyframe_interval of its quality
    is_encoding,  \* stream -> EncodingState.is_encoding
    encoder,      \* stream -> where its ffmpeg_encoding_loop is
    frames,       \* stream -> EncodingState.frames_encoded
    channel,      \* stream -> the chunks in its channel
    frame_count,  \* stream -> TimestampGenerator.frame_count
    segment,      \* stream -> the segment its loop is sending, or NoSegment
    elapsed,      \* stream -> start_time.elapsed() of its loop
    sent,         \* history: stream -> the segments the transport took
    failed,       \* history: stream -> the chunks the transport refused
    stops         \* history: how many StopLive commands were handled

vars == <<processor, loop, interval, is_encoding, encoder, frames,
          channel, frame_count, segment, elapsed, sent, failed, stops>>

encoderVars == <<encoder, frames>>
history == <<sent, failed, stops>>

LoopStates == {"none", "top", "send", "stop", "abort", "done", "panicked"}

\* "wait" is child.wait() after the loop, "over" the end or the abort of the task.
EncoderStates == {"none", "spawn", "check", "read", "put", "wait", "over"}

LiveSegment == [timestamp : Nat, chunk : Nat, is_key_frame : BOOLEAN]
NoSegment == [timestamp |-> 0, chunk |-> 0, is_key_frame |-> FALSE]

Init ==
    /\ processor = "running"
    /\ loop = [l \in Lives |-> "none"]
    /\ interval = [l \in Lives |-> 0]
    /\ is_encoding = [l \in Lives |-> FALSE]
    /\ encoder = [l \in Lives |-> "none"]
    /\ frames = [l \in Lives |-> 0]
    /\ channel = [l \in Lives |-> <<>>]
    /\ frame_count = [l \in Lives |-> 0]
    /\ segment = [l \in Lives |-> NoSegment]
    /\ elapsed = [l \in Lives |-> 0]
    /\ sent = [l \in Lives |-> <<>>]
    /\ failed = [l \in Lives |-> {}]
    /\ stops = 0

-----------------------------------------------------------------------------
(* The processor. *)

\* Streams are started in the order of their commands.
NextLive(l) ==
    /\ processor = "running"
    /\ loop[l] = "none"
    /\ \A k \in Lives : k < l => loop[k] # "none"

\* 1000 / fps: the encoder is not made, the task of the processor ends.
DivideByFps(l) ==
    /\ NextLive(l)
    /\ 0 \in Fps
    /\ processor' = "panicked"
    /\ UNCHANGED <<loop, interval, is_encoding, encoder, frames,
                   channel, frame_count, segment, elapsed, history>>

\* start_encoding and the two tasks.  The generator starts at frame 0.
StartLive(l) ==
    /\ NextLive(l)
    /\ Fps \ {0} # {}
    /\ \E k \in Intervals : interval' = [interval EXCEPT ![l] = k]
    /\ loop' = [loop EXCEPT ![l] = "top"]
    /\ is_encoding' = [is_encoding EXCEPT ![l] = TRUE]
    /\ encoder' = [encoder EXCEPT ![l] = "spawn"]
    /\ UNCHANGED <<processor, frames, channel, frame_count, segment, elapsed, history>>

\* stop_live_stream logs and returns.
StopLive(l) ==
    /\ processor = "running"
    /\ loop[l] # "none"
    /\ stops < MaxStops
    /\ stops' = stops + 1
    /\ UNCHANGED <<processor, loop, interval, is_encoding, encoderVars,
                   channel, frame_count, segment, elapsed, sent, failed>>

-----------------------------------------------------------------------------
(* ffmpeg_encoding_loop: what FFmpeg does decides how a read or a wait ends. *)

EncoderUnchanged == UNCHANGED <<processor, loop, interval, is_encoding,
                                frame_count, segment, elapsed, history>>

\* The command may not start; nobody is told, and is_encoding stays.
SpawnFFmpeg(l) ==
    /\ encoder[l] = "spawn"
    /\ \E next \in {"check", "over"} : encoder' = [encoder EXCEPT ![l] = next]
    /\ UNCHANGED <<frames, channel>>
    /\ EncoderUnchanged

CheckEncoding(l) ==
    /\ encoder[l] = "check"
    /\ encoder' = [encoder EXCEPT ![l] = IF is_encoding[l] THEN "read" ELSE "wait"]
    /\ UNCHANGED <<frames, channel>>
    /\ EncoderUnchanged

ReadChunk(l) ==
    /\ encoder[l] = "read"
    /\ frames[l] < MaxChunks
    /\ frames' = [frames EXCEPT ![l] = @ + 1]
    /\ encoder' = [encoder EXCEPT ![l] = "put"]
    /\ UNCHANGED channel
    /\ EncoderUnchanged

\* EOF or an error: the loop ends, is_encoding stays.
ReadEnds(l) ==
    /\ encoder[l] = "read"
    /\ encoder' = [encoder EXCEPT ![l] = "wait"]
    /\ UNCHANGED <<frames, channel>>
    /\ EncoderUnchanged

\* Mutant of PutChunk: a full channel drops the chunk.
PutChunkOrDrop(l) ==
    /\ encoder[l] = "put"
    /\ channel' = IF Len(channel[l]) < ChannelSize
                  THEN [channel EXCEPT ![l] = Append(@, frames[l])] ELSE channel
    /\ encoder' = [encoder EXCEPT ![l] = "check"]
    /\ UNCHANGED frames
    /\ EncoderUnchanged

\* sender.send waits for room and fails when the receiver is gone.
PutChunk(l) ==
    /\ encoder[l] = "put"
    /\ \/ /\ loop[l] # "panicked"
          /\ Len(channel[l]) < ChannelSize
          /\ channel' = [channel EXCEPT ![l] = Append(@, frames[l])]
          /\ encoder' = [encoder EXCEPT ![l] = "check"]
       \/ /\ loop[l] = "panicked"
          /\ encoder' = [encoder EXCEPT ![l] = "wait"]
          /\ UNCHANGED channel
    /\ UNCHANGED frames
    /\ EncoderUnchanged

\* child.wait(): nobody reads FFmpeg's output any more, it may never exit.
ChildExited(l) ==
    /\ encoder[l] = "wait"
    /\ encoder' = [encoder EXCEPT ![l] = "over"]
    /\ UNCHANGED <<frames, channel>>
    /\ EncoderUnchanged

EncoderStep(l) ==
    \/ SpawnFFmpeg(l) \/ CheckEncoding(l) \/ ReadChunk(l) \/ ReadEnds(l)
    \/ PutChunk(l) \/ ChildExited(l)

-----------------------------------------------------------------------------
(* live_stream_transmission_loop. *)

LoopUnchanged == UNCHANGED <<processor, interval, stops>>

Goto(l, state) == loop' = [loop EXCEPT ![l] = state]

TopOfLoop(l) ==
    /\ loop[l] = "top"
    /\ elapsed[l] > MaxDuration \/ ~is_encoding[l]
    /\ Goto(l, "stop")
    /\ UNCHANGED <<is_encoding, encoderVars, channel, frame_count, segment, elapsed, sent, failed>>
    /\ LoopUnchanged

MayTake(l) ==
    /\ loop[l] = "top"
    /\ elapsed[l] <= MaxDuration
    /\ is_encoding[l]
    /\ channel[l] # <<>>

\* Mutant of CreateVideoSegment: the time before the chunk before.
CreateVideoSegmentEarly(l, n, data) ==
    [timestamp |-> n - 2, chunk |-> data, is_key_frame |-> n % interval[l] = 1]

\* create_video_segment, for the n-th chunk taken.
CreateVideoSegment(l, n, data) ==
    [timestamp |-> n - 1, chunk |-> data, is_key_frame |-> n % interval[l] = 1]

\* get_next_segment: a chunk is taken out of the channel and stamped.
TakeSegment(l) ==
    /\ MayTake(l)
    /\ interval[l] # 0
    /\ frame_count' = [frame_count EXCEPT ![l] = @ + 1]
    /\ segment' = [segment EXCEPT
                     ![l] = CreateVideoSegment(l, frame_count[l] + 1, Head(channel[l]))]
    /\ channel' = [channel EXCEPT ![l] = Tail(@)]
    /\ Goto(l, "send")
    /\ UNCHANGED <<is_encoding, encoderVars, elapsed, sent, failed>>
    /\ LoopUnchanged

\* frame_count % keyframe_interval: the task of the loop ends and drops the
\* receiver; nobody aborts the encoder.
ModuloByInterval(l) ==
    /\ MayTake(l)
    /\ interval[l] = 0
    /\ frame_count' = [frame_count EXCEPT ![l] = @ + 1]
    /\ channel' = [channel EXCEPT ![l] = <<>>]
    /\ Goto(l, "panicked")
    /\ UNCHANGED <<is_encoding, encoderVars, segment, elapsed, sent, failed>>
    /\ LoopUnchanged

\* Mutant of SendSegment: a segment that went out may be sent once more.
SendSegmentTwice(l) ==
    /\ loop[l] = "send"
    /\ sent' = [sent EXCEPT ![l] = Append(@, segment[l])]
    /\ \E next \in {"top", "send"} : Goto(l, next)
    /\ UNCHANGED <<is_encoding, encoderVars, channel, frame_count, segment, elapsed, failed>>
    /\ LoopUnchanged

\* A segment the transport refuses is skipped.
SendSegment(l) ==
    /\ loop[l] = "send"
    /\ \/ /\ sent' = [sent EXCEPT ![l] = Append(@, segment[l])]
          /\ UNCHANGED failed
       \/ /\ failed' = [failed EXCEPT ![l] = @ \cup {segment[l].chunk}]
          /\ UNCHANGED sent
    /\ segment' = [segment EXCEPT ![l] = NoSegment]
    /\ Goto(l, "top")
    /\ UNCHANGED <<is_encoding, encoderVars, channel, frame_count, elapsed>>
    /\ LoopUnchanged

\* stop_encoding: the flag first, then the task and the channel.
ClearEncoding(l) ==
    /\ loop[l] = "stop"
    /\ is_encoding' = [is_encoding EXCEPT ![l] = FALSE]
    /\ Goto(l, "abort")
    /\ UNCHANGED <<encoderVars, channel, frame_count, segment, elapsed, sent, failed>>
    /\ LoopUnchanged

\* Mutant of AbortEncoder: only the channel is dropped.
DropChannel(l) ==
    /\ loop[l] = "abort"
    /\ channel' = [channel EXCEPT ![l] = <<>>]
    /\ Goto(l, "done")
    /\ UNCHANGED <<is_encoding, encoderVars, frame_count, segment, elapsed, sent, failed>>
    /\ LoopUnchanged

AbortEncoder(l) ==
    /\ loop[l] = "abort"
    /\ encoder' = [encoder EXCEPT ![l] = "over"]
    /\ channel' = [channel EXCEPT ![l] = <<>>]
    /\ Goto(l, "done")
    /\ UNCHANGED <<is_encoding, frames, frame_count, segment, elapsed, sent, failed>>
    /\ LoopUnchanged

LoopStep(l) ==
    \/ TopOfLoop(l) \/ TakeSegment(l) \/ ModuloByInterval(l) \/ SendSegment(l)
    \/ ClearEncoding(l) \/ AbortEncoder(l)

\* Time passes; after the limit is exceeded it does not matter how much.
Tick(l) ==
    /\ loop[l] \notin {"none", "done", "panicked"}
    /\ elapsed[l] <= MaxDuration
    /\ elapsed' = [elapsed EXCEPT ![l] = @ + 1]
    /\ UNCHANGED <<processor, loop, interval, is_encoding, encoderVars, channel,
                   frame_count, segment, history>>

Next == \E l \in Lives :
    \/ DivideByFps(l) \/ StartLive(l) \/ StopLive(l)
    \/ EncoderStep(l) \/ LoopStep(l) \/ Tick(l)

\* The tasks are scheduled, time passes, and a send ends one way or the other.
Fairness == \A l \in Lives : WF_vars(LoopStep(l)) /\ WF_vars(Tick(l))

Spec == Init /\ [][Next]_vars /\ Fairness

-----------------------------------------------------------------------------
(* Properties. *)

TypeOK ==
    /\ processor \in {"running", "panicked"}
    /\ loop \in [Lives -> LoopStates]
    /\ interval \in [Lives -> Intervals \cup {0}]
    /\ is_encoding \in [Lives -> BOOLEAN]
    /\ encoder \in [Lives -> EncoderStates]
    /\ frames \in [Lives -> Nat]
    /\ channel \in [Lives -> Seq(Nat)]
    /\ frame_count \in [Lives -> Nat]
    /\ segment \in [Lives -> LiveSegment]
    /\ elapsed \in [Lives -> 0 .. MaxDuration + 1]
    /\ sent \in [Lives -> Seq(LiveSegment)]
    /\ failed \in [Lives -> SUBSET Nat]
    /\ stops \in 0 .. MaxStops

\* The chunks the transport took, in that order.
SentChunks(l) == [i \in DOMAIN sent[l] |-> sent[l][i].chunk]

\* What the loop is busy with.
InHand(l) == IF loop[l] = "send" THEN {segment[l].chunk} ELSE {}

\* Nothing is lost between the encoder and the transport while a stream runs:
\* every chunk taken from the channel was sent, refused by the transport or is
\* in the loop's hand, and the rest is in the channel.  The timestamp of a sent
\* segment counts all the chunks before it, those that were refused as well
\* (live_encoder.rs:182-189, 386, 431-434, on_demand_uploader.rs:1980-2004).
GapsAreFailedSends ==
    \A l \in Lives :
        LET out == {SentChunks(l)[i] : i \in DOMAIN sent[l]} IN
        /\ out \cup failed[l] \cup InHand(l)
              = 1 .. (frame_count[l] - IF loop[l] = "panicked" THEN 1 ELSE 0)
        /\ out \cap failed[l] = {}
        /\ loop[l] \notin {"none", "done", "panicked"} =>
              frames[l] = frame_count[l] + Len(channel[l])
                            + IF encoder[l] = "put" THEN 1 ELSE 0
        /\ \A i \in DOMAIN sent[l] : sent[l][i].timestamp = sent[l][i].chunk - 1

\* A stream that came to its end left nothing behind, whatever FFmpeg was doing
\* when it ended: its encoder is gone, even one that waited for room in the
\* channel or for FFmpeg's exit, the flag is cleared and no chunk is held.  The
\* exception is a loop that panicked at its first chunk: nobody aborts its
\* encoder and the flag stays, but no chunk is held or was sent
\* (live_encoder.rs:158-164, 315-375, 429, on_demand_uploader.rs:2026-2030).
EndedStreamsLeaveNothing ==
    \A l \in Lives :
        /\ loop[l] = "done" => encoder[l] = "over" /\ ~is_encoding[l] /\ channel[l] = <<>>
        /\ loop[l] = "panicked" => interval[l] = 0 /\ sent[l] = <<>> /\ channel[l] = <<>>

\* The stream, as the platform sees it.
Phase(l) ==
    CASE loop[l] = "none" -> "waiting"
      [] loop[l] \in {"done", "panicked"} -> "closed"
      [] OTHER -> "open"

Stream == INSTANCE Delivery WITH
    Streams <- Lives,
    produced <- frames,
    delivered <- [l \in Lives |-> SentChunks(l)],
    phase <- [l \in Lives |-> Phase(l)]

\* Every live stream keeps what Delivery promises: chunks reach the platform at
\* most once and in their order, and a stream that was started comes to an end,
\* whatever FFmpeg and the transport do (on_demand_uploader.rs:1949-2031).
Delivers == Stream!Spec

=============================================================================

-------------------------- MODULE LiveStreamProofs --------------------------
(***************************************************************************)
(* Theorems about live streams, for any number of them, any channel, limit  *)
(* and bounds, whatever fps and keyframe intervals the platform asks for.   *)
(***************************************************************************)
EXTENDS LiveStream, SequenceTheorems, TLAPS

(***************************************************************************)
(* Types.                                                                  *)
(***************************************************************************)

\* The segment made of a chunk is one, and its time is that of the chunk.
LEMMA SegmentMade ==
    ASSUME NEW l, NEW n \in Nat, NEW data \in Nat
    PROVE  /\ CreateVideoSegment(l, n + 1, data) \in LiveSegment
           /\ CreateVideoSegment(l, n + 1, data).chunk = data
           /\ CreateVideoSegment(l, n + 1, data).timestamp = n
  BY DEF CreateVideoSegment, LiveSegment

LEMMA TypeInit == Init => TypeOK
  BY LiveOK DEF Init, TypeOK, LoopStates, EncoderStates, NoSegment, LiveSegment

LEMMA TypeProcessor ==
    ASSUME TypeOK, NEW l \in Lives, DivideByFps(l) \/ StartLive(l) \/ StopLive(l)
    PROVE  TypeOK'
<1>1. CASE DivideByFps(l)
  BY <1>1 DEF DivideByFps, TypeOK, history
<1>2. CASE StartLive(l)
  BY <1>2 DEF StartLive, TypeOK, history, LoopStates, EncoderStates
<1>3. CASE StopLive(l)
  <2>1. stops + 1 \in 0 .. MaxStops
    BY <1>3, LiveOK DEF StopLive, TypeOK
  <2> QED
    BY <1>3, <2>1 DEF StopLive, TypeOK, encoderVars
<1> QED
  BY <1>1, <1>2, <1>3

LEMMA TypeEncoder ==
    ASSUME TypeOK, NEW l \in Lives, EncoderStep(l)
    PROVE  TypeOK'
<1>1. CASE SpawnFFmpeg(l) \/ CheckEncoding(l) \/ ReadEnds(l) \/ ChildExited(l)
  BY <1>1 DEF SpawnFFmpeg, CheckEncoding, ReadEnds, ChildExited, EncoderUnchanged, history,
              TypeOK, EncoderStates
<1>2. CASE ReadChunk(l)
  BY <1>2 DEF ReadChunk, EncoderUnchanged, history, TypeOK, EncoderStates
<1>3. CASE PutChunk(l)
  <2>1. channel[l] \in Seq(Nat) /\ frames[l] \in Nat
    BY DEF TypeOK
  <2>2. channel' \in [Lives -> Seq(Nat)]
    <3>1. Append(channel[l], frames[l]) \in Seq(Nat)
      BY <2>1
    <3>2. CASE channel' = [channel EXCEPT ![l] = Append(@, frames[l])]
      BY <3>1, <3>2 DEF TypeOK
    <3> QED
      BY <1>3, <3>2 DEF PutChunk, TypeOK
  <2>3. encoder' \in [Lives -> EncoderStates]
    BY <1>3 DEF PutChunk, TypeOK, EncoderStates
  <2> QED
    BY <1>3, <2>2, <2>3 DEF PutChunk, EncoderUnchanged, history, TypeOK
<1> QED
  BY <1>1, <1>2, <1>3 DEF EncoderStep

LEMMA TypeLoop ==
    ASSUME TypeOK, NEW l \in Lives, LoopStep(l)
    PROVE  TypeOK'
<1>1. CASE TopOfLoop(l) \/ ClearEncoding(l)
  BY <1>1 DEF TopOfLoop, ClearEncoding, Goto, LoopUnchanged, encoderVars, TypeOK, LoopStates
<1>5. CASE AbortEncoder(l)
  <2>1. <<>> \in Seq(Nat)
    OBVIOUS
  <2> QED
    BY <1>5, <2>1 DEF AbortEncoder, Goto, LoopUnchanged, TypeOK, LoopStates, EncoderStates
<1>2. CASE TakeSegment(l)
  <2>1. channel[l] \in Seq(Nat) /\ channel[l] # <<>> /\ frame_count[l] \in Nat
    BY <1>2 DEF TakeSegment, MayTake, TypeOK
  <2>2. CreateVideoSegment(l, frame_count[l] + 1, Head(channel[l])) \in LiveSegment
    BY <2>1, SegmentMade
  <2>3. segment' \in [Lives -> LiveSegment] /\ channel' \in [Lives -> Seq(Nat)]
    BY <1>2, <2>1, <2>2 DEF TakeSegment, TypeOK
  <2> QED
    BY <1>2, <2>3 DEF TakeSegment, Goto, LoopUnchanged, encoderVars, TypeOK, LoopStates
<1>3. CASE ModuloByInterval(l)
  BY <1>3 DEF ModuloByInterval, Goto, LoopUnchanged, encoderVars, TypeOK, LoopStates
<1>4. CASE SendSegment(l)
  <2>1. NoSegment \in LiveSegment /\ segment[l] \in LiveSegment /\ segment[l].chunk \in Nat
    BY DEF NoSegment, LiveSegment, TypeOK
  <2>2. sent' \in [Lives -> Seq(LiveSegment)] /\ failed' \in [Lives -> SUBSET Nat]
    <3>1. sent[l] \in Seq(LiveSegment) /\ failed[l] \in SUBSET Nat
      BY DEF TypeOK
    <3>2. Append(sent[l], segment[l]) \in Seq(LiveSegment)
          /\ failed[l] \cup {segment[l].chunk} \in SUBSET Nat
      BY <2>1, <3>1
    <3>3. CASE sent' = [sent EXCEPT ![l] = Append(@, segment[l])] /\ failed' = failed
      BY <3>2, <3>3 DEF TypeOK
    <3>4. CASE failed' = [failed EXCEPT ![l] = @ \cup {segment[l].chunk}] /\ sent' = sent
      BY <3>2, <3>4 DEF TypeOK
    <3> QED
      BY <1>4, <3>3, <3>4 DEF SendSegment
  <2> QED
    BY <1>4, <2>1, <2>2 DEF SendSegment, Goto, LoopUnchanged, encoderVars, TypeOK, LoopStates
<1> QED
  BY <1>1, <1>2, <1>3, <1>4, <1>5 DEF LoopStep

LEMMA TypeNext == ASSUME TypeOK, [Next]_vars PROVE TypeOK'
<1>1. CASE UNCHANGED vars
  BY <1>1 DEF vars, TypeOK
<1>2. ASSUME NEW l \in Lives, Tick(l) PROVE TypeOK'
  <2>1. elapsed[l] + 1 \in 0 .. MaxDuration + 1
    BY <1>2, LiveOK DEF Tick, TypeOK
  <2> QED
    BY <1>2, <2>1 DEF Tick, TypeOK, encoderVars, history
<1> QED
  BY <1>1, <1>2, TypeProcessor, TypeEncoder, TypeLoop DEF Next

\* Every variable of a live stream has its type: in particular no time of a
\* segment is before 0, for any bounds.
THEOREM TypeCorrect == Spec => []TypeOK
  BY TypeInit, TypeNext, PTL DEF Spec

(***************************************************************************)
(* What is true of one stream.  A step is of one stream and leaves the      *)
(* others as they are.                                                      *)
(***************************************************************************)

Running(l) == loop[l] \notin {"none", "done", "panicked"}

\* The chunks the transport took.
SentSet(l) == {sent[l][i].chunk : i \in DOMAIN sent[l]}

\* Nothing but time sends the loop to its end: the flag stays set until there.
EndInv(l) ==
    /\ loop[l] \in {"top", "send", "stop", "panicked"} => is_encoding[l]
    /\ loop[l] = "none" => encoder[l] = "none" /\ sent[l] = <<>>
    /\ interval[l] = 0 => sent[l] = <<>> /\ loop[l] # "send"
    /\ loop[l] \in {"abort", "done"} => ~is_encoding[l]
    /\ loop[l] = "done" => encoder[l] = "over" /\ channel[l] = <<>>
    /\ loop[l] = "panicked" => interval[l] = 0 /\ channel[l] = <<>>

\* The channel holds the chunks after the last one taken.
ChannelInv(l) ==
    /\ loop[l] = "none" => /\ frames[l] = 0 /\ frame_count[l] = 0 /\ channel[l] = <<>>
                           /\ failed[l] = {}
    /\ Running(l) =>
          /\ frames[l] = frame_count[l] + Len(channel[l]) + IF encoder[l] = "put" THEN 1 ELSE 0
          /\ \A i \in 1 .. Len(channel[l]) : channel[l][i] = frame_count[l] + i
    /\ loop[l] = "send" => /\ frame_count[l] # 0
                           /\ segment[l].chunk = frame_count[l]
                           /\ segment[l].timestamp = frame_count[l] - 1

\* The chunks taken were sent or refused, but for the one in hand.
Settled(l) == frame_count[l] - IF loop[l] \in {"send", "panicked"} THEN 1 ELSE 0

SentInv(l) ==
    /\ SentSet(l) \cup failed[l] = 1 .. Settled(l)
    /\ SentSet(l) \cap failed[l] = {}
    /\ \A i \in DOMAIN sent[l] : sent[l][i].timestamp = sent[l][i].chunk - 1
    /\ \A i, j \in DOMAIN sent[l] : i < j => sent[l][i].chunk < sent[l][j].chunk

StreamInv == \A l \in Lives : EndInv(l) /\ ChannelInv(l) /\ SentInv(l)

Inv == TypeOK /\ StreamInv

StepOf(l) ==
    \/ DivideByFps(l) \/ StartLive(l) \/ StopLive(l)
    \/ EncoderStep(l) \/ LoopStep(l) \/ Tick(l)

\* What a step leaves of stream k.
Same(k) ==
    /\ loop'[k] = loop[k] /\ interval'[k] = interval[k] /\ is_encoding'[k] = is_encoding[k]
    /\ encoder'[k] = encoder[k] /\ frames'[k] = frames[k] /\ channel'[k] = channel[k]
    /\ frame_count'[k] = frame_count[k] /\ segment'[k] = segment[k]
    /\ elapsed'[k] = elapsed[k] /\ sent'[k] = sent[k] /\ failed'[k] = failed[k]

LEMMA SameKeeps ==
    ASSUME NEW k, Same(k), EndInv(k), ChannelInv(k), SentInv(k)
    PROVE  EndInv(k)' /\ ChannelInv(k)' /\ SentInv(k)'
<1>1. EndInv(k)'
  BY DEF Same, EndInv
<1>2. ChannelInv(k)'
  BY DEF Same, ChannelInv, Running
<1>3. SentInv(k)'
  <2>1. SentSet(k)' = SentSet(k) /\ Settled(k)' = Settled(k)
    BY DEF Same, SentSet, Settled
  <2> QED
    BY <2>1 DEF Same, SentInv
<1> QED
  BY <1>1, <1>2, <1>3

LEMMA OthersSame ==
    ASSUME TypeOK, NEW l \in Lives, StepOf(l), NEW k \in Lives, k # l
    PROVE  Same(k)
<1>1. CASE DivideByFps(l) \/ StartLive(l) \/ StopLive(l)
  BY <1>1 DEF DivideByFps, StartLive, StopLive, encoderVars, history, TypeOK, Same
<1>2. CASE EncoderStep(l)
  BY <1>2 DEF EncoderStep, SpawnFFmpeg, CheckEncoding, ReadChunk, ReadEnds, PutChunk, ChildExited,
              EncoderUnchanged, history, TypeOK, Same
<1>3. CASE LoopStep(l)
  BY <1>3 DEF LoopStep, TopOfLoop, TakeSegment, ModuloByInterval, SendSegment, ClearEncoding,
              AbortEncoder, Goto, LoopUnchanged, encoderVars, TypeOK, Same
<1>4. CASE Tick(l)
  BY <1>4 DEF Tick, encoderVars, history, TypeOK, Same
<1> QED
  BY <1>1, <1>2, <1>3, <1>4 DEF StepOf

LEMMA EndStep ==
    ASSUME TypeOK, NEW l \in Lives, StepOf(l), EndInv(l)
    PROVE  EndInv(l)'
<1>0. elapsed[l] \in Nat /\ MaxDuration \in Nat
  BY LiveOK DEF TypeOK
<1>1. CASE DivideByFps(l) \/ StartLive(l) \/ StopLive(l)
  BY <1>1 DEF DivideByFps, StartLive, StopLive, NextLive, encoderVars, history, TypeOK, EndInv
<1>2. CASE EncoderStep(l)
  BY <1>2 DEF EncoderStep, SpawnFFmpeg, CheckEncoding, ReadChunk, ReadEnds, PutChunk, ChildExited,
              EncoderUnchanged, history, TypeOK, EndInv
<1>3. CASE TopOfLoop(l) \/ TakeSegment(l) \/ ModuloByInterval(l)
  BY <1>3 DEF TopOfLoop, TakeSegment, ModuloByInterval, MayTake, Goto, LoopUnchanged, encoderVars,
              TypeOK, EndInv
<1>4. CASE SendSegment(l) \/ ClearEncoding(l) \/ AbortEncoder(l)
  BY <1>4 DEF SendSegment, ClearEncoding, AbortEncoder, Goto, LoopUnchanged, encoderVars,
              TypeOK, EndInv
<1>5. CASE Tick(l)
  BY <1>0, <1>5 DEF Tick, encoderVars, history, TypeOK, EndInv
<1> QED
  BY <1>1, <1>2, <1>3, <1>4, <1>5 DEF StepOf, LoopStep

\* Chunks go through the channel in the order FFmpeg wrote them.
LEMMA ChannelStep ==
    ASSUME TypeOK, NEW l \in Lives, StepOf(l), EndInv(l), ChannelInv(l)
    PROVE  ChannelInv(l)'
<1>0. /\ frames[l] \in Nat /\ frame_count[l] \in Nat /\ channel[l] \in Seq(Nat)
      /\ frame_count \in [Lives -> Nat] /\ frames \in [Lives -> Nat]
      /\ channel \in [Lives -> Seq(Nat)] /\ loop \in [Lives -> LoopStates]
      /\ encoder \in [Lives -> EncoderStates] /\ segment \in [Lives -> LiveSegment]
      /\ failed \in [Lives -> SUBSET Nat]
  BY DEF TypeOK
<1>1. CASE DivideByFps(l) \/ StopLive(l) \/ Tick(l)
  BY <1>1 DEF DivideByFps, StopLive, Tick, encoderVars, history, ChannelInv, Running
<1>2. CASE StartLive(l)
  BY <1>0, <1>2 DEF StartLive, NextLive, history, EndInv, ChannelInv, Running
<1>3. CASE SpawnFFmpeg(l) \/ CheckEncoding(l) \/ ReadChunk(l) \/ ReadEnds(l) \/ ChildExited(l)
  BY <1>0, <1>3 DEF SpawnFFmpeg, CheckEncoding, ReadChunk, ReadEnds, ChildExited,
                    EncoderUnchanged, history, EndInv, ChannelInv, Running
<1>4. CASE PutChunk(l)
  <2>1. loop[l] # "none"
    BY <1>4 DEF PutChunk, EndInv
  <2>2. CASE loop[l] = "panicked" \/ loop[l] = "done"
    BY <1>4, <2>1, <2>2 DEF PutChunk, EncoderUnchanged, history, ChannelInv, Running
  <2>3. CASE Running(l)
    <3>1. /\ channel'[l] = Append(channel[l], frames[l])
          /\ encoder'[l] = "check" /\ frames' = frames /\ encoder[l] = "put"
      BY <1>0, <1>4, <2>3 DEF PutChunk, Running
    <3>2. frames[l] = frame_count[l] + Len(channel[l]) + 1
      BY <2>3, <3>1 DEF ChannelInv
    <3>3. /\ Len(channel'[l]) = Len(channel[l]) + 1
          /\ \A i \in 1 .. Len(channel'[l]) : channel'[l][i] = frame_count[l] + i
      <4>1. Len(channel'[l]) = Len(channel[l]) + 1 /\ Len(channel[l]) \in Nat
        BY <1>0, <3>1
      <4>2. ASSUME NEW i \in 1 .. Len(channel'[l]) PROVE channel'[l][i] = frame_count[l] + i
        <5>1. CASE i \in 1 .. Len(channel[l])
          <6>1. channel'[l][i] = channel[l][i]
            BY <1>0, <3>1, <5>1
          <6> QED
            BY <2>3, <5>1, <6>1 DEF ChannelInv
        <5>2. CASE i = Len(channel[l]) + 1
          <6>1. channel'[l][i] = frames[l]
            BY <1>0, <3>1, <5>2
          <6> QED
            BY <1>0, <3>2, <4>1, <5>2, <6>1
        <5> QED
          BY <4>1, <5>1, <5>2
      <4> QED
        BY <4>1, <4>2
    <3>4. /\ loop' = loop /\ frame_count' = frame_count /\ segment' = segment /\ failed' = failed
      BY <1>4 DEF PutChunk, EncoderUnchanged, history
    <3> QED
      <4>1. frames'[l] = frame_count'[l] + Len(channel'[l])
                           + (IF encoder'[l] = "put" THEN 1 ELSE 0)
        BY <1>0, <3>1, <3>2, <3>3, <3>4
      <4>2. \A i \in 1 .. Len(channel'[l]) : channel'[l][i] = frame_count'[l] + i
        BY <3>3, <3>4
      <4> QED
        BY <2>1, <3>4, <4>1, <4>2 DEF ChannelInv
  <2> QED
    BY <2>1, <2>2, <2>3 DEF Running
<1>5. CASE TakeSegment(l)
  <2>1. /\ channel[l] # <<>> /\ loop[l] = "top" /\ loop'[l] = "send"
        /\ channel'[l] = Tail(channel[l]) /\ frame_count'[l] = frame_count[l] + 1
        /\ frames' = frames /\ encoder' = encoder /\ failed' = failed
        /\ segment'[l] = CreateVideoSegment(l, frame_count[l] + 1, Head(channel[l]))
    BY <1>0, <1>5 DEF TakeSegment, MayTake, Goto, LoopUnchanged, encoderVars
  <2>2. /\ frames[l] = frame_count[l] + Len(channel[l]) + (IF encoder[l] = "put" THEN 1 ELSE 0)
        /\ \A i \in 1 .. Len(channel[l]) : channel[l][i] = frame_count[l] + i
    BY <2>1 DEF ChannelInv, Running
  <2>3. /\ Len(channel[l]) \in Nat /\ Len(channel[l]) >= 1
        /\ Head(channel[l]) = channel[l][1] /\ Head(channel[l]) \in Nat
        /\ Len(Tail(channel[l])) = Len(channel[l]) - 1
        /\ \A i \in 1 .. Len(channel[l]) - 1 : Tail(channel[l])[i] = channel[l][i + 1]
    BY <1>0, <2>1
  <2>4. Head(channel[l]) = frame_count[l] + 1
    BY <2>2, <2>3
  <2>5. segment'[l].chunk = frame_count[l] + 1 /\ segment'[l].timestamp = frame_count[l]
    BY <1>0, <2>1, <2>3, <2>4, SegmentMade
  <2>6. \A i \in 1 .. Len(channel'[l]) : channel'[l][i] = frame_count'[l] + i
    BY <1>0, <2>1, <2>2, <2>3
  <2>7. frames'[l] = frame_count'[l] + Len(channel'[l]) + (IF encoder'[l] = "put" THEN 1 ELSE 0)
    BY <1>0, <2>1, <2>2, <2>3
  <2> QED
    BY <1>0, <2>1, <2>5, <2>6, <2>7 DEF ChannelInv
<1>6. CASE TopOfLoop(l) \/ ModuloByInterval(l) \/ SendSegment(l) \/ ClearEncoding(l) \/ AbortEncoder(l)
  BY <1>0, <1>6 DEF TopOfLoop, ModuloByInterval, SendSegment, ClearEncoding, AbortEncoder, MayTake,
                    Goto, LoopUnchanged, encoderVars, ChannelInv, Running
<1> QED
  BY <1>1, <1>2, <1>3, <1>4, <1>5, <1>6 DEF StepOf, EncoderStep, LoopStep

\* A step that settles no chunk.
LEMMA SentKept ==
    ASSUME NEW l \in Lives, SentInv(l), sent'[l] = sent[l], failed'[l] = failed[l],
           Settled(l)' = Settled(l)
    PROVE  SentInv(l)'
  BY DEF SentInv, SentSet

LEMMA SentStep ==
    ASSUME TypeOK, NEW l \in Lives, StepOf(l), EndInv(l), ChannelInv(l), SentInv(l)
    PROVE  SentInv(l)'
<1>0. /\ frame_count[l] \in Nat /\ failed[l] \in SUBSET Nat /\ sent[l] \in Seq(LiveSegment)
      /\ frame_count \in [Lives -> Nat] /\ loop \in [Lives -> LoopStates]
      /\ sent \in [Lives -> Seq(LiveSegment)] /\ failed \in [Lives -> SUBSET Nat]
  BY DEF TypeOK
<1>1. CASE DivideByFps(l) \/ StartLive(l) \/ StopLive(l) \/ EncoderStep(l) \/ Tick(l)
  <2>1. sent' = sent /\ failed' = failed /\ frame_count' = frame_count
    BY <1>1 DEF DivideByFps, StartLive, StopLive, Tick, EncoderStep, SpawnFFmpeg, CheckEncoding,
                ReadChunk, ReadEnds, PutChunk, ChildExited, EncoderUnchanged, encoderVars, history
  <2>2. loop'[l] = loop[l] \/ (loop[l] = "none" /\ loop'[l] = "top")
    BY <1>0, <1>1 DEF DivideByFps, StartLive, NextLive, StopLive, Tick, EncoderStep, SpawnFFmpeg,
                CheckEncoding, ReadChunk, ReadEnds, PutChunk, ChildExited, EncoderUnchanged
  <2>3. Settled(l)' = Settled(l)
    BY <2>1, <2>2 DEF Settled
  <2> QED
    BY <2>1, <2>3, SentKept
<1>2. CASE TopOfLoop(l) \/ TakeSegment(l) \/ ModuloByInterval(l) \/ ClearEncoding(l) \/ AbortEncoder(l)
  <2>1. sent' = sent /\ failed' = failed
    BY <1>2 DEF TopOfLoop, TakeSegment, ModuloByInterval, ClearEncoding, AbortEncoder
  <2>2. Settled(l)' = Settled(l)
    BY <1>0, <1>2 DEF TopOfLoop, TakeSegment, ModuloByInterval, ClearEncoding, AbortEncoder, MayTake,
                      Goto, Settled
  <2> QED
    BY <2>1, <2>2, SentKept
<1>3. CASE SendSegment(l)
  <2> DEFINE c == segment[l].chunk
             n == Len(sent[l])
  <2>1. /\ loop[l] = "send" /\ loop'[l] = "top" /\ frame_count' = frame_count
        /\ c = frame_count[l] /\ frame_count[l] # 0 /\ segment[l].timestamp = c - 1
    BY <1>0, <1>3 DEF SendSegment, Goto, ChannelInv
  <2>2. Settled(l) = frame_count[l] - 1 /\ Settled(l)' = frame_count[l]
    BY <1>0, <2>1 DEF Settled
  <2>3. 1 .. Settled(l)' = (1 .. Settled(l)) \cup {c}
    BY <1>0, <2>1, <2>2
  <2>4. c \notin SentSet(l) /\ c \notin failed[l]
    BY <1>0, <2>1, <2>2 DEF SentInv
  <2>5. CASE sent' = [sent EXCEPT ![l] = Append(@, segment[l])] /\ failed' = failed
    <3>1. /\ sent'[l] = Append(sent[l], segment[l]) /\ n \in Nat
          /\ DOMAIN sent'[l] = 1 .. n + 1 /\ DOMAIN sent[l] = 1 .. n
          /\ \A i \in 1 .. n : sent'[l][i] = sent[l][i]
          /\ sent'[l][n + 1] = segment[l]
      BY <1>0, <2>5
    <3> HIDE DEF n
    <3>2. SentSet(l)' = SentSet(l) \cup {c}
      <4>1. ASSUME NEW x \in SentSet(l)' PROVE x \in SentSet(l) \cup {c}
        <5>1. PICK i \in 1 .. n + 1 : x = sent'[l][i].chunk
          BY <3>1 DEF SentSet
        <5>2. CASE i = n + 1
          BY <3>1, <5>1, <5>2
        <5>3. CASE i \in 1 .. n
          BY <3>1, <5>1, <5>3 DEF SentSet
        <5> QED
          BY <3>1, <5>2, <5>3
      <4>2. ASSUME NEW x \in SentSet(l) PROVE x \in SentSet(l)'
        <5>1. PICK i \in 1 .. n : x = sent[l][i].chunk
          BY <3>1 DEF SentSet
        <5>2. i \in 1 .. n + 1 /\ x = sent'[l][i].chunk
          BY <3>1, <5>1
        <5> QED
          BY <3>1, <5>2 DEF SentSet
      <4>3. c \in SentSet(l)'
        <5>1. n + 1 \in DOMAIN sent'[l] /\ c = sent'[l][n + 1].chunk
          BY <3>1
        <5> QED
          BY <5>1 DEF SentSet
      <4> QED
        BY <4>1, <4>2, <4>3
    <3>3. \A i \in DOMAIN sent'[l] : sent'[l][i].timestamp = sent'[l][i].chunk - 1
      BY <2>1, <3>1 DEF SentInv
    <3>4. \A i \in 1 .. n : sent[l][i].chunk < c
      <4>1. ASSUME NEW i \in 1 .. n PROVE sent[l][i].chunk < c
        <5>1. sent[l][i].chunk \in 1 .. Settled(l)
          BY <3>1 DEF SentInv, SentSet
        <5> QED
          BY <1>0, <2>1, <2>2, <5>1
      <4> QED
        BY <4>1
    <3>5. \A i, j \in DOMAIN sent'[l] : i < j => sent'[l][i].chunk < sent'[l][j].chunk
      BY <3>1, <3>4 DEF SentInv
    <3>6. SentSet(l)' \cup failed'[l] = 1 .. Settled(l)'
      BY <2>3, <2>5, <3>2 DEF SentInv
    <3>7. SentSet(l)' \cap failed'[l] = {}
      BY <2>4, <2>5, <3>2 DEF SentInv
    <3> QED
      BY <3>3, <3>5, <3>6, <3>7 DEF SentInv
  <2>6. CASE sent' = sent /\ failed' = [failed EXCEPT ![l] = @ \cup {c}]
    <3>1. SentSet(l)' = SentSet(l) /\ failed'[l] = failed[l] \cup {c}
      BY <1>0, <2>6 DEF SentSet
    <3>2. SentSet(l)' \cup failed'[l] = 1 .. Settled(l)'
      BY <2>3, <3>1 DEF SentInv
    <3>3. SentSet(l)' \cap failed'[l] = {}
      BY <2>4, <3>1 DEF SentInv
    <3> QED
      BY <2>6, <3>2, <3>3 DEF SentInv
  <2> QED
    BY <1>3, <2>5, <2>6 DEF SendSegment
<1> QED
  BY <1>1, <1>2, <1>3 DEF StepOf, LoopStep

(***************************************************************************)
(* The theorems.                                                           *)
(***************************************************************************)

LEMMA InvInit == Init => Inv
<1> SUFFICES ASSUME Init PROVE Inv
  OBVIOUS
<1>1. ASSUME NEW l \in Lives PROVE EndInv(l) /\ ChannelInv(l) /\ SentInv(l)
  <2>1. EndInv(l) /\ ChannelInv(l)
    BY <1>1, LiveOK DEF Init, EndInv, ChannelInv, Running
  <2>2. SentSet(l) = {} /\ failed[l] = {} /\ Settled(l) = 0 /\ sent[l] = <<>>
    BY <1>1 DEF Init, SentSet, Settled
  <2> QED
    BY <2>1, <2>2 DEF SentInv
<1> QED
  BY <1>1, TypeInit DEF Inv, StreamInv

LEMMA InvNext == ASSUME Inv, [Next]_vars PROVE Inv'
<1>1. TypeOK'
  BY TypeNext DEF Inv
<1>2. ASSUME NEW k \in Lives PROVE EndInv(k)' /\ ChannelInv(k)' /\ SentInv(k)'
  <2>0. EndInv(k) /\ ChannelInv(k) /\ SentInv(k) /\ TypeOK
    BY DEF Inv, StreamInv
  <2>1. CASE UNCHANGED vars
    <3>1. Same(k)
      BY <2>1 DEF vars, Same
    <3> QED
      BY <2>0, <3>1, SameKeeps
  <2>2. ASSUME NEW l \in Lives, StepOf(l), l = k PROVE EndInv(k)' /\ ChannelInv(k)' /\ SentInv(k)'
    BY <2>0, <2>2, EndStep, ChannelStep, SentStep
  <2>3. ASSUME NEW l \in Lives, StepOf(l), l # k PROVE EndInv(k)' /\ ChannelInv(k)' /\ SentInv(k)'
    BY <2>0, <2>3, OthersSame, SameKeeps
  <2> QED
    BY <2>1, <2>2, <2>3 DEF Next, StepOf
<1> QED
  BY <1>1, <1>2 DEF Inv, StreamInv

LEMMA Invariant == Spec => []Inv
  BY InvInit, InvNext, PTL DEF Spec

\* A stream that came to its end left neither an encoder nor chunks behind; one
\* whose loop panicked left no chunk and sent none.
THEOREM NothingLeft == Spec => []EndedStreamsLeaveNothing
<1>1. Inv => EndedStreamsLeaveNothing
  BY DEF Inv, StreamInv, EndInv, EndedStreamsLeaveNothing
<1> QED
  BY <1>1, Invariant, PTL

\* Nothing is lost between the encoder and the transport, and the times of the
\* segments sent count those that were refused.
THEOREM GapsAreFailures == Spec => []GapsAreFailedSends
<1>1. ASSUME Inv PROVE GapsAreFailedSends
  <2>1. ASSUME NEW l \in Lives
        PROVE  LET out == {SentChunks(l)[i] : i \in DOMAIN sent[l]} IN
               /\ out \cup failed[l] \cup InHand(l)
                     = 1 .. (frame_count[l] - IF loop[l] = "panicked" THEN 1 ELSE 0)
               /\ out \cap failed[l] = {}
               /\ loop[l] \notin {"none", "done", "panicked"} =>
                     frames[l] = frame_count[l] + Len(channel[l])
                                   + IF encoder[l] = "put" THEN 1 ELSE 0
               /\ \A i \in DOMAIN sent[l] : sent[l][i].timestamp = sent[l][i].chunk - 1
    <3>0. frame_count[l] \in Nat /\ EndInv(l) /\ ChannelInv(l) /\ SentInv(l)
      BY <1>1 DEF Inv, StreamInv, TypeOK
    <3>1. {SentChunks(l)[i] : i \in DOMAIN sent[l]} = SentSet(l)
      BY DEF SentChunks, SentSet
    <3>2. SentSet(l) \cup failed[l] \cup InHand(l)
            = 1 .. (frame_count[l] - IF loop[l] = "panicked" THEN 1 ELSE 0)
      <4>1. CASE loop[l] = "send"
        <5>1. SentSet(l) \cup failed[l] = 1 .. frame_count[l] - 1
          BY <3>0, <4>1 DEF SentInv, Settled
        <5>2. InHand(l) = {frame_count[l]} /\ frame_count[l] # 0
          BY <3>0, <4>1 DEF InHand, ChannelInv
        <5> QED
          BY <3>0, <4>1, <5>1, <5>2
      <4>2. CASE loop[l] # "send"
        BY <3>0, <4>2 DEF SentInv, Settled, InHand
      <4> QED
        BY <4>1, <4>2
    <3> QED
      BY <3>0, <3>1, <3>2 DEF SentInv, ChannelInv, Running
  <2> QED
    BY <2>1 DEF GapsAreFailedSends
<1> QED
  BY <1>1, Invariant, PTL

(***************************************************************************)
(* The live streams implement Delivery, but for its fairness.               *)
(***************************************************************************)

\* The mapping, stream by stream: what a step leaves and what it changes.
LEMMA MappedSame ==
    ASSUME TypeOK, NEW k \in Lives, Same(k)
    PROVE  SentChunks(k)' = SentChunks(k) /\ Phase(k)' = Phase(k)
  BY DEF Same, SentChunks, Phase

LEMMA ChunksOf ==
    ASSUME NEW s \in Seq(LiveSegment), NEW c, c = [i \in DOMAIN s |-> s[i].chunk]
    PROVE  /\ Len(s) \in Nat /\ DOMAIN s = 1 .. Len(s)
           /\ c \in Seq(Nat) /\ Len(c) = Len(s)
           /\ \A i \in 1 .. Len(s) : c[i] = s[i].chunk
<1>1. Len(s) \in Nat /\ DOMAIN s = 1 .. Len(s) /\ \A i \in 1 .. Len(s) : s[i] \in LiveSegment
  BY LenProperties
<1>2. \A i \in 1 .. Len(s) : s[i].chunk \in Nat
  BY <1>1 DEF LiveSegment
<1> QED
  BY <1>1, <1>2

\* A segment that is sent extends what was delivered by a newer chunk.
LEMMA SendExtends ==
    ASSUME TypeOK, TypeOK', NEW l \in Lives, EndInv(l), ChannelInv(l), SentInv(l), SentInv(l)',
           SendSegment(l), sent' = [sent EXCEPT ![l] = Append(@, segment[l])]
    PROVE  Stream!Extends(SentChunks(l)', SentChunks(l), frames[l])
<1> DEFINE before == SentChunks(l)
           after == SentChunks(l)'
           n == Len(sent[l])
<1>0. /\ sent[l] \in Seq(LiveSegment) /\ sent \in [Lives -> Seq(LiveSegment)]
      /\ frames[l] \in Nat /\ frame_count[l] \in Nat /\ channel[l] \in Seq(Nat)
      /\ segment[l] \in LiveSegment
  BY DEF TypeOK
<1>1. sent'[l] = Append(sent[l], segment[l])
  BY <1>0
<1>2. /\ n \in Nat /\ before \in Seq(Nat) /\ Len(before) = n
      /\ \A i \in 1 .. n : before[i] = sent[l][i].chunk
  BY <1>0, ChunksOf DEF SentChunks
<1>3. /\ Len(sent'[l]) = n + 1 /\ \A i \in 1 .. n : sent'[l][i] = sent[l][i]
  BY <1>0, <1>1, <1>2
<1>4. after \in Seq(Nat) /\ Len(after) = Len(sent'[l]) /\ DOMAIN sent'[l] = 1 .. Len(sent'[l])
      /\ \A i \in 1 .. Len(sent'[l]) : after[i] = sent'[l][i].chunk
  <2>1. sent'[l] \in Seq(LiveSegment)
    BY DEF TypeOK
  <2> QED
    BY <2>1, ChunksOf DEF SentChunks
<1> HIDE DEF before, after, n
<1>5. /\ after \in Seq(Nat) /\ Len(after) = n + 1 /\ DOMAIN after = 1 .. n + 1
      /\ \A i \in 1 .. n + 1 : after[i] = sent'[l][i].chunk
      /\ \A i \in 1 .. n : after[i] = before[i]
  <2>1. DOMAIN after = 1 .. Len(after)
    BY <1>4, LenProperties
  <2>2. \A i \in 1 .. n : i \in 1 .. n + 1
    BY <1>2
  <2>3. /\ Len(after) = n + 1
        /\ \A i \in 1 .. n + 1 : after[i] = sent'[l][i].chunk
    BY <1>3, <1>4
  <2>4. ASSUME NEW i \in 1 .. n PROVE after[i] = before[i]
    <3>1. after[i] = sent'[l][i].chunk /\ sent'[l][i] = sent[l][i]
      BY <1>3, <2>2, <2>3, <2>4
    <3> QED
      BY <1>2, <2>4, <3>1
  <2> QED
    BY <1>4, <2>1, <2>3, <2>4
<1>6. SubSeq(after, 1, Len(before)) = before
  <2>1. /\ SubSeq(after, 1, n) \in Seq(Nat) /\ Len(SubSeq(after, 1, n)) = n
        /\ \A i \in 1 .. n : SubSeq(after, 1, n)[i] = after[i]
    BY <1>2, <1>5
  <2> QED
    BY <1>2, <1>5, <2>1, SeqEqual
<1>7. \A i \in 1 .. n + 1 : after[i] \in 1 .. frames[l]
  <2>1. frame_count[l] <= frames[l] /\ Settled(l)' = frame_count[l]
    <3>1. loop[l] = "send" /\ loop'[l] = "top" /\ frame_count' = frame_count
      BY DEF SendSegment, Goto, TypeOK
    <3>2. frames[l] = frame_count[l] + Len(channel[l]) + (IF encoder[l] = "put" THEN 1 ELSE 0)
      BY <3>1 DEF ChannelInv, Running
    <3> QED
      BY <1>0, <3>1, <3>2 DEF Settled
  <2>2. ASSUME NEW i \in 1 .. n + 1 PROVE after[i] \in 1 .. frame_count[l]
    <3>1. sent'[l][i].chunk \in SentSet(l)'
      BY <1>3, <1>4 DEF SentSet
    <3> QED
      BY <1>5, <2>1, <3>1 DEF SentInv
  <2> QED
    BY <1>0, <2>1, <2>2
<1>8. Stream!Ascending(after)
  <2>1. \A i, j \in 1 .. n + 1 : i < j => sent'[l][i].chunk < sent'[l][j].chunk
    BY <1>3, <1>4 DEF SentInv
  <2>2. \A i, j \in DOMAIN after : i < j => after[i] < after[j]
    <3>1. ASSUME NEW i \in 1 .. n + 1, NEW j \in 1 .. n + 1, i < j PROVE after[i] < after[j]
      BY <1>5, <2>1, <3>1
    <3> QED
      BY <1>5, <3>1
  <2> QED
    BY <2>2 DEF Stream!Ascending
<1>9. Len(before) < Len(after)
  BY <1>2, <1>5
<1> QED
  BY <1>5, <1>6, <1>7, <1>8, <1>9 DEF Stream!Extends, before, after

LEMMA RefinesStep ==
    ASSUME Inv, Inv', NEW l \in Lives, StepOf(l)
    PROVE  [Stream!Next]_(Stream!vars)
<1> DEFINE D == [k \in Lives |-> SentChunks(k)]
           P == [k \in Lives |-> Phase(k)]
<1>0. /\ TypeOK /\ TypeOK' /\ EndInv(l) /\ ChannelInv(l) /\ SentInv(l) /\ SentInv(l)'
      /\ frames \in [Lives -> Nat] /\ loop \in [Lives -> LoopStates]
      /\ sent \in [Lives -> Seq(LiveSegment)]
  BY DEF Inv, StreamInv, TypeOK
<1>1. /\ D' = [D EXCEPT ![l] = SentChunks(l)']
      /\ P' = [P EXCEPT ![l] = Phase(l)']
      /\ frames' = [frames EXCEPT ![l] = frames'[l]]
  <2>1. \A k \in Lives : k # l =>
           SentChunks(k)' = SentChunks(k) /\ Phase(k)' = Phase(k) /\ frames'[k] = frames[k]
    BY <1>0, OthersSame, MappedSame DEF Same
  <2>2. frames' \in [Lives -> Nat]
    BY <1>0 DEF TypeOK
  <2> QED
    BY <1>0, <2>1, <2>2
<1>2. D[l] = SentChunks(l) /\ P[l] = Phase(l) /\ P \in [Lives -> {"waiting", "open", "closed"}]
  BY DEF Phase
<1>3. Stream!vars = <<frames, D, P>> /\ Stream!vars' = <<frames', D', P'>>
  BY DEF Stream!vars
<1> HIDE DEF D, P
<1>4. CASE frames' = frames /\ sent'[l] = sent[l] /\ Phase(l)' = Phase(l)
  <2>1. D' = D /\ P' = P
    <3>1. SentChunks(l)' = SentChunks(l)
      BY <1>4 DEF SentChunks
    <3>2. D = [D EXCEPT ![l] = D[l]] /\ P = [P EXCEPT ![l] = P[l]]
      BY DEF D, P
    <3> QED
      BY <1>1, <1>2, <1>4, <3>1, <3>2
  <2> QED
    BY <1>3, <1>4, <2>1
<1>5. CASE StartLive(l)
  <2>1. frames' = frames /\ sent' = sent /\ Phase(l) = "waiting" /\ Phase(l)' = "open"
    BY <1>0, <1>5 DEF StartLive, NextLive, history, Phase
  <2>2. D' = D
    BY <2>1 DEF D, SentChunks
  <2>3. Stream!Open(l)
    BY <1>1, <1>2, <2>1, <2>2 DEF Stream!Open, D, P
  <2> QED
    BY <2>3 DEF Stream!Next
<1>6. CASE ReadChunk(l)
  <2>1. /\ frames' = [frames EXCEPT ![l] = @ + 1] /\ sent' = sent /\ loop' = loop
    BY <1>6 DEF ReadChunk, EncoderUnchanged, history
  <2>2. D' = D /\ P' = P
    BY <2>1 DEF D, P, SentChunks, Phase
  <2>3. Stream!Produce(l)
    BY <2>1, <2>2 DEF Stream!Produce, D, P
  <2> QED
    BY <2>3 DEF Stream!Next
<1>7. CASE SendSegment(l) /\ sent' = [sent EXCEPT ![l] = Append(@, segment[l])]
  <2>1. /\ frames' = frames /\ Phase(l) = "open" /\ Phase(l)' = "open"
    BY <1>0, <1>7 DEF SendSegment, Goto, encoderVars, Phase
  <2>2. Stream!Extends(SentChunks(l)', SentChunks(l), frames[l])
    BY <1>0, <1>7, SendExtends
  <2>3. P' = P
    <3>1. P = [P EXCEPT ![l] = P[l]]
      BY DEF P
    <3> QED
      BY <1>1, <1>2, <2>1, <3>1
  <2>4. D'[l] = SentChunks(l)'
    BY DEF D
  <2>5. Stream!Deliver(l)
    BY <1>0, <1>1, <1>2, <2>1, <2>2, <2>3, <2>4 DEF Stream!Deliver, D, P
  <2> QED
    BY <2>5 DEF Stream!Next
<1>8. CASE ModuloByInterval(l) \/ AbortEncoder(l)
  <2>1. frames' = frames /\ sent' = sent /\ Phase(l) = "open" /\ Phase(l)' = "closed"
    BY <1>0, <1>8 DEF ModuloByInterval, AbortEncoder, MayTake, Goto, encoderVars, Phase
  <2>2. D' = D
    BY <2>1 DEF D, SentChunks
  <2>3. Stream!Close(l)
    BY <1>1, <1>2, <2>1, <2>2 DEF Stream!Close, D, P
  <2> QED
    BY <2>3 DEF Stream!Next
<1>9. CASE DivideByFps(l) \/ StopLive(l) \/ Tick(l)
  BY <1>4, <1>9 DEF DivideByFps, StopLive, Tick, encoderVars, history, Phase
<1>10. CASE SpawnFFmpeg(l) \/ CheckEncoding(l) \/ ReadEnds(l) \/ PutChunk(l) \/ ChildExited(l)
  BY <1>4, <1>10 DEF SpawnFFmpeg, CheckEncoding, ReadEnds, PutChunk, ChildExited, EncoderUnchanged,
                     history, Phase
<1>11. CASE TopOfLoop(l) \/ TakeSegment(l) \/ ClearEncoding(l)
  BY <1>0, <1>4, <1>11 DEF TopOfLoop, TakeSegment, ClearEncoding, MayTake, Goto, encoderVars, Phase
<1>12. CASE SendSegment(l) /\ sent' = sent
  BY <1>0, <1>4, <1>12 DEF SendSegment, Goto, encoderVars, Phase
<1>13. SendSegment(l) => sent' = sent \/ sent' = [sent EXCEPT ![l] = Append(@, segment[l])]
  BY DEF SendSegment
<1> QED
  BY <1>5, <1>6, <1>7, <1>8, <1>9, <1>10, <1>11, <1>12, <1>13 DEF StepOf, EncoderStep, LoopStep

\* A live stream does nothing but what Delivery allows: its chunks reach the
\* platform at most once and in their order, and only while it is open.
THEOREM StreamsDeliver == Spec => Stream!Init /\ [][Stream!Next]_(Stream!vars)
<1>1. Init => Stream!Init
  BY DEF Init, Stream!Init, SentChunks, Phase
<1>2. Inv /\ Inv' /\ [Next]_vars => [Stream!Next]_(Stream!vars)
  <2>1. ASSUME Inv, Inv', UNCHANGED vars PROVE UNCHANGED Stream!vars
    BY <2>1 DEF vars, Stream!vars, SentChunks, Phase
  <2> QED
    BY <2>1, RefinesStep DEF Next, StepOf
<1> QED
  BY <1>1, <1>2, Invariant, PTL DEF Spec

=============================================================================

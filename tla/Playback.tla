------------------------------ MODULE Playback ------------------------------
(***************************************************************************)
(* Seeking in a file and what is sent from there: the keyframe index that   *)
(* DefaultFileStreamReader builds (src/src/file_reader.rs) and the          *)
(* DefaultPlaybackController (src/src/controller.rs), which both search it. *)
(*                                                                         *)
(* Their owner opens a file, may have its index built, seeks with either,   *)
(* changes the rate, and hands the segments of the file to the controller   *)
(* to be queued.                                                            *)
(*                                                                         *)
(* A file is its size and the start codes of its IDR frames: where each     *)
(* begins and whether it has three bytes or four.  Times are counted in     *)
(* frames of 1/30 s, rates in tenths.  A segment is its time and whether it *)
(* is a key frame.  Left out: what is only reported (frame sizes, precision,*)
(* execution times, buffer health) and sync_offset, which is 0 throughout.  *)
(* The file system is external and fills the buffer it is given.            *)
(***************************************************************************)
EXTENDS Integers, FiniteSets, SequencesExt

CONSTANTS
    None,          \* the Rust None
    Videos,        \* files and their segments
    Times,         \* the positions the owner may ask for
    Rates,         \* the rates it may ask for
    Capacities,    \* what a network may sustain, as a rate
    MemoryLimit,   \* memory_limit, in entries: 327 680 in the code
    PreciseFrames, \* the first frames of a Hierarchical index: 300, ten seconds
    MaxCalls       \* bound: calls of the owner

ASSUME PlaybackOK ==
    /\ Times \subseteq Int /\ Rates \subseteq Int
    /\ Capacities \subseteq Nat /\ MemoryLimit \in Nat
    /\ PreciseFrames \in Nat /\ MaxCalls \in Nat
    /\ None \notin [position : Nat, rate : 1 .. 100]
    /\ \A v \in Videos :
          /\ v.file.size \in Nat /\ IsFiniteSet(v.file.start_codes)
          /\ \A code \in v.file.start_codes : code.offset \in Nat /\ code.bytes \in {3, 4}
          /\ v.segments \in Seq([timestamp : Nat, is_key_frame : BOOLEAN])

VARIABLES
    video,                \* the file that is open and its segments
    index,                \* its KeyframeIndex, or None
    cursor,               \* stream_position of the handle
    current_position,
    last_seek_position,   \* or None
    playback_rate,
    transmission_queue,   \* the places of its segments in video.segments
    queued,               \* history: from which position, at which rate, or None
    calls                 \* how many calls were made

reader == <<index, cursor>>
controller == <<current_position, last_seek_position, playback_rate,
                transmission_queue, queued>>
vars == <<video, reader, controller, calls>>

Init ==
    /\ video \in Videos
    /\ index = None
    /\ cursor = 0
    /\ current_position = 0
    /\ last_seek_position = None
    /\ playback_rate = 10
    /\ transmission_queue = <<>>
    /\ queued = None
    /\ calls = 0

-----------------------------------------------------------------------------
(* build_keyframe_index_impl *)

Strategies == {"Full", "Sparse", "Adaptive", "Hierarchical"}

\* build_keyframe_index_with_memory_limit
StrategyFor(memory_limit_mb) ==
    CASE memory_limit_mb >= 50 -> "Full"
      [] memory_limit_mb \in 20 .. 49 -> "Adaptive"
      [] memory_limit_mb \in 10 .. 19 -> "Sparse"
      [] memory_limit_mb < 10 -> "Hierarchical"

BufferSize == [Full |-> 65536, Sparse |-> 131072, Adaptive |-> 98304, Hierarchical |-> 32768]

ScanLimit == 100 * 1024 * 1024

\* A code of four bytes is found twice: the three bytes in it are one as well.
Codes(file) ==
    {code.offset : code \in file.start_codes}
    \cup {code.offset + 1 : code \in {c \in file.start_codes : c.bytes = 4}}

Block(offset, strategy) == offset \div BufferSize[strategy]

Ascending(S) == MapThenFoldSet(LAMBDA i, s : Append(s, i), <<>>, LAMBDA i : i, Max, S)

\* find_keyframes_in_buffer: the last five bytes of a block are not looked at.
Found(file, strategy) == Ascending({offset \in Codes(file) :
    LET base == Block(offset, strategy) * BufferSize[strategy] IN
    /\ base <= ScanLimit
    /\ offset < Min({base + BufferSize[strategy], file.size}) - 5})

\* Whether the frame_count-th key frame is put into an index of so many entries.
Included(strategy, frame_count, entries) ==
    \/ strategy = "Full"
    \/ strategy = "Sparse" /\ frame_count % 30 = 0
    \/ strategy = "Adaptive" /\ (entries < MemoryLimit \/ frame_count % 60 = 0)
    \/ strategy = "Hierarchical" /\ (frame_count < PreciseFrames \/ frame_count % 30 = 0)

\* Over its limit the scan for an Adaptive index leaves the block after one key frame, and
\* does not count the others.
ScanKeyframe(scan, offset, strategy) ==
    LET entries ==
            IF Included(strategy, scan.frame_count, Len(scan.entries))
            THEN Append(scan.entries, [timestamp |-> scan.frame_count, file_offset |-> offset])
            ELSE scan.entries
    IN [entries     |-> entries,
        frame_count |-> scan.frame_count + 1,
        left        |-> IF strategy = "Adaptive" /\ Len(entries) > MemoryLimit
                        THEN Block(offset, strategy) ELSE -1]

Scan(file, strategy) ==
    LET found == Found(file, strategy)
        scan[n \in 0 .. Len(found)] ==
            IF n = 0 THEN [entries |-> <<>>, frame_count |-> 0, left |-> -1]
            ELSE LET before == scan[n - 1] IN
                 IF Block(found[n], strategy) = before.left THEN before
                 ELSE ScanKeyframe(before, found[n], strategy)
    IN scan[Len(found)]

\* A second per entry, or what the last timestamp says, or by the bytes.
TotalDuration(file, entries) ==
    IF entries # <<>> THEN Max({30 * Len(entries), Last(entries).timestamp + 1})
    ELSE LET bitrate == IF file.size <= 10000000 THEN 1500000
                        ELSE IF file.size <= 100000000 THEN 3000000 ELSE 5000000
         IN Max({30, (file.size * 8 * 30) \div bitrate})

KeyframeIndex(file, strategy) ==
    LET entries == Scan(file, strategy).entries IN
    [entries |-> entries,
     total_duration |-> TotalDuration(file, entries),
     optimization_strategy |-> strategy]

-----------------------------------------------------------------------------
(* Searching it.  Every search is for the last entry at or before a time. *)

\* Mutant of BinarySearch: an entry at the time itself is passed over.
BinarySearchBefore(entries, time) ==
    LET left[range \in (0 .. Len(entries)) \X (0 .. Len(entries))] ==
            LET l == range[1]
                r == range[2]
                mid == (l + r) \div 2
            IN IF l >= r THEN l
               ELSE IF entries[mid + 1].timestamp < time THEN left[<<mid + 1, r>>]
               ELSE left[<<l, mid>>]
    IN left[<<0, Len(entries)>>]

\* The place where both binary searches end.
BinarySearch(entries, time) ==
    LET left[range \in (0 .. Len(entries)) \X (0 .. Len(entries))] ==
            LET l == range[1]
                r == range[2]
                mid == (l + r) \div 2
            IN IF l >= r THEN l
               ELSE IF entries[mid + 1].timestamp <= time THEN left[<<mid + 1, r>>]
               ELSE left[<<l, mid>>]
    IN left[<<0, Len(entries)>>]

\* find_nearest_keyframe of the reader
ReadersKeyframe(entries, time) == entries[Max({BinarySearch(entries, time), 1})]

\* find_nearest_keyframe of the controller
FindNearestKeyframe(idx, time) ==
    CASE time <= 0 -> Head(idx.entries)
      [] time > 0 /\ time >= idx.total_duration -> Last(idx.entries)
      [] OTHER -> idx.entries[Max({BinarySearch(idx.entries, time), 1})]

\* The nearest one before it, looked for among all.
FindNearestSparseKeyframe(entries, time) ==
    LET before == {i \in DOMAIN entries : entries[i].timestamp <= time}
        nearest == {i \in before : \A j \in before :
                       time - entries[i].timestamp <= time - entries[j].timestamp}
    IN IF before = {} THEN Head(entries) ELSE entries[Min(nearest)]

\* In the last chunk that holds the time, or else in the last one before it.
FindHierarchicalKeyframe(entries, time) ==
    LET n == Len(entries)
        chunk_size == Max({n \div 10, 1})
        chunks == 0 .. (n - 1) \div chunk_size
        first(k) == k * chunk_size + 1
        last(k) == Min({(k + 1) * chunk_size, n})
        holding == {k \in chunks : /\ entries[first(k)].timestamp <= time
                                   /\ time <= entries[last(k)].timestamp}
        before == {k \in chunks : entries[last(k)].timestamp <= time}
        candidates == IF holding # {} THEN holding ELSE before
        chunk == Max(candidates)
        places == {i \in first(chunk) .. last(chunk) : entries[i].timestamp <= time}
    IN IF candidates = {} THEN Head(entries)
       ELSE IF places = {} THEN Head(entries)
       ELSE entries[Max(places)]

\* An entry takes 32 bytes: an Adaptive index is never so large that it is
\* searched as a sparse one.
FindOptimalKeyframe(idx, time) ==
    CASE idx.optimization_strategy = "Sparse" -> FindNearestSparseKeyframe(idx.entries, time)
      [] idx.optimization_strategy = "Hierarchical" -> FindHierarchicalKeyframe(idx.entries, time)
      [] OTHER -> FindNearestKeyframe(idx, time)

ValidateKeyframeIndex(idx) ==
    /\ idx.entries # <<>>
    /\ \A i \in 1 .. Len(idx.entries) - 1 :
          idx.entries[i].timestamp <= idx.entries[i + 1].timestamp
    /\ Last(idx.entries).timestamp <= idx.total_duration

-----------------------------------------------------------------------------
(* The reader.  A call that is refused changes nothing. *)

\* Read to the end, and back to where the handle was: as the first call of an
\* owner that wants an index.
BuildKeyframeIndex ==
    /\ calls = 0
    /\ \E memory_limit_mb \in {50, 20, 10, 9} :
          index' = KeyframeIndex(video.file, StrategyFor(memory_limit_mb))
    /\ UNCHANGED <<video, cursor, controller>>

InIndex(time) == index # None /\ time >= 0 /\ time <= index.total_duration

\* seek_to_time and seek_to_time_with_result
SeekToTime(time) ==
    /\ InIndex(time)
    /\ cursor' = IF index.entries = <<>> THEN 0
                 ELSE ReadersKeyframe(index.entries, time).file_offset
    /\ UNCHANGED <<video, index, controller>>

SeekToOffset(offset) ==
    /\ offset < video.file.size
    /\ cursor' = offset
    /\ UNCHANGED <<video, index, controller>>

-----------------------------------------------------------------------------
(* The controller. *)

ClearBuffers == transmission_queue' = <<>> /\ queued' = None

MoveTo(position) ==
    /\ ClearBuffers
    /\ current_position' = position
    /\ last_seek_position' = position
    /\ UNCHANGED <<video, reader, playback_rate>>

Seek(position) == position >= 0 /\ MoveTo(position)

\* seek_to_keyframe and seek_with_alignment
SeekToKeyframe(position) ==
    /\ InIndex(position)
    /\ index.entries # <<>>
    /\ MoveTo(FindNearestKeyframe(index, position).timestamp)

\* Mutant of RateOK: no rate is too high.
RatePositive(rate) == rate > 0

RateOK(rate) == rate > 0 /\ rate <= 100

\* The queue stays as it is.
SetPlaybackRate(rate) ==
    /\ RateOK(rate)
    /\ playback_rate' = rate
    /\ UNCHANGED <<video, reader, current_position, last_seek_position,
                   transmission_queue, queued>>

SetAdaptivePlaybackRate(target_rate, network_capacity) ==
    /\ RateOK(target_rate)
    /\ playback_rate' = IF network_capacity > 0 THEN Min({target_rate, network_capacity})
                        ELSE target_rate
    /\ UNCHANGED <<video, reader, current_position, last_seek_position,
                   transmission_queue, queued>>

\* get_drop_frame_strategy
DropFrameStrategy(rate) ==
    CASE rate <= 10 -> "none"
      [] rate > 10 /\ rate <= 20 -> "b_frames"
      [] rate > 20 /\ rate <= 40 -> "p_frames"
      [] rate > 40 -> "keep_key_frames_only"

\* Keeping key frames only, and apply_intelligent_frame_dropping: a segment's
\* distance is from its place to the place the last key frame has among those kept.
FrameDropping(places, strategy) ==
    LET is_key_frame(i) == video.segments[places[i]].is_key_frame
        keep(i, distance) ==
            \/ is_key_frame(i)
            \/ strategy = "b_frames" /\ distance % 3 # 2
            \/ strategy = "p_frames" /\ distance % 4 = 1
        drop[n \in 0 .. Len(places)] ==
            IF n = 0 THEN [result |-> <<>>, last_key_frame_index |-> 0]
            ELSE LET before == drop[n - 1] IN
                 [result |->
                      IF keep(n, n - 1 - before.last_key_frame_index)
                      THEN Append(before.result, places[n]) ELSE before.result,
                  last_key_frame_index |->
                      IF is_key_frame(n) THEN Len(before.result)
                      ELSE before.last_key_frame_index]
    IN drop[Len(places)].result

Dropped(places, rate) ==
    LET strategy == DropFrameStrategy(rate)
    IN IF strategy = "none" THEN places ELSE FrameDropping(places, strategy)

\* The sort is stable.
Latest(S) == CHOOSE i \in S : \A j \in S :
    \/ video.segments[j].timestamp < video.segments[i].timestamp
    \/ video.segments[j].timestamp = video.segments[i].timestamp /\ j <= i

SortByTimestamp(places) ==
    MapThenFoldSet(LAMBDA i, s : Append(s, i), <<>>, LAMBDA i : i, Latest, ToSet(places))

\* Mutant of AdjustTransmissionQueue: the order of the file is kept.
AdjustUnsorted(places, rate) == Dropped(places, rate)

AdjustTransmissionQueue(places, rate) == SortByTimestamp(Dropped(places, rate))

SegmentsFrom(position) ==
    Ascending({i \in DOMAIN video.segments : video.segments[i].timestamp >= position})

RequeueSegmentsFromPosition(position) ==
    /\ transmission_queue' = AdjustTransmissionQueue(SegmentsFrom(position), playback_rate)
    /\ queued' = [position |-> position, rate |-> playback_rate]
    /\ UNCHANGED <<video, reader, current_position, last_seek_position, playback_rate>>

Next ==
    /\ calls < MaxCalls
    /\ calls' = calls + 1
    /\ \/ BuildKeyframeIndex
       \/ \E time \in Times :
             \/ SeekToTime(time) \/ Seek(time) \/ SeekToKeyframe(time)
       \/ video.file.size > 0 /\ SeekToOffset(video.file.size - 1)
       \/ \E rate \in Rates :
             \/ SetPlaybackRate(rate)
             \/ \E capacity \in Capacities : SetAdaptivePlaybackRate(rate, capacity)
       \/ RequeueSegmentsFromPosition(current_position)

Spec == Init /\ [][Next]_vars

-----------------------------------------------------------------------------
(* Properties. *)

Entry == [timestamp : Nat, file_offset : Nat]

TypeOK ==
    /\ index = None \/ (/\ index.entries \in Seq(Entry)
                        /\ index.total_duration \in Nat
                        /\ index.optimization_strategy \in Strategies)
    /\ cursor \in 0 .. video.file.size
    /\ current_position \in Nat
    /\ last_seek_position \in {None, current_position}
    /\ playback_rate \in 1 .. 100
    /\ transmission_queue \in Seq(DOMAIN video.segments)
    /\ queued = None \/ queued \in [position : Nat, rate : 1 .. 100]
    /\ calls \in 0 .. MaxCalls

\* The entry every search should find: the last one at or before the time.
IsNearest(entry, entries, time) ==
    /\ entry \in ToSet(entries)
    /\ entry.timestamp <= time \/ entry = Head(entries)
    /\ \A i \in DOMAIN entries :
          entries[i].timestamp <= time => entries[i].timestamp <= entry.timestamp

TimesOf(idx) ==
    0 .. Min({Last(idx.entries).timestamp + 1, idx.total_duration}) \cup {idx.total_duration}

EntriesFaithful(idx) ==
    LET found == Found(video.file, idx.optimization_strategy)
        entries == idx.entries
    IN
    /\ \A i \in 1 .. Len(entries) - 1 :
          /\ entries[i].timestamp < entries[i + 1].timestamp
          /\ entries[i].file_offset < entries[i + 1].file_offset
    /\ found # <<>> => entries[1] = [timestamp |-> 0, file_offset |-> found[1]]
    /\ \A i \in DOMAIN entries :
          \/ found[entries[i].timestamp + 1] = entries[i].file_offset
          \/ /\ idx.optimization_strategy = "Adaptive" /\ Len(entries) > MemoryLimit
             /\ entries[i].file_offset \in ToSet(found)
             /\ found[entries[i].timestamp + 1] < entries[i].file_offset

\* An index that was built is one the controller accepts, its offsets are start
\* codes of IDR frames in the order of the file, its times count the codes found
\* before, and reader and controller find in it the same entry by whichever
\* search, for every time they do not refuse.  Only an Adaptive index that grew
\* over its limit has entries whose times lag behind (file_reader.rs:639-766,
\* 820-843, controller.rs:237-274, 536-628).
IndexFindsKeyframes ==
    [][index' # index /\ index'.entries # <<>> =>
          /\ EntriesFaithful(index')
          /\ ValidateKeyframeIndex(index')
          /\ \A time \in TimesOf(index') :
                LET entry == ReadersKeyframe(index'.entries, time) IN
                /\ IsNearest(entry, index'.entries, time)
                /\ FindNearestKeyframe(index', time) = entry
                /\ FindOptimalKeyframe(index', time) = entry]_vars

\* How many neighbours may be missing at a rate.
Gap(rate) == IF rate <= 10 THEN 0 ELSE IF rate <= 20 THEN 1 ELSE 3

\* After a seek the queue holds nothing from before it.  What is queued later is
\* in the order of time, all of it from the position on, with every key frame;
\* and below the rate at which only key frames are kept, the segments that are
\* dropped are spread: no two neighbours at 2x, no four at 4x
\* (controller.rs:168-190, 192-206, 299-343, 357-377).
QueueKeepsKeyFrames ==
    LET kept == ToSet(transmission_queue)
        segment(i) == video.segments[i]
    IN
    IF queued = None THEN kept = {}
    ELSE LET source == SegmentsFrom(queued.position) IN
         /\ Cardinality(kept) = Len(transmission_queue)
         /\ \A i, j \in DOMAIN transmission_queue :
               i < j => segment(transmission_queue[i]).timestamp
                          <= segment(transmission_queue[j]).timestamp
         /\ {i \in ToSet(source) : segment(i).is_key_frame} \subseteq kept
         /\ kept \subseteq ToSet(source)
         /\ queued.rate > 40 => \A i \in kept : segment(i).is_key_frame
         /\ queued.rate <= 40 =>
               \A i \in 1 .. Len(source) - Gap(queued.rate) :
                   \E j \in i .. i + Gap(queued.rate) : source[j] \in kept

=============================================================================

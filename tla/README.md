# Verification of the video streaming uploader

The program uploads video over QUIC. A **client** registers local files and waits; a
**platform server** asks it to upload a file or a live stream and controls the playback (seek,
rate, pause, resume, stop). This directory holds TLA+ models of the parts where tasks, locks and
messages meet, the TLC runs that check them on small instances, and the theorems TLAPS proves
about them for every instance. All paths below are relative to the repository's `src/`.

## 1. The system

| Component | Source | State | Operations | Status |
|---|---|---|---|---|
| on-demand uploader | `on_demand_uploader.rs` | `active_sessions` (RwLock), `file_registry`, one message processor, detached upload tasks | FileRequest, Seek, SetRate, Pause, Resume, Stop, SessionEnd, `execute_upload`, live streams | `Uploader`, `LiveStream` |
| live encoder | `live_encoder.rs`, `h264_encoder.rs` | `is_encoding`, ffmpeg task, channel | start, stop, next segment | `LiveStream` (h264_encoder left) |
| playback controller | `controller.rs` | index, position, rate, queue (behind a Mutex in the uploader) | seeks, rates, keyframe searches, frame dropping, requeueing | `Playback`; as called by `Uploader` |
| platform server | `mock_server.rs`, `bin/mock_server.rs` | `sessions` (Mutex), files on disk | request, control, live control, finalize; accept loop; a handler per stream | `Server` |
| timeline cache | `timeline_manager.rs` | map (RwLock), size (RwLock), `.timeline` files | get, preload, regenerate, statistics, clear | `TimelineCache` |
| upload manager | `upload_manager.rs`, `app.rs` | `is_running`, `current_session`, connection | start, stop, seek, rate, shutdown, the upload process | `UploadManager` |
| transport, network errors | `transport.rs`, `network_error_handler.rs` | endpoint, `RecoveryState`, error statistics | connect, recover, handle errors, negotiate | `Recovery` |
| segmenter | `segmenter.rs` | buffer, counters, error log, checkpoint | poll, adjust, checkpoint, resume | `Segmenter` |
| file reader | `file_reader.rs`, `ffmpeg_cli_parser.rs` | keyframe index, stream position | build the index, search, seek | `Playback` (containers, metadata left) |
| separator | `separator.rs` | none | drives an ffmpeg process | not modelled: I/O |
| monitors | `monitor.rs`, `resource_monitor.rs` | sample windows | recording, reports | not modelled: floating point |
| shell | `app.rs`, `main.rs`, `config.rs`, `bin/client.rs` | configuration | command line | shutdown only: no other protocol |

How they meet. The client's connection reader puts the platform's messages into a bounded channel
and one *processor* takes them one by one. FileRequest and Seek spawn an upload task each; the
task shares `active_sessions` and the controller with the processor and learns of Pause, Stop and
SessionEnd only by reading the status of its session between two segments. Every segment is a QUIC
stream of its own. The server accepts streams in order and spawns a handler for each; the handler
records the segment under the session lock and appends it to the file without the lock. The
server's console keeps the session lock during a whole send. Timelines are read by the console's
calls and by preload tasks. A live stream is a loop of its own beside the processor, fed by the
encoder's task through a bounded channel. The upload manager is the older way to upload, one
`start_upload` call from a file's opening to its end: it opens the file with the file reader, takes
segments from the segmenter and sends them on a connection of the transport. The recovery of
transport and error handler is offered by both and called by neither.

What is hard to test here: two locks taken in both orders; two upload tasks writing one session;
a status overwritten by a task that did not know of it; work recorded under a lock and done after
it; a message that reaches the client before the server has stored what it asked for; reports that
fail half way; a flag read in one critical section and acted upon in a later one; errors logged
now and recovered from when they are over; two searches, or two counters, that must agree.
`PROJECT.json` lists each hazard at its line.

What makes each part correct, in a sentence: a session is Completed only when a file it
was asked for was sent, and its counters say what was sent (uploader); what was recorded is on disk, once, in the right
file, and reports count it (server); the size never under-reports and stale timeline files are not
used (cache); chunks come out in order, at most once, and none is lost but for a stated reason
(live stream, segmenter); one upload runs at a time and the session tells what it did (upload
manager); attempts are counted and end (recovery); every search of an index finds the same keyframe
and dropping frames keeps what playing needs (playback); and every task ends.

## 2. Modules and correspondence

| Module | Models | Checked by | Proved in |
|---|---|---|---|
| `Uploader` | processor, upload tasks, controller | `MCUploader` | `UploaderProofs` |
| `Server` | connections, handlers, console, disk | `MCServer` | `ServerProofs` |
| `TimelineCache` | cache, timeline files, callers | `MCTimelineCache` | `TimelineCacheProofs` |
| `LiveStream` | StartLive/StopLive, the encoder's task, the transmission loop | `MCLiveStream` | `LiveStreamProofs` |
| `UploadManager` | calls of `start_upload`, a user beside them | `MCUploadManager` | `UploadManagerProofs` |
| `Recovery` | `recover_connection`, the error handler, their callers | `MCRecovery` | `RecoveryProofs` |
| `Segmenter` | `SegmentingStream` and its owner | `MCSegmenter` | `SegmenterProofs` |
| `Playback` | keyframe index, its searches, seeks, rates, the queue | `MCPlayback` | `PlaybackProofs` |
| `Delivery` | abstract: what a stream of video promises | refined by `LiveStream`, `Segmenter` | - |

An action is the code between two points at which another task may run: an await of a lock, of the
network or of a file. A critical section without an await is one action whose guard says that the
lock is free.

**Uploader.** `sessions` is `active_sessions`, `controller` the owner of the controller's mutex,
`tasks` the spawned uploads with their program counter `at`, `processor` the arm of
`process_platform_message` that is suspended. Two critical sections contain an await and are two
actions each: `SeekBegin`/`SeekEnd` and `SetRateBegin`/`SetRateEnd` keep the map and await the
controller (689, 756); `Seek`/`SeekStore` keep the controller and await the map (980, 990).
`Start` ... `Finish` follow `execute_upload` and the segment loop of
`process_mp4_file_from_position`; the generic path differs by `GenericSkip`. File lengths,
keyframes and times are in segments, so that keyframe k is at segment k; throughput and timing
statistics are left out. A keyframe index is the file it is of: what a search answers depends on
nothing else. `halted` is a history variable.

**Server.** `commands` are the console's commands in order, each with its step: `open` and
`finish` are the awaits of `open_uni`/`write_all` and of `finish`, during which the lock is kept
(`LockFree`). The client is external: between `Open` and `Finish` it may have the message, and it
may answer with segments (`Uploads`, `AcceptSegment`), one stream after the other because
`send_segment` awaits the acknowledgement. `handlers` are the stream tasks: `Record` under the
lock, `Write` after it. A send fails only when the connection is lost (`OpenFails`, `Finish`). A file
on disk is the sequence of the handlers that appended to it. An active live stream
(`LiveStreamInfo`) has a path of its own, that of its StartLive, and its count of frames: a StartLive
replaces both, while `current_file` keeps the path it has. `reports` holds what `Finalize` writes for
the current file and what `StopLive` writes for the stream's own path (`ReportStream`), each of which
may fail.

**TimelineCache.** `calls` are the callers with their step in `get_timeline`, `add_to_cache`,
`get_cache_stats` or `clear_cache`; `sizeLock` and `mapLock` are the locks that are kept across an
await. `valid` stands for the comparison of modification times: a video joins it when its timeline
file is written and leaves it when it is edited.

**LiveStream.** One StartLive makes the two tasks of `encoder` and `loop`, which share
`is_encoding` and `channel`. `EncoderStep` is `ffmpeg_encoding_loop`: every read may give a chunk,
an end or an error, and nothing there tells the loop. `LoopStep` is `live_stream_transmission_loop`
with `get_next_segment`, `create_video_segment` and `stop_encoding`; the latter clears the flag,
then aborts the task. A division by `fps` 0 ends the processor's task, a modulo by
`keyframe_interval` 0 that of the loop; both are actions, because the platform chooses the values.

**UploadManager.** `upload[u].at` is the place of a call in `start_upload` and
`run_upload_process`, one step per critical section; `caller` is the user's call. `CallStop` keeps
the lock of `is_running` through `PauseSession` and `DropConnection` (`LockFree`). Every `?` is a
choice of `MayFail`. `stopped`, `overlapped`, `raced`, `interrupted` are history variables.

**Recovery.** `caller[c]` is a task with its `RecoveryState`, `statistics` the error statistics,
whose lock is taken once per counter. Trouble comes by `Trouble`, a handler's step by `HandlerStep`,
the transport's by `TransportStep`. `simulate_reconnection` never returns a connection, so that
`SimulateReconnection` always goes on with the next attempt.

**Segmenter.** One poll is the loop `RecoverStep`, `CreateStep`, `InputStep`, until something is
returned (`at = "ready"`). `CreateCurrentSegment` and `CreationFails` are the two outcomes of
`create_current_segment`. The owner polls again after an error, as the upload manager does, adjusts,
saves a checkpoint or goes on from it.

**Playback.** No concurrency: `KeyframeIndex` is what `build_keyframe_index_impl` computes from the
start codes of a file, a set that `Ascending` lists in the order the reader meets them;
`BinarySearch`, `FindNearestSparseKeyframe`, `FindHierarchicalKeyframe` are the searches, `Dropped`
(the loop `FrameDropping`) and `SortByTimestamp` the two steps of `adjust_transmission_queue`. A
queue holds the places of its segments in the file. The actions are the calls of the owner.

**Delivery.** Items are numbered as they are produced; what is delivered ascends and never
repeats; an open stream is closed. `Stream` in `LiveStream` and `File` in `Segmenter` are its
instances: the refinement maps `delivered` to the chunks that were sent, or that are in a returned
segment, and `phase` to the state of the loop, or of the polls.

## 3. Runs

| Run | Module, bounds | What it shows |
|---|---|---|
| `uploader` | one session, files of 2 and 1 segments, 3 messages, 2 upload tasks | all properties below hold |
| `seek_answered` | 2 messages, 2 tasks | violated: the processor and a task wait for each other's lock |
| `pause_is_not_completion` | the same | violated: a Pause ends in Completed |
| `upload_starts_at_keyframe` | the same | violated: a second FileRequest makes the first upload start at 0 |
| `server` | one session, 2 files, 1 live stream, 3 commands, 2 streams, 2 segments per upload | all properties below hold |
| `files_in_order` | 1 command, 2 streams | violated: the second segment is appended first |
| `timeline_cache` | 2 videos of sizes 1 and 2, limit 2, 3 calls, 1 edit | all properties below hold |
| `live_stream` | 2 streams, channel of 1, 2 chunks, limit of 0 ticks, fps and interval 0 or not, 1 StopLive | all properties below hold |
| `upload_manager` | 2 calls of `start_upload`, 2 segments in all, 1 call of the user | all properties below hold |
| `recovery` | 2 tasks, 2 troubles each, limits 2 (transport), 1 (handler), 1 (protocol errors) | all properties below hold |
| `segmenter` | 3 chunks of 0, 300 KB, 6 MB or over 50 MB, 1 adjustment or resumption | all properties below hold |
| `playback` | 9 files, 72 segmentations of one file, 5 calls | all properties below hold |

*uploader.* `CompletedIsEarned`: without Pause, Stop or SessionEnd, and while all tasks of the session
upload the file it stands for (`OneFile`), Completed means that one of them sent that file to the end:
no failure of any task completes the session. It does not say which task: after a Seek the task of
the earlier offset may be the one, and after a re-request for another file the older task completes
the new session with the older file. The code does both, and no document says it does not.
`SoleUploadAccounted`: with one upload, the session's counters are what was sent.
`SoleUploadStartsAtKeyframe`: with one upload, it starts at the keyframe of its own seek.
`StopHolds`: Completed is left only through a message, a task that had not started, or a send that
was failing. `UploadsEnd`: every upload ends, or the locks are inverted. Every hazard of the
uploader needs at most two tasks of one session and a message between them (two tasks spawned by
FileRequest and Seek plus one command): that is the bound. One session is what the server opens per
connection; sessions meet only in the two locks, which two tasks of one session take as well.

*server.* `ReportsAreFinal`: no report, of a finalize or of a StopLive, claims more segments than were
recorded for its file, and that of a file opened once stays the count of all of them; the one
exception is a live stream started again while its earlier file is received, whose report names a
file that nothing is recorded in. `DiskHoldsWhatWasRecorded`: each recorded segment is in its file once, in no
other, whatever happened to the session in between. `AnswersAreKept`, `AnswersGoForward`: the
answer to a request, which the client may send before the server has opened the file, is not
dropped and does not go to the file received before; this rests on the lock being kept across the
send. `LiveFramesAreRecorded`: the frames of an active live stream are segments recorded in files of
that stream, and exactly those of its own file once that has any, also when it was started twice.
`StoppedLiveEnds`: a stopped stream's file is no longer received, unless its report failed.
`StreamsHandled`, `LostSessionsRemoved`: progress although handlers wait for a lock kept across
sends, unless the client of such a send stays connected for ever and accepts nothing
(`ClientKeepsConsole`). Three commands suffice to start a stream twice and stop it, or to start,
finalize and restart one around an upload; two streams to have two handlers race. One session: a
second one takes TLC beyond five minutes. Sessions share nothing but the lock and the console, and
that a send to one keeps the lock from the handlers of all shows with one as well, since a
handler's wait does not depend on whose send it is; the theorems of section 4 are for any sessions.
Live paths carry the time of their StartLive in seconds; two starts of one stream within a second are
left out.

*timeline_cache.* `SizeCoversCache`: the size is at least what is cached, so the cache is cleaned
too early, never too late. `FreshUnlessRaced`: what is about to be cached describes the video as it
is, unless the video was edited while one of its calls ran. `CallsEnd`: every call ends, or
`get_cache_stats`/`clear_cache` and `add_to_cache` wait for each other. Three calls are a hit, an
eviction and a racing third; the limit is below two entries so that eviction happens.

*live_stream.* `GapsAreFailedSends`: every chunk taken from the channel was sent, refused or is in
the loop's hand, and timestamps count the refused ones as well. `EndedStreamsLeaveNothing`: a loop
that came to its end leaves neither encoder nor chunks nor the flag behind, whatever FFmpeg was doing;
one that panicked leaves its encoder, but holds and sent nothing. `Delivers`: the refinement of
`Delivery`. Two streams show that nothing is shared; a channel of one chunk that it fills; a limit
of 0 ticks that time may run out between any two steps.

*upload_manager.* `UploadsKeptApart`: two uploads are under way only after a call that read the flag
while another was starting, or after a stop; apart, an upload uses its own connection and finds it.
`FlagTellsOfUploads`: `is_running` is set without an upload only after one that failed or died, which
then has every later start refused, and an upload runs without it only after a stop or beside another.
`SoleUploadAccounted`: total, sent and failed segments of the session are those of its upload, and
after Completed there are no more. `StoppedUploadsStop`: a stopped upload takes no further item of its
stream until the flag is set again. `CallsReturn`: no call waits for a lock for ever. Two calls of `start_upload`
with one call of the user between any of their steps are the least that shows every race over the
flag; a second call of the user changes none of the three guards it could meet.

*recovery.* `AttemptsCounted`: the count is that of the attempts since the last success and never
exceeds the larger limit, also when a task changes the mechanism. `StatisticsTellTheTruth`: every
failure was retried, turned away or is under way; the limit on acknowledged protocol errors is kept
although the counter is read again. `RecoveryEnds`: a task that recovers comes to an end. The limits differ so that a task passes one and
not the other; two protocol errors exceed the limit.

*segmenter.* `ChunksAccounted`: every chunk is in the buffer, in one segment or lost, and lost only
after a resumption or through a chunk larger than a segment may be. `SegmentsInLine`: numbers, times
and frames of neighbouring segments, unless a stale checkpoint was used. `Delivers`: the refinement
of `Delivery`. Three chunks suffice: a chunk over 5 MB logs the three errors that start a recovery,
and the recovery may clear what is in the buffer by then.

*playback.* `IndexFindsKeyframes`: for every strategy, the entries are start codes of the file in
order, their times count the codes before, and all four searches find the same entry, for every
time. `QueueKeepsKeyFrames`: the queue is ordered, has every keyframe from the position on, and what
is dropped is spread. The files have up to 125 codes, at, before and after the ends of blocks, with
3 and 4 bytes; a hierarchical search needs more than ten entries for a second chunk; six segments
are one more than the period of the strongest dropping.

Every bound is a CONSTANT named in its module (`MaxMessages`, `MaxTasks`, `MaxCommands`,
`MaxStreams`, `MaxSegments`, `MaxCalls`, `MaxEdits`, `MaxChunks`, `MaxStops`, `MaxTroubles`);
`CHECK_DEADLOCK FALSE` because all of these systems rest when nobody asks for anything.

**Fairness.** Weak fairness of every task that the tokio runtime polls, and none of the platform,
the operator, the client's answers or the editor of a video: they may do nothing. In `Server` that
includes the client accepting a stream: `Open` is not fair, because a client that accepts nothing
still keeps its connection alive (`transport.rs:107`, every 5 s) and the server's send then never
ends. Fair are `Relock`, `OpenFails` (a lost connection ends the send) and `Finish` (what was written
is acknowledged by the client's QUIC stack, or the connection is lost). `StreamsHandled` and
`LostSessionsRemoved` are therefore conditional on `ClientKeepsConsole`. A handler is fair only in what it does with a stream it could
read (`Handle`); that a stream turns out unreadable is possible but never required, so
`StreamsHandled` holds because the lock is always released, not because streams fail. In
`LiveStream` only the loop and the clock are fair, not FFmpeg: the stream ends whatever the encoder
does. In `UploadManager` a call of `start_upload` that was made goes on, as does the user's; in
`Recovery` a call that was made. In `Segmenter` the owner polls and the input, which a poll may find
pending again and again, delivers or ends at last (strong fairness of `InputStep`, since every poll
that finds nothing disables it). `Playback` has no liveness.

## 4. Proofs

Every invariant and every action property that a passing run checks is the subject of a theorem,
for every value of the constants; so is the safety part of both refinements. Each proof has the
same form: an invariant that the steps preserve, one lemma per kind of step, and a theorem that
draws the property from it. Where many steps do much the same to the variables, a first group of
lemmas says what they do (`Change`, `Goes`, `Puts`), and the invariants are proved from that.

Some definitions are loops or folds over data, that is, recursive functions, and a recursive
function is a CHOOSE over the functions that satisfy its equation. Three lemmas open each: there is
such a function (`...Exists`), the operator is that CHOOSE (`...Folds`), and whatever satisfies the
equation has the property wanted. The first and the third go by induction over a set of numbers:
its complement, if not empty, has a least element, since `<` on the natural numbers is
well-founded (`Least`, `Induction`). No induction theorem that takes an operator is needed.

`UploaderProofs`, for all sessions, files, messages and bounds, from `ConstantsOK` (finite lengths,
keyframes inside the file) and `NoneIsNoSession` (an absent session differs from every session):

* `TypeCorrect`: `Spec => []TypeOK`. `TypeOK` is not inductive: that `total` stays a natural number
  needs `Remaining - GenericSkip >= 0`, that a seek result is a keyframe needs that the task at
  `seekStore` has an index and an accepted position, that `sent <= total`. `TypeInv` adds these
  facts per program counter (`TaskInv`), that tasks above `spawned` are unborn, and that the
  suspended processor's session exists. One lemma per kind of step.
* `CompletedEarned`: `Spec => []CompletedIsEarned`, from a stronger fact without `OneFile`: some task
  of the session delivered its own file. The strengthening `EarnedInv` says besides
  that a paused session was halted, that the session of a task was halted if it is absent from the
  map, and that a task reaching `finish` short of its total belongs to a session that was halted or
  is already earned by another task. A Delivered task stays so (`DeliveredStays`).
* `StopIsKept`: `Spec => StopHolds`. `LockedInv`: while the processor is suspended its session has
  the status it was given, because no task writes the map meanwhile (`TaskKeepsLocked`).
* `SoleAccounted` (`SoleUploadAccounted`) and `SoleStartsAtKeyframe`: `SoleInv` says for an upload
  that is alone in its session what the session shows at each step of the task (`CountsOf`) and where
  the task and the session place its start (`PlaceOf`). It holds because a session that exists has
  a task, so that a second request is a second upload.
* `SeekIsStable`: seeking to the result of a seek stays there, so the position a Seek command
  hands to its new task is not moved again.

`LiveStreamProofs`, for any number of streams, chunks and bounds, from `LiveOK` (bounds are natural
numbers, the capacity of the channel is positive). `Inv` is `TypeOK` and, stream by stream, three
parts: `EndInv` (a loop that cleared the flag leaves it clear, one that is done leaves the encoder over
and the channel empty, one that panicked the channel empty), `ChannelInv` (the channel holds the chunks after
`frame_count`, in order, and the encoder has at most one more in hand), `SentInv` (what was sent
ascends and, with what failed, is every chunk taken and settled). A step touches one stream; `Same`
and `OthersSame` carry the others over.

* `TypeCorrect`, `NothingLeft` (`EndedStreamsLeaveNothing`), `GapsAreFailures` (`GapsAreFailedSends`).
* `StreamsDeliver`: `Spec => Stream!Init /\ [][Stream!Next]_(Stream!vars)`, the safety part of the
  refinement of `Delivery`; its fairness is left to the run (`Delivers`).

`UploadManagerProofs`, for any number of uploads, segments and calls, from `ManagerOK`.

* `TypeCorrect`. That `progress` stays within 0..100 needs `transmitted_count <= segment_count` and
  a first segment before any progress; `CountInv` says what each place of an upload implies for its
  counts.
* `KeptApart` (`UploadsKeptApart`): `OneAtATime` - with no race and no stop at most one call has
  passed the check and not ended, and the flag is set while it uploads - is what the flag is for;
  `ConnectionKept` says why `unwrap` finds its connection. `Shape` sums up what the steps do to the
  variables concerned.
* `FlagTells` (`FlagTellsOfUploads`), from the same invariant: the flag is cleared under an upload only
  by a stop or by the end of another one, which overlapped with it.
* `SessionAccounted` (`SoleUploadAccounted`): `Tells` relates the session to the record of the
  upload step by step, `SessionOfUpload` says that a session stays that of the upload under way.
* `StoppedStop` (`StoppedUploadsStop`): as long as an upload counts as stopped the flag is clear.

`TimelineCacheProofs`, for any finite set of videos, any calls and edits, and any assignment of
timeline files, from `ConstantsOK`.

* `Fresh` (`FreshUnlessRaced`). The strengthening says besides that a call about to load found the
  file valid (`LoadedIsValid`), and that a valid file of its own describes its video as it is
  (`ValidIsCurrent`).
* `TypeCorrect`, `SizeCovers` (`SizeCoversCache`). `CacheInv` adds what a call holds at each step.
  The sum of the cached sizes loses what an eviction takes and gains at most what an insertion adds
  (`SizeShrinks`, `SizeInserts`, from `SumAdds` and `SumSame`); the recorded size only grows by that,
  is counted anew, or is cleared together with the cache.

`RecoveryProofs`, for any finite set of tasks and any limits, from `RecoveryOK` and `CodesOK`.

* `TypeCorrect`: delays are natural numbers because powers are (`PowerIsNat`).
* `EveryAttemptCounted` (`AttemptsCounted`): an attempt under way is one ahead and within the
  handler's limit. `StatisticsTrue` (`StatisticsTellTheTruth`): every task about to read the count
  of protocol errors is in it, so that the tasks let through together cannot exceed the limit.
  `InMoved` counts the tasks at a place when one of them moves.

`ServerProofs`, for any sessions, files, commands and handlers, from `ConstantsOK`, `NoneIsNoPath` and
`NoneIsNothingElse`.

* `DiskHolds` (`DiskHoldsWhatWasRecorded`): a handler writes once, from `write`, and a stream that is
  accepted takes a handler that has done nothing (`HandlersInv`).
* `TypeCorrect`. `Base` adds to the types what each step of a command, a handler and a connection
  implies (`CommandOK`, `StreamOK`, `ConnectionOK`); `Change` names the things a step can do to
  sessions and files, and the theorems below are proved from it.
* `ReportsFinal`, `LiveFrames` (`ReportsAreFinal`, `LiveFramesAreRecorded`), proved together: what is
  received was opened by a command of its session (`FilesInv`); a stream's count is that of the
  segments recorded for its own path, or nothing was recorded there (`LiveInv`); and what was recorded
  for a path opened once is counted in its report or in the file still received (`ReportsInv`). The
  latter needs that nothing is recorded at a path no command has opened (`NothingAtFreshPath`) and
  where a report can come from, a finalize or a stop (`WhereReportsComeFrom`).
* `AnswersKept`, `AnswersForward` (`AnswersAreKept`, `AnswersGoForward`), proved together: the file a
  session receives after a request was acknowledged is that of the request or of a later command
  (`AnsweredInv`), since a file that is opened is opened by the last command (`OpenedByTheLast`).
* `StoppedLive` (`StoppedLiveEnds`): a stream is no longer active only after its stop, which clears
  the file or failed (`StoppedStep`).

`SegmenterProofs`, for chunks of any size and any number of them, of adjustments and resumptions, from
`SegmenterOK`. `Base` (types, the bytes in the buffer, the frames counted, when an overflow is logged)
comes with the kind of `Change` a step is; the others follow for each kind.

* `TypeCorrect`, `SegmentsLine` (`SegmentsInLine`): counters and checkpoint go on from the last
  segment unless a checkpoint was stale (`CountersInv`).
* `ChunksWhere` (`ChunksAccounted`): what was delivered and the buffer together ascend, and with the
  lost chunks are all there are (`ChunkInv`).
* `SegmentsDeliver`: `Spec => File!Init /\ [][File!Next]_(File!vars)`, the safety part of the
  refinement of `Delivery`.

`PlaybackProofs`, for any files, start codes, segments, times and rates, from `PlaybackOK`. The
invariant (`PlaybackInv`) is short - types, an index built from the file that is open (`GoodIndex`),
a queue that is what `AdjustTransmissionQueue` gives for what was queued last (`QueueNoted`) - and the work is in the operators:

* `TypeCorrect`.
* `IndexFinds` (`IndexFindsKeyframes`): the scan keeps `ScanOK`, by which the entries are start
  codes in order; the binary search ends at the last entry at or before the time (`Before`,
  `SearchEnds`), and the sparse and the hierarchical search find that one too (`SparseIs`,
  `HierarchicalIs`; `ChunkOf`: an entry is in one chunk). Times increase because the codes before an
  entry are counted (`Increasing`).
* `QueueKeeps` (`QueueKeepsKeyFrames`): what the loop of `FrameDropping` keeps (`DropKeeps`), that it
  drops no more than one segment in a row at 2x and three at 4x (`ModThree`, `ModFour`, `Spread`),
  and that sorting changes the order only (`SortLists`).

Only model-checked: liveness, which is out of the prover's reach - `UploadsEnd`, `StreamsHandled`,
`LostSessionsRemoved`, `CallsEnd`, `CallsReturn`, `RecoveryEnds`, and the fairness in `Delivers` of
`LiveStream` and `Segmenter`.

## 5. Where the code departs from its documents

* `seek_answered` - the lock inversion at `on_demand_uploader.rs:689`.
* `pause_is_not_completion` - a Pause completes the upload (`on_demand_uploader.rs:1861`).
* `upload_starts_at_keyframe` - the start offset is the session's, not the task's (1263).
* `files_in_order` - segments are appended without order (`mock_server.rs:627`).

These are departures that no run refutes, because each is one expression or one handler that a reading
shows as well as a run and that no order of steps changes; the modules have them as the code does:

* `bin/mock_server.rs:95, 506, 512` offers `live stop` to stop a live stream and
  `on_demand_uploader.rs:1929` is commented as stopping it, but `stop_live_stream` only logs
  (`LiveStream.StopLive` changes nothing); the limit of 30 s at 1960 ends the stream.
* `network_error_handler.rs:233, 240` makes up `[200, 0]` as a "successful response" and
  `PLATFORM_INTEGRATION_PROTOCOL.md:160-175` gives the same bytes for "HTTP 200 OK" beside "u16 big
  endian"; `from_be_bytes` reads 51200 (`Recovery.StatusCode`), so the handler accepts no version.
* A live stream started a second time while its file is received (`mock_server.rs:1003-1020`) is
  reported, at its stop (1077), for a file in which nothing was recorded. No document speaks of it:
  `ReportsAreFinal` and `LiveFramesAreRecorded` name it as their exception.

## 6. Not modelled, and why

* **Processes and files outside the program**: ffmpeg and ffprobe (`separator.rs`,
  `ffmpeg_cli_parser.rs`, the child process of `live_encoder.rs`), directories and container formats,
  TLS set-up. What they return is a nondeterministic choice where a module meets it; inside, there is
  no state of the program.
* **`h264_encoder.rs`**, which encodes pixels behind the trait that `live_encoder.rs` implements too:
  no caller reaches it from a live stream. In `on_demand_uploader.rs`, `simulate_*` and
  `process_h264_file*` are not called either.
* **Monitors** (`monitor.rs`, `resource_monitor.rs`): averages over windows in floating point, and
  constants that stand for measurements; nothing in the program waits for them.
* **Configuration, command line, builders, data types** (`config.rs`, `transmission_config.rs`,
  `main.rs`, `types.rs`, `errors.rs`, `serde_helpers.rs`): no protocol.
* **Eight hazards without a property**, with the reason beside each in `PROJECT.json`. Five are races
  or leftovers that the code allows and no document rules out, so that there is nothing to check: two
  tasks that complete one session after a Seek, or after a re-request; a refused rate that is kept; a
  video edited while its timeline is generated; videos that share one timeline file. One is a
  regeneration that loads the old timeline file (nothing says what it should do for an unmodified
  video), one the constant of the negotiation (section 5), and one the channel of 100 platform
  messages, which needs client and server in one model and more messages than TLC can enumerate.
  Where a property names a race as its exception, the hazard's note says so.
* **Client and server together.** `Uploader` and `Server` each take the other as their environment,
  with every answer the other may give; a composition would add no state that one of them reads.

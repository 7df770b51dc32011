------------------------------ MODULE Uploader ------------------------------
(***************************************************************************)
(* The on-demand uploader of the client (src/src/on_demand_uploader.rs).   *)
(*                                                                         *)
(* One task, the processor, takes the platform's messages one at a time    *)
(* (start_message_handling, process_platform_message).  FileRequest and    *)
(* Seek spawn a detached upload task each (start_upload_task); an upload    *)
(* task runs execute_upload, then real_file_transmission, and is never      *)
(* cancelled: it learns of Pause, Stop and SessionEnd only by reading the  *)
(* status of its session.  Processor and tasks share the session map       *)
(* active_sessions (an RwLock) and the playback controller (a Mutex).      *)
(*                                                                         *)
(* An action is the code between two points where another task may run:    *)
(* an await of a lock or of I/O.  A critical section with no await inside  *)
(* is one action guarded by the lock being free.  Two are not: the arm of  *)
(* Seek and SetRate keeps active_sessions.write() while it awaits the      *)
(* controller, and an upload task keeps the controller while it awaits     *)
(* active_sessions.write().                                                *)
(*                                                                         *)
(* Units: file lengths, keyframe offsets and times are counted in segments *)
(* (one chunk on the wire), so that keyframe k starts at segment k.        *)
(***************************************************************************)
EXTENDS Integers

CONSTANTS
    Sessions,       \* session ids the platform uses
    Files,          \* files in the registry
    None,           \* the Rust None: no index, no seek position, no offset, no lock owner
    Chunks,         \* Chunks[f]: length of file f, in segments; also its duration
    Keyframes,      \* Keyframes[f]: where the keyframes of f are
    Generic,        \* files whose format is neither "mp4" nor "h264"
    GenericStride,  \* segments that process_generic_file_from_position skips per unit of position
    RequestSeeks,   \* seek_position of the FileRequests, None included
    CommandSeeks,   \* positions of the Seek commands
    RequestRates,   \* playback_rate of the FileRequests
    CommandRates,   \* rates of the SetRate commands
    MaxMessages,    \* bound: messages the platform sends
    MaxTasks        \* bound: upload tasks spawned

ASSUME ConstantsOK ==
    /\ None \notin Int /\ None \notin Files /\ None \notin Sessions
    /\ Chunks \in [Files -> Nat]
    /\ Keyframes \in [Files -> SUBSET Nat]
    /\ \A f \in Files : \A k \in Keyframes[f] : k <= Chunks[f]
    /\ GenericStride \in Nat
    /\ RequestSeeks \subseteq Int \cup {None} /\ CommandSeeks \subseteq Int
    /\ RequestRates \subseteq Int /\ CommandRates \subseteq Int
    /\ MaxMessages \in Nat /\ MaxTasks \in Nat

VARIABLES
    sessions,    \* active_sessions: session id -> UploadSession, or None if absent
    processor,   \* the message processor: idle, or awaiting the controller with the map locked
    controller,  \* owner of the playback controller's mutex, or None
    tasks,       \* the upload tasks, in the order they were spawned
    spawned,     \* how many tasks were spawned
    received,    \* how many messages were processed
    halted       \* history: sessions that ever got a Pause, a Stop or a SessionEnd

vars == <<sessions, processor, controller, tasks, spawned, received, halted>>

TaskIds == 1 .. MaxTasks

UploadStatus ==
    {"Preparing", "Active", "Seeking", "RateChanging", "Paused", "Completed", "Error"}

UploadSession ==
    [file : Files, status : UploadStatus, current_position : Int, playback_rate : Int,
     keyframe_index : Files \cup {None}, last_seek_result : Nat \cup {None},
     total_segments : Nat, uploaded_segments : Nat, total_bytes_transmitted : Nat]

\* An absent session is told apart from every session.
ASSUME NoneIsNoSession == None \notin UploadSession

TaskSteps ==
    {"unborn", "start", "open", "store", "seek", "seekStore", "rate", "offset",
     "begin", "check", "send", "account", "error", "finish", "done", "failed"}

UploadTask ==
    [at : TaskSteps, session : Sessions \cup {None}, file : Files \cup {None},
     seek : Int \cup {None}, rate : Int, indexed : BOOLEAN,
     offset : Nat, total : Nat, sent : Nat]

Processor ==
    [at : {"idle", "seek", "setRate"}, session : Sessions \cup {None}, arg : Int]

Idle == [at |-> "idle", session |-> None, arg |-> 0]

Unborn ==
    [at |-> "unborn", session |-> None, file |-> None, seek |-> None, rate |-> 1,
     indexed |-> FALSE, offset |-> 0, total |-> 0, sent |-> 0]

NewTask(s, f, p, r) ==
    [Unborn EXCEPT !.at = "start", !.session = s, !.file = f, !.seek = p, !.rate = r]

NewSession(f, p, r) ==
    [file |-> f, status |-> "Preparing", current_position |-> IF p = None THEN 0 ELSE p,
     playback_rate |-> r, keyframe_index |-> None, last_seek_result |-> None,
     total_segments |-> 0, uploaded_segments |-> 0, total_bytes_transmitted |-> 0]

(***************************************************************************)
(* The playback controller: seek, seek_to_keyframe and set_playback_rate.  *)
(* What it answers is a function of its arguments; its own fields are not  *)
(* read by the uploader.                                                   *)
(***************************************************************************)

First(f) == CHOOSE k \in Keyframes[f] : \A j \in Keyframes[f] : k <= j
Last(f)  == CHOOSE k \in Keyframes[f] : \A j \in Keyframes[f] : j <= k

\* find_nearest_keyframe: the last keyframe at or before p, the first if there is none.
KeyframeAt(f, p) ==
    LET before == {k \in Keyframes[f] : k <= p}
    IN  IF p <= 0 \/ (p < Chunks[f] /\ before = {}) THEN First(f)
        ELSE IF p >= Chunks[f] THEN Last(f)
        ELSE CHOOSE k \in before : \A j \in before : j <= k

\* seek_to_keyframe refuses; with no index (None), seek refuses.
SeekRefused(index, p) ==
    \/ p < 0
    \/ index # None /\ (p > Chunks[index] \/ Keyframes[index] = {})

RateRefused(r) == r <= 0 \/ r > 10

-----------------------------------------------------------------------------
(***************************************************************************)
(* The processor.                                                          *)
(***************************************************************************)

Init ==
    /\ sessions = [s \in Sessions |-> None]
    /\ processor = Idle
    /\ controller = None
    /\ tasks = [t \in TaskIds |-> Unborn]
    /\ spawned = 0
    /\ received = 0
    /\ halted = {}

Exists(s) == sessions[s] # None

\* Nobody keeps active_sessions.write() across an await.
SessionsFree == processor.at = "idle"

Receive == processor.at = "idle" /\ received < MaxMessages /\ received' = received + 1

\* start_upload_task: tokio::spawn of execute_upload.
Spawn(s, f, p, r) ==
    /\ spawned < MaxTasks
    /\ spawned' = spawned + 1
    /\ tasks' = [tasks EXCEPT ![spawned + 1] = NewTask(s, f, p, r)]

\* The FileRequest arm inserts a session, over the one that may be there, and spawns.
FileRequest(s, f, p, r) ==
    /\ Receive
    /\ sessions' = [sessions EXCEPT ![s] = NewSession(f, p, r)]
    /\ Spawn(s, f, p, r)
    /\ UNCHANGED <<processor, controller, halted>>

\* Seek takes the session map, marks the session and awaits the controller.
SeekBegin(s, p) ==
    /\ Receive /\ Exists(s) /\ spawned < MaxTasks
    /\ sessions' = [sessions EXCEPT ![s].status = "Seeking"]
    /\ processor' = [at |-> "seek", session |-> s, arg |-> p]
    /\ UNCHANGED <<controller, tasks, spawned, halted>>

\* Seek has the controller: it moves the session and spawns a new upload task
\* (the old one, if any, goes on), or marks the error.
SeekEnd ==
    /\ processor.at = "seek" /\ controller = None
    /\ LET s == processor.session
           p == processor.arg
           index == sessions[s].keyframe_index
           actual == IF index = None THEN p ELSE KeyframeAt(index, p)
       IN  \/ /\ SeekRefused(index, p)
              /\ sessions' = [sessions EXCEPT ![s].status = "Error"]
              /\ UNCHANGED <<tasks, spawned>>
           \/ /\ ~SeekRefused(index, p)
              /\ sessions' = [sessions EXCEPT
                     ![s].status = "Active", ![s].current_position = actual,
                     ![s].last_seek_result = IF index = None THEN @ ELSE actual]
              /\ Spawn(s, sessions[s].file, actual, sessions[s].playback_rate)
    /\ processor' = Idle
    /\ UNCHANGED <<controller, received, halted>>

\* SetRate stores the rate before the controller has accepted it.
SetRateBegin(s, r) ==
    /\ Receive /\ Exists(s)
    /\ sessions' = [sessions EXCEPT ![s].status = "RateChanging", ![s].playback_rate = r]
    /\ processor' = [at |-> "setRate", session |-> s, arg |-> r]
    /\ UNCHANGED <<controller, tasks, spawned, halted>>

SetRateEnd ==
    /\ processor.at = "setRate" /\ controller = None
    /\ sessions' = [sessions EXCEPT ![processor.session].status =
           IF RateRefused(processor.arg) THEN "Error" ELSE "Active"]
    /\ processor' = Idle
    /\ UNCHANGED <<controller, tasks, spawned, received, halted>>

Pause(s) ==
    /\ Receive /\ Exists(s)
    /\ sessions' = [sessions EXCEPT ![s].status = "Paused"]
    /\ halted' = halted \cup {s}
    /\ UNCHANGED <<processor, controller, tasks, spawned>>

Resume(s) ==
    /\ Receive /\ Exists(s)
    /\ sessions' = [sessions EXCEPT ![s].status = "Active"]
    /\ UNCHANGED <<processor, controller, tasks, spawned, halted>>

Stop(s) ==
    /\ Receive /\ Exists(s)
    /\ sessions' = [sessions EXCEPT ![s].status = "Completed"]
    /\ halted' = halted \cup {s}
    /\ UNCHANGED <<processor, controller, tasks, spawned>>

SessionEnd(s) ==
    /\ Receive /\ Exists(s)
    /\ sessions' = [sessions EXCEPT ![s] = None]
    /\ halted' = halted \cup {s}
    /\ UNCHANGED <<processor, controller, tasks, spawned>>

-----------------------------------------------------------------------------
(***************************************************************************)
(* An upload task: execute_upload.                                         *)
(***************************************************************************)

GoTo(t, step) == tasks' = [tasks EXCEPT ![t].at = step]

\* Under active_sessions.write(); no effect once the session is removed.
SetStatus(t, status) ==
    LET s == tasks[t].session
    IN  /\ SessionsFree
        /\ sessions' = IF Exists(s) THEN [sessions EXCEPT ![s].status = status] ELSE sessions

\* The session is made Active whatever it was: a Stop or Pause that came first is lost.
Start(t) ==
    /\ tasks[t].at = "start"
    /\ SetStatus(t, "Active")
    /\ GoTo(t, "open")
    /\ UNCHANGED <<processor, controller, spawned, received, halted>>

\* Registry lookup, open_file and the keyframe index: from the timeline, by a
\* scan, or none when the scan fails.  An error ends the task and tells nobody.
Open(t) ==
    /\ tasks[t].at = "open"
    /\ \/ GoTo(t, "failed")
       \/ \E b \in BOOLEAN :
             tasks' = [tasks EXCEPT ![t].at = "store", ![t].indexed = b]
    /\ UNCHANGED <<sessions, processor, controller, spawned, received, halted>>

StoreIndex(t) ==
    LET s == tasks[t].session
        index == IF tasks[t].indexed THEN tasks[t].file ELSE None
    IN  /\ tasks[t].at = "store" /\ SessionsFree
        /\ sessions' = IF Exists(s) THEN [sessions EXCEPT ![s].keyframe_index = index]
                                    ELSE sessions
        /\ GoTo(t, IF tasks[t].seek = None THEN "rate" ELSE "seek")
        /\ UNCHANGED <<processor, controller, spawned, received, halted>>

\* Mutant of Seek: the controller stays locked when it refuses the position.
SeekKeepsLock(t) ==
    /\ tasks[t].at = "seek" /\ controller = None
    /\ LET index == IF tasks[t].indexed THEN tasks[t].file ELSE None
       IN  \/ /\ SeekRefused(index, tasks[t].seek)
              /\ GoTo(t, "failed")
              /\ controller' = t
           \/ /\ ~SeekRefused(index, tasks[t].seek)
              /\ GoTo(t, IF index = None THEN "rate" ELSE "seekStore")
              /\ controller' = IF index = None THEN controller ELSE t
    /\ UNCHANGED <<sessions, processor, spawned, received, halted>>

\* The initial seek, under the controller's lock.  Found with an index, the
\* result must be stored in the session before the lock is released.
Seek(t) ==
    /\ tasks[t].at = "seek" /\ controller = None
    /\ LET index == IF tasks[t].indexed THEN tasks[t].file ELSE None
       IN  \/ /\ SeekRefused(index, tasks[t].seek)
              /\ GoTo(t, "failed")
              /\ UNCHANGED controller
           \/ /\ ~SeekRefused(index, tasks[t].seek)
              /\ index = None
              /\ GoTo(t, "rate")
              /\ UNCHANGED controller
           \/ /\ ~SeekRefused(index, tasks[t].seek)
              /\ index # None
              /\ GoTo(t, "seekStore")
              /\ controller' = t
    /\ UNCHANGED <<sessions, processor, spawned, received, halted>>

SeekStore(t) ==
    LET s == tasks[t].session
        actual == KeyframeAt(tasks[t].file, tasks[t].seek)
    IN  /\ tasks[t].at = "seekStore" /\ SessionsFree
        /\ sessions' = IF Exists(s)
                         THEN [sessions EXCEPT ![s].current_position = actual,
                                               ![s].last_seek_result = actual]
                         ELSE sessions
        /\ controller' = None
        /\ GoTo(t, "rate")
        /\ UNCHANGED <<processor, spawned, received, halted>>

\* The controller is asked only for a rate that is not 1.
SetRate(t) ==
    /\ tasks[t].at = "rate"
    /\ tasks[t].rate # 1 => controller = None
    /\ GoTo(t, IF RateRefused(tasks[t].rate) THEN "failed" ELSE "offset")
    /\ UNCHANGED <<sessions, processor, controller, spawned, received, halted>>

-----------------------------------------------------------------------------
(***************************************************************************)
(* real_file_transmission and the segment loop of                          *)
(* process_mp4_file_from_position / process_generic_file_from_position.    *)
(***************************************************************************)

Seeks(t) == tasks[t].seek # None /\ tasks[t].seek > 0

\* Mutant of ReadOffset: the stored seek result is not used.
ReadOffsetFromStart(t) ==
    /\ tasks[t].at = "offset"
    /\ GoTo(t, "begin")
    /\ UNCHANGED <<sessions, processor, controller, spawned, received, halted>>

\* A task that was asked to seek starts where the session's last seek went.
ReadOffset(t) ==
    LET s == tasks[t].session
    IN  /\ tasks[t].at = "offset"
        /\ Seeks(t) => SessionsFree
        /\ tasks' = [tasks EXCEPT
               ![t].at = "begin",
               ![t].offset = IF Seeks(t) /\ Exists(s) /\ sessions[s].last_seek_result # None
                               THEN sessions[s].last_seek_result ELSE 0]
        /\ UNCHANGED <<sessions, processor, controller, spawned, received, halted>>

Remaining(t) ==
    IF tasks[t].offset < Chunks[tasks[t].file] THEN Chunks[tasks[t].file] - tasks[t].offset ELSE 0

\* Mutant of GenericSkip: the start index is not compared with what remains.
GenericSkipUnchecked(t) ==
    IF tasks[t].file \in Generic /\ tasks[t].seek # None
      THEN tasks[t].seek * GenericStride ELSE 0

\* start_segment_index of the generic path, applied to data that starts at the offset already.
GenericSkip(t) ==
    LET index == IF tasks[t].seek = None THEN 0 ELSE tasks[t].seek * GenericStride
    IN  IF tasks[t].file \in Generic /\ index < Remaining(t) THEN index ELSE 0

ReadFails(t) ==
    /\ tasks[t].at = "begin"
    /\ GoTo(t, "failed")
    /\ UNCHANGED <<sessions, processor, controller, spawned, received, halted>>

\* The file is read and the session's statistics are reset, uploaded_segments excepted.
Begin(t) ==
    LET s == tasks[t].session
        total == Remaining(t) - GenericSkip(t)
    IN  /\ tasks[t].at = "begin" /\ SessionsFree
        /\ tasks' = [tasks EXCEPT ![t].at = "check", ![t].total = total,
                                  ![t].offset = @ + GenericSkip(t)]
        /\ sessions' = IF Exists(s)
                         THEN [sessions EXCEPT ![s].total_segments = total,
                                               ![s].total_bytes_transmitted = 0]
                         ELSE sessions
        /\ UNCHANGED <<processor, controller, spawned, received, halted>>

\* check_session_active: only Paused, Completed and a removed session stop the loop.
\* (Paused sleeps first, then stops the loop all the same.)
SessionActive(s) == Exists(s) /\ sessions[s].status \notin {"Paused", "Completed"}

Check(t) ==
    /\ tasks[t].at = "check"
    /\ tasks[t].sent < tasks[t].total => SessionsFree
    /\ GoTo(t, IF tasks[t].sent < tasks[t].total /\ SessionActive(tasks[t].session)
                 THEN "send" ELSE "finish")
    /\ UNCHANGED <<sessions, processor, controller, spawned, received, halted>>

\* Mutant of Send: a segment is counted before the transport has taken it.
SendCountsFirst(t) ==
    /\ tasks[t].at = "send"
    /\ \E next \in {"account", "error"} :
          tasks' = [tasks EXCEPT ![t].at = next, ![t].sent = @ + 1]
    /\ UNCHANGED <<sessions, processor, controller, spawned, received, halted>>

\* transport.send_segment: one unidirectional stream per segment.
Send(t) ==
    /\ tasks[t].at = "send"
    /\ \/ tasks' = [tasks EXCEPT ![t].at = "account", ![t].sent = @ + 1]
       \/ GoTo(t, "error")
    /\ UNCHANGED <<sessions, processor, controller, spawned, received, halted>>

\* Mutant of Account: progress also refreshes the status.
AccountReactivates(t) ==
    LET s == tasks[t].session
    IN  /\ tasks[t].at = "account" /\ SessionsFree
        /\ sessions' = IF Exists(s)
                         THEN [sessions EXCEPT ![s].uploaded_segments = tasks[t].sent,
                                               ![s].total_bytes_transmitted = @ + 1,
                                               ![s].status = "Active"]
                         ELSE sessions
        /\ GoTo(t, "check")
        /\ UNCHANGED <<processor, controller, spawned, received, halted>>


Account(t) ==
    LET s == tasks[t].session
    IN  /\ tasks[t].at = "account" /\ SessionsFree
        /\ sessions' = IF Exists(s)
                         THEN [sessions EXCEPT ![s].uploaded_segments = tasks[t].sent,
                                               ![s].total_bytes_transmitted = @ + 1]
                         ELSE sessions
        /\ GoTo(t, "check")
        /\ UNCHANGED <<processor, controller, spawned, received, halted>>

\* Mutant of MarkError: after a failed send the task goes on to its end.
MarkErrorFallsThrough(t) ==
    /\ tasks[t].at = "error"
    /\ SetStatus(t, "Error")
    /\ GoTo(t, "finish")
    /\ UNCHANGED <<processor, controller, spawned, received, halted>>


MarkError(t) ==
    /\ tasks[t].at = "error"
    /\ SetStatus(t, "Error")
    /\ GoTo(t, "failed")
    /\ UNCHANGED <<processor, controller, spawned, received, halted>>

\* Reached after the last segment, and after the loop was stopped.
Finish(t) ==
    /\ tasks[t].at = "finish"
    /\ SetStatus(t, "Completed")
    /\ GoTo(t, "done")
    /\ UNCHANGED <<processor, controller, spawned, received, halted>>

-----------------------------------------------------------------------------

Message ==
    \/ \E s \in Sessions, f \in Files, p \in RequestSeeks, r \in RequestRates :
          FileRequest(s, f, p, r)
    \/ \E s \in Sessions, p \in CommandSeeks : SeekBegin(s, p)
    \/ \E s \in Sessions, r \in CommandRates : SetRateBegin(s, r)
    \/ \E s \in Sessions : Pause(s) \/ Resume(s) \/ Stop(s) \/ SessionEnd(s)

ProcessorStep == SeekEnd \/ SetRateEnd

TaskStep(t) ==
    \/ Start(t) \/ Open(t) \/ StoreIndex(t) \/ Seek(t) \/ SeekStore(t) \/ SetRate(t)
    \/ ReadOffset(t) \/ ReadFails(t) \/ Begin(t) \/ Check(t) \/ Send(t) \/ Account(t)
    \/ MarkError(t) \/ Finish(t)

Next == Message \/ ProcessorStep \/ \E t \in TaskIds : TaskStep(t)

\* The runtime polls every ready task; the platform may send nothing more.
Fairness == WF_vars(ProcessorStep) /\ \A t \in TaskIds : WF_vars(TaskStep(t))

Spec == Init /\ [][Next]_vars /\ Fairness

-----------------------------------------------------------------------------
(***************************************************************************)
(* Properties.                                                             *)
(***************************************************************************)

\* Every variable ranges over what its Rust type holds.
TypeOK ==
    /\ sessions \in [Sessions -> UploadSession \cup {None}]
    /\ processor \in Processor
    /\ controller \in TaskIds \cup {None}
    /\ tasks \in [TaskIds -> UploadTask]
    /\ spawned \in 0 .. MaxTasks
    /\ received \in 0 .. MaxMessages
    /\ halted \subseteq Sessions

Born(t) == tasks[t].at # "unborn"

\* The session of t has had no other upload task: it was requested once and never moved.
Sole(t) == Born(t) /\ \A u \in TaskIds \ {t} : tasks[u].session # tasks[t].session

Ended(t) == tasks[t].at \in {"done", "failed"}

\* t sent every segment from its offset to the end of its file.
Delivered(t) == tasks[t].at = "done" /\ tasks[t].sent = tasks[t].total

Completed(s) == Exists(s) /\ sessions[s].status = "Completed"

Paused(s) == Exists(s) /\ sessions[s].status = "Paused"

\* Every task of s uploads the file that s stands for now: no re-request of s for
\* another file has overwritten it.
OneFile(s) == \A t \in TaskIds : tasks[t].session = s => tasks[t].file = sessions[s].file

\* A session that was requested for one file, and was never paused, stopped or
\* ended, is Completed only after a task of it sent that file, from the task's
\* offset to the end: no failure of any task, in any order with the others, makes
\* it Completed.  Two things the code does are not excluded: after a re-request
\* for another file the older task completes the new session with the older
\* file, and after a Seek the task of the earlier offset may be the one that does.
CompletedIsEarned ==
    \A s \in Sessions \ halted : Completed(s) /\ OneFile(s) =>
        \E t \in TaskIds : /\ tasks[t].session = s /\ tasks[t].file = sessions[s].file
                           /\ Delivered(t)

\* While a session has one upload task, what it reports (status command of the
\* client) is what that task sent: at most one segment behind, never ahead.
SoleUploadAccounted ==
    \A t \in TaskIds :
        LET s == tasks[t].session
            reported == tasks[t].sent - (IF tasks[t].at = "account" THEN 1 ELSE 0)
        IN  Sole(t) /\ Exists(s) =>
                /\ sessions[s].uploaded_segments = reported
                /\ sessions[s].total_bytes_transmitted = reported
                /\ sessions[s].total_segments = tasks[t].total
                /\ reported <= tasks[t].total

\* Where an upload that was asked to start at tasks[t].seek ought to start.
SeekTarget(t) ==
    IF Seeks(t) /\ tasks[t].indexed THEN KeyframeAt(tasks[t].file, tasks[t].seek) ELSE 0

\* While a session has one upload task, that task reads from the keyframe of
\* its own seek: nothing it sends comes from another place of the file.  (The
\* generic formats skip further: GenericSkip.)
SoleUploadStartsAtKeyframe ==
    \A t \in TaskIds :
        Sole(t) /\ tasks[t].sent > 0 /\ tasks[t].file \notin Generic =>
            tasks[t].offset = SeekTarget(t)

\* What a Stop guarantees: a session reported Completed stays so until the
\* platform says otherwise, except for an upload task that had not started
\* when the Stop came, and for one whose send failed at that moment.
StopHolds ==
    [][\A s \in Sessions :
          Completed(s) /\ ~Completed(s)' =>
              \/ received' = received + 1
              \/ \E t \in TaskIds : /\ tasks[t].session = s
                                    /\ tasks[t].at \in {"start", "error"}
      ]_vars

\* The processor has the session map and waits for the controller, whose owner
\* waits for the session map.
LockInversion ==
    /\ processor.at # "idle"
    /\ \E t \in TaskIds : controller = t /\ tasks[t].at = "seekStore"

\* Every upload task that was spawned ends, whatever the platform sends and
\* in whatever order the tasks run, unless the two locks are inverted: that
\* is the only way to hang in the design.
UploadsEnd == \A t \in TaskIds : Born(t) ~> (Ended(t) \/ LockInversion)

(***************************************************************************)
(* What the documents say and the code does not do.                        *)
(***************************************************************************)

\* A Seek or a SetRate is answered: the processor comes back for the next message.
SeekAnswered == processor.at # "idle" ~> processor.at = "idle"

\* A paused upload waits to be resumed: only the platform ends the pause, and
\* the uploader never reports the session Completed on its own.
PauseIsNotCompletion ==
    [][\A s \in Sessions :
          Paused(s) /\ Completed(s)' => received' = received + 1
      ]_vars

\* Every upload that starts from a seek reads from the offset of that seek.
UploadStartsAtKeyframe ==
    \A t \in TaskIds :
        tasks[t].sent > 0 /\ tasks[t].file \notin Generic => tasks[t].offset = SeekTarget(t)
=============================================================================

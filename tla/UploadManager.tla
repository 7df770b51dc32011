---------------------------- MODULE UploadManager ---------------------------
(***************************************************************************)
(* The upload manager (src/src/upload_manager.rs) and the shutdown of the   *)
(* application that owns it (src/src/app.rs).                               *)
(*                                                                         *)
(* start_upload may be called again while a call is under way: it runs to   *)
(* the end of its upload.  All calls share one session, one flag            *)
(* is_running and one stored connection, each behind a lock of its own.     *)
(* One more task, the caller, stops, seeks, sets the rate and shuts down,   *)
(* one call after the other.  stop_upload keeps the lock of is_running      *)
(* until it returns; every other critical section is one action.            *)
(*                                                                         *)
(* The file reader, the segmenter and the transport decide which step       *)
(* fails; a file has few segments.  Separating audio sends the same segment *)
(* and fails like a send.  Events matter by what start_upload ends with;    *)
(* performance figures are left out.                                        *)
(***************************************************************************)
EXTENDS Integers, FiniteSets, FiniteSetsExt

CONSTANTS
    Uploads,      \* the calls of start_upload
    None,         \* the Rust None
    Settings,     \* what the caller sets: of "current_position" and "playback_rate"
    MaxSegments,  \* bound: segments, good or not, of all files together
    MaxCalls      \* bound: calls of stop_upload, seek, set_playback_rate, shutdown

ASSUME ManagerOK ==
    /\ None \notin Uploads
    /\ Settings \subseteq {"current_position", "playback_rate"}
    /\ MaxSegments \in Nat /\ MaxCalls \in Nat

VARIABLES
    is_running,       \* the flag
    current_session,  \* TransmissionSession or None
    connection,       \* the upload that made the stored connection, or None
    controller,       \* what the playback controller was told
    upload,           \* call -> where it is and what it counted
    caller,           \* what the caller is doing
    calls,            \* how many calls it made
    stopped,          \* history: uploads stopped and not set running again
    overlapped,       \* history: two uploads were under way at a time
    raced,            \* history: a call saw the flag of one that was starting
    interrupted       \* history: an upload was stopped

vars == <<is_running, current_session, connection, controller, upload, caller,
          calls, stopped, overlapped, raced, interrupted>>

history == <<stopped, overlapped, raced, interrupted>>
callerVars == <<controller, caller, calls>>

Initial == [s \in Settings |-> IF s = "playback_rate" THEN 1 ELSE 0]

\* A caller's value differs from the initial ones.
NewValue == 2

Session == [id : Uploads, status : {"Preparing", "Active", "Paused", "Completed"},
            progress : 0 .. 100, settings : [Settings -> {0, 1, NewValue}],
            total_segments : Nat, transmitted_segments : Nat, errors : Nat]

Starting == {"validate", "store", "run"}
Uploading == {"activate", "connect", "keep", "get", "open", "next", "count",
              "send", "progress", "error", "close", "complete", "clear"}
Ended == {"refused", "failed", "panicked", "completed"}

Upload == [at : {"new"} \cup Starting \cup Uploading \cup Ended,
           via : Uploads \cup {None},
           segment_count : Nat, transmitted_count : Nat, errors : Nat]

UnderWay(u) == upload[u].at \in Uploading \cup {"run"}

Init ==
    /\ is_running = FALSE
    /\ current_session = None
    /\ connection = None
    /\ controller = Initial
    /\ upload = [u \in Uploads |-> [at |-> "new", via |-> None, segment_count |-> 0,
                                    transmitted_count |-> 0, errors |-> 0]]
    /\ caller = [at |-> "idle", setting |-> None]
    /\ calls = 0
    /\ stopped = {}
    /\ overlapped = FALSE /\ raced = FALSE /\ interrupted = FALSE

\* stop_upload holds the write lock of is_running.
LockFree == caller.at \notin {"pause", "disconnect"}

Goto(u, state) == upload' = [upload EXCEPT ![u].at = state]

SessionUpdate(changed) ==
    current_session' = IF current_session = None THEN None ELSE changed

-----------------------------------------------------------------------------
(* start_upload *)

\* Mutant of CheckRunning: the flag is not looked at.
CheckNothing(u) ==
    /\ upload[u].at = "new"
    /\ Goto(u, "validate")
    /\ raced' = (raced \/ (~is_running /\ \E v \in Uploads : upload[v].at \in Starting))
    /\ UNCHANGED <<is_running, current_session, connection, callerVars,
                   stopped, overlapped, interrupted>>

CheckRunning(u) ==
    /\ upload[u].at = "new"
    /\ LockFree
    /\ Goto(u, IF is_running THEN "refused" ELSE "validate")
    /\ raced' = (raced \/ (~is_running /\ \E v \in Uploads : upload[v].at \in Starting))
    /\ UNCHANGED <<is_running, current_session, connection, callerVars,
                   stopped, overlapped, interrupted>>

\* A file that is not a video ends the call, nothing was changed.
ValidateFile(u) ==
    /\ upload[u].at = "validate"
    /\ \E next \in {"store", "refused"} : Goto(u, next)
    /\ UNCHANGED <<is_running, current_session, connection, callerVars, history>>

StoreSession(u) ==
    /\ upload[u].at = "store"
    /\ current_session' = [id |-> u, status |-> "Preparing", progress |-> 0,
                           settings |-> Initial, total_segments |-> 0,
                           transmitted_segments |-> 0, errors |-> 0]
    /\ Goto(u, "run")
    /\ overlapped' = (overlapped \/ \E v \in Uploads \ {u} : UnderWay(v))
    /\ UNCHANGED <<is_running, connection, callerVars, stopped, raced, interrupted>>

SetRunning(u) ==
    /\ upload[u].at = "run"
    /\ LockFree
    /\ is_running' = TRUE
    /\ Goto(u, "activate")
    /\ stopped' = {}
    /\ UNCHANGED <<current_session, connection, callerVars, overlapped, raced, interrupted>>

-----------------------------------------------------------------------------
(* run_upload_process *)

Activate(u) ==
    /\ upload[u].at = "activate"
    /\ SessionUpdate([current_session EXCEPT !.status = "Active"])
    /\ Goto(u, "connect")
    /\ UNCHANGED <<is_running, connection, callerVars, history>>

\* Every `?` ends the process: SessionFailed is emitted, the flag stays.
MayFail(u, at, next) ==
    /\ upload[u].at = at
    /\ \E state \in {next, "failed"} : Goto(u, state)
    /\ UNCHANGED <<is_running, current_session, connection, callerVars, history>>

EstablishConnection(u) == MayFail(u, "connect", "keep")

StoreConnection(u) ==
    /\ upload[u].at = "keep"
    /\ connection' = u
    /\ Goto(u, "get")
    /\ UNCHANGED <<is_running, current_session, callerVars, history>>

\* as_ref().unwrap(): a stop may have taken the connection.
GetConnection(u) ==
    /\ upload[u].at = "get"
    /\ upload' = [upload EXCEPT ![u].at = IF connection = None THEN "panicked" ELSE "open",
                                ![u].via = connection]
    /\ UNCHANGED <<is_running, current_session, connection, callerVars, history>>

OpenFile(u) == MayFail(u, "open", "next")

ItemsSeen == MapThenSumSet(LAMBDA u : upload[u].segment_count + upload[u].errors, Uploads)

\* Mutant of NextSegment: the flag is not looked at.
NextSegmentAnyway(u) ==
    /\ upload[u].at = "next"
    /\ \/ Goto(u, "close")
       \/ /\ LockFree
          /\ ItemsSeen < MaxSegments
          /\ upload' = [upload EXCEPT ![u].at = "count", ![u].segment_count = @ + 1]
    /\ UNCHANGED <<is_running, current_session, connection, callerVars, history>>

\* The stream ends, without a look at the flag, or its next item is looked at if
\* the upload still runs.
NextSegment(u) ==
    /\ upload[u].at = "next"
    /\ \/ Goto(u, "close")
       \/ /\ LockFree
          /\ is_running
          /\ ItemsSeen < MaxSegments
          /\ \/ upload' = [upload EXCEPT ![u].at = "count", ![u].segment_count = @ + 1]
             \/ Goto(u, "error")
    /\ UNCHANGED <<is_running, current_session, connection, callerVars, history>>

UpdateTotal(u) ==
    /\ upload[u].at = "count"
    /\ SessionUpdate([current_session EXCEPT !.total_segments = upload[u].segment_count])
    /\ Goto(u, "send")
    /\ UNCHANGED <<is_running, connection, callerVars, history>>

SendSegment(u) ==
    /\ upload[u].at = "send"
    /\ \/ Goto(u, "error")
       \/ upload' = [upload EXCEPT ![u].at = "progress", ![u].transmitted_count = @ + 1]
    /\ UNCHANGED <<is_running, current_session, connection, callerVars, history>>

\* Mutant of UpdateProgress: the segment is counted twice.
UpdateProgressAhead(u) ==
    /\ upload[u].at = "progress"
    /\ SessionUpdate([current_session EXCEPT
           !.transmitted_segments = upload[u].transmitted_count,
           !.progress = (100 * (upload[u].transmitted_count + 1)) \div upload[u].segment_count])
    /\ Goto(u, "next")
    /\ UNCHANGED <<is_running, connection, callerVars, history>>

UpdateProgress(u) ==
    /\ upload[u].at = "progress"
    /\ SessionUpdate([current_session EXCEPT
           !.transmitted_segments = upload[u].transmitted_count,
           !.progress = (100 * upload[u].transmitted_count) \div upload[u].segment_count])
    /\ Goto(u, "next")
    /\ UNCHANGED <<is_running, connection, callerVars, history>>

\* Mutant of HandleError: the session does not count it.
HandleErrorUncounted(u) ==
    /\ upload[u].at = "error"
    /\ upload' = [upload EXCEPT ![u].at = "next", ![u].errors = @ + 1]
    /\ UNCHANGED <<is_running, current_session, connection, callerVars, history>>

\* handle_transmission_error, for a segment refused or not made: the loop goes on.
HandleError(u) ==
    /\ upload[u].at = "error"
    /\ SessionUpdate([current_session EXCEPT !.errors = @ + 1])
    /\ upload' = [upload EXCEPT ![u].at = "next", ![u].errors = @ + 1]
    /\ UNCHANGED <<is_running, connection, callerVars, history>>

CloseFile(u) == MayFail(u, "close", "complete")

\* complete_session, whatever ended the loop.
CompleteSession(u) ==
    /\ upload[u].at = "complete"
    /\ SessionUpdate([current_session EXCEPT !.status = "Completed", !.progress = 100])
    /\ Goto(u, "clear")
    /\ UNCHANGED <<is_running, connection, callerVars, history>>

\* Mutant of ClearRunning: the flag is left to the next stop.
ClearRunningForgotten(u) ==
    /\ upload[u].at = "clear"
    /\ Goto(u, "completed")
    /\ UNCHANGED <<is_running, current_session, connection, callerVars, history>>

ClearRunning(u) ==
    /\ upload[u].at = "clear"
    /\ LockFree
    /\ is_running' = FALSE
    /\ Goto(u, "completed")
    /\ UNCHANGED <<current_session, connection, callerVars, history>>

UploadStep(u) ==
    \/ CheckRunning(u) \/ ValidateFile(u) \/ StoreSession(u) \/ SetRunning(u)
    \/ Activate(u) \/ EstablishConnection(u) \/ StoreConnection(u) \/ GetConnection(u)
    \/ OpenFile(u) \/ NextSegment(u) \/ UpdateTotal(u) \/ SendSegment(u)
    \/ UpdateProgress(u) \/ HandleError(u) \/ CloseFile(u) \/ CompleteSession(u)
    \/ ClearRunning(u)

-----------------------------------------------------------------------------
(* The caller. *)

\* The setting is what a seek or a new rate is about, while it is under way.
At(state) == caller' = [at |-> state,
                        setting |-> IF state = "apply" THEN caller.setting ELSE None]

Call == caller.at = "idle" /\ calls < MaxCalls /\ LockFree

\* stop_upload, called by itself or by shutdown.  Its last two steps keep the lock.
StopUpload ==
    /\ is_running
    /\ is_running' = FALSE
    /\ stopped' = {u \in Uploads : upload[u].at \in Uploading}
    /\ interrupted' = TRUE
    /\ At("pause")
    /\ UNCHANGED <<current_session, connection, controller, upload,
                   overlapped, raced>>

\* NoActiveSession: nothing happens.
Refused ==
    /\ ~is_running
    /\ At("idle")
    /\ UNCHANGED <<is_running, current_session, connection, controller, upload, history>>

CallStop == Call /\ calls' = calls + 1 /\ (StopUpload \/ Refused)

\* shutdown reads the flag and calls stop_upload if it is set.
CallShutdown ==
    /\ Call
    /\ is_running
    /\ calls' = calls + 1
    /\ At("stopping")
    /\ UNCHANGED <<is_running, current_session, connection, controller, upload, history>>

ShutdownStops ==
    /\ caller.at = "stopping"
    /\ StopUpload \/ Refused
    /\ UNCHANGED calls

PauseSession ==
    /\ caller.at = "pause"
    /\ SessionUpdate([current_session EXCEPT !.status = "Paused"])
    /\ At("disconnect")
    /\ UNCHANGED <<is_running, connection, controller, upload, calls, history>>

\* Mutant of DropConnection: the lock of is_running is kept.
DropConnectionKeepsLock ==
    /\ caller.at = "disconnect"
    /\ connection' = None
    /\ UNCHANGED <<is_running, current_session, controller, upload, caller, calls, history>>

\* The stored clone is dropped; an upload that sends keeps its own.
DropConnection ==
    /\ caller.at = "disconnect"
    /\ connection' = None
    /\ At("idle")
    /\ UNCHANGED <<is_running, current_session, controller, upload, calls, history>>

\* seek and set_playback_rate, which differ in what they set.
CallAdjust ==
    /\ Call
    /\ is_running
    /\ calls' = calls + 1
    /\ \E s \in Settings : caller' = [at |-> "control", setting |-> s]
    /\ UNCHANGED <<is_running, current_session, connection, controller, upload, history>>

\* The controller may refuse the value.
AdjustController ==
    /\ caller.at = "control"
    /\ \/ /\ controller' = [controller EXCEPT ![caller.setting] = NewValue]
          /\ At("apply")
       \/ /\ At("idle")
          /\ UNCHANGED controller
    /\ UNCHANGED <<is_running, current_session, connection, upload, calls, history>>

AdjustSession ==
    /\ caller.at = "apply"
    /\ SessionUpdate([current_session EXCEPT !.settings[caller.setting] = NewValue])
    /\ At("idle")
    /\ UNCHANGED <<is_running, connection, controller, upload, calls,
                   stopped, overlapped, raced, interrupted>>

CallerContinues ==
    \/ ShutdownStops \/ PauseSession \/ DropConnection
    \/ AdjustController \/ AdjustSession

Next ==
    \/ \E u \in Uploads : UploadStep(u)
    \/ CallStop \/ CallShutdown \/ CallAdjust \/ CallerContinues

\* Every call that was made goes on; whether one is made is up to the user.
Fairness ==
    /\ \A u \in Uploads : WF_vars(upload[u].at # "new" /\ UploadStep(u))
    /\ WF_vars(CallerContinues)

Spec == Init /\ [][Next]_vars /\ Fairness

-----------------------------------------------------------------------------
(* Properties. *)

TypeOK ==
    /\ is_running \in BOOLEAN
    /\ current_session \in Session \cup {None}
    /\ connection \in Uploads \cup {None}
    /\ controller \in [Settings -> {0, 1, NewValue}]
    /\ upload \in [Uploads -> Upload]
    /\ caller \in [at : {"idle", "stopping", "pause", "disconnect", "control", "apply"},
                   setting : Settings \cup {None}]
    /\ calls \in 0 .. MaxCalls
    /\ stopped \subseteq Uploads
    /\ overlapped \in BOOLEAN /\ raced \in BOOLEAN /\ interrupted \in BOOLEAN

\* SessionAlreadyActive keeps uploads apart, but for two reasons: a call reads
\* the flag long before it sets it, and a stop clears it while the upload still
\* runs.  Apart, an upload sends on the connection it made, and finds it where
\* it put it unless a stop took it (upload_manager.rs:162, 193, 221, 418-436).
UploadsKeptApart ==
    /\ overlapped => raced \/ interrupted
    /\ \A u \in Uploads :
          /\ ~overlapped => upload[u].via \in {u, None}
          /\ upload[u].at = "panicked" => interrupted

\* The flag tells of the uploads, in both directions.  It is set without an
\* upload only after one that failed or died, which leaves it set and so has
\* every later start refused; and an upload runs without it only after a stop,
\* or beside another upload whose end cleared it (upload_manager.rs:162,
\* 193-196, 221, 395-436, 534).
FlagTellsOfUploads ==
    /\ is_running =>
          \E u \in Uploads : upload[u].at \in Uploading \cup {"failed", "panicked"}
    /\ ~is_running /\ (\E u \in Uploads : upload[u].at \in Uploading) =>
          interrupted \/ overlapped

Count(condition) == IF condition THEN 1 ELSE 0

\* While no other upload interferes the session tells what the upload did, up
\* to the step under way, every segment counted was sent, failed or is being
\* sent, and once the session is Completed nothing more is
\* (upload_manager.rs:459-519, 528-531, 690).
SoleUploadAccounted ==
    current_session # None /\ ~overlapped =>
        LET u == current_session.id
            own == upload[u]
        IN
        /\ current_session.total_segments = own.segment_count - Count(own.at = "count")
        /\ current_session.transmitted_segments
             = own.transmitted_count - Count(own.at = "progress")
        /\ current_session.errors = own.errors
        /\ own.transmitted_count <= own.segment_count
        /\ own.segment_count
             <= own.transmitted_count + own.errors + Count(own.at \in {"count", "send", "error"})
        /\ current_session.status = "Completed" =>
              /\ own.at \in {"clear", "completed"}
              /\ current_session.progress = 100

\* An upload that was stopped takes no further item of its stream, be it a segment
\* or an error, until some call of start_upload sets the flag again
\* (upload_manager.rs:193-196, 462-464).
StoppedUploadsStop ==
    [][\A u \in stopped : upload[u].at = "next" => upload'[u].at \in {"next", "close"}]_vars

\* Every call returns or dies: none waits for a lock forever.
CallsReturn ==
    /\ \A u \in Uploads : upload[u].at \in Starting ~> upload[u].at \in Ended
    /\ caller.at # "idle" ~> caller.at = "idle"

=============================================================================

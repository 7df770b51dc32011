------------------------------- MODULE Server -------------------------------
(***************************************************************************)
(* The platform server (src/src/mock_server.rs).                           *)
(*                                                                         *)
(* The operator's console runs one command at a time.  A connection has a   *)
(* task that accepts streams and spawns a handler per stream; handlers of   *)
(* one connection run concurrently.  All share the session map, a Mutex.    *)
(* Only the console keeps it across an await: while it sends a message.     *)
(* Elsewhere a critical section is one action, guarded by LockFree, also    *)
(* when a report or a directory is written inside: nobody sees it half way. *)
(*                                                                         *)
(* The client is external: when a command has reached it, it may answer     *)
(* with an upload, one stream per segment, each opened after the previous   *)
(* one was acknowledged.  An upload is known by the number of its command.  *)
(*                                                                         *)
(* Sizes are counted in segments, so received_size is total.  A debug file  *)
(* and its failure, which is only logged, are left out; so are the stream   *)
(* types, statistics over time, and queries, which change nothing.          *)
(***************************************************************************)
EXTENDS Integers, Sequences, FiniteSets

CONSTANTS
    Sessions,     \* session ids, one per connection
    Files,        \* files the operator requests
    Streams,      \* live stream ids
    None,         \* the Rust None
    MaxCommands,  \* bound: console commands
    MaxStreams,   \* bound: streams accepted
    MaxSegments   \* bound: segments of an upload

ASSUME ConstantsOK ==
    /\ None \notin Sessions /\ None \notin Files /\ None \notin Streams
    /\ Files \cap Streams = {}
    /\ MaxCommands \in Nat /\ MaxStreams \in Nat /\ MaxSegments \in Nat

VARIABLES
    sessions,     \* session id -> ServerSession, or None
    connections,  \* session id -> state of its connection
    commands,     \* the console's commands, in order
    issued,       \* how many commands were issued
    handlers,     \* the stream handlers, in the order the streams were accepted
    accepted,     \* how many streams were accepted
    disk,         \* path -> the handlers that appended their segment, in order
    reports       \* path -> total_segments_received in its last report, or None

vars == <<sessions, connections, commands, issued, handlers, accepted, disk, reports>>

Commands == 1 .. MaxCommands
Handlers == 1 .. MaxStreams

\* recv_videos/<session>_<file>: the same for every request of the file.
FilePath(s, f) == [session |-> s, name |-> f, at |-> 0]

\* recv_live_streams/<stream>_<timestamp>: the time is that of the command (in
\* seconds: two starts of one stream in the same second are left out).
LivePath(x, c) == [session |-> None, name |-> x, at |-> c]

Paths == [session : Sessions, name : Files, at : {0}]
         \cup [session : {None}, name : Streams, at : Commands]

ASSUME NoneIsNoPath == None \notin Paths

\* Receiving, Paused and Error are never set.
SessionStatus == {"Connected", "Requesting", "Completed"}

ReceivingFileInfo == [path : Paths, live : Streams \cup {None}, total : Nat]

\* output_path and frames_received: the path is that of the StartLive, which is
\* not that of the file the segments go to when one was received already.
LiveStreamInfo == [path : Paths, frames : Nat]

ServerSession ==
    [status : SessionStatus, received : Nat, current : ReceivingFileInfo \cup {None},
     live : [Streams -> LiveStreamInfo \cup {None}]]   \* the active live streams

ASSUME NoneIsNothingElse ==
    /\ None \notin Nat /\ None \notin ReceivingFileInfo
    /\ None \notin LiveStreamInfo /\ None \notin ServerSession

Command ==
    [kind : {"none", "request", "control", "startLive", "stopLive", "finalize"},
     session : Sessions \cup {None}, name : Files \cup Streams \cup {None},
     at : {"none", "relock", "open", "finish", "done", "failed"}, sent : Nat]

Handler ==
    [at : {"unborn", "lock", "write", "done", "dropped", "failed"},
     session : Sessions \cup {None}, upload : 0 .. MaxCommands, number : Nat,
     path : Paths \cup {None}]

NoCommand == [kind |-> "none", session |-> None, name |-> None, at |-> "none", sent |-> 0]

Unborn == [at |-> "unborn", session |-> None, upload |-> 0, number |-> 0, path |-> None]

NewSession ==
    [status |-> "Connected", received |-> 0, current |-> None, live |-> [x \in Streams |-> None]]

NewFile(path, live) == [path |-> path, live |-> live, total |-> 0]

NewStream(path) == [path |-> path, frames |-> 0]

Init ==
    /\ sessions = [s \in Sessions |-> None]
    /\ connections = [s \in Sessions |-> "none"]
    /\ commands = [c \in Commands |-> NoCommand]
    /\ issued = 0
    /\ handlers = [h \in Handlers |-> Unborn]
    /\ accepted = 0
    /\ disk = [p \in Paths |-> <<>>]
    /\ reports = [p \in Paths |-> None]

Exists(s) == sessions[s] # None

\* Mutant of LockFree: the message is sent outside the lock.
LockAlwaysFree == TRUE

\* The console keeps the session map from open_uni to the end of the send.
LockFree == \A c \in Commands : commands[c].at \notin {"open", "finish"}

-----------------------------------------------------------------------------
(***************************************************************************)
(* Connections: handle_connection.                                         *)
(***************************************************************************)

Connect(s) ==
    /\ connections[s] = "none" /\ LockFree
    /\ connections' = [connections EXCEPT ![s] = "open"]
    /\ sessions' = [sessions EXCEPT ![s] = NewSession]
    /\ UNCHANGED <<commands, issued, handlers, accepted, disk, reports>>

\* The client closes the connection, or it idles out.
Lose(s) ==
    /\ connections[s] = "open"
    /\ connections' = [connections EXCEPT ![s] = "lost"]
    /\ UNCHANGED <<sessions, commands, issued, handlers, accepted, disk, reports>>

\* Mutant of Remove: a session that still receives a file is kept.
RemoveWhenQuiet(s) ==
    /\ connections[s] = "lost" /\ LockFree /\ sessions[s].current = None
    /\ connections' = [connections EXCEPT ![s] = "closed"]
    /\ sessions' = [sessions EXCEPT ![s] = None]
    /\ UNCHANGED <<commands, issued, handlers, accepted, disk, reports>>

\* accept_uni has failed: the accept loop ends and the session is removed.
Remove(s) ==
    /\ connections[s] = "lost" /\ LockFree
    /\ connections' = [connections EXCEPT ![s] = "closed"]
    /\ sessions' = [sessions EXCEPT ![s] = None]
    /\ UNCHANGED <<commands, issued, handlers, accepted, disk, reports>>

\* accept_uni and the spawn of a handler; what arrived before the connection
\* was lost is still accepted.
Accept(s, upload, number) ==
    /\ connections[s] \in {"open", "lost"} /\ accepted < MaxStreams
    /\ accepted' = accepted + 1
    /\ handlers' = [handlers EXCEPT ![accepted + 1] =
           [Unborn EXCEPT !.at = "lock", !.session = s, !.upload = upload, !.number = number]]

\* The client's first stream, if it says hello: its SessionStart (upload 0).
AcceptHandshake(s) ==
    /\ \A h \in Handlers : handlers[h].session # s
    /\ Accept(s, 0, 0)
    /\ UNCHANGED <<sessions, connections, commands, issued, disk, reports>>

\* The client has command c: a FileRequest, a Seek of a file requested before, a StartLive.
Uploads(c) ==
    /\ commands[c].at \in {"finish", "done"}
    /\ \/ commands[c].kind \in {"request", "startLive"}
       \/ /\ commands[c].kind = "control"
          /\ \E d \in Commands : /\ d < c
                                 /\ commands[d].kind = "request"
                                 /\ commands[d].session = commands[c].session
                                 /\ commands[d].at = "done"

AcceptSegment(c) ==
    LET n == commands[c].sent + 1
    IN  /\ Uploads(c) /\ n <= MaxSegments
        /\ Accept(commands[c].session, c, n)
        /\ commands' = [commands EXCEPT ![c].sent = n]
        /\ UNCHANGED <<sessions, connections, issued, disk, reports>>

-----------------------------------------------------------------------------
(***************************************************************************)
(* A handler: handle_stream.                                               *)
(***************************************************************************)

\* The stream cannot be read, or is neither a message nor a segment.
Unreadable(h) ==
    /\ handlers[h].at = "lock"
    /\ handlers' = [handlers EXCEPT ![h].at = "failed"]
    /\ UNCHANGED <<sessions, connections, commands, issued, accepted, disk, reports>>

\* SessionStart: the status is Connected, also when a request came first.
Handshake(h) ==
    LET s == handlers[h].session
    IN  /\ handlers[h].at = "lock" /\ handlers[h].upload = 0 /\ LockFree
        /\ sessions' = IF Exists(s) THEN [sessions EXCEPT ![s].status = "Connected"] ELSE sessions
        /\ handlers' = [handlers EXCEPT ![h].at = "done"]
        /\ UNCHANGED <<connections, commands, issued, accepted, disk, reports>>

\* A segment of a session that is gone, or that receives no file, is dropped.
Drop(h) ==
    LET s == handlers[h].session
    IN  /\ handlers[h].at = "lock" /\ handlers[h].upload # 0 /\ LockFree
        /\ \/ ~Exists(s) /\ UNCHANGED sessions
           \/ /\ Exists(s) /\ sessions[s].current = None
              /\ sessions' = [sessions EXCEPT ![s].received = @ + 1]
        /\ handlers' = [handlers EXCEPT ![h].at = "dropped"]
        /\ UNCHANGED <<connections, commands, issued, accepted, disk, reports>>

\* A frame of the live stream that the file is of, while it is active.
CountFrame(live, x) ==
    IF x # None /\ live[x] # None THEN [live EXCEPT ![x].frames = @ + 1] ELSE live

\* Otherwise it is recorded under the lock, and its path is remembered.
Record(h) ==
    LET s == handlers[h].session
        current == sessions[s].current
    IN  /\ handlers[h].at = "lock" /\ handlers[h].upload # 0 /\ LockFree
        /\ Exists(s) /\ current # None
        /\ sessions' = [sessions EXCEPT
               ![s].received = @ + 1,
               ![s].current.total = @ + 1,
               ![s].live = CountFrame(@, current.live)]
        /\ handlers' = [handlers EXCEPT ![h].at = "write", ![h].path = current.path]
        /\ UNCHANGED <<connections, commands, issued, accepted, disk, reports>>

\* Mutant of Write: tried again when the debug file fails, after the append.
WriteRetries(h) ==
    /\ handlers[h].at = "write"
    /\ disk' = [disk EXCEPT ![handlers[h].path] = Append(@, h)]
    /\ \E next \in {"write", "done"} : handlers' = [handlers EXCEPT ![h].at = next]
    /\ UNCHANGED <<sessions, connections, commands, issued, accepted, reports>>

\* write_segment_to_file, without the lock: appended, or failed and only logged.
Write(h) ==
    /\ handlers[h].at = "write"
    /\ \/ /\ disk' = [disk EXCEPT ![handlers[h].path] = Append(@, h)]
          /\ handlers' = [handlers EXCEPT ![h].at = "done"]
       \/ /\ handlers' = [handlers EXCEPT ![h].at = "failed"]
          /\ UNCHANGED disk
    /\ UNCHANGED <<sessions, connections, commands, issued, accepted, reports>>

-----------------------------------------------------------------------------
(***************************************************************************)
(* The console.                                                            *)
(***************************************************************************)

Idle == \A c \in Commands : commands[c].at \in {"none", "done", "failed"}

Issue(kind, s, name, at) ==
    /\ Idle /\ issued < MaxCommands
    /\ issued' = issued + 1
    /\ commands' = [commands EXCEPT ![issued + 1] =
           [kind |-> kind, session |-> s, name |-> name, at |-> at, sent |-> 0]]

\* request_file_upload takes the lock.
Request(s, f) ==
    /\ Exists(s)
    /\ Issue("request", s, f, "open")
    /\ UNCHANGED <<sessions, connections, handlers, accepted, disk, reports>>

\* send_playback_control takes the lock.
Control(s) ==
    /\ Exists(s)
    /\ Issue("control", s, None, "open")
    /\ UNCHANGED <<sessions, connections, handlers, accepted, disk, reports>>

\* Mutant of StartLive: a stream that is active already keeps its count.
StartLiveContinues(s, x) ==
    LET path == LivePath(x, issued + 1)
    IN  /\ Exists(s)
        /\ Issue("startLive", s, x, "relock")
        /\ sessions' = [sessions EXCEPT
               ![s].live[x] = IF @ = None THEN NewStream(path) ELSE [@ EXCEPT !.path = path],
               ![s].current = IF @ = None THEN NewFile(path, x) ELSE @]
        /\ UNCHANGED <<connections, handlers, accepted, disk, reports>>

\* start_live_stream_reception, first part of send_live_stream_control.  The
\* stream gets a path of its own each time; the file that is received stays.
StartLive(s, x) ==
    LET path == LivePath(x, issued + 1)
    IN  /\ Exists(s)
        /\ Issue("startLive", s, x, "relock")
        /\ sessions' = [sessions EXCEPT
               ![s].live[x] = NewStream(path),
               ![s].current = IF @ = None THEN NewFile(path, x) ELSE @]
        /\ UNCHANGED <<connections, handlers, accepted, disk, reports>>

\* The live stream's report is written to its own path.
ReportStream(stream) == reports' = [reports EXCEPT ![stream.path] = stream.frames]

\* Mutant of StopLive: the current file is left alone.
StopLiveKeepsFile(s, x) ==
    /\ Exists(s) /\ sessions[s].live[x] # None
    /\ Issue("stopLive", s, x, "relock")
    /\ sessions' = [sessions EXCEPT ![s].live[x] = None]
    /\ ReportStream(sessions[s].live[x])
    /\ UNCHANGED <<connections, handlers, accepted, disk>>

\* stop_live_stream_reception.  A report that cannot be written ends it early:
\* the stream is gone, the current file stays, the client is not told.
StopLive(s, x) ==
    /\ Exists(s)
    /\ \/ /\ sessions[s].live[x] = None
          /\ Issue("stopLive", s, x, "relock")
          /\ UNCHANGED <<sessions, reports>>
       \/ /\ sessions[s].live[x] # None
          /\ Issue("stopLive", s, x, "failed")
          /\ sessions' = [sessions EXCEPT ![s].live[x] = None]
          /\ UNCHANGED reports
       \/ /\ sessions[s].live[x] # None
          /\ Issue("stopLive", s, x, "relock")
          /\ sessions' = [sessions EXCEPT
                 ![s].live[x] = None,
                 ![s].current = IF @ # None /\ @.live = x THEN None ELSE @]
          /\ ReportStream(sessions[s].live[x])
    /\ UNCHANGED <<connections, handlers, accepted, disk>>

\* Mutant of Finalize: the file stays the current one.
FinalizeKeepsCurrent(s) ==
    /\ Exists(s) /\ sessions[s].current # None
    /\ Issue("finalize", s, None, "done")
    /\ sessions' = [sessions EXCEPT ![s].status = "Completed"]
    /\ reports' = [reports EXCEPT ![sessions[s].current.path] = sessions[s].current.total]
    /\ UNCHANGED <<connections, handlers, accepted, disk>>

\* Mutant of Finalize: the first stream is taken for the handshake and not counted.
FinalizeSkipsFirst(s) ==
    /\ Exists(s) /\ sessions[s].current # None
    /\ Issue("finalize", s, None, "done")
    /\ sessions' = [sessions EXCEPT ![s].current = None, ![s].status = "Completed"]
    /\ reports' = [reports EXCEPT ![sessions[s].current.path] = sessions[s].current.total - 1]
    /\ UNCHANGED <<connections, handlers, accepted, disk>>

\* finalize_file_reception; nothing changes when the report cannot be written.
Finalize(s) ==
    /\ Exists(s) /\ sessions[s].current # None
    /\ \/ /\ Issue("finalize", s, None, "failed")
          /\ UNCHANGED <<sessions, reports>>
       \/ /\ Issue("finalize", s, None, "done")
          /\ sessions' = [sessions EXCEPT ![s].current = None, ![s].status = "Completed"]
          /\ reports' = [reports EXCEPT ![sessions[s].current.path] = sessions[s].current.total]
    /\ UNCHANGED <<connections, handlers, accepted, disk>>

\* send_live_stream_control, after the reception was started or stopped, takes
\* the lock again; the session may be gone by then.
Relock ==
    /\ \E c \in Commands :
          /\ commands[c].at = "relock"
          /\ commands' = [commands EXCEPT ![c].at =
                 IF Exists(commands[c].session) THEN "open" ELSE "failed"]
    /\ UNCHANGED <<sessions, connections, issued, handlers, accepted, disk, reports>>

\* The console has the lock and is in open_uni or write_all, and its client is
\* connected: it ends when the client accepts the stream and reads.
ClientKeepsConsole ==
    \E c \in Commands : commands[c].at = "open" /\ connections[commands[c].session] = "open"

\* open_uni and write_all: the client may have the message from here on.
Open ==
    /\ \E c \in Commands :
          /\ commands[c].at = "open" /\ connections[commands[c].session] = "open"
          /\ commands' = [commands EXCEPT ![c].at = "finish"]
    /\ UNCHANGED <<sessions, connections, issued, handlers, accepted, disk, reports>>

\* Mutant of OpenFails: the stream is opened again, with the lock kept.
OpenAgain ==
    /\ \E c \in Commands :
          /\ commands[c].at = "open" /\ connections[commands[c].session] # "open"
          /\ commands' = [commands EXCEPT ![c].at = "open"]
    /\ UNCHANGED <<sessions, connections, issued, handlers, accepted, disk, reports>>

\* The connection is lost before or while the message is sent.
OpenFails ==
    /\ \E c \in Commands :
          /\ commands[c].at = "open" /\ connections[commands[c].session] # "open"
          /\ commands' = [commands EXCEPT ![c].at = "failed"]
    /\ UNCHANGED <<sessions, connections, issued, handlers, accepted, disk, reports>>

\* Mutant of Finish: a request leaves the file that is received in place.
FinishKeepsCurrent ==
    /\ \E c \in Commands :
          LET s == commands[c].session
          IN  /\ commands[c].at = "finish"
              /\ \/ /\ connections[s] # "open"
                    /\ commands' = [commands EXCEPT ![c].at = "failed"]
                    /\ UNCHANGED sessions
                 \/ /\ commands' = [commands EXCEPT ![c].at = "done"]
                    /\ sessions' =
                         IF commands[c].kind = "request" /\ sessions[s].current = None
                           THEN [sessions EXCEPT
                                    ![s].status = "Requesting",
                                    ![s].current = NewFile(FilePath(s, commands[c].name), None)]
                           ELSE sessions
    /\ UNCHANGED <<connections, issued, handlers, accepted, disk, reports>>

\* finish: acknowledged, or the connection was lost.  A request becomes the
\* current file only now; the lock was kept all the while.
Finish ==
    /\ \E c \in Commands :
          LET s == commands[c].session
          IN  /\ commands[c].at = "finish"
              /\ \/ /\ connections[s] # "open"
                    /\ commands' = [commands EXCEPT ![c].at = "failed"]
                    /\ UNCHANGED sessions
                 \/ /\ commands' = [commands EXCEPT ![c].at = "done"]
                    /\ sessions' =
                         IF commands[c].kind = "request"
                           THEN [sessions EXCEPT
                                    ![s].status = "Requesting",
                                    ![s].current = NewFile(FilePath(s, commands[c].name), None)]
                           ELSE sessions
    /\ UNCHANGED <<connections, issued, handlers, accepted, disk, reports>>

-----------------------------------------------------------------------------

ConnectionStep(s) == Connect(s) \/ Lose(s) \/ Remove(s) \/ AcceptHandshake(s)

\* What a handler does with a stream it could read.
Handle(h) == Handshake(h) \/ Drop(h) \/ Record(h) \/ Write(h)

ConsoleStep == Relock \/ Open \/ OpenFails \/ Finish

Next ==
    \/ \E s \in Sessions : ConnectionStep(s)
    \/ \E c \in Commands : AcceptSegment(c)
    \/ \E h \in Handlers : Unreadable(h) \/ Handle(h)
    \/ \E s \in Sessions, f \in Files : Request(s, f)
    \/ \E s \in Sessions, x \in Streams : StartLive(s, x) \/ StopLive(s, x)
    \/ \E s \in Sessions : Control(s) \/ Finalize(s)
    \/ ConsoleStep

\* Ready tasks are polled.  A message that was written is acknowledged by the
\* client's QUIC stack or its connection is lost, and a lost connection ends a
\* send.  Open is not fair: the client keeps its connection alive whether or not
\* it accepts streams and reads.  The operator and the client may do nothing,
\* and no stream need be unreadable: handlers that wait for the lock must get it.
Fairness ==
    /\ WF_vars(Relock) /\ WF_vars(OpenFails) /\ WF_vars(Finish)
    /\ \A h \in Handlers : WF_vars(Handle(h))
    /\ \A s \in Sessions : WF_vars(Remove(s))

Spec == Init /\ [][Next]_vars /\ Fairness

-----------------------------------------------------------------------------
(***************************************************************************)
(* Properties.                                                             *)
(***************************************************************************)

\* Every variable ranges over what its Rust type holds.
TypeOK ==
    /\ sessions \in [Sessions -> ServerSession \cup {None}]
    /\ connections \in [Sessions -> {"none", "open", "lost", "closed"}]
    /\ commands \in [Commands -> Command]
    /\ issued \in 0 .. MaxCommands
    /\ handlers \in [Handlers -> Handler]
    /\ accepted \in 0 .. MaxStreams
    /\ \A p \in Paths : disk[p] \in Seq(Handlers)
    /\ reports \in [Paths -> Nat \cup {None}]

\* The handlers that recorded their segment for path p.
RecordedFor(p) == {h \in Handlers : handlers[h].path = p}

\* The commands that opened p, or gave it to a live stream.
Openings(p) ==
    {c \in Commands : \/ /\ commands[c].kind = "request" /\ commands[c].at = "done"
                         /\ FilePath(commands[c].session, commands[c].name) = p
                      \/ commands[c].kind = "startLive" /\ LivePath(commands[c].name, c) = p}

\* The live stream that p was given to was started by another command as well.
StartedAgain(p) ==
    \E c \in Commands : commands[c].kind = "startLive" /\ commands[c].name = p.name /\ c # p.at

\* A report, that of a finalize or of a StopLive, never claims more segments than
\* were recorded for its file, and that of a file opened once counts all that were
\* ever recorded, those not yet on disk included.  The exception is the report of
\* a live stream that was started again while its earlier file was received: its
\* segments all went to that file, and none to the file the report names.
ReportsAreFinal ==
    \A p \in Paths : reports[p] # None =>
        \/ p.session = None /\ RecordedFor(p) = {} /\ StartedAgain(p)
        \/ /\ reports[p] <= Cardinality(RecordedFor(p))
           /\ Cardinality(Openings(p)) = 1 => reports[p] = Cardinality(RecordedFor(p))

\* What a handler recorded is appended to the file it was recorded for, once,
\* whatever became of the session meanwhile; nothing else is in the file.
DiskHoldsWhatWasRecorded ==
    \A p \in Paths :
        /\ {disk[p][i] : i \in DOMAIN disk[p]} = {h \in RecordedFor(p) : handlers[h].at = "done"}
        /\ Len(disk[p]) = Cardinality({h \in RecordedFor(p) : handlers[h].at = "done"})

\* The answer to a request is not lost although the client may send it before
\* the server has opened the file: a segment is dropped only after a later
\* finalize of the session, or once its connection is lost.
AnswersAreKept ==
    \A h \in Handlers :
        LET c == handlers[h].upload
        IN  handlers[h].at = "dropped" /\ commands[c].kind = "request" =>
                \/ connections[handlers[h].session] # "open"
                \/ \E d \in Commands : /\ d > c
                                       /\ commands[d].kind = "finalize"
                                       /\ commands[d].session = handlers[h].session

\* The answer to a request goes to the file of that request or of a later
\* command of the same session, never to the file received before (unless the
\* connection was lost before the request was acknowledged).
AnswersGoForward ==
    \A p \in Paths : \A h \in RecordedFor(p) :
        LET c == handlers[h].upload
        IN  commands[c].kind = "request" /\ commands[c].at # "failed" =>
                \E d \in Openings(p) : d >= c /\ commands[d].session = commands[c].session

\* The handlers of s that recorded a segment in a file of live stream x.
FramesOf(s, x) ==
    {h \in Handlers : /\ handlers[h].session = s
                      /\ handlers[h].path # None /\ handlers[h].path.name = x}

\* The frames of an active live stream are segments recorded in files of that
\* stream, and once its own file has any they are exactly those: neither a second
\* StartLive nor a finalize or a request in between makes it count double.
LiveFramesAreRecorded ==
    \A s \in Sessions, x \in Streams : Exists(s) /\ sessions[s].live[x] # None =>
        LET stream == sessions[s].live[x]
        IN  /\ stream.frames <= Cardinality(FramesOf(s, x))
            /\ RecordedFor(stream.path) # {} =>
                   stream.frames = Cardinality(RecordedFor(stream.path))

\* A session receives the file of a live stream only while the stream is
\* active: after a StopLive, in any order with requests and finalizes, its
\* segments no longer go there, unless the report of that StopLive failed.
StoppedLiveEnds ==
    \A s \in Sessions, x \in Streams :
        Exists(s) /\ sessions[s].live[x] = None /\ sessions[s].current # None
            /\ sessions[s].current.live = x
        => \E c \in Commands : /\ commands[c].kind = "stopLive" /\ commands[c].at = "failed"
                               /\ commands[c].session = s /\ commands[c].name = x

\* Every stream that was accepted is dealt with, although handlers wait for a
\* lock that is kept across a whole send, unless the client of that send stays
\* connected for ever and accepts nothing: then nobody gets the lock again.
StreamsHandled ==
    \/ <>[]ClientKeepsConsole
    \/ \A h \in Handlers :
          handlers[h].at \in {"lock", "write"} ~> handlers[h].at \in {"done", "dropped", "failed"}

\* The session of a lost connection is removed, also when the console is just
\* sending to it, unless a client that stays connected keeps the console for ever.
LostSessionsRemoved ==
    \/ <>[]ClientKeepsConsole
    \/ \A s \in Sessions : connections[s] = "lost" ~> ~Exists(s)

(***************************************************************************)
(* What a document says and the code does not do.                          *)
(***************************************************************************)

\* The file of one upload is the raw video: its segments in the order they were sent.
FilesInOrder ==
    \A p \in Paths : \A i, j \in DOMAIN disk[p] :
        i < j /\ handlers[disk[p][i]].upload = handlers[disk[p][j]].upload =>
            handlers[disk[p][i]].number < handlers[disk[p][j]].number
=============================================================================

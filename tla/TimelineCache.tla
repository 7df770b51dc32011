--------------------------- MODULE TimelineCache ----------------------------
(***************************************************************************)
(* The timelines of the client's files (src/src/timeline_manager.rs): a    *)
(* cache in memory over the .timeline files beside the videos.             *)
(*                                                                         *)
(* A call is one use of the manager.  The console of the client makes its   *)
(* calls one at a time; a preload is a task of its own.  The cache is a    *)
(* map under one RwLock and its size in bytes under another.  An action is *)
(* the code between two awaits; what keeps a lock across an await is       *)
(* add_to_cache (the size), get_cache_stats and clear_cache (the map).     *)
(*                                                                         *)
(* The disk: a timeline file is valid for a video when it was written      *)
(* after the video was modified.  Videos whose names differ only in the     *)
(* extension have one timeline file.  A timeline is known by the video it   *)
(* describes and that video's version when ffprobe read it.                 *)
(***************************************************************************)
EXTENDS Integers, FiniteSets, FiniteSetsExt

CONSTANTS
    Videos,
    None,
    TimelinePath,   \* TimelinePath[v]: the timeline file of v (set_extension)
    Size,           \* Size[v]: estimate_timeline_size of its timeline
    Limit,          \* cache_limit_mb
    MaxCalls,       \* bound: calls
    MaxEdits        \* bound: edits of the videos

ASSUME ConstantsOK ==
    /\ IsFiniteSet(Videos)
    /\ None \notin Videos /\ None \notin [of : Videos, version : 0 .. MaxEdits]
    /\ Size \in [Videos -> Nat] /\ Limit \in Nat
    /\ MaxCalls \in Nat /\ MaxEdits \in Nat

VARIABLES
    cache,     \* cached_timelines: video -> timeline, or None
    size,      \* current_cache_size
    mapLock,   \* the call that keeps the map across an await, or None
    sizeLock,  \* the call that keeps the size across an await, or None
    calls,     \* the calls, in the order they were made
    made,      \* how many calls were made
    version,   \* disk: the version of each video
    file,      \* disk: timeline path -> timeline, or None
    valid,     \* disk: the videos that are not newer than their timeline file
    raced      \* history: videos modified while one of their calls was running

vars == <<cache, size, mapLock, sizeLock, calls, made, version, file, valid, raced>>
disk == <<version, file, valid, raced>>

Calls == 1 .. MaxCalls
Files == {TimelinePath[v] : v \in Videos}
TimelineData == [of : Videos, version : 0 .. MaxEdits]

Call ==
    [kind : {"none", "get", "preload", "regenerate", "stats", "clear"},
     at : {"unmade", "invalidate", "lookup", "check", "load", "parse", "save", "lock", "room",
           "count", "insert", "map", "size", "done"},
     video : Videos \cup {None}, data : TimelineData \cup {None}]

NoCall == [kind |-> "none", at |-> "unmade", video |-> None, data |-> None]

Init ==
    /\ cache = [v \in Videos |-> None]
    /\ size = 0
    /\ mapLock = None /\ sizeLock = None
    /\ calls = [c \in Calls |-> NoCall]
    /\ made = 0
    /\ version = [v \in Videos |-> 0]
    /\ file = [p \in Files |-> None]
    /\ valid = {}
    /\ raced = {}

Running(c) == calls[c].at \notin {"unmade", "done"}

GoTo(c, at) == calls' = [calls EXCEPT ![c].at = at]

\* The call returns its timeline, or an error; the manager forgets it.
Return(c) == calls' = [calls EXCEPT ![c] = [NoCall EXCEPT !.at = "done"]]

\* get_cache_stats keeps the map for reading, clear_cache for writing.
MapReadable == mapLock # None => calls[mapLock].kind = "stats"
MapWritable == mapLock = None

Cached == {v \in Videos : cache[v] # None}

\* calculate_current_cache_size
TotalSize == MapThenSumSet(LAMBDA v : Size[cache[v].of], Cached)

-----------------------------------------------------------------------------
(***************************************************************************)
(* get_timeline: the map, then the timeline file, then ffprobe.            *)
(***************************************************************************)

\* The console waits for its last call; a preload is spawned.
Make(kind, v, at) ==
    /\ made < MaxCalls
    /\ kind # "preload" =>
          \A c \in Calls : Running(c) => calls[c].kind = "preload"
    /\ made' = made + 1
    /\ calls' = [calls EXCEPT ![made + 1] = [kind |-> kind, at |-> at, video |-> v, data |-> None]]
    /\ UNCHANGED <<cache, size, mapLock, sizeLock, disk>>

Get(v)        == Make("get", v, "lookup")
Preload(v)    == Make("preload", v, "lookup")
Regenerate(v) == Make("regenerate", v, "invalidate")
Stats         == Make("stats", None, "map")
Clear         == Make("clear", None, "map")

\* Mutant of Invalidate: the size shrinks whether or not there was an entry.
InvalidateShrinks(c) ==
    /\ calls[c].at = "invalidate" /\ MapWritable
    /\ size' = size - Size[calls[c].video]
    /\ cache' = [cache EXCEPT ![calls[c].video] = None]
    /\ GoTo(c, "lookup")
    /\ UNCHANGED <<mapLock, sizeLock, made, disk>>

\* invalidate_cache removes the entry and leaves the size.
Invalidate(c) ==
    /\ calls[c].at = "invalidate" /\ MapWritable
    /\ cache' = [cache EXCEPT ![calls[c].video] = None]
    /\ GoTo(c, "lookup")
    /\ UNCHANGED <<size, mapLock, sizeLock, made, disk>>

\* What is cached is returned, however old it is.
Lookup(c) ==
    /\ calls[c].at = "lookup" /\ MapReadable
    /\ IF cache[calls[c].video] = None THEN GoTo(c, "check") ELSE Return(c)
    /\ UNCHANGED <<cache, size, mapLock, sizeLock, made, disk>>

\* Mutant of Check: a timeline file that exists is loaded.
CheckExists(c) ==
    /\ calls[c].at = "check"
    /\ GoTo(c, IF file[TimelinePath[calls[c].video]] # None THEN "load" ELSE "parse")
    /\ UNCHANGED <<cache, size, mapLock, sizeLock, made, disk>>

\* is_timeline_file_valid: it exists and the video is not newer.
Check(c) ==
    LET v == calls[c].video
    IN  /\ calls[c].at = "check"
        /\ GoTo(c, IF file[TimelinePath[v]] # None /\ v \in valid THEN "load" ELSE "parse")
        /\ UNCHANGED <<cache, size, mapLock, sizeLock, made, disk>>

\* load_timeline_file; one that cannot be read is generated again.
Load(c) ==
    /\ calls[c].at = "load"
    /\ \/ GoTo(c, "parse")
       \/ calls' = [calls EXCEPT ![c].at = "lock",
                                 ![c].data = file[TimelinePath[calls[c].video]]]
    /\ UNCHANGED <<cache, size, mapLock, sizeLock, made, disk>>

\* parse_video_file, or an error: no ffmpeg, or it fails.
Parse(c) ==
    LET v == calls[c].video
    IN  /\ calls[c].at = "parse"
        /\ \/ Return(c)
           \/ calls' = [calls EXCEPT ![c].at = "save",
                                     ![c].data = [of |-> v, version |-> version[v]]]
        /\ UNCHANGED <<cache, size, mapLock, sizeLock, made, disk>>

\* generate_timeline_file: the file is newer than every video it stands for,
\* those modified since ffprobe read them included.
Save(c) ==
    LET p == TimelinePath[calls[c].video]
    IN  /\ calls[c].at = "save"
        /\ \/ Return(c) /\ UNCHANGED <<file, valid>>
           \/ /\ GoTo(c, "lock")
              /\ file' = [file EXCEPT ![p] = calls[c].data]
              /\ valid' = valid \cup {v \in Videos : TimelinePath[v] = p}
        /\ UNCHANGED <<cache, size, mapLock, sizeLock, made, version, raced>>

-----------------------------------------------------------------------------
(***************************************************************************)
(* add_to_cache, cleanup_cache.                                            *)
(***************************************************************************)

LockSize(c) ==
    /\ calls[c].at = "lock" /\ sizeLock = None
    /\ sizeLock' = c
    /\ GoTo(c, IF size + Size[calls[c].data.of] > Limit THEN "room" ELSE "insert")
    /\ UNCHANGED <<cache, size, mapLock, made, disk>>

\* cleanup_cache removes half of the entries, whichever.
MakeRoom(c) ==
    /\ calls[c].at = "room" /\ MapWritable
    /\ \E gone \in SUBSET Cached :
          /\ Cardinality(gone) = Cardinality(Cached) \div 2
          /\ cache' = [v \in Videos |-> IF v \in gone THEN None ELSE cache[v]]
    /\ GoTo(c, "count")
    /\ UNCHANGED <<size, mapLock, sizeLock, made, disk>>

\* Mutant of Count: half the entries are taken for half the size.
CountHalf(c) ==
    /\ calls[c].at = "count" /\ MapReadable
    /\ size' = size \div 2
    /\ GoTo(c, "insert")
    /\ UNCHANGED <<cache, mapLock, sizeLock, made, disk>>

Count(c) ==
    /\ calls[c].at = "count" /\ MapReadable
    /\ size' = TotalSize
    /\ GoTo(c, "insert")
    /\ UNCHANGED <<cache, mapLock, sizeLock, made, disk>>

\* Mutant of Insert: the size lock is forgotten.
InsertKeepsLock(c) ==
    /\ calls[c].at = "insert" /\ MapWritable
    /\ cache' = [cache EXCEPT ![calls[c].video] = calls[c].data]
    /\ size' = size + Size[calls[c].data.of]
    /\ Return(c)
    /\ UNCHANGED <<mapLock, sizeLock, made, disk>>

\* The entry is inserted over one that may be there, and counted all the same.
Insert(c) ==
    /\ calls[c].at = "insert" /\ MapWritable
    /\ cache' = [cache EXCEPT ![calls[c].video] = calls[c].data]
    /\ size' = size + Size[calls[c].data.of]
    /\ sizeLock' = None
    /\ Return(c)
    /\ UNCHANGED <<mapLock, made, disk>>

-----------------------------------------------------------------------------
(***************************************************************************)
(* get_cache_stats and clear_cache: the map first, then the size.          *)
(***************************************************************************)

LockMap(c) ==
    /\ calls[c].at = "map" /\ MapWritable
    /\ mapLock' = c
    /\ GoTo(c, "size")
    /\ UNCHANGED <<cache, size, sizeLock, made, disk>>

ReadStats(c) ==
    /\ calls[c].at = "size" /\ calls[c].kind = "stats" /\ sizeLock = None
    /\ mapLock' = None
    /\ Return(c)
    /\ UNCHANGED <<cache, size, sizeLock, made, disk>>

ClearAll(c) ==
    /\ calls[c].at = "size" /\ calls[c].kind = "clear" /\ sizeLock = None
    /\ cache' = [v \in Videos |-> None]
    /\ size' = 0
    /\ mapLock' = None
    /\ Return(c)
    /\ UNCHANGED <<sizeLock, made, disk>>

-----------------------------------------------------------------------------

\* Somebody edits a video.
Modify(v) ==
    /\ MapThenSumSet(LAMBDA w : version[w], Videos) < MaxEdits
    /\ version' = [version EXCEPT ![v] = @ + 1]
    /\ valid' = valid \ {v}
    /\ raced' = IF \E c \in Calls : Running(c) /\ calls[c].video = v THEN raced \cup {v} ELSE raced
    /\ UNCHANGED <<cache, size, mapLock, sizeLock, calls, made, file>>

CallStep(c) ==
    \/ Invalidate(c) \/ Lookup(c) \/ Check(c) \/ Load(c) \/ Parse(c) \/ Save(c)
    \/ LockSize(c) \/ MakeRoom(c) \/ Count(c) \/ Insert(c)
    \/ LockMap(c) \/ ReadStats(c) \/ ClearAll(c)

Next ==
    \/ \E v \in Videos : Get(v) \/ Preload(v) \/ Regenerate(v) \/ Modify(v)
    \/ Stats \/ Clear
    \/ \E c \in Calls : CallStep(c)

\* A task that can run is polled; calls and edits need not happen.
Fairness == \A c \in Calls : WF_vars(CallStep(c))

Spec == Init /\ [][Next]_vars /\ Fairness

-----------------------------------------------------------------------------
(***************************************************************************)
(* Properties.                                                             *)
(***************************************************************************)

\* Every variable ranges over what its Rust type holds.
TypeOK ==
    /\ cache \in [Videos -> TimelineData \cup {None}]
    /\ size \in Nat
    /\ mapLock \in Calls \cup {None} /\ sizeLock \in Calls \cup {None}
    /\ calls \in [Calls -> Call]
    /\ made \in 0 .. MaxCalls
    /\ version \in [Videos -> 0 .. MaxEdits]
    /\ file \in [Files -> TimelineData \cup {None}]
    /\ valid \subseteq Videos /\ raced \subseteq Videos

\* The size never falls below what is cached, although entries are counted
\* and removed under two locks: it errs only upwards, so that the cache is
\* cleaned too early, never too late.
SizeCoversCache == TotalSize <= size

\* The timeline file of v belongs to v alone.
Unshared(v) == \A w \in Videos : TimelinePath[w] = TimelinePath[v] => w = v

\* A timeline about to be cached describes the video as it is, if nobody
\* edited the video while one of its calls was running: the modification
\* times tell an old file from a current one, whatever was generated before.
FreshUnlessRaced ==
    \A c \in Calls :
        LET v == calls[c].video
        IN  calls[c].at \in {"lock", "room", "count", "insert"} /\ Unshared(v) /\ v \notin raced =>
                calls[c].data = [of |-> v, version |-> version[v]]

\* One call keeps the size and waits for the map, one keeps the map and waits
\* for the size.
LockInversion ==
    /\ sizeLock # None /\ calls[sizeLock].at \in {"room", "count", "insert"}
    /\ mapLock # None /\ calls[mapLock].at = "size"

\* Every call ends, in whatever order calls and preloads run, unless the two
\* locks are inverted: the only way to hang.
CallsEnd == \A c \in Calls : Running(c) ~> (~Running(c) \/ LockInversion)
=============================================================================

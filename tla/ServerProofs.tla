---------------------------- MODULE ServerProofs ----------------------------
(***************************************************************************)
(* Theorems about the platform server, for any sessions, files, live        *)
(* streams, commands and segments: the files hold what was recorded, reports *)
(* are final, answers to requests are kept and go to the right file, and     *)
(* live streams are counted and end.                                        *)
(*                                                                         *)
(* After the files on disk, what a step puts into one session, command or   *)
(* handler; then Base, which every action preserves, with what kind of       *)
(* Change the action is to the files that are received.  The invariants      *)
(* that follow are preserved by every Change.                               *)
(***************************************************************************)
EXTENDS Server, SequenceTheorems, FiniteSetTheorems, TLAPS

HandlerFields == {"at", "session", "upload", "number", "path"}

\* Streams not accepted yet have no handler; nothing is recorded before the lock
\* was taken.
HandlersInv ==
    /\ accepted \in Nat
    /\ DOMAIN handlers = Handlers
    /\ \A h \in Handlers :
          /\ DOMAIN handlers[h] = HandlerFields
          /\ h > accepted => handlers[h] = Unborn
          /\ handlers[h].at \in {"unborn", "lock"} => handlers[h].path = None

\* The handlers that appended their segment to p.
Appended(p) == {h \in Handlers : handlers[h].path = p /\ handlers[h].at = "done"}

DiskOf(p, hs) ==
    /\ disk[p] \in Seq(Handlers)
    /\ {disk[p][i] : i \in DOMAIN disk[p]} = hs
    /\ Len(disk[p]) = Cardinality(hs)

DiskInv ==
    /\ HandlersInv
    /\ DOMAIN disk = Paths
    /\ \A p \in Paths : DiskOf(p, Appended(p))

LEMMA HandlersAreFinite == IsFiniteSet(Handlers)
<1>1. MaxStreams \in Nat
  BY ConstantsOK
<1> QED
  BY <1>1, FS_Interval DEF Handlers

LEMMA UnbornFields == /\ DOMAIN Unborn = HandlerFields /\ Unborn.at = "unborn" /\ Unborn.path = None
  BY DEF Unborn, HandlerFields

LEMMA DiskInit == Init => DiskInv
<1> SUFFICES ASSUME Init PROVE DiskInv
  OBVIOUS
<1>1. HandlersInv
  BY UnbornFields DEF Init, HandlersInv
<1>2. ASSUME NEW p \in Paths PROVE DiskOf(p, Appended(p))
  <2>1. disk[p] = <<>> /\ Appended(p) = {}
    BY <1>2, UnbornFields DEF Init, Appended
  <2> QED
    BY <2>1, FS_EmptySet DEF DiskOf
<1> QED
  BY <1>1, <1>2 DEF DiskInv, Init

\* A step that gives handler h the record r, and appends nothing.
LEMMA DiskHandler ==
    ASSUME DiskInv, NEW h \in Handlers, NEW r, handlers' = [handlers EXCEPT ![h] = r],
           disk' = disk, accepted' \in Nat, accepted <= accepted', h <= accepted',
           DOMAIN r = HandlerFields, r.at \in {"unborn", "lock"} => r.path = None,
           r.at = "done" => r.path \notin Paths,
           handlers[h].at = "done" => handlers[h].path \notin Paths
    PROVE  DiskInv'
<1>1. \A g \in Handlers : handlers'[g] = IF g = h THEN r ELSE handlers[g]
  BY DEF DiskInv, HandlersInv
<1>2. HandlersInv'
  BY <1>1 DEF DiskInv, HandlersInv, Handlers
<1>3. ASSUME NEW p \in Paths PROVE DiskOf(p, Appended(p))'
  <2>1. Appended(p)' = Appended(p)
    BY <1>1 DEF Appended
  <2> QED
    BY <2>1 DEF DiskInv, DiskOf
<1> QED
  BY <1>2, <1>3 DEF DiskInv

LEMMA DiskSame ==
    ASSUME DiskInv, UNCHANGED <<handlers, accepted, disk>>
    PROVE  DiskInv'
<1>1. HandlersInv' /\ DOMAIN disk' = Paths
  BY DEF DiskInv, HandlersInv
<1>2. ASSUME NEW p \in Paths PROVE DiskOf(p, Appended(p))'
  <2>1. Appended(p)' = Appended(p)
    BY DEF Appended
  <2> QED
    BY <2>1 DEF DiskInv, DiskOf
<1> QED
  BY <1>1, <1>2 DEF DiskInv

LEMMA DiskAccept ==
    ASSUME DiskInv, NEW s, NEW upload, NEW number, Accept(s, upload, number), disk' = disk
    PROVE  DiskInv'
<1>1. PICK r : r = [Unborn EXCEPT !.at = "lock", !.session = s, !.upload = upload, !.number = number]
  OBVIOUS
<1>2. DOMAIN r = HandlerFields /\ r.at = "lock" /\ r.path = None
  BY <1>1 DEF Unborn, HandlerFields
<1>3. /\ accepted < MaxStreams /\ accepted' = accepted + 1 /\ accepted \in Nat /\ MaxStreams \in Nat
      /\ handlers' = [handlers EXCEPT ![accepted + 1] = r]
  BY <1>1, ConstantsOK DEF Accept, DiskInv, HandlersInv
<1>4. accepted + 1 \in Handlers /\ handlers[accepted + 1] = Unborn
  BY <1>3 DEF Handlers, DiskInv, HandlersInv
<1>5. /\ accepted' \in Nat /\ accepted <= accepted' /\ accepted + 1 <= accepted'
      /\ r.at \in {"unborn", "lock"} => r.path = None
      /\ r.at = "done" => r.path \notin Paths
      /\ handlers[accepted + 1].at = "done" => handlers[accepted + 1].path \notin Paths
  BY <1>2, <1>3, <1>4, UnbornFields
<1> QED
  BY <1>2, <1>3, <1>4, <1>5, DiskHandler

\* A handler that ends, or goes on to write, without having written.
LEMMA DiskMoves ==
    ASSUME DiskInv, NEW h \in Handlers, NEW state,
           handlers[h].at \in {"lock", "write"},
           handlers' = [handlers EXCEPT ![h].at = state],
           state \notin {"unborn", "lock"}, state = "done" => handlers[h].at = "lock",
           UNCHANGED <<accepted, disk>>
    PROVE  DiskInv'
<1>0. /\ DOMAIN handlers = Handlers /\ DOMAIN handlers[h] = HandlerFields /\ accepted \in Nat
      /\ handlers[h].at = "lock" => handlers[h].path = None
      /\ h > accepted => handlers[h] = Unborn
  BY DEF DiskInv, HandlersInv
<1>1. PICK r : r = [handlers[h] EXCEPT !.at = state]
  OBVIOUS
<1>2. DOMAIN r = HandlerFields /\ r.at = state /\ r.path = handlers[h].path
  BY <1>0, <1>1 DEF HandlerFields
<1>3. handlers' = [handlers EXCEPT ![h] = r]
  BY <1>0, <1>1
<1>4. h <= accepted
  BY <1>0, UnbornFields DEF Handlers
<1>5. r.at = "done" => r.path \notin Paths
  BY <1>0, <1>2, NoneIsNoPath
<1>6. /\ accepted' \in Nat /\ accepted <= accepted' /\ h <= accepted'
      /\ r.at \in {"unborn", "lock"} => r.path = None
      /\ handlers[h].at = "done" => handlers[h].path \notin Paths
  BY <1>0, <1>2, <1>4
<1> QED
  BY <1>2, <1>3, <1>5, <1>6, DiskHandler

LEMMA DiskRecord == ASSUME DiskInv, NEW h \in Handlers, Record(h) PROVE DiskInv'
<1>0. /\ DOMAIN handlers = Handlers /\ DOMAIN handlers[h] = HandlerFields /\ accepted \in Nat
      /\ h > accepted => handlers[h] = Unborn
  BY DEF DiskInv, HandlersInv
<1>1. PICK path : path = sessions[handlers[h].session].current.path
  OBVIOUS
<1>2. PICK s : s = [handlers[h] EXCEPT !.at = "write"]
  OBVIOUS
<1>3. PICK r : r = [s EXCEPT !.path = path]
  OBVIOUS
<1>4. DOMAIN r = HandlerFields /\ r.at = "write"
  BY <1>0, <1>2, <1>3 DEF HandlerFields
<1>5. handlers' = [handlers EXCEPT ![h] = r]
  <2>1. PICK t : t = [handlers EXCEPT ![h].at = "write"]
    OBVIOUS
  <2>2. DOMAIN t = Handlers /\ t[h] = s /\ t = [handlers EXCEPT ![h] = s]
    BY <1>0, <1>2, <2>1
  <2>3. handlers' = [t EXCEPT ![h].path = path]
    BY <1>1, <2>1 DEF Record
  <2> QED
    BY <1>0, <1>3, <2>2, <2>3
<1>6. handlers[h].at = "lock" /\ accepted' = accepted /\ disk' = disk
  BY DEF Record
<1>7. h <= accepted
  BY <1>0, <1>6, UnbornFields DEF Handlers
<1>8. /\ accepted' \in Nat /\ accepted <= accepted' /\ h <= accepted'
      /\ r.at \in {"unborn", "lock"} => r.path = None
      /\ r.at = "done" => r.path \notin Paths
      /\ handlers[h].at = "done" => handlers[h].path \notin Paths
  BY <1>0, <1>4, <1>6, <1>7
<1> QED
  BY <1>4, <1>5, <1>6, <1>8, DiskHandler

\* The segment that is appended was not in the file.
LEMMA AppendedOnce ==
    ASSUME NEW q \in Seq(Handlers), NEW hs, IsFiniteSet(hs), NEW h \in Handlers, h \notin hs,
           {q[i] : i \in DOMAIN q} = hs, Len(q) = Cardinality(hs)
    PROVE  /\ Append(q, h) \in Seq(Handlers)
           /\ {Append(q, h)[i] : i \in DOMAIN Append(q, h)} = hs \cup {h}
           /\ Len(Append(q, h)) = Cardinality(hs \cup {h})
<1>1. PICK r : r = Append(q, h)
  OBVIOUS
<1>2. /\ r \in Seq(Handlers) /\ Len(r) = Len(q) + 1 /\ r[Len(q) + 1] = h /\ Len(q) \in Nat
      /\ DOMAIN r = 1 .. Len(q) + 1 /\ DOMAIN q = 1 .. Len(q)
      /\ \A i \in 1 .. Len(q) : r[i] = q[i]
  BY <1>1
<1>3. {r[i] : i \in DOMAIN r} = hs \cup {h}
  <2>1. ASSUME NEW x \in {r[i] : i \in DOMAIN r} PROVE x \in hs \cup {h}
    BY <1>2, <2>1
  <2>2. h \in {r[i] : i \in DOMAIN r}
    BY <1>2
  <2>3. ASSUME NEW x \in hs PROVE x \in {r[i] : i \in DOMAIN r}
    <3>1. PICK i \in DOMAIN q : x = q[i]
      BY <2>3
    <3> QED
      BY <1>2, <3>1
  <2> QED
    BY <2>1, <2>2, <2>3
<1>4. Cardinality(hs \cup {h}) = Cardinality(hs) + 1
  BY FS_AddElement
<1> QED
  BY <1>1, <1>2, <1>3, <1>4

LEMMA DiskWrite == ASSUME DiskInv, NEW h \in Handlers, Write(h) PROVE DiskInv'
<1>1. CASE handlers' = [handlers EXCEPT ![h].at = "failed"] /\ UNCHANGED disk
  <2>1. /\ handlers[h].at = "write" /\ accepted' = accepted /\ disk' = disk
        /\ DOMAIN handlers = Handlers /\ DOMAIN handlers[h] = HandlerFields /\ accepted \in Nat
        /\ h > accepted => handlers[h] = Unborn
    BY <1>1 DEF Write, DiskInv, HandlersInv
  <2>2. PICK r : r = [handlers[h] EXCEPT !.at = "failed"]
    OBVIOUS
  <2>3. DOMAIN r = HandlerFields /\ r.at = "failed" /\ handlers' = [handlers EXCEPT ![h] = r]
    BY <1>1, <2>1, <2>2 DEF HandlerFields
  <2>4. accepted' \in Nat /\ accepted <= accepted' /\ h <= accepted'
    BY <2>1, UnbornFields DEF Handlers
  <2>5. /\ r.at \in {"unborn", "lock"} => r.path = None
        /\ r.at = "done" => r.path \notin Paths
        /\ handlers[h].at = "done" => handlers[h].path \notin Paths
    BY <2>1, <2>3
  <2> QED
    BY <2>1, <2>3, <2>4, <2>5, DiskHandler
<1>2. CASE /\ disk' = [disk EXCEPT ![handlers[h].path] = Append(@, h)]
           /\ handlers' = [handlers EXCEPT ![h].at = "done"]
  <2>0. /\ DOMAIN handlers = Handlers /\ DOMAIN handlers[h] = HandlerFields /\ accepted \in Nat
        /\ accepted' = accepted /\ handlers[h].at = "write" /\ DOMAIN disk = Paths
    BY DEF DiskInv, HandlersInv, Write
  <2>1. /\ DOMAIN handlers' = Handlers /\ \A g \in Handlers : g # h => handlers'[g] = handlers[g]
        /\ DOMAIN handlers'[h] = HandlerFields
        /\ handlers'[h].at = "done" /\ handlers'[h].path = handlers[h].path
    BY <1>2, <2>0 DEF HandlerFields
  <2>2. HandlersInv'
    BY <2>0, <2>1, UnbornFields DEF DiskInv, HandlersInv
  <2>3. ASSUME NEW p \in Paths PROVE DiskOf(p, Appended(p))'
    <3>1. CASE p = handlers[h].path
      <4>1. Appended(p)' = Appended(p) \cup {h} /\ h \notin Appended(p)
        BY <2>0, <2>1, <3>1 DEF Appended
      <4>2. disk'[p] = Append(disk[p], h)
        BY <1>2, <2>0, <3>1
      <4>3. IsFiniteSet(Appended(p))
        <5>1. Appended(p) \in SUBSET Handlers
          BY DEF Appended
        <5> QED
          BY <5>1, HandlersAreFinite, FS_Subset
      <4>4. /\ disk[p] \in Seq(Handlers) /\ {disk[p][i] : i \in DOMAIN disk[p]} = Appended(p)
            /\ Len(disk[p]) = Cardinality(Appended(p))
        BY DEF DiskInv, DiskOf
      <4>5. /\ Append(disk[p], h) \in Seq(Handlers)
            /\ {Append(disk[p], h)[i] : i \in DOMAIN Append(disk[p], h)} = Appended(p) \cup {h}
            /\ Len(Append(disk[p], h)) = Cardinality(Appended(p) \cup {h})
        BY <4>1, <4>3, <4>4, AppendedOnce
      <4> QED
        BY <4>1, <4>2, <4>5 DEF DiskOf
    <3>2. CASE p # handlers[h].path
      <4>1. Appended(p)' = Appended(p)
        BY <2>1, <3>2 DEF Appended
      <4>2. disk'[p] = disk[p]
        BY <1>2, <2>0, <3>2
      <4> QED
        BY <4>1, <4>2 DEF DiskInv, DiskOf
    <3> QED
      BY <3>1, <3>2
  <2>4. DOMAIN disk' = Paths
    BY <1>2, <2>0
  <2> QED
    BY <2>2, <2>3, <2>4 DEF DiskInv
<1> QED
  BY <1>1, <1>2 DEF Write

LEMMA DiskNext == ASSUME DiskInv, [Next]_vars PROVE DiskInv'
<1>1. CASE UNCHANGED vars
  BY <1>1, DiskSame DEF vars
<1>2. ASSUME NEW s \in Sessions, ConnectionStep(s) PROVE DiskInv'
  <2>1. CASE AcceptHandshake(s)
    BY <2>1, DiskAccept DEF AcceptHandshake
  <2>2. CASE Connect(s) \/ Lose(s) \/ Remove(s)
    BY <2>2, DiskSame DEF Connect, Lose, Remove
  <2> QED
    BY <1>2, <2>1, <2>2 DEF ConnectionStep
<1>3. ASSUME NEW c \in Commands, AcceptSegment(c) PROVE DiskInv'
  BY <1>3, DiskAccept DEF AcceptSegment
<1>4. ASSUME NEW h \in Handlers, Unreadable(h) \/ Handle(h) PROVE DiskInv'
  <2>1. CASE Unreadable(h) \/ Handshake(h) \/ Drop(h)
    BY <2>1, DiskMoves DEF Unreadable, Handshake, Drop
  <2>2. CASE Record(h)
    BY <2>2, DiskRecord
  <2>3. CASE Write(h)
    BY <2>3, DiskWrite
  <2> QED
    BY <1>4, <2>1, <2>2, <2>3 DEF Handle
<1>5. ASSUME NEW s \in Sessions, NEW f \in Files, Request(s, f) PROVE DiskInv'
  BY <1>5, DiskSame DEF Request
<1>6. ASSUME NEW s \in Sessions, NEW x \in Streams, StartLive(s, x) \/ StopLive(s, x) PROVE DiskInv'
  BY <1>6, DiskSame DEF StartLive, StopLive
<1>7. ASSUME NEW s \in Sessions, Control(s) \/ Finalize(s) PROVE DiskInv'
  BY <1>7, DiskSame DEF Control, Finalize
<1>8. CASE ConsoleStep
  BY <1>8, DiskSame DEF ConsoleStep, Relock, Open, OpenFails, Finish
<1> QED
  BY <1>1, <1>2, <1>3, <1>4, <1>5, <1>6, <1>7, <1>8 DEF Next

\* What a handler recorded is appended to the file it was recorded for, once, and nothing
\* else is, however many connections, uploads and handlers there are.
THEOREM DiskHolds == Spec => []DiskHoldsWhatWasRecorded
<1>1. ASSUME DiskInv, NEW p \in Paths
      PROVE  /\ {disk[p][i] : i \in DOMAIN disk[p]}
                  = {h \in RecordedFor(p) : handlers[h].at = "done"}
             /\ Len(disk[p]) = Cardinality({h \in RecordedFor(p) : handlers[h].at = "done"})
  <2>1. {h \in RecordedFor(p) : handlers[h].at = "done"} = Appended(p)
    BY DEF RecordedFor, Appended
  <2> QED
    BY <1>1, <2>1 DEF DiskInv, DiskOf
<1>2. DiskInv => DiskHoldsWhatWasRecorded
  BY <1>1 DEF DiskHoldsWhatWasRecorded
<1> QED
  BY <1>2, DiskInit, DiskNext, PTL DEF Spec

(***************************************************************************)
(* What a step does to one session, one command, one handler.              *)
(***************************************************************************)

Types ==
    /\ sessions \in [Sessions -> ServerSession \cup {None}]
    /\ connections \in [Sessions -> {"none", "open", "lost", "closed"}]
    /\ commands \in [Commands -> Command]
    /\ issued \in 0 .. MaxCommands
    /\ handlers \in [Handlers -> Handler]
    /\ accepted \in 0 .. MaxStreams
    /\ reports \in [Paths -> Nat \cup {None}]

PutsSession(s, r) ==
    /\ sessions' \in [Sessions -> ServerSession \cup {None}]
    /\ sessions'[s] = r
    /\ \A t \in Sessions : t # s => sessions'[t] = sessions[t]

PutsCommand(c, r) ==
    /\ commands' \in [Commands -> Command]
    /\ commands'[c] = r
    /\ \A d \in Commands : d # c => commands'[d] = commands[d]

PutsHandler(h, r) ==
    /\ handlers' \in [Handlers -> Handler]
    /\ handlers'[h] = r
    /\ \A g \in Handlers : g # h => handlers'[g] = handlers[g]

LEMMA SessionPut ==
    ASSUME Types, NEW s \in Sessions, NEW r \in ServerSession \cup {None},
           sessions' = [sessions EXCEPT ![s] = r]
    PROVE  PutsSession(s, r)
  BY DEF Types, PutsSession

LEMMA CommandPut ==
    ASSUME Types, NEW c \in Commands, NEW r \in Command, commands' = [commands EXCEPT ![c] = r]
    PROVE  PutsCommand(c, r)
  BY DEF Types, PutsCommand

LEMMA HandlerPut ==
    ASSUME Types, NEW h \in Handlers, NEW r \in Handler, handlers' = [handlers EXCEPT ![h] = r]
    PROVE  PutsHandler(h, r)
  BY DEF Types, PutsHandler

LEMMA Bounds == MaxCommands \in Nat /\ MaxStreams \in Nat /\ MaxSegments \in Nat
  BY ConstantsOK

\* The next command, with the fields it was issued with, and nothing in progress before it.
Added(kind, s, name, at) ==
    /\ issued + 1 \in Commands /\ issued' = issued + 1 /\ issued' \in 0 .. MaxCommands /\ Idle
    /\ PutsCommand(issued + 1,
           [kind |-> kind, session |-> s, name |-> name, at |-> at, sent |-> 0])

LEMMA IssuePuts ==
    ASSUME Types, NEW kind \in {"request", "control", "startLive", "stopLive", "finalize"},
           NEW s \in Sessions, NEW name \in Files \cup Streams \cup {None},
           NEW at \in {"relock", "open", "done", "failed"}, Issue(kind, s, name, at)
    PROVE  Added(kind, s, name, at)
<1>1. issued + 1 \in Commands /\ issued' = issued + 1 /\ issued' \in 0 .. MaxCommands /\ Idle
  BY Bounds DEF Issue, Types, Commands
<1>2. PICK r : r = [kind |-> kind, session |-> s, name |-> name, at |-> at, sent |-> 0]
  OBVIOUS
<1>3. r \in Command
  BY <1>2 DEF Command
<1>4. commands' = [commands EXCEPT ![issued + 1] = r]
  BY <1>2 DEF Issue
<1>5. PutsCommand(issued + 1, r)
  BY <1>1, <1>3, <1>4, CommandPut
<1> QED
  BY <1>1, <1>2, <1>5 DEF Added

\* A command that goes on.
CommandGoes(c, at) ==
    /\ commands' \in [Commands -> Command]
    /\ commands'[c].at = at
    /\ commands'[c].kind = commands[c].kind /\ commands'[c].session = commands[c].session
    /\ commands'[c].name = commands[c].name
    /\ \A d \in Commands : d # c => commands'[d] = commands[d]

LEMMA CommandMoves ==
    ASSUME Types, NEW c \in Commands, NEW at \in {"open", "finish", "done", "failed"},
           commands' = [commands EXCEPT ![c].at = at]
    PROVE  CommandGoes(c, at)
<1>1. commands[c] \in Command
  BY DEF Types
<1>2. PICK r : r = [commands[c] EXCEPT !.at = at]
  OBVIOUS
<1>3. /\ r \in Command /\ r.at = at /\ r.kind = commands[c].kind
      /\ r.session = commands[c].session /\ r.name = commands[c].name
  BY <1>1, <1>2 DEF Command
<1>4. commands' = [commands EXCEPT ![c] = r]
  BY <1>2
<1> QED
  BY <1>3, <1>4, CommandPut DEF PutsCommand, CommandGoes

LEMMA CommandSends ==
    ASSUME Types, NEW c \in Commands, AcceptSegment(c)
    PROVE  CommandGoes(c, commands[c].at)
<1>1. commands[c] \in Command
  BY DEF Types
<1>2. PICK r : r = [commands[c] EXCEPT !.sent = commands[c].sent + 1]
  OBVIOUS
<1>3. /\ r \in Command /\ r.at = commands[c].at /\ r.kind = commands[c].kind
      /\ r.session = commands[c].session /\ r.name = commands[c].name
  BY <1>1, <1>2 DEF Command
<1>4. commands' = [commands EXCEPT ![c] = r]
  BY <1>2 DEF AcceptSegment
<1> QED
  BY <1>3, <1>4, CommandPut DEF PutsCommand, CommandGoes

LEMMA AcceptPuts ==
    ASSUME Types, NEW s \in Sessions, NEW upload \in 0 .. MaxCommands, NEW number \in Nat,
           Accept(s, upload, number)
    PROVE  /\ accepted + 1 \in Handlers /\ accepted' = accepted + 1 /\ accepted' \in 0 .. MaxStreams
           /\ connections[s] \in {"open", "lost"}
           /\ PutsHandler(accepted + 1,
                  [at |-> "lock", session |-> s, upload |-> upload, number |-> number, path |-> None])
<1>1. /\ accepted + 1 \in Handlers /\ accepted' = accepted + 1 /\ accepted' \in 0 .. MaxStreams
      /\ connections[s] \in {"open", "lost"}
  BY Bounds DEF Accept, Types, Handlers
<1>2. PICK r : r = [at |-> "lock", session |-> s, upload |-> upload, number |-> number, path |-> None]
  OBVIOUS
<1>3. r \in Handler
  BY <1>2 DEF Handler
<1>4. [Unborn EXCEPT !.at = "lock", !.session = s, !.upload = upload, !.number = number] = r
  <2>1. PICK u : u = [Unborn EXCEPT !.at = "lock"]
    OBVIOUS
  <2>2. PICK v : v = [u EXCEPT !.session = s]
    OBVIOUS
  <2>3. PICK w : w = [v EXCEPT !.upload = upload]
    OBVIOUS
  <2>4. u = [at |-> "lock", session |-> None, upload |-> 0, number |-> 0, path |-> None]
    BY <2>1 DEF Unborn
  <2>5. v = [at |-> "lock", session |-> s, upload |-> 0, number |-> 0, path |-> None]
    BY <2>2, <2>4
  <2>6. w = [at |-> "lock", session |-> s, upload |-> upload, number |-> 0, path |-> None]
    BY <2>3, <2>5
  <2>7. [w EXCEPT !.number = number] = r
    BY <1>2, <2>6
  <2> QED
    BY <2>1, <2>2, <2>3, <2>7
<1>5. handlers' = [handlers EXCEPT ![accepted + 1] = r]
  BY <1>4 DEF Accept
<1> QED
  BY <1>1, <1>2, <1>3, <1>5, HandlerPut

\* A handler that goes on, or that ends.
HandlerGoes(h, at, path) ==
    /\ handlers' \in [Handlers -> Handler]
    /\ handlers'[h].at = at /\ handlers'[h].path = path
    /\ handlers'[h].session = handlers[h].session /\ handlers'[h].upload = handlers[h].upload
    /\ \A g \in Handlers : g # h => handlers'[g] = handlers[g]

LEMMA HandlerMoves ==
    ASSUME Types, NEW h \in Handlers, NEW at \in {"done", "dropped", "failed"},
           handlers' = [handlers EXCEPT ![h].at = at]
    PROVE  HandlerGoes(h, at, handlers[h].path)
<1>1. handlers[h] \in Handler
  BY DEF Types
<1>2. PICK r : r = [handlers[h] EXCEPT !.at = at]
  OBVIOUS
<1>3. /\ r \in Handler /\ r.at = at /\ r.path = handlers[h].path
      /\ r.session = handlers[h].session /\ r.upload = handlers[h].upload
  BY <1>1, <1>2 DEF Handler
<1>4. handlers' = [handlers EXCEPT ![h] = r]
  BY <1>2
<1> QED
  BY <1>3, <1>4, HandlerPut DEF PutsHandler, HandlerGoes

LEMMA HandlerRecords ==
    ASSUME Types, NEW h \in Handlers, NEW path \in Paths,
           handlers' = [handlers EXCEPT ![h].at = "write", ![h].path = path]
    PROVE  HandlerGoes(h, "write", path)
<1>1. handlers[h] \in Handler /\ DOMAIN handlers = Handlers
  BY DEF Types
<1>2. PICK q : q = [handlers[h] EXCEPT !.at = "write"]
  OBVIOUS
<1>3. PICK r : r = [q EXCEPT !.path = path]
  OBVIOUS
<1>4. /\ r \in Handler /\ r.at = "write" /\ r.path = path
      /\ r.session = handlers[h].session /\ r.upload = handlers[h].upload
  <2>1. q \in Handler /\ q.at = "write" /\ q.session = handlers[h].session /\ q.upload = handlers[h].upload
    BY <1>1, <1>2 DEF Handler
  <2> QED
    BY <1>3, <2>1 DEF Handler
<1>5. handlers' = [handlers EXCEPT ![h] = r]
  <2>1. PICK t : t = [handlers EXCEPT ![h].at = "write"]
    OBVIOUS
  <2>2. DOMAIN t = Handlers /\ t[h] = q /\ t = [handlers EXCEPT ![h] = q]
    BY <1>1, <1>2, <2>1
  <2>3. handlers' = [t EXCEPT ![h].path = path]
    BY <2>1
  <2> QED
    BY <1>1, <1>3, <2>2, <2>3
<1> QED
  BY <1>4, <1>5, HandlerPut DEF PutsHandler, HandlerGoes

(***************************************************************************)
(* What a step does to a session.                                          *)
(***************************************************************************)

\* A session that stays, with this file and these live streams.
SessionGoes(s, current, live) ==
    /\ sessions' \in [Sessions -> ServerSession \cup {None}]
    /\ sessions'[s] # None /\ sessions'[s] \in ServerSession
    /\ sessions'[s].current = current /\ sessions'[s].live = live
    /\ \A t \in Sessions : t # s => sessions'[t] = sessions[t]

LEMMA SessionGoing ==
    ASSUME Types, NEW s \in Sessions, NEW r \in ServerSession,
           sessions' = [sessions EXCEPT ![s] = r]
    PROVE  SessionGoes(s, r.current, r.live)
<1>1. r # None
  BY NoneIsNothingElse
<1> QED
  BY <1>1, SessionPut DEF PutsSession, SessionGoes

LEMMA NewSessionOK ==
    /\ NewSession \in ServerSession /\ NewSession.current = None /\ NewSession # None
    /\ \A x \in Streams : NewSession.live[x] = None
<1>1. [x \in Streams |-> None] \in [Streams -> LiveStreamInfo \cup {None}]
  OBVIOUS
<1>2. NewSession \in ServerSession
  BY <1>1 DEF NewSession, ServerSession, SessionStatus
<1> QED
  BY <1>2, NoneIsNothingElse DEF NewSession

LEMMA NewFileOK ==
    ASSUME NEW path \in Paths, NEW live \in Streams \cup {None}
    PROVE  /\ NewFile(path, live) \in ReceivingFileInfo /\ NewFile(path, live) # None
           /\ NewFile(path, live).path = path /\ NewFile(path, live).live = live
           /\ NewFile(path, live).total = 0
<1>1. NewFile(path, live) \in ReceivingFileInfo
  BY DEF NewFile, ReceivingFileInfo
<1> QED
  BY <1>1, NoneIsNothingElse DEF NewFile

LEMMA NewStreamOK ==
    ASSUME NEW path \in Paths
    PROVE  /\ NewStream(path) \in LiveStreamInfo /\ NewStream(path) # None
           /\ NewStream(path).path = path /\ NewStream(path).frames = 0
<1>1. NewStream(path) \in LiveStreamInfo
  BY DEF NewStream, LiveStreamInfo
<1> QED
  BY <1>1, NoneIsNothingElse DEF NewStream

LEMMA PathsOK ==
    /\ \A s \in Sessions, f \in Files : FilePath(s, f) \in Paths
    /\ \A x \in Streams, c \in Commands : LivePath(x, c) \in Paths
  BY DEF FilePath, LivePath, Paths

LEMMA SessionOK ==
    ASSUME Types, NEW s \in Sessions, Exists(s)
    PROVE  /\ sessions[s] \in ServerSession
           /\ sessions[s].live \in [Streams -> LiveStreamInfo \cup {None}]
           /\ sessions[s].current # None => sessions[s].current \in ReceivingFileInfo
  BY DEF Types, Exists, ServerSession

LEMMA HandshakeGoes ==
    ASSUME Types, NEW s \in Sessions, Exists(s),
           sessions' = [sessions EXCEPT ![s].status = "Connected"]
    PROVE  SessionGoes(s, sessions[s].current, sessions[s].live)
<1>1. PICK r : r = [sessions[s] EXCEPT !.status = "Connected"]
  OBVIOUS
<1>2. r \in ServerSession /\ r.current = sessions[s].current /\ r.live = sessions[s].live
  BY <1>1, SessionOK DEF ServerSession, SessionStatus
<1> QED
  BY <1>1, <1>2, SessionGoing

LEMMA DropGoes ==
    ASSUME Types, NEW s \in Sessions, Exists(s),
           sessions' = [sessions EXCEPT ![s].received = @ + 1]
    PROVE  SessionGoes(s, sessions[s].current, sessions[s].live)
<1>1. PICK r : r = [sessions[s] EXCEPT !.received = @ + 1]
  OBVIOUS
<1>2. r \in ServerSession /\ r.current = sessions[s].current /\ r.live = sessions[s].live
  BY <1>1, SessionOK DEF ServerSession
<1> QED
  BY <1>1, <1>2, SessionGoing

\* One frame more of a live stream that is active.
LEMMA FrameCounted ==
    ASSUME NEW live \in [Streams -> LiveStreamInfo \cup {None}], NEW x \in Streams \cup {None}
    PROVE  CountFrame(live, x) \in [Streams -> LiveStreamInfo \cup {None}]
<1>1. CASE x # None /\ live[x] # None
  <2>1. x \in Streams /\ live[x] \in LiveStreamInfo
    BY <1>1
  <2>2. PICK n : n = [live[x] EXCEPT !.frames = live[x].frames + 1]
    OBVIOUS
  <2>3. n \in LiveStreamInfo
    BY <2>1, <2>2 DEF LiveStreamInfo
  <2>4. CountFrame(live, x) = [live EXCEPT ![x] = n]
    BY <1>1, <2>2 DEF CountFrame
  <2> QED
    BY <2>1, <2>3, <2>4
<1>2. CASE ~(x # None /\ live[x] # None)
  BY <1>2 DEF CountFrame
<1> QED
  BY <1>1, <1>2

\* One segment more in the file, and in the count of its live stream if that is active.
LEMMA RecordGoes ==
    ASSUME Types, NEW h \in Handlers, handlers[h].session \in Sessions, Record(h)
    PROVE  LET s == handlers[h].session
               current == sessions[s].current
           IN  /\ Exists(s) /\ current \in ReceivingFileInfo
               /\ SessionGoes(s, [current EXCEPT !.total = @ + 1],
                      CountFrame(sessions[s].live, current.live))
<1>1. PICK s : s = handlers[h].session
  OBVIOUS
<1>2. PICK current : current = sessions[s].current
  OBVIOUS
<1>3. PICK live : live = CountFrame(sessions[s].live, current.live)
  OBVIOUS
<1>4. /\ s \in Sessions /\ Exists(s) /\ current \in ReceivingFileInfo
      /\ sessions[s] \in ServerSession /\ DOMAIN sessions = Sessions
      /\ sessions[s].live \in [Streams -> LiveStreamInfo \cup {None}]
  BY <1>1, <1>2, SessionOK DEF Record, Types
<1>5. current.live \in Streams \cup {None} /\ current.total \in Nat
  BY <1>4 DEF ReceivingFileInfo
<1>6. live \in [Streams -> LiveStreamInfo \cup {None}]
  BY <1>3, <1>4, <1>5, FrameCounted
<1>7. PICK counted : counted = [current EXCEPT !.total = @ + 1]
  OBVIOUS
<1>8. counted \in ReceivingFileInfo
  BY <1>4, <1>7 DEF ReceivingFileInfo
<1>9. PICK u : u = [sessions[s] EXCEPT !.received = @ + 1]
  OBVIOUS
<1>10. u \in ServerSession /\ u.current = current /\ u.live = sessions[s].live
  BY <1>2, <1>4, <1>9 DEF ServerSession
<1>11. PICK v : v = [u EXCEPT !.current = counted]
  OBVIOUS
<1>12. v \in ServerSession /\ v.current = counted /\ v.live = sessions[s].live
  BY <1>8, <1>10, <1>11 DEF ServerSession
<1>13. PICK r : r = [v EXCEPT !.live = live]
  OBVIOUS
<1>14. r \in ServerSession /\ r.current = counted /\ r.live = live
  BY <1>6, <1>12, <1>13 DEF ServerSession
<1>15. sessions' = [sessions EXCEPT ![s] = r]
  <2>1. PICK f : f = [sessions EXCEPT ![s].received = @ + 1]
    OBVIOUS
  <2>2. DOMAIN f = Sessions /\ f[s] = u /\ f = [sessions EXCEPT ![s] = u]
    BY <1>4, <1>9, <2>1
  <2>3. PICK g : g = [f EXCEPT ![s].current.total = @ + 1]
    OBVIOUS
  <2>4. g = [f EXCEPT ![s].current = [f[s].current EXCEPT !.total = @ + 1]]
    BY <2>3
  <2>5. DOMAIN g = Sessions /\ g[s] = v /\ g = [sessions EXCEPT ![s] = v]
    BY <1>4, <1>7, <1>10, <1>11, <2>2, <2>4
  <2>6. sessions' = [g EXCEPT ![s].live = CountFrame(@, current.live)]
    <3>1. sessions' = [sessions EXCEPT
              ![s].received = @ + 1,
              ![s].current.total = @ + 1,
              ![s].live = CountFrame(@, current.live)]
      BY <1>1, <1>2, Zenon DEF Record
    <3> QED
      BY <2>1, <2>3, <3>1
  <2>7. sessions' = [g EXCEPT ![s].live = live]
    BY <1>3, <1>12, <2>5, <2>6
  <2> QED
    BY <1>4, <1>13, <2>5, <2>7
<1>16. SessionGoes(s, counted, live)
  BY <1>4, <1>14, <1>15, SessionGoing
<1> QED
  BY <1>1, <1>2, <1>3, <1>4, <1>7, <1>16

\* The live streams that a console command leaves: one of them started again or stopped.
LEMMA StartGoes ==
    ASSUME Types, NEW s \in Sessions, NEW x \in Streams, StartLive(s, x)
    PROVE  /\ Exists(s) /\ issued + 1 \in Commands
           /\ SessionGoes(s,
                  IF sessions[s].current = None THEN NewFile(LivePath(x, issued + 1), x)
                  ELSE sessions[s].current,
                  [sessions[s].live EXCEPT ![x] = NewStream(LivePath(x, issued + 1))])
<1>1. /\ Exists(s) /\ sessions[s] \in ServerSession /\ DOMAIN sessions = Sessions
      /\ sessions[s].live \in [Streams -> LiveStreamInfo \cup {None}]
      /\ sessions[s].current # None => sessions[s].current \in ReceivingFileInfo
  BY SessionOK DEF StartLive, Types
<1>2. issued + 1 \in Commands
  BY Bounds DEF StartLive, Issue, Types, Commands
<1>3. PICK current : current = IF sessions[s].current = None THEN NewFile(LivePath(x, issued + 1), x)
                               ELSE sessions[s].current
  OBVIOUS
<1>4. current \in ReceivingFileInfo \cup {None}
  <2>1. NewFile(LivePath(x, issued + 1), x) \in ReceivingFileInfo
    BY <1>2, PathsOK, NewFileOK
  <2> QED
    BY <1>1, <1>3, <2>1
<1>5. PICK live : live = [sessions[s].live EXCEPT ![x] = NewStream(LivePath(x, issued + 1))]
  OBVIOUS
<1>6. live \in [Streams -> LiveStreamInfo \cup {None}]
  <2>1. NewStream(LivePath(x, issued + 1)) \in LiveStreamInfo
    BY <1>2, PathsOK, NewStreamOK
  <2> QED
    BY <1>1, <1>5, <2>1
<1>7. PICK u : u = [sessions[s] EXCEPT !.live = live]
  OBVIOUS
<1>8. u \in ServerSession /\ u.current = sessions[s].current /\ u.live = live
  BY <1>1, <1>6, <1>7 DEF ServerSession
<1>9. PICK r : r = [u EXCEPT !.current = current]
  OBVIOUS
<1>10. r \in ServerSession /\ r.current = current /\ r.live = live
  BY <1>4, <1>8, <1>9 DEF ServerSession
<1>11. sessions' = [sessions EXCEPT ![s] = r]
  <2>1. PICK f : f = [sessions EXCEPT ![s].live[x] = NewStream(LivePath(x, issued + 1))]
    OBVIOUS
  <2>2. f = [sessions EXCEPT ![s] = u] /\ f[s] = u /\ DOMAIN f = Sessions
    BY <1>1, <1>5, <1>7, <2>1
  <2>3. sessions' = [f EXCEPT ![s].current =
                        IF @ = None THEN NewFile(LivePath(x, issued + 1), x) ELSE @]
    BY <2>1 DEF StartLive
  <2>4. sessions' = [f EXCEPT ![s].current = current]
    BY <1>3, <1>8, <2>2, <2>3
  <2> QED
    BY <1>1, <1>9, <2>2, <2>4
<1>12. SessionGoes(s, current, live)
  BY <1>10, <1>11, SessionGoing
<1> QED
  BY <1>1, <1>2, <1>3, <1>5, <1>12

LEMMA StopGoes ==
    ASSUME Types, NEW s \in Sessions, NEW x \in Streams, StopLive(s, x)
    PROVE  /\ Exists(s)
           /\ \/ /\ sessions[s].live[x] = None
                 /\ Issue("stopLive", s, x, "relock") /\ sessions' = sessions /\ reports' = reports
              \/ /\ Issue("stopLive", s, x, "failed") /\ reports' = reports
                 /\ SessionGoes(s, sessions[s].current, [sessions[s].live EXCEPT ![x] = None])
              \/ /\ Issue("stopLive", s, x, "relock")
                 /\ sessions[s].live[x] \in LiveStreamInfo /\ ReportStream(sessions[s].live[x])
                 /\ SessionGoes(s,
                        IF sessions[s].current # None /\ sessions[s].current.live = x THEN None
                        ELSE sessions[s].current,
                        [sessions[s].live EXCEPT ![x] = None])
<1>1. /\ Exists(s) /\ sessions[s] \in ServerSession /\ DOMAIN sessions = Sessions
      /\ sessions[s].live \in [Streams -> LiveStreamInfo \cup {None}]
      /\ sessions[s].current # None => sessions[s].current \in ReceivingFileInfo
  BY SessionOK DEF StopLive, Types
<1>2. PICK live : live = [sessions[s].live EXCEPT ![x] = None]
  OBVIOUS
<1>3. live \in [Streams -> LiveStreamInfo \cup {None}]
  BY <1>1, <1>2
<1>4. PICK u : u = [sessions[s] EXCEPT !.live = live]
  OBVIOUS
<1>5. u \in ServerSession /\ u.current = sessions[s].current /\ u.live = live
  BY <1>1, <1>3, <1>4 DEF ServerSession
<1>6. PICK f : f = [sessions EXCEPT ![s].live[x] = None]
  OBVIOUS
<1>7. f = [sessions EXCEPT ![s] = u] /\ f[s] = u /\ DOMAIN f = Sessions
  BY <1>1, <1>2, <1>4, <1>6
<1>8. CASE /\ sessions[s].live[x] = None /\ Issue("stopLive", s, x, "relock")
           /\ UNCHANGED <<sessions, reports>>
  BY <1>1, <1>8
<1>9. CASE /\ Issue("stopLive", s, x, "failed") /\ UNCHANGED reports
           /\ sessions' = [sessions EXCEPT ![s].live[x] = None]
  <2>1. sessions' = [sessions EXCEPT ![s] = u]
    BY <1>6, <1>7, <1>9
  <2>2. SessionGoes(s, sessions[s].current, live)
    BY <1>5, <2>1, SessionGoing
  <2> QED
    BY <1>1, <1>2, <1>9, <2>2
<1>10. CASE /\ Issue("stopLive", s, x, "relock")
            /\ sessions[s].live[x] # None /\ ReportStream(sessions[s].live[x])
            /\ sessions' = [sessions EXCEPT
                   ![s].live[x] = None,
                   ![s].current = IF @ # None /\ @.live = x THEN None ELSE @]
  <2>1. PICK current : current = IF sessions[s].current # None /\ sessions[s].current.live = x
                                 THEN None ELSE sessions[s].current
    OBVIOUS
  <2>2. current \in ReceivingFileInfo \cup {None}
    BY <1>1, <2>1
  <2>3. PICK r : r = [u EXCEPT !.current = current]
    OBVIOUS
  <2>4. r \in ServerSession /\ r.current = current /\ r.live = live
    BY <1>5, <2>2, <2>3 DEF ServerSession
  <2>5. sessions' = [f EXCEPT ![s].current = IF @ # None /\ @.live = x THEN None ELSE @]
    BY <1>6, <1>10
  <2>6. sessions' = [f EXCEPT ![s].current = current]
    BY <1>5, <1>7, <2>1, <2>5
  <2>7. sessions' = [sessions EXCEPT ![s] = r]
    BY <1>1, <1>7, <2>3, <2>6
  <2>8. SessionGoes(s, current, live)
    BY <2>4, <2>7, SessionGoing
  <2> QED
    BY <1>1, <1>2, <1>10, <2>1, <2>8
<1> QED
  BY <1>8, <1>9, <1>10 DEF StopLive

LEMMA FinalizeGoes ==
    ASSUME Types, NEW s \in Sessions, Finalize(s)
    PROVE  /\ Exists(s) /\ sessions[s].current \in ReceivingFileInfo
           /\ \/ Issue("finalize", s, None, "failed") /\ sessions' = sessions /\ reports' = reports
              \/ /\ Issue("finalize", s, None, "done")
                 /\ SessionGoes(s, None, sessions[s].live)
                 /\ reports' = [reports EXCEPT ![sessions[s].current.path] = sessions[s].current.total]
<1>1. /\ Exists(s) /\ sessions[s] \in ServerSession /\ DOMAIN sessions = Sessions
      /\ sessions[s].current \in ReceivingFileInfo
  BY SessionOK DEF Finalize, Types
<1>2. CASE Issue("finalize", s, None, "failed") /\ UNCHANGED <<sessions, reports>>
  BY <1>1, <1>2
<1>3. CASE /\ Issue("finalize", s, None, "done")
           /\ sessions' = [sessions EXCEPT ![s].current = None, ![s].status = "Completed"]
           /\ reports' = [reports EXCEPT ![sessions[s].current.path] = sessions[s].current.total]
  <2>1. PICK u : u = [sessions[s] EXCEPT !.current = None]
    OBVIOUS
  <2>2. u \in ServerSession /\ u.current = None /\ u.live = sessions[s].live
    BY <1>1, <2>1 DEF ServerSession
  <2>3. PICK r : r = [u EXCEPT !.status = "Completed"]
    OBVIOUS
  <2>4. r \in ServerSession /\ r.current = None /\ r.live = sessions[s].live
    BY <2>2, <2>3 DEF ServerSession, SessionStatus
  <2>5. PICK f : f = [sessions EXCEPT ![s].current = None]
    OBVIOUS
  <2>6. f = [sessions EXCEPT ![s] = u] /\ f[s] = u /\ DOMAIN f = Sessions
    BY <1>1, <2>1, <2>5
  <2>7. sessions' = [f EXCEPT ![s].status = "Completed"]
    BY <1>3, <2>5
  <2>8. sessions' = [sessions EXCEPT ![s] = r]
    BY <1>1, <2>3, <2>6, <2>7
  <2> QED
    BY <1>1, <1>3, <2>4, <2>8, SessionGoing
<1> QED
  BY <1>2, <1>3 DEF Finalize

\* The file of a request becomes the current one.
LEMMA RequestOpens ==
    ASSUME Types, NEW s \in Sessions, NEW f \in Files, Exists(s),
           sessions' = [sessions EXCEPT ![s].status = "Requesting",
                                        ![s].current = NewFile(FilePath(s, f), None)]
    PROVE  SessionGoes(s, NewFile(FilePath(s, f), None), sessions[s].live)
<1>1. sessions[s] \in ServerSession /\ DOMAIN sessions = Sessions
  BY SessionOK DEF Types
<1>2. PICK current \in ReceivingFileInfo : current = NewFile(FilePath(s, f), None)
  BY PathsOK, NewFileOK
<1>3. PICK u : u = [sessions[s] EXCEPT !.status = "Requesting"]
  OBVIOUS
<1>4. u \in ServerSession /\ u.live = sessions[s].live
  BY <1>1, <1>3 DEF ServerSession, SessionStatus
<1>5. PICK r : r = [u EXCEPT !.current = current]
  OBVIOUS
<1>6. r \in ServerSession /\ r.current = current /\ r.live = sessions[s].live
  BY <1>4, <1>5 DEF ServerSession
<1>7. PICK g : g = [sessions EXCEPT ![s].status = "Requesting"]
  OBVIOUS
<1>8. g = [sessions EXCEPT ![s] = u] /\ g[s] = u /\ DOMAIN g = Sessions
  BY <1>1, <1>3, <1>7
<1>9. sessions' = [g EXCEPT ![s].current = current]
  BY <1>2, <1>7
<1>10. sessions' = [sessions EXCEPT ![s] = r]
  BY <1>1, <1>5, <1>8, <1>9
<1>11. SessionGoes(s, current, sessions[s].live)
  BY <1>6, <1>10, SessionGoing
<1> QED
  BY <1>2, <1>11

(***************************************************************************)
(* The base: commands are issued one after the other, the one in progress  *)
(* is the last, and keeps its session while it keeps the lock; a session    *)
(* exists while its connection does; a stream belongs to a command that     *)
(* reached the client.                                                     *)
(***************************************************************************)

InProgress == {"relock", "open", "finish"}

CommandOK(c) ==
    /\ c > issued => commands[c] = NoCommand
    /\ c <= issued => commands[c].kind # "none"
    /\ commands[c].at # "none" => commands[c].kind # "none"
    /\ commands[c].kind # "none" =>
          commands[c].session \in Sessions /\ connections[commands[c].session] # "none"
    /\ commands[c].at \in InProgress => c = issued
    /\ commands[c].at \in {"open", "finish"} => Exists(commands[c].session)
    /\ commands[c].kind = "request" =>
          /\ commands[c].name \in Files
          /\ commands[c].at \in {"open", "finish", "done", "failed"}
          /\ commands[c].at = "failed" => connections[commands[c].session] # "open"

ConnectionOK(s) == Exists(s) <=> connections[s] \in {"open", "lost"}

StreamOK(h) ==
    /\ h > accepted => handlers[h].at = "unborn"
    /\ handlers[h].at = "unborn" => handlers[h].upload = 0
    /\ handlers[h].at # "unborn" =>
          handlers[h].session \in Sessions /\ connections[handlers[h].session] # "none"
    /\ handlers[h].upload # 0 =>
          /\ commands[handlers[h].upload].kind # "none"
          /\ commands[handlers[h].upload].at \in {"finish", "done", "failed"}
          /\ commands[handlers[h].upload].session = handlers[h].session
    /\ handlers[h].path # None \/ handlers[h].at = "dropped" => handlers[h].upload # 0
    /\ handlers[h].path # None => handlers[h].at \in {"write", "done", "failed"}

Base ==
    /\ Types
    /\ \A c \in Commands : CommandOK(c)
    /\ \A s \in Sessions : ConnectionOK(s)
    /\ \A h \in Handlers : StreamOK(h)

(* What every step keeps. *)

\* A command is not changed once it is issued, but goes on.
CommandsKept ==
    \A c \in Commands : commands[c].kind # "none" =>
        /\ commands'[c].kind = commands[c].kind /\ commands'[c].session = commands[c].session
        /\ commands'[c].name = commands[c].name
        /\ commands[c].at \in {"done", "failed"} => commands'[c].at = commands[c].at
        /\ commands[c].at = "finish" => commands'[c].at \in {"finish", "done", "failed"}

\* A connection that was made is not made again.
ConnectionsAge ==
    \A s \in Sessions :
        connections[s] # "none" =>
            connections'[s] # "none" /\ (connections'[s] = "open" => connections[s] = "open")

LEMMA BaseInit == Init => Base
<1> SUFFICES ASSUME Init PROVE Base
  OBVIOUS
<1>1. 0 \in 0 .. MaxCommands /\ 0 \in 0 .. MaxStreams
  BY Bounds
<1>6. NoCommand \in Command
  BY DEF NoCommand, Command
<1>7. Unborn \in Handler
  BY <1>1 DEF Unborn, Handler
<1>2. Types
  BY <1>1, <1>6, <1>7 DEF Init, Types
<1>3. ASSUME NEW c \in Commands PROVE CommandOK(c)
  BY DEF Init, CommandOK, NoCommand, InProgress, Commands
<1>4. ASSUME NEW s \in Sessions PROVE ConnectionOK(s)
  BY DEF Init, ConnectionOK, Exists
<1>5. ASSUME NEW h \in Handlers PROVE StreamOK(h)
  BY NoneIsNoPath DEF Init, StreamOK, Unborn
<1> QED
  BY <1>2, <1>3, <1>4, <1>5 DEF Base

LEMMA SameCommands ==
    ASSUME Base, UNCHANGED <<commands, issued>>, ConnectionsAge,
           \A s \in Sessions : Exists(s) => Exists(s)' \/ LockFree
    PROVE  CommandsKept /\ \A c \in Commands : CommandOK(c)'
<1>1. CommandsKept
  BY DEF CommandsKept
<1>2. ASSUME NEW c \in Commands PROVE CommandOK(c)'
  <2>1. CommandOK(c)
    BY DEF Base
  <2>2. commands[c].at \in {"open", "finish"} => ~LockFree
    BY DEF LockFree
  <2> QED
    BY <2>1, <2>2 DEF CommandOK, ConnectionsAge, InProgress
<1> QED
  BY <1>1, <1>2

LEMMA NewCommand ==
    ASSUME Base, NEW r \in Command, issued + 1 \in Commands, issued' = issued + 1, Idle,
           PutsCommand(issued + 1, r), connections' = connections,
           \A s \in Sessions : Exists(s) => Exists(s)',
           r.kind # "none", r.session \in Sessions, Exists(r.session),
           r.kind = "request" => r.name \in Files /\ r.at = "open"
    PROVE  CommandsKept /\ \A c \in Commands : CommandOK(c)'
<1>1. issued \in Nat /\ issued + 1 \in Commands /\ commands[issued + 1] = NoCommand
  BY DEF Base, Types, CommandOK, Commands
<1>2. commands[issued + 1].kind = "none"
  BY <1>1 DEF NoCommand
<1>3. CommandsKept
  BY <1>2 DEF CommandsKept, PutsCommand
<1>4. ASSUME NEW c \in Commands, c = issued + 1 PROVE CommandOK(c)'
  <2>1. connections[r.session] # "none"
    BY DEF Base, ConnectionOK
  <2>2. commands'[c] = r /\ issued' = c /\ c \in Nat /\ Exists(r.session)'
    BY <1>1, <1>4 DEF PutsCommand
  <2> QED
    BY <2>1, <2>2 DEF CommandOK, InProgress
<1>5. ASSUME NEW c \in Commands, c # issued + 1 PROVE CommandOK(c)'
  <2>1. CommandOK(c) /\ commands'[c] = commands[c] /\ c \in Nat
    BY <1>5 DEF Base, PutsCommand, Commands
  <2>2. commands[c].at \notin InProgress
    BY DEF Idle, InProgress
  <2>3. (c > issued' => c > issued) /\ (c <= issued' => c <= issued)
    BY <1>1, <1>5, <2>1
  <2>4. commands[c].at \notin {"open", "finish"}
    BY <2>2 DEF InProgress
  <2> QED
    BY <2>1, <2>2, <2>3, <2>4 DEF CommandOK
<1>6. \A c \in Commands : CommandOK(c)'
  BY <1>4, <1>5
<1> QED
  BY <1>3, <1>6

LEMMA CommandGoesOn ==
    ASSUME Base, NEW c \in Commands, NEW at, CommandGoes(c, at), issued' = issued,
           connections' = connections, \A s \in Sessions : Exists(s) => Exists(s)',
           commands[c].at # "none", at # "none",
           commands[c].at \in {"done", "failed"} => at = commands[c].at,
           commands[c].at = "finish" => at \in {"finish", "done", "failed"},
           at \in InProgress => commands[c].at \in InProgress,
           at \in {"open", "finish"} => Exists(commands[c].session),
           commands[c].kind = "request" =>
               /\ at \in {"open", "finish", "done", "failed"}
               /\ at = "failed" => connections[commands[c].session] # "open"
    PROVE  CommandsKept /\ \A d \in Commands : CommandOK(d)'
<1>1. CommandsKept
  BY DEF CommandsKept, CommandGoes
<1>2. CommandOK(c)'
  <2>1. CommandOK(c) /\ issued \in Nat /\ c \in Nat
    BY DEF Base, Types, Commands
  <2>2. c <= issued
    BY <2>1 DEF CommandOK, NoCommand
  <2>3. commands[c].kind # "none" /\ commands[c].session \in Sessions
    BY <2>1 DEF CommandOK
  <2> QED
    BY <2>1, <2>2, <2>3 DEF CommandOK, CommandGoes
<1>3. ASSUME NEW d \in Commands, d # c PROVE CommandOK(d)'
  <2>1. CommandOK(d) /\ commands'[d] = commands[d]
    BY <1>3 DEF Base, CommandGoes
  <2> QED
    BY <2>1 DEF CommandOK
<1> QED
  BY <1>1, <1>2, <1>3

LEMMA SameStreams ==
    ASSUME Base, UNCHANGED <<handlers, accepted>>, CommandsKept, ConnectionsAge
    PROVE  \A h \in Handlers : StreamOK(h)'
<1> SUFFICES ASSUME NEW h \in Handlers PROVE StreamOK(h)'
  OBVIOUS
<1>1. StreamOK(h) /\ handlers[h].upload \in 0 .. MaxCommands
  BY DEF Base, Types, Handler
<1>2. handlers[h].upload # 0 => handlers[h].upload \in Commands
  BY <1>1, Bounds DEF Commands
<1> QED
  BY <1>1, <1>2 DEF StreamOK, CommandsKept, ConnectionsAge

LEMMA AcceptedStream ==
    ASSUME Base, NEW h \in Handlers, h = accepted + 1, accepted' = h,
           NEW s \in Sessions, NEW upload \in 0 .. MaxCommands, NEW number,
           PutsHandler(h, [at |-> "lock", session |-> s, upload |-> upload, number |-> number, path |-> None]),
           CommandsKept, connections' = connections, connections[s] # "none",
           upload # 0 => /\ commands[upload].kind # "none" /\ commands[upload].session = s
                         /\ commands[upload].at \in {"finish", "done", "failed"}
    PROVE  \A g \in Handlers : StreamOK(g)'
<1>1. StreamOK(h)'
  <2>1. upload # 0 => upload \in Commands
    BY Bounds DEF Commands
  <2>2. ~(h > accepted') /\ connections'[s] # "none"
    BY DEF Handlers
  <2> QED
    BY <2>1, <2>2 DEF StreamOK, PutsHandler, CommandsKept
<1>2. ASSUME NEW g \in Handlers, g # h PROVE StreamOK(g)'
  <2>1. StreamOK(g) /\ handlers[g].upload \in 0 .. MaxCommands /\ handlers'[g] = handlers[g]
    BY <1>2 DEF Base, Types, Handler, PutsHandler
  <2>2. handlers[g].upload # 0 => handlers[g].upload \in Commands
    BY <2>1, Bounds DEF Commands
  <2>3. g > accepted' => g > accepted
    BY DEF Base, Types, Handlers
  <2> QED
    BY <2>1, <2>2, <2>3 DEF StreamOK, CommandsKept
<1> QED
  BY <1>1, <1>2

LEMMA StreamGoesOn ==
    ASSUME Base, NEW h \in Handlers, NEW at, NEW path, HandlerGoes(h, at, path),
           UNCHANGED <<commands, connections, accepted>>,
           handlers[h].at \in {"lock", "write"}, at # "unborn",
           path # None \/ at = "dropped" => handlers[h].upload # 0,
           path # None => at \in {"write", "done", "failed"}
    PROVE  \A g \in Handlers : StreamOK(g)'
<1>1. StreamOK(h)'
  <2>1. StreamOK(h)
    BY DEF Base
  <2> QED
    BY <2>1 DEF StreamOK, HandlerGoes
<1>2. ASSUME NEW g \in Handlers, g # h PROVE StreamOK(g)'
  <2>1. StreamOK(g) /\ handlers'[g] = handlers[g]
    BY <1>2 DEF Base, HandlerGoes
  <2> QED
    BY <2>1 DEF StreamOK
<1> QED
  BY <1>1, <1>2

LEMMA SameConnections ==
    ASSUME Base, connections' = connections, \A s \in Sessions : Exists(s)' <=> Exists(s)
    PROVE  ConnectionsAge /\ \A s \in Sessions : ConnectionOK(s)'
  BY DEF Base, ConnectionOK, ConnectionsAge

LEMMA SessionStays ==
    ASSUME NEW s \in Sessions, NEW current, NEW live, Exists(s), SessionGoes(s, current, live)
    PROVE  \A t \in Sessions : Exists(t)' <=> Exists(t)
  BY DEF SessionGoes, Exists

(***************************************************************************)
(* What a step is to the files that are received.                          *)
(***************************************************************************)

\* What every step keeps of a stream.
StreamsKept ==
    \A h \in Handlers :
        /\ handlers[h].at # "unborn" =>
              /\ handlers'[h].at # "unborn" /\ handlers'[h].session = handlers[h].session
              /\ handlers'[h].upload = handlers[h].upload
        /\ handlers[h].at = "unborn" => handlers'[h].at # "dropped"

\* No segment is recorded.
PathsKept == \A h \in Handlers : handlers'[h].path = handlers[h].path

\* No request is acknowledged.
RequestsKept ==
    \A c \in Commands :
        commands'[c].kind = "request" /\ commands'[c].at = "done" =>
            commands[c].kind = "request" /\ commands[c].at = "done"

\* A segment that is dropped was sent to a session that receives no file.
DropsNothingReceived ==
    \A h \in Handlers :
        handlers'[h].at = "dropped" /\ handlers[h].at # "dropped" =>
            LET s == handlers[h].session
            IN  /\ handlers[h].at # "unborn" /\ LockFree /\ handlers[h].upload # 0
                /\ UNCHANGED <<commands, connections>>
                /\ ~Exists(s) \/ sessions[s].current = None

\* Sessions are made, are removed, or keep their file and their live streams.
SessionsStay ==
    \A s \in Sessions : Exists(s)' =>
        \/ /\ Exists(s) /\ sessions'[s].current = sessions[s].current
           /\ sessions'[s].live = sessions[s].live
        \/ /\ connections[s] = "none" /\ sessions'[s].current = None
           /\ \A x \in Streams : sessions'[s].live[x] = None

Still == SessionsStay /\ PathsKept /\ reports' = reports /\ RequestsKept /\ DropsNothingReceived

NothingDropped == \A h \in Handlers : handlers'[h].at = "dropped" => handlers[h].at = "dropped"

Keeps == Base' /\ CommandsKept /\ ConnectionsAge /\ StreamsKept

LEMMA ConnectKeeps ==
    ASSUME Base, NEW s \in Sessions, Connect(s)
    PROVE  Keeps /\ Still
<1>1. /\ NewSession \in ServerSession \cup {None} /\ NewSession # None /\ NewSession.current = None
      /\ \A x \in Streams : NewSession.live[x] = None
  BY NewSessionOK
<1>2. PutsSession(s, NewSession)
  BY <1>1, SessionPut DEF Base, Connect
<1>3. /\ connections' \in [Sessions -> {"none", "open", "lost", "closed"}]
      /\ connections'[s] = "open" /\ \A t \in Sessions : t # s => connections'[t] = connections[t]
  BY DEF Base, Types, Connect
<1>4. UNCHANGED <<commands, issued, handlers, accepted, reports>> /\ connections[s] = "none"
  BY DEF Connect
<1>5. Types'
  BY <1>2, <1>3, <1>4 DEF Base, Types, PutsSession
<1>6. ConnectionsAge /\ \A t \in Sessions : Exists(t) => Exists(t)'
  BY <1>1, <1>2, <1>3, <1>4 DEF ConnectionsAge, PutsSession, Exists
<1>7. \A t \in Sessions : ConnectionOK(t)'
  BY <1>1, <1>2, <1>3 DEF Base, ConnectionOK, PutsSession, Exists
<1>8. CommandsKept /\ \A c \in Commands : CommandOK(c)'
  BY <1>4, <1>6, SameCommands
<1>9. \A h \in Handlers : StreamOK(h)'
  BY <1>4, <1>6, <1>8, SameStreams
<1>10. SessionsStay
  BY <1>1, <1>2, <1>4 DEF SessionsStay, PutsSession, Exists
<1> QED
  BY <1>4, <1>5, <1>6, <1>7, <1>8, <1>9, <1>10
     DEF Keeps, Base, StreamsKept, Still, PathsKept, RequestsKept, DropsNothingReceived

LEMMA LoseKeeps ==
    ASSUME Base, NEW s \in Sessions, Lose(s)
    PROVE  Keeps /\ Still
<1>1. UNCHANGED <<sessions, commands, issued, handlers, accepted, reports>> /\ connections[s] = "open"
  BY DEF Lose
<1>2. /\ connections' \in [Sessions -> {"none", "open", "lost", "closed"}]
      /\ connections'[s] = "lost" /\ \A t \in Sessions : t # s => connections'[t] = connections[t]
  BY DEF Base, Types, Lose
<1>3. Types'
  BY <1>1, <1>2 DEF Base, Types
<1>4. ConnectionsAge /\ \A t \in Sessions : Exists(t) <=> Exists(t)'
  BY <1>1, <1>2 DEF ConnectionsAge, Exists
<1>5. \A t \in Sessions : ConnectionOK(t)'
  BY <1>1, <1>2, <1>4 DEF Base, ConnectionOK
<1>6. CommandsKept /\ \A c \in Commands : CommandOK(c)'
  BY <1>1, <1>4, SameCommands
<1>7. \A h \in Handlers : StreamOK(h)'
  BY <1>1, <1>4, <1>6, SameStreams
<1>8. SessionsStay
  BY <1>1 DEF SessionsStay, Exists
<1> QED
  BY <1>1, <1>3, <1>4, <1>5, <1>6, <1>7, <1>8
     DEF Keeps, Base, StreamsKept, Still, PathsKept, RequestsKept, DropsNothingReceived

LEMMA RemoveKeeps ==
    ASSUME Base, NEW s \in Sessions, Remove(s)
    PROVE  Keeps /\ Still
<1>1. /\ UNCHANGED <<commands, issued, handlers, accepted, reports>> /\ connections[s] = "lost"
      /\ LockFree
  BY DEF Remove
<1>2. PutsSession(s, None)
  BY SessionPut DEF Base, Remove
<1>3. /\ connections' \in [Sessions -> {"none", "open", "lost", "closed"}]
      /\ connections'[s] = "closed" /\ \A t \in Sessions : t # s => connections'[t] = connections[t]
  BY DEF Base, Types, Remove
<1>4. Types'
  BY <1>1, <1>2, <1>3 DEF Base, Types, PutsSession
<1>5. ConnectionsAge
  BY <1>1, <1>3 DEF ConnectionsAge
<1>6. \A t \in Sessions : ConnectionOK(t)'
  BY <1>2, <1>3 DEF Base, ConnectionOK, PutsSession, Exists
<1>7. CommandsKept /\ \A c \in Commands : CommandOK(c)'
  BY <1>1, <1>5, SameCommands
<1>8. \A h \in Handlers : StreamOK(h)'
  BY <1>1, <1>5, <1>7, SameStreams
<1>9. SessionsStay
  BY <1>2 DEF SessionsStay, PutsSession, Exists
<1> QED
  BY <1>1, <1>4, <1>5, <1>6, <1>7, <1>8, <1>9
     DEF Keeps, Base, StreamsKept, Still, PathsKept, RequestsKept, DropsNothingReceived

\* A stream is accepted, of a command that goes on as it is or of none.
LEMMA AcceptKeeps ==
    ASSUME Base, NEW s \in Sessions, NEW upload \in 0 .. MaxCommands, NEW number \in Nat,
           Accept(s, upload, number), UNCHANGED <<sessions, connections, issued, reports>>,
           CommandsKept, RequestsKept, commands' \in [Commands -> Command],
           \A c \in Commands : CommandOK(c)',
           upload # 0 => /\ commands[upload].kind # "none" /\ commands[upload].session = s
                         /\ commands[upload].at \in {"finish", "done", "failed"}
    PROVE  Keeps /\ Still
<1>1. PICK h \in Handlers : h = accepted + 1
  BY AcceptPuts DEF Base
<1>2. /\ accepted' = h /\ accepted' \in 0 .. MaxStreams /\ connections[s] # "none"
      /\ PutsHandler(h,
             [at |-> "lock", session |-> s, upload |-> upload, number |-> number, path |-> None])
  BY <1>1, AcceptPuts DEF Base
<1>3. Types'
  BY <1>2 DEF Base, Types, PutsHandler
<1>4. ConnectionsAge /\ \A t \in Sessions : ConnectionOK(t)'
  BY SameConnections DEF Exists
<1>5. \A g \in Handlers : StreamOK(g)'
  BY <1>1, <1>2, AcceptedStream
<1>6. h > accepted
  BY <1>1 DEF Base, Types
<1>7. handlers[h].at = "unborn" /\ handlers[h].path = None
  BY <1>6 DEF Base, StreamOK
<1>8. StreamsKept /\ PathsKept /\ DropsNothingReceived
  BY <1>2, <1>7 DEF StreamsKept, PathsKept, DropsNothingReceived, PutsHandler
<1>9. SessionsStay
  BY DEF SessionsStay, Exists
<1> QED
  BY <1>3, <1>4, <1>5, <1>8, <1>9 DEF Keeps, Base, Still

LEMMA AcceptHandshakeKeeps ==
    ASSUME Base, NEW s \in Sessions, AcceptHandshake(s)
    PROVE  Keeps /\ Still
<1>1. Accept(s, 0, 0) /\ UNCHANGED <<sessions, connections, commands, issued, reports>>
  BY DEF AcceptHandshake
<1>2. ConnectionsAge /\ \A t \in Sessions : Exists(t)' <=> Exists(t)
  BY <1>1, SameConnections DEF Exists
<1>3. CommandsKept /\ \A c \in Commands : CommandOK(c)'
  BY <1>1, <1>2, SameCommands
<1>4. RequestsKept /\ commands' \in [Commands -> Command] /\ 0 \in 0 .. MaxCommands
  BY <1>1, Bounds DEF RequestsKept, Base, Types
<1> QED
  BY <1>1, <1>3, <1>4, AcceptKeeps

LEMMA AcceptSegmentKeeps ==
    ASSUME Base, NEW c \in Commands, AcceptSegment(c)
    PROVE  Keeps /\ Still
<1>1. PICK s, n : s = commands[c].session /\ n = commands[c].sent + 1
  OBVIOUS
<1>2. /\ Accept(s, c, n) /\ UNCHANGED <<sessions, connections, issued, reports>> /\ Uploads(c)
      /\ n \in Nat /\ c \in 0 .. MaxCommands /\ c # 0
  BY <1>1, Bounds DEF AcceptSegment, Base, Types, Command, Commands
<1>3. CommandGoes(c, commands[c].at)
  BY CommandSends DEF Base
<1>4. CommandOK(c) /\ commands[c].at \in {"finish", "done"}
  BY <1>2 DEF Base, Uploads
<1>5. commands[c].kind # "none" /\ s \in Sessions
  BY <1>1, <1>4 DEF CommandOK
<1>6. \A t \in Sessions : Exists(t)' <=> Exists(t)
  BY <1>2 DEF Exists
<1>7. CommandsKept /\ \A d \in Commands : CommandOK(d)'
  <2>1. PICK at : at = commands[c].at
    OBVIOUS
  <2>2. at \in {"finish", "done"} /\ CommandGoes(c, at)
    BY <1>3, <1>4, <2>1
  <2>3. at \in {"open", "finish"} => Exists(commands[c].session)
    BY <1>4, <2>1 DEF CommandOK
  <2> QED
    BY <1>2, <1>4, <1>6, <2>1, <2>2, <2>3, CommandGoesOn DEF CommandOK
<1>8. RequestsKept /\ commands' \in [Commands -> Command]
  BY <1>3 DEF RequestsKept, CommandGoes
<1> QED
  BY <1>1, <1>2, <1>4, <1>5, <1>7, <1>8, AcceptKeeps

\* A handler ends, and nothing but its own state changes.
LEMMA HandlerEnds ==
    ASSUME Base, NEW h \in Handlers, handlers[h].at \in {"lock", "write"}, NEW at \in {"done", "failed"},
           HandlerGoes(h, at, handlers[h].path),
           UNCHANGED <<connections, commands, issued, accepted, reports>>,
           sessions' \in [Sessions -> ServerSession \cup {None}], SessionsStay,
           \A s \in Sessions : Exists(s)' <=> Exists(s)
    PROVE  Keeps /\ Still
<1>1. Types'
  BY DEF Base, Types, HandlerGoes
<1>2. ConnectionsAge /\ \A s \in Sessions : ConnectionOK(s)'
  BY SameConnections
<1>3. CommandsKept /\ \A c \in Commands : CommandOK(c)'
  BY <1>2, SameCommands
<1>4. StreamOK(h)
  BY DEF Base
<1>5. \A g \in Handlers : StreamOK(g)'
  BY <1>4, StreamGoesOn DEF StreamOK
<1>6. StreamsKept /\ PathsKept /\ DropsNothingReceived
  BY DEF StreamsKept, PathsKept, DropsNothingReceived, HandlerGoes
<1>7. RequestsKept
  BY DEF RequestsKept
<1> QED
  BY <1>1, <1>2, <1>3, <1>5, <1>6, <1>7 DEF Keeps, Base, Still

LEMMA UnreadableKeeps ==
    ASSUME Base, NEW h \in Handlers, Unreadable(h)
    PROVE  Keeps /\ Still
<1>1. /\ handlers[h].at \in {"lock", "write"}
      /\ UNCHANGED <<sessions, connections, commands, issued, accepted, reports>>
  BY DEF Unreadable
<1>2. HandlerGoes(h, "failed", handlers[h].path)
  BY HandlerMoves DEF Base, Unreadable
<1>3. /\ sessions' \in [Sessions -> ServerSession \cup {None}] /\ SessionsStay
      /\ \A s \in Sessions : Exists(s)' <=> Exists(s)
  BY <1>1 DEF Base, Types, SessionsStay, Exists
<1> QED
  BY <1>1, <1>2, <1>3, HandlerEnds

LEMMA WriteKeeps ==
    ASSUME Base, NEW h \in Handlers, Write(h)
    PROVE  Keeps /\ Still
<1>1. /\ handlers[h].at \in {"lock", "write"}
      /\ UNCHANGED <<sessions, connections, commands, issued, accepted, reports>>
  BY DEF Write
<1>2. PICK at \in {"done", "failed"} : handlers' = [handlers EXCEPT ![h].at = at]
  BY DEF Write
<1>3. HandlerGoes(h, at, handlers[h].path)
  BY <1>2, HandlerMoves DEF Base
<1>4. /\ sessions' \in [Sessions -> ServerSession \cup {None}] /\ SessionsStay
      /\ \A s \in Sessions : Exists(s)' <=> Exists(s)
  BY <1>1 DEF Base, Types, SessionsStay, Exists
<1> QED
  BY <1>1, <1>3, <1>4, HandlerEnds

\* A session that keeps its file and its live streams.
LEMMA SessionSame ==
    ASSUME NEW s \in Sessions, Exists(s), SessionGoes(s, sessions[s].current, sessions[s].live)
    PROVE  /\ sessions' \in [Sessions -> ServerSession \cup {None}] /\ SessionsStay
           /\ \A t \in Sessions : Exists(t)' <=> Exists(t)
  BY DEF SessionGoes, SessionsStay, Exists

LEMMA HandshakeKeeps ==
    ASSUME Base, NEW h \in Handlers, Handshake(h)
    PROVE  Keeps /\ Still
<1>1. PICK s : s = handlers[h].session
  OBVIOUS
<1>2. /\ handlers[h].at \in {"lock", "write"} /\ handlers[h].at # "unborn"
      /\ UNCHANGED <<connections, commands, issued, accepted, reports>>
  BY DEF Handshake
<1>3. s \in Sessions
  BY <1>1, <1>2 DEF Base, StreamOK
<1>4. HandlerGoes(h, "done", handlers[h].path)
  BY HandlerMoves DEF Base, Handshake
<1>5. /\ sessions' \in [Sessions -> ServerSession \cup {None}] /\ SessionsStay
      /\ \A t \in Sessions : Exists(t)' <=> Exists(t)
  <2>1. CASE Exists(s)
    <3>1. sessions' = [sessions EXCEPT ![s].status = "Connected"]
      BY <1>1, <2>1 DEF Handshake
    <3>2. SessionGoes(s, sessions[s].current, sessions[s].live)
      BY <1>3, <2>1, <3>1, HandshakeGoes DEF Base
    <3> QED
      BY <1>3, <2>1, <3>2, SessionSame
  <2>2. CASE ~Exists(s)
    <3>1. sessions' = sessions
      BY <1>1, <2>2 DEF Handshake
    <3> QED
      BY <3>1 DEF Base, Types, SessionsStay, Exists
  <2> QED
    BY <2>1, <2>2
<1> QED
  BY <1>2, <1>4, <1>5, HandlerEnds

LEMMA DropKeeps ==
    ASSUME Base, NEW h \in Handlers, Drop(h)
    PROVE  Keeps /\ Still
<1>1. PICK s : s = handlers[h].session
  OBVIOUS
<1>2. /\ handlers[h].at = "lock" /\ handlers[h].upload # 0 /\ LockFree
      /\ UNCHANGED <<connections, commands, issued, accepted, reports>>
      /\ \/ ~Exists(s) /\ UNCHANGED sessions
         \/ /\ Exists(s) /\ sessions[s].current = None
            /\ sessions' = [sessions EXCEPT ![s].received = @ + 1]
  BY <1>1 DEF Drop
<1>3. s \in Sessions /\ StreamOK(h)
  BY <1>1, <1>2 DEF Base, StreamOK
<1>4. HandlerGoes(h, "dropped", handlers[h].path)
  BY HandlerMoves DEF Base, Drop
<1>5. /\ sessions' \in [Sessions -> ServerSession \cup {None}] /\ SessionsStay
      /\ \A t \in Sessions : Exists(t)' <=> Exists(t)
  <2>1. CASE Exists(s)
    <3>1. sessions' = [sessions EXCEPT ![s].received = @ + 1]
      BY <1>2, <2>1
    <3>2. SessionGoes(s, sessions[s].current, sessions[s].live)
      BY <1>3, <2>1, <3>1, DropGoes DEF Base
    <3> QED
      BY <1>3, <2>1, <3>2, SessionSame
  <2>2. CASE ~Exists(s)
    <3>1. sessions' = sessions
      BY <1>2, <2>2
    <3> QED
      BY <3>1 DEF Base, Types, SessionsStay, Exists
  <2> QED
    BY <2>1, <2>2
<1>6. Types'
  BY <1>2, <1>4, <1>5 DEF Base, Types, HandlerGoes
<1>7. ConnectionsAge /\ \A t \in Sessions : ConnectionOK(t)'
  BY <1>2, <1>5, SameConnections
<1>8. CommandsKept /\ \A c \in Commands : CommandOK(c)'
  BY <1>2, <1>5, <1>7, SameCommands
<1>9. \A g \in Handlers : StreamOK(g)'
  BY <1>2, <1>3, <1>4, StreamGoesOn DEF StreamOK
<1>10. StreamsKept /\ PathsKept
  BY <1>2, <1>4 DEF StreamsKept, PathsKept, HandlerGoes
<1>11. DropsNothingReceived
  <2>1. ASSUME NEW g \in Handlers, handlers'[g].at = "dropped", handlers[g].at # "dropped" PROVE g = h
    BY <1>4, <2>1 DEF HandlerGoes
  <2>2. /\ handlers[h].at # "unborn" /\ LockFree /\ handlers[h].upload # 0
        /\ UNCHANGED <<commands, connections>> /\ (~Exists(s) \/ sessions[s].current = None)
    BY <1>2
  <2> QED
    BY <1>1, <2>1, <2>2 DEF DropsNothingReceived
<1>12. RequestsKept
  BY <1>2 DEF RequestsKept
<1> QED
  BY <1>2, <1>5, <1>6, <1>7, <1>8, <1>9, <1>10, <1>11, <1>12 DEF Keeps, Base, Still

\* A segment is recorded in the file that its session receives.
Records(h) ==
    LET s == handlers[h].session
        current == sessions[s].current
    IN  /\ s \in Sessions /\ Exists(s) /\ current \in ReceivingFileInfo /\ LockFree
        /\ handlers[h].path = None /\ handlers[h].upload # 0 /\ handlers[h].at # "unborn"
        /\ SessionGoes(s, [current EXCEPT !.total = @ + 1], CountFrame(sessions[s].live, current.live))
        /\ HandlerGoes(h, "write", current.path)
        /\ UNCHANGED <<commands, connections, reports>>

LEMMA RecordKeeps ==
    ASSUME Base, NEW h \in Handlers, Record(h)
    PROVE  Keeps /\ Records(h)
<1>1. PICK s, current : s = handlers[h].session /\ current = sessions[s].current
  OBVIOUS
<1>2. /\ handlers[h].at = "lock" /\ handlers[h].upload # 0 /\ LockFree
      /\ UNCHANGED <<connections, commands, issued, accepted, reports>>
      /\ handlers' = [handlers EXCEPT ![h].at = "write", ![h].path = current.path]
  BY <1>1 DEF Record
<1>3. s \in Sessions /\ StreamOK(h)
  BY <1>1, <1>2 DEF Base, StreamOK
<1>4. /\ Exists(s) /\ current \in ReceivingFileInfo
      /\ SessionGoes(s, [current EXCEPT !.total = @ + 1], CountFrame(sessions[s].live, current.live))
  BY <1>1, <1>3, RecordGoes DEF Base
<1>5. current.path \in Paths
  BY <1>4 DEF ReceivingFileInfo
<1>6. HandlerGoes(h, "write", current.path)
  BY <1>2, <1>5, HandlerRecords DEF Base
<1>7. /\ sessions' \in [Sessions -> ServerSession \cup {None}]
      /\ \A t \in Sessions : Exists(t)' <=> Exists(t)
  BY <1>3, <1>4, SessionStays DEF SessionGoes
<1>8. Types'
  BY <1>2, <1>6, <1>7 DEF Base, Types, HandlerGoes
<1>9. ConnectionsAge /\ \A t \in Sessions : ConnectionOK(t)'
  BY <1>2, <1>7, SameConnections
<1>10. CommandsKept /\ \A c \in Commands : CommandOK(c)'
  BY <1>2, <1>7, <1>9, SameCommands
<1>11. \A g \in Handlers : StreamOK(g)'
  BY <1>2, <1>6, StreamGoesOn
<1>12. StreamsKept
  BY <1>2, <1>6 DEF StreamsKept, HandlerGoes
<1>13. handlers[h].path = None
  BY <1>2, <1>3 DEF StreamOK
<1> QED
  BY <1>1, <1>2, <1>3, <1>4, <1>6, <1>8, <1>9, <1>10, <1>11, <1>12, <1>13 DEF Keeps, Base, Records

\* The next command is issued; the streams stay as they are.
Issues(kind, s, name, at) ==
    LET c == issued + 1
    IN  /\ c \in Commands /\ commands[c].kind = "none"
        /\ commands'[c].kind = kind /\ commands'[c].session = s
        /\ commands'[c].name = name /\ commands'[c].at = at
        /\ \A d \in Commands : d # c => commands'[d] = commands[d] /\ (commands[d].kind # "none" => d < c)
        /\ connections' = connections /\ handlers' = handlers
        /\ RequestsKept

LEMMA IssueKeeps ==
    ASSUME Base, NEW kind \in {"request", "control", "startLive", "stopLive", "finalize"},
           NEW s \in Sessions, NEW name \in Files \cup Streams \cup {None},
           NEW at \in {"relock", "open", "done", "failed"}, Issue(kind, s, name, at), Exists(s),
           UNCHANGED <<connections, handlers, accepted>>,
           sessions' \in [Sessions -> ServerSession \cup {None}],
           reports' \in [Paths -> Nat \cup {None}],
           \A t \in Sessions : Exists(t)' <=> Exists(t),
           kind = "request" => name \in Files /\ at = "open"
    PROVE  Keeps /\ Issues(kind, s, name, at)
<1>1. PICK r : r = [kind |-> kind, session |-> s, name |-> name, at |-> at, sent |-> 0]
  OBVIOUS
<1>2. PICK c : c = issued + 1
  OBVIOUS
<1>3. c \in Commands /\ issued' = c /\ issued' \in 0 .. MaxCommands /\ Idle /\ PutsCommand(c, r)
  <2>1. Types
    BY DEF Base
  <2>2. Added(kind, s, name, at)
    BY <2>1, IssuePuts
  <2> QED
    BY <1>1, <1>2, <2>2 DEF Added
<1>4. r \in Command /\ r.kind = kind /\ r.session = s /\ r.name = name /\ r.at = at /\ r.kind # "none"
  BY <1>1 DEF Command
<1>5. CommandsKept /\ \A d \in Commands : CommandOK(d)'
  BY <1>2, <1>3, <1>4, NewCommand
<1>6. ConnectionsAge /\ \A t \in Sessions : ConnectionOK(t)'
  BY SameConnections
<1>7. \A h \in Handlers : StreamOK(h)'
  BY <1>5, <1>6, SameStreams
<1>8. Types'
  BY <1>3 DEF Base, Types, PutsCommand
<1>9. StreamsKept
  BY DEF StreamsKept
<1>10. commands[c].kind = "none"
  <2>1. c > issued
    BY <1>2 DEF Base, Types
  <2> QED
    BY <1>3, <2>1 DEF Base, CommandOK, NoCommand
<1>11. ASSUME NEW d \in Commands, d # c
       PROVE  commands'[d] = commands[d] /\ (commands[d].kind # "none" => d < c)
  <2>1. d > issued => commands[d].kind = "none"
    BY DEF Base, CommandOK, NoCommand
  <2>2. d \in Nat /\ issued \in Nat
    BY DEF Base, Types, Commands
  <2> QED
    BY <1>2, <1>3, <1>11, <2>1, <2>2 DEF PutsCommand
<1>12. commands'[c].kind = kind /\ commands'[c].session = s /\ commands'[c].name = name /\ commands'[c].at = at
  BY <1>3, <1>4 DEF PutsCommand
<1>13. RequestsKept
  BY <1>11, <1>12 DEF RequestsKept
<1> QED
  BY <1>2, <1>3, <1>5, <1>6, <1>7, <1>8, <1>9, <1>10, <1>11, <1>12, <1>13 DEF Keeps, Base, Issues

\* A live stream is started; its file is opened unless the session receives one.
Starts(s, x) ==
    /\ Exists(s) /\ Issues("startLive", s, x, "relock") /\ reports' = reports
    /\ SessionGoes(s,
           IF sessions[s].current = None THEN NewFile(LivePath(x, issued + 1), x)
           ELSE sessions[s].current,
           [sessions[s].live EXCEPT ![x] = NewStream(LivePath(x, issued + 1))])

LEMMA StartKeeps ==
    ASSUME Base, NEW s \in Sessions, NEW x \in Streams, StartLive(s, x)
    PROVE  Keeps /\ Starts(s, x)
<1>1. PICK current, live :
          /\ current = IF sessions[s].current = None THEN NewFile(LivePath(x, issued + 1), x)
                       ELSE sessions[s].current
          /\ live = [sessions[s].live EXCEPT ![x] = NewStream(LivePath(x, issued + 1))]
  OBVIOUS
<1>2. Exists(s) /\ SessionGoes(s, current, live)
  BY <1>1, StartGoes DEF Base
<1>3. /\ sessions' \in [Sessions -> ServerSession \cup {None}]
      /\ \A t \in Sessions : Exists(t)' <=> Exists(t)
  BY <1>2, SessionStays DEF SessionGoes
<1>4. Issue("startLive", s, x, "relock") /\ UNCHANGED <<connections, handlers, accepted, reports>>
  BY DEF StartLive
<1>5. reports' \in [Paths -> Nat \cup {None}]
  BY <1>4 DEF Base, Types
<1>6. Keeps /\ Issues("startLive", s, x, "relock")
  BY <1>2, <1>3, <1>4, <1>5, IssueKeeps
<1> QED
  BY <1>1, <1>2, <1>4, <1>6 DEF Starts

\* A live stream is stopped, and its file with it unless that fails.
Stops(s, x) ==
    /\ Exists(s)
    /\ \/ /\ Issues("stopLive", s, x, "relock") /\ sessions[s].live[x] = None
          /\ sessions' = sessions /\ reports' = reports
       \/ /\ Issues("stopLive", s, x, "failed") /\ reports' = reports
          /\ SessionGoes(s, sessions[s].current, [sessions[s].live EXCEPT ![x] = None])
       \/ /\ Issues("stopLive", s, x, "relock")
          /\ sessions[s].live[x] \in LiveStreamInfo /\ ReportStream(sessions[s].live[x])
          /\ SessionGoes(s,
                 IF sessions[s].current # None /\ sessions[s].current.live = x THEN None
                 ELSE sessions[s].current,
                 [sessions[s].live EXCEPT ![x] = None])

LEMMA StopKeeps ==
    ASSUME Base, NEW s \in Sessions, NEW x \in Streams, StopLive(s, x)
    PROVE  Keeps /\ Stops(s, x)
<1>1. UNCHANGED <<connections, handlers, accepted>>
  BY DEF StopLive
<1>2. ASSUME reports' = reports \/ \E stream \in LiveStreamInfo : ReportStream(stream)
      PROVE  reports' \in [Paths -> Nat \cup {None}]
  BY <1>2 DEF Base, Types, ReportStream, LiveStreamInfo
<1>3. ASSUME NEW at \in {"relock", "failed"}, Exists(s), Issue("stopLive", s, x, at),
             reports' = reports \/ \E stream \in LiveStreamInfo : ReportStream(stream),
             \/ sessions' = sessions
             \/ \E current, live : SessionGoes(s, current, live)
      PROVE  Keeps /\ Issues("stopLive", s, x, at)
  <2>1. /\ sessions' \in [Sessions -> ServerSession \cup {None}]
        /\ \A t \in Sessions : Exists(t)' <=> Exists(t)
    <3>1. CASE sessions' = sessions
      BY <3>1 DEF Base, Types, Exists
    <3>2. CASE \E current, live : SessionGoes(s, current, live)
      <4>1. PICK current, live : SessionGoes(s, current, live)
        BY <3>2
      <4> QED
        BY <1>3, <4>1, SessionStays DEF SessionGoes
    <3> QED
      BY <1>3, <3>1, <3>2
  <2> QED
    BY <1>1, <1>2, <1>3, <2>1, IssueKeeps
<1>4. PICK live, current : /\ live = [sessions[s].live EXCEPT ![x] = None]
                           /\ current = IF sessions[s].current # None /\ sessions[s].current.live = x
                                        THEN None ELSE sessions[s].current
  OBVIOUS
<1>5. /\ Exists(s)
      /\ \/ /\ sessions[s].live[x] = None
            /\ Issue("stopLive", s, x, "relock") /\ sessions' = sessions /\ reports' = reports
         \/ /\ Issue("stopLive", s, x, "failed") /\ reports' = reports
            /\ SessionGoes(s, sessions[s].current, live)
         \/ /\ Issue("stopLive", s, x, "relock")
            /\ sessions[s].live[x] \in LiveStreamInfo /\ ReportStream(sessions[s].live[x])
            /\ SessionGoes(s, current, live)
  BY <1>4, StopGoes DEF Base
<1>6. CASE /\ sessions[s].live[x] = None /\ Issue("stopLive", s, x, "relock")
           /\ sessions' = sessions /\ reports' = reports
  BY <1>1, <1>3, <1>5, <1>6 DEF Stops
<1>7. CASE /\ Issue("stopLive", s, x, "failed") /\ reports' = reports
           /\ SessionGoes(s, sessions[s].current, live)
  <2>1. Keeps /\ Issues("stopLive", s, x, "failed")
    BY <1>3, <1>5, <1>7
  <2> QED
    BY <1>1, <1>4, <1>5, <1>7, <2>1 DEF Stops
<1>8. CASE /\ Issue("stopLive", s, x, "relock")
           /\ sessions[s].live[x] \in LiveStreamInfo /\ ReportStream(sessions[s].live[x])
           /\ SessionGoes(s, current, live)
  <2>1. Keeps /\ Issues("stopLive", s, x, "relock")
    BY <1>3, <1>5, <1>8
  <2> QED
    BY <1>1, <1>4, <1>5, <1>8, <2>1 DEF Stops
<1> QED
  BY <1>5, <1>6, <1>7, <1>8

\* The file of a session is finished, with the report of what was received.
Finalizes(s) ==
    /\ Exists(s) /\ sessions[s].current \in ReceivingFileInfo
    /\ Issues("finalize", s, None, "done") /\ SessionGoes(s, None, sessions[s].live)
    /\ reports' = [reports EXCEPT ![sessions[s].current.path] = sessions[s].current.total]

LEMMA FinalizeKeeps ==
    ASSUME Base, NEW s \in Sessions, Finalize(s)
    PROVE  Keeps /\ (Finalizes(s) \/ (Still /\ handlers' = handlers))
<1>1. /\ Exists(s) /\ sessions[s].current \in ReceivingFileInfo
      /\ \/ Issue("finalize", s, None, "failed") /\ sessions' = sessions /\ reports' = reports
         \/ /\ Issue("finalize", s, None, "done")
            /\ SessionGoes(s, None, sessions[s].live)
            /\ reports' = [reports EXCEPT ![sessions[s].current.path] = sessions[s].current.total]
  BY FinalizeGoes DEF Base
<1>2. UNCHANGED <<connections, handlers, accepted>>
  BY DEF Finalize
<1>3. CASE Issue("finalize", s, None, "failed") /\ sessions' = sessions /\ reports' = reports
  <2>1. /\ sessions' \in [Sessions -> ServerSession \cup {None}]
        /\ reports' \in [Paths -> Nat \cup {None}]
        /\ \A t \in Sessions : Exists(t)' <=> Exists(t)
    BY <1>3 DEF Base, Types, Exists
  <2>2. Keeps /\ Issues("finalize", s, None, "failed")
    BY <1>1, <1>2, <1>3, <2>1, IssueKeeps
  <2>3. SessionsStay
    BY <1>3 DEF SessionsStay, Exists
  <2> QED
    BY <1>2, <1>3, <2>2, <2>3 DEF Issues, Still, PathsKept, DropsNothingReceived
<1>4. CASE /\ Issue("finalize", s, None, "done")
           /\ SessionGoes(s, None, sessions[s].live)
           /\ reports' = [reports EXCEPT ![sessions[s].current.path] = sessions[s].current.total]
  <2>1. /\ sessions' \in [Sessions -> ServerSession \cup {None}]
        /\ \A t \in Sessions : Exists(t)' <=> Exists(t)
    BY <1>1, <1>4, SessionStays DEF SessionGoes
  <2>2. reports' \in [Paths -> Nat \cup {None}]
    BY <1>1, <1>4 DEF Base, Types, ReceivingFileInfo
  <2>3. Keeps /\ Issues("finalize", s, None, "done")
    BY <1>1, <1>2, <1>4, <2>1, <2>2, IssueKeeps
  <2> QED
    BY <1>1, <1>4, <2>3 DEF Finalizes
<1> QED
  BY <1>1, <1>3, <1>4

\* A request or a control message takes the lock.
LEMMA AskKeeps ==
    ASSUME Base, NEW kind \in {"request", "control"}, NEW s \in Sessions,
           NEW name \in Files \cup {None}, kind = "request" => name \in Files,
           Exists(s), Issue(kind, s, name, "open"),
           UNCHANGED <<sessions, connections, handlers, accepted, reports>>
    PROVE  Keeps /\ Still
<1>1. /\ sessions' \in [Sessions -> ServerSession \cup {None}]
      /\ reports' \in [Paths -> Nat \cup {None}]
      /\ \A t \in Sessions : Exists(t)' <=> Exists(t)
  BY DEF Base, Types, Exists
<1>2. Keeps /\ Issues(kind, s, name, "open")
  BY <1>1, IssueKeeps
<1>3. SessionsStay
  BY DEF SessionsStay, Exists
<1> QED
  BY <1>2, <1>3 DEF Issues, Still, PathsKept, DropsNothingReceived

LEMMA RequestKeeps ==
    ASSUME Base, NEW s \in Sessions, NEW f \in Files, Request(s, f)
    PROVE  Keeps /\ Still
  BY AskKeeps DEF Request

LEMMA ControlKeeps ==
    ASSUME Base, NEW s \in Sessions, Control(s)
    PROVE  Keeps /\ Still
  BY AskKeeps DEF Control

\* A command of the console goes on; the streams stay as they are.
LEMMA ConsoleGoesOn ==
    ASSUME Base, NEW c \in Commands, NEW at \in {"open", "finish", "done", "failed"},
           commands[c].at \in InProgress, commands' = [commands EXCEPT ![c].at = at],
           UNCHANGED <<connections, issued, handlers, accepted, reports>>,
           sessions' \in [Sessions -> ServerSession \cup {None}],
           \A t \in Sessions : Exists(t)' <=> Exists(t),
           commands[c].at = "finish" => at \in {"done", "failed"},
           at \in {"open", "finish"} => Exists(commands[c].session),
           commands[c].kind = "request" /\ at = "failed" => connections[commands[c].session] # "open"
    PROVE  Keeps /\ CommandGoes(c, at)
<1>1. CommandGoes(c, at)
  BY CommandMoves DEF Base
<1>2. /\ commands[c].at # "none" /\ at # "none" /\ commands[c].at \notin {"done", "failed"}
      /\ at # "relock"
  BY DEF InProgress
<1>3. CommandsKept /\ \A d \in Commands : CommandOK(d)'
  BY <1>1, <1>2, CommandGoesOn
<1>4. ConnectionsAge /\ \A t \in Sessions : ConnectionOK(t)'
  BY SameConnections
<1>5. \A h \in Handlers : StreamOK(h)'
  BY <1>3, <1>4, SameStreams
<1>6. Types'
  BY <1>1 DEF Base, Types, CommandGoes
<1>7. StreamsKept
  BY DEF StreamsKept
<1> QED
  BY <1>1, <1>3, <1>4, <1>5, <1>6, <1>7 DEF Keeps, Base

\* It goes on without an answer to a request.
LEMMA ConsoleStill ==
    ASSUME NEW c \in Commands, NEW at, CommandGoes(c, at),
           commands[c].kind = "request" => at # "done",
           UNCHANGED <<sessions, handlers, reports>>
    PROVE  Still
<1>1. SessionsStay
  BY DEF SessionsStay, Exists
<1>2. RequestsKept
  BY DEF RequestsKept, CommandGoes
<1> QED
  BY <1>1, <1>2 DEF Still, PathsKept, DropsNothingReceived

LEMMA RelockKeeps ==
    ASSUME Base, Relock
    PROVE  Keeps /\ Still
<1>1. UNCHANGED <<sessions, connections, issued, handlers, accepted, reports>>
  BY DEF Relock
<1>2. PICK c \in Commands :
          /\ commands[c].at = "relock"
          /\ commands' = [commands EXCEPT ![c].at = IF Exists(commands[c].session) THEN "open" ELSE "failed"]
  BY DEF Relock
<1>3. PICK at : at = IF Exists(commands[c].session) THEN "open" ELSE "failed"
  OBVIOUS
<1>4. commands[c].kind # "request" /\ commands[c].at \in InProgress
  BY <1>2 DEF Base, CommandOK, InProgress
<1>5. /\ at \in {"open", "finish", "done", "failed"} /\ at # "done"
      /\ at \in {"open", "finish"} => Exists(commands[c].session)
  BY <1>3
<1>6. /\ sessions' \in [Sessions -> ServerSession \cup {None}]
      /\ \A t \in Sessions : Exists(t)' <=> Exists(t)
  BY <1>1 DEF Base, Types, Exists
<1>7. commands' = [commands EXCEPT ![c].at = at] /\ commands[c].at # "finish"
  BY <1>2, <1>3
<1>8. Keeps /\ CommandGoes(c, at)
  BY <1>1, <1>4, <1>5, <1>6, <1>7, ConsoleGoesOn
<1> QED
  BY <1>1, <1>4, <1>8, ConsoleStill

LEMMA OpenKeeps ==
    ASSUME Base, Open \/ OpenFails
    PROVE  Keeps /\ Still
<1>1. UNCHANGED <<sessions, connections, issued, handlers, accepted, reports>>
  BY DEF Open, OpenFails
<1>2. PICK c \in Commands, at \in {"finish", "failed"} :
          /\ commands[c].at = "open"
          /\ commands' = [commands EXCEPT ![c].at = at]
          /\ at = "failed" => connections[commands[c].session] # "open"
  BY DEF Open, OpenFails
<1>3. /\ commands[c].at \in InProgress /\ Exists(commands[c].session)
      /\ commands[c].at # "finish"
  BY <1>2 DEF Base, CommandOK, InProgress
<1>4. at \in {"open", "finish", "done", "failed"} /\ at # "done"
  OBVIOUS
<1>5. /\ sessions' \in [Sessions -> ServerSession \cup {None}]
      /\ \A t \in Sessions : Exists(t)' <=> Exists(t)
  BY <1>1 DEF Base, Types, Exists
<1>6. Keeps /\ CommandGoes(c, at)
  BY <1>1, <1>2, <1>3, <1>4, <1>5, ConsoleGoesOn
<1> QED
  BY <1>1, <1>4, <1>6, ConsoleStill

\* A request is acknowledged, and its file becomes the current one.
Opens(c) ==
    LET s == commands[c].session
    IN  /\ s \in Sessions /\ Exists(s) /\ commands[c].name \in Files
        /\ commands[c].kind = "request" /\ commands[c].at = "finish"
        /\ CommandGoes(c, "done")
        /\ SessionGoes(s, NewFile(FilePath(s, commands[c].name), None), sessions[s].live)
        /\ UNCHANGED <<connections, handlers, reports>>

LEMMA FinishKeeps ==
    ASSUME Base, Finish
    PROVE  Keeps /\ (Still \/ \E c \in Commands : Opens(c))
<1>1. UNCHANGED <<connections, issued, handlers, accepted, reports>>
  BY DEF Finish
<1>2. PICK c \in Commands :
          LET s == commands[c].session
          IN  /\ commands[c].at = "finish"
              /\ \/ /\ connections[s] # "open"
                    /\ commands' = [commands EXCEPT ![c].at = "failed"]
                    /\ UNCHANGED sessions
                 \/ /\ commands' = [commands EXCEPT ![c].at = "done"]
                    /\ sessions' =
                         IF commands[c].kind = "request"
                           THEN [sessions EXCEPT
                                    ![s].status = "Requesting",
                                    ![s].current = NewFile(FilePath(s, commands[c].name), None)]
                           ELSE sessions
  BY DEF Finish
<1>3. PICK s : s = commands[c].session
  OBVIOUS
<1>4. CommandOK(c) /\ commands[c].at = "finish"
  BY <1>2 DEF Base
<1>5. s \in Sessions /\ Exists(s) /\ commands[c].at \in InProgress
  BY <1>3, <1>4 DEF CommandOK, InProgress
<1>6. CASE commands' = [commands EXCEPT ![c].at = "failed"] /\ connections[s] # "open" /\ sessions' = sessions
  <2>1. /\ sessions' \in [Sessions -> ServerSession \cup {None}]
        /\ \A t \in Sessions : Exists(t)' <=> Exists(t)
    BY <1>6 DEF Base, Types, Exists
  <2>2. Keeps /\ CommandGoes(c, "failed")
    BY <1>1, <1>3, <1>4, <1>5, <1>6, <2>1, ConsoleGoesOn
  <2> QED
    BY <1>1, <1>6, <2>2, ConsoleStill
<1>7. CASE /\ commands' = [commands EXCEPT ![c].at = "done"] /\ commands[c].kind # "request"
           /\ sessions' = sessions
  <2>1. /\ sessions' \in [Sessions -> ServerSession \cup {None}]
        /\ \A t \in Sessions : Exists(t)' <=> Exists(t)
    BY <1>7 DEF Base, Types, Exists
  <2>2. Keeps /\ CommandGoes(c, "done")
    BY <1>1, <1>4, <1>5, <1>7, <2>1, ConsoleGoesOn
  <2> QED
    BY <1>1, <1>7, <2>2, ConsoleStill
<1>8. CASE /\ commands' = [commands EXCEPT ![c].at = "done"] /\ commands[c].kind = "request"
           /\ sessions' = [sessions EXCEPT ![s].status = "Requesting",
                                           ![s].current = NewFile(FilePath(s, commands[c].name), None)]
  <2>1. commands[c].name \in Files
    BY <1>4, <1>8 DEF CommandOK
  <2>2. SessionGoes(s, NewFile(FilePath(s, commands[c].name), None), sessions[s].live)
    BY <1>5, <1>8, <2>1, RequestOpens DEF Base
  <2>3. /\ sessions' \in [Sessions -> ServerSession \cup {None}]
        /\ \A t \in Sessions : Exists(t)' <=> Exists(t)
    BY <1>5, <2>2, SessionStays DEF SessionGoes
  <2>4. Keeps /\ CommandGoes(c, "done")
    BY <1>1, <1>4, <1>5, <1>8, <2>3, ConsoleGoesOn
  <2> QED
    BY <1>1, <1>3, <1>4, <1>5, <1>8, <2>1, <2>2, <2>4 DEF Opens
<1> QED
  BY <1>2, <1>3, <1>6, <1>7, <1>8

\* What a step is to the files that are received.
Change ==
    \/ Still
    \/ \E h \in Handlers : Records(h)
    \/ \E s \in Sessions, x \in Streams : Starts(s, x) \/ Stops(s, x)
    \/ \E s \in Sessions : Finalizes(s)
    \/ \E c \in Commands : Opens(c)

LEMMA NextKeeps ==
    ASSUME Base, [Next]_vars
    PROVE  Keeps /\ Change
<1>1. CASE UNCHANGED vars
  <2>1. Types'
    BY <1>1 DEF Base, Types, vars
  <2>2. /\ \A s \in Sessions : ConnectionOK(s)'
        /\ \A h \in Handlers : StreamOK(h)'
    BY <1>1 DEF Base, ConnectionOK, StreamOK, Exists, vars
  <2>3. \A c \in Commands : CommandOK(c)'
    BY <1>1 DEF Base, CommandOK, Exists, vars
  <2>4. CommandsKept /\ ConnectionsAge /\ StreamsKept
    BY <1>1 DEF CommandsKept, ConnectionsAge, StreamsKept, vars
  <2>5. SessionsStay
    BY <1>1 DEF SessionsStay, Exists, vars
  <2> QED
    BY <1>1, <2>1, <2>2, <2>3, <2>4, <2>5
       DEF Keeps, Base, Change, Still, PathsKept, RequestsKept, DropsNothingReceived, vars
<1>2. ASSUME NEW s \in Sessions, ConnectionStep(s) PROVE Keeps /\ Change
  BY <1>2, ConnectKeeps, LoseKeeps, RemoveKeeps, AcceptHandshakeKeeps DEF ConnectionStep, Change
<1>3. ASSUME NEW c \in Commands, AcceptSegment(c) PROVE Keeps /\ Change
  BY <1>3, AcceptSegmentKeeps DEF Change
<1>4. ASSUME NEW h \in Handlers, Unreadable(h) \/ Handle(h) PROVE Keeps /\ Change
  BY <1>4, UnreadableKeeps, HandshakeKeeps, DropKeeps, RecordKeeps, WriteKeeps DEF Handle, Change
<1>5. ASSUME NEW s \in Sessions, NEW f \in Files, Request(s, f) PROVE Keeps /\ Change
  BY <1>5, RequestKeeps DEF Change
<1>6. ASSUME NEW s \in Sessions, NEW x \in Streams, StartLive(s, x) \/ StopLive(s, x)
      PROVE  Keeps /\ Change
  BY <1>6, StartKeeps, StopKeeps DEF Change
<1>7. ASSUME NEW s \in Sessions, Control(s) \/ Finalize(s) PROVE Keeps /\ Change
  BY <1>7, ControlKeeps, FinalizeKeeps DEF Change
<1>8. ASSUME ConsoleStep PROVE Keeps /\ Change
  BY <1>8, RelockKeeps, OpenKeeps, FinishKeeps DEF ConsoleStep, Change
<1> QED
  BY <1>1, <1>2, <1>3, <1>4, <1>5, <1>6, <1>7, <1>8 DEF Next

(***************************************************************************)
(* The files that are received, and the commands that opened them.         *)
(***************************************************************************)

LEMMA OpeningsGrow ==
    ASSUME CommandsKept, NEW p
    PROVE  /\ Openings(p) \subseteq Openings(p)'
           /\ \A c \in Openings(p) : commands'[c].session = commands[c].session
<1> SUFFICES ASSUME NEW c \in Openings(p)
             PROVE  c \in Openings(p)' /\ commands'[c].session = commands[c].session
  OBVIOUS
<1>1. c \in Commands /\ commands[c].kind \in {"request", "startLive"}
  BY DEF Openings
<1> QED
  BY <1>1 DEF CommandsKept, Openings

\* A file that a session receives after a step is the one it received before,
\* or command c opened it in this step.
KeepsFile(s) ==
    /\ Exists(s) /\ sessions[s].current # None
    /\ sessions'[s].current.path = sessions[s].current.path
    /\ sessions'[s].current.live = sessions[s].current.live
    /\ \/ sessions'[s].current.total = sessions[s].current.total
       \/ \E h \in Handlers : Records(h) /\ handlers[h].session = s

\* A file has a path of the live stream it is of, or one of a session if it is of none.
FileOf(p, live) ==
    /\ live = None => p.session # None
    /\ live # None => p.session = None /\ p.name = live

OpensFile(s, c, p) ==
    /\ sessions'[s].current.path = p /\ sessions'[s].current.total = 0
    /\ c \in Openings(p)' /\ c \notin Openings(p) /\ commands'[c].session = s
    /\ PathsKept /\ reports' = reports
    /\ FileOf(p, sessions'[s].current.live)
    /\ \A x \in Streams : sessions'[s].current.live = x => Starts(s, x)

LEMMA StartOpens ==
    ASSUME Base, NEW s \in Sessions, NEW x \in Streams, Starts(s, x), sessions[s].current = None
    PROVE  OpensFile(s, issued + 1, LivePath(x, issued + 1))
<1>1. PICK c \in Commands : c = issued + 1
  BY DEF Starts, Issues
<1>2. /\ commands[c].kind = "none" /\ commands'[c].kind = "startLive"
      /\ commands'[c].session = s /\ commands'[c].name = x
      /\ handlers' = handlers /\ reports' = reports
      /\ sessions'[s].current = NewFile(LivePath(x, c), x)
  BY <1>1 DEF Starts, Issues, SessionGoes
<1>3. PICK p : p = LivePath(x, c)
  OBVIOUS
<1>4. /\ sessions'[s].current.path = p /\ sessions'[s].current.total = 0
      /\ sessions'[s].current.live = x
  BY <1>2, <1>3 DEF NewFile
<1>5. c \in Openings(p)' /\ c \notin Openings(p)
  BY <1>2, <1>3 DEF Openings, LivePath
<1>6. FileOf(p, x)
  BY <1>3, ConstantsOK DEF FileOf, LivePath
<1>7. OpensFile(s, c, p)
  BY <1>2, <1>4, <1>5, <1>6 DEF OpensFile, PathsKept
<1> QED
  BY <1>1, <1>3, <1>7

LEMMA RequestOpensFile ==
    ASSUME NEW c \in Commands, Opens(c)
    PROVE  OpensFile(commands[c].session, c, FilePath(commands[c].session, commands[c].name))
<1>1. PICK s, f : s = commands[c].session /\ f = commands[c].name
  OBVIOUS
<1>2. /\ commands[c].kind = "request" /\ commands[c].at = "finish"
      /\ commands'[c].kind = "request" /\ commands'[c].at = "done"
      /\ commands'[c].session = s /\ commands'[c].name = f
      /\ handlers' = handlers /\ reports' = reports
      /\ sessions'[s].current = NewFile(FilePath(s, f), None)
  BY <1>1 DEF Opens, CommandGoes, SessionGoes
<1>3. PICK p : p = FilePath(s, f)
  OBVIOUS
<1>4. /\ sessions'[s].current.path = p /\ sessions'[s].current.total = 0
      /\ sessions'[s].current.live = None
  BY <1>2, <1>3 DEF NewFile
<1>5. c \in Openings(p)' /\ c \notin Openings(p)
  BY <1>2, <1>3 DEF Openings
<1>6. FileOf(p, None) /\ \A x \in Streams : None # x
  BY <1>1, <1>3, ConstantsOK DEF FileOf, FilePath, Opens
<1>7. OpensFile(s, c, p)
  BY <1>2, <1>4, <1>5, <1>6 DEF OpensFile, PathsKept
<1> QED
  BY <1>1, <1>3, <1>7

\* A session that a step leaves alone.
LEMMA SessionsApart ==
    ASSUME NEW s \in Sessions, sessions'[s] = sessions[s], Exists(s)', sessions'[s].current # None
    PROVE  KeepsFile(s)
  BY DEF KeepsFile, Exists

LEMMA WhereFilesComeFrom ==
    ASSUME Base, Change, NEW s \in Sessions, Exists(s)', sessions'[s].current # None
    PROVE  KeepsFile(s) \/ \E c \in Commands : \E p : OpensFile(s, c, p)
<1>1. CASE Still
  BY <1>1 DEF Still, SessionsStay, KeepsFile
<1>2. ASSUME NEW h \in Handlers, Records(h) PROVE KeepsFile(s)
  <2>1. PICK t, current : t = handlers[h].session /\ current = sessions[t].current
    OBVIOUS
  <2>2. /\ Exists(t) /\ current \in ReceivingFileInfo
        /\ SessionGoes(t, [current EXCEPT !.total = @ + 1], CountFrame(sessions[t].live, current.live))
    BY <1>2, <2>1 DEF Records
  <2>3. CASE s = t
    <3>1. PICK counted : counted = [current EXCEPT !.total = @ + 1]
      OBVIOUS
    <3>2. counted.path = current.path /\ counted.live = current.live
      BY <2>2, <3>1 DEF ReceivingFileInfo
    <3>3. sessions'[s].current = counted /\ current # None
      BY <2>2, <2>3, <3>1, NoneIsNothingElse DEF SessionGoes
    <3> QED
      BY <1>2, <2>1, <2>2, <2>3, <3>2, <3>3 DEF KeepsFile
  <2>4. CASE s # t
    BY <2>2, <2>4, SessionsApart DEF SessionGoes
  <2> QED
    BY <2>3, <2>4
<1>3. ASSUME NEW t \in Sessions, NEW x \in Streams, Starts(t, x)
      PROVE  KeepsFile(s) \/ \E c \in Commands : \E p : OpensFile(s, c, p)
  <2>1. CASE s # t
    BY <1>3, <2>1, SessionsApart DEF Starts, SessionGoes
  <2>2. CASE s = t /\ sessions[s].current = None
    <3>1. OpensFile(s, issued + 1, LivePath(x, issued + 1)) /\ issued + 1 \in Commands
      BY <1>3, <2>2, StartOpens DEF Starts, Issues
    <3> QED
      BY <3>1
  <2>3. CASE s = t /\ sessions[s].current # None
    BY <1>3, <2>3 DEF Starts, SessionGoes, KeepsFile
  <2> QED
    BY <2>1, <2>2, <2>3
<1>4. ASSUME NEW t \in Sessions, NEW x \in Streams, Stops(t, x) PROVE KeepsFile(s)
  <2>1. CASE sessions'[s] = sessions[s]
    BY <2>1, SessionsApart
  <2>2. CASE s = t /\ sessions'[s].current = sessions[s].current
    BY <1>4, <2>2 DEF Stops, KeepsFile
  <2> QED
    BY <1>4, <2>1, <2>2 DEF Stops, SessionGoes
<1>5. ASSUME NEW t \in Sessions, Finalizes(t) PROVE KeepsFile(s)
  BY <1>5, SessionsApart DEF Finalizes, SessionGoes
<1>6. ASSUME NEW c \in Commands, Opens(c) PROVE KeepsFile(s) \/ \E p : OpensFile(s, c, p)
  <2>1. CASE s # commands[c].session
    BY <1>6, <2>1, SessionsApart DEF Opens, SessionGoes
  <2>2. CASE s = commands[c].session
    BY <1>6, <2>2, RequestOpensFile
  <2> QED
    BY <2>1, <2>2
<1> QED
  BY <1>1, <1>2, <1>3, <1>4, <1>5, <1>6 DEF Change

\* A path that a step records is that of the file the session received.
LEMMA WherePathsComeFrom ==
    ASSUME Base, Change, NEW h \in Handlers, handlers'[h].path # handlers[h].path
    PROVE  /\ Records(h) /\ handlers[h].path = None
           /\ \A g \in Handlers : g # h => handlers'[g].path = handlers[g].path
<1>1. ~PathsKept
  BY DEF PathsKept
<1>2. ASSUME NEW s \in Sessions, NEW x \in Streams, Starts(s, x) \/ Stops(s, x) PROVE FALSE
  BY <1>1, <1>2 DEF Starts, Stops, Issues, PathsKept
<1>3. ASSUME NEW s \in Sessions, Finalizes(s) PROVE FALSE
  BY <1>1, <1>3 DEF Finalizes, Issues, PathsKept
<1>4. ASSUME NEW c \in Commands, Opens(c) PROVE FALSE
  BY <1>1, <1>4 DEF Opens, PathsKept
<1>5. PICK g \in Handlers : Records(g)
  BY <1>1, <1>2, <1>3, <1>4 DEF Change, Still
<1>6. g = h
  BY <1>5 DEF Records, HandlerGoes
<1> QED
  BY <1>5, <1>6 DEF Records, HandlerGoes

\* A live stream that is stopped, and its report.
StopsStream(s, x, p) ==
    /\ Stops(s, x) /\ Exists(s) /\ sessions[s].live[x] \in LiveStreamInfo
    /\ sessions[s].live[x].path = p /\ reports'[p] = sessions[s].live[x].frames
    /\ sessions'[s].current # None => sessions'[s].current.live # x

\* A report is written when the file of its path is finished, or the live stream
\* that the path was given to is stopped.
LEMMA WhereReportsComeFrom ==
    ASSUME Base, Change, NEW p \in Paths, reports'[p] # reports[p]
    PROVE  \/ \E s \in Sessions : /\ Finalizes(s) /\ sessions[s].current.path = p
                                  /\ reports'[p] = sessions[s].current.total
           \/ \E s \in Sessions, x \in Streams : StopsStream(s, x, p)
<1>1. reports' # reports /\ DOMAIN reports = Paths
  BY DEF Base, Types
<1>2. ASSUME NEW s \in Sessions, NEW x \in Streams, Starts(s, x) PROVE FALSE
  BY <1>1, <1>2 DEF Starts
<1>3. ASSUME NEW s \in Sessions, Finalizes(s)
      PROVE  sessions[s].current.path = p /\ reports'[p] = sessions[s].current.total
  BY <1>1, <1>3 DEF Finalizes
<1>4. ASSUME NEW s \in Sessions, NEW x \in Streams, Stops(s, x) PROVE StopsStream(s, x, p)
  <2>1. /\ Exists(s) /\ sessions[s].live[x] \in LiveStreamInfo /\ ReportStream(sessions[s].live[x])
        /\ sessions'[s].current = IF sessions[s].current # None /\ sessions[s].current.live = x
                                  THEN None ELSE sessions[s].current
    BY <1>1, <1>4 DEF Stops, SessionGoes
  <2>2. sessions[s].live[x].path = p /\ reports'[p] = sessions[s].live[x].frames
    BY <1>1, <2>1 DEF ReportStream
  <2> QED
    BY <1>4, <2>1, <2>2 DEF StopsStream
<1> QED
  BY <1>1, <1>2, <1>3, <1>4 DEF Change, Still, Records, Opens

\* A live stream that is active after a step was active before, or it is started.
KeepsStream(s, x) ==
    /\ Exists(s) /\ sessions[s].live[x] # None /\ sessions'[s].live[x] = sessions[s].live[x]
    /\ ~Starts(s, x)
    /\ \A h \in Handlers : Records(h) /\ handlers[h].session = s => sessions[s].current.live # x

CountsFrame(s, x) ==
    /\ Exists(s) /\ sessions[s].live[x] # None
    /\ sessions'[s].live[x].path = sessions[s].live[x].path
    /\ sessions'[s].live[x].frames = sessions[s].live[x].frames + 1
    /\ \E h \in Handlers : /\ Records(h) /\ handlers[h].session = s
                           /\ sessions[s].current.live = x

StartsStream(s, x) ==
    /\ Starts(s, x) /\ issued + 1 \in Commands
    /\ sessions'[s].live[x].path = LivePath(x, issued + 1) /\ sessions'[s].live[x].frames = 0

LEMMA LiveTypes ==
    ASSUME Base, NEW s \in Sessions, NEW x \in Streams, Exists(s)
    PROVE  /\ sessions[s].live \in [Streams -> LiveStreamInfo \cup {None}]
           /\ sessions[s].live[x] # None =>
                 /\ sessions[s].live[x].path \in Paths /\ sessions[s].live[x].frames \in Nat
                 /\ sessions[s].live[x] \in LiveStreamInfo
<1>1. sessions[s].live \in [Streams -> LiveStreamInfo \cup {None}]
  BY SessionOK DEF Base
<1> QED
  BY <1>1 DEF LiveStreamInfo

LEMMA RecordsOne ==
    ASSUME NEW g \in Handlers, NEW h \in Handlers, Records(g), Records(h)
    PROVE  g = h
<1> SUFFICES ASSUME g # h PROVE FALSE
  OBVIOUS
<1>1. handlers'[g] = handlers[g] /\ handlers[g].path = None
  BY DEF Records, HandlerGoes
<1>2. handlers'[g].path \in Paths
  BY DEF Records, HandlerGoes, ReceivingFileInfo
<1> QED
  BY <1>1, <1>2, NoneIsNoPath

LEMMA WhereStreamsComeFrom ==
    ASSUME Base, Change, NEW s \in Sessions, NEW x \in Streams,
           Exists(s)', sessions'[s].live[x] # None
    PROVE  KeepsStream(s, x) \/ CountsFrame(s, x) \/ StartsStream(s, x)
<1>0. CASE Starts(s, x)
  <2>1. PICK c \in Commands : c = issued + 1
    BY <1>0 DEF Starts, Issues
  <2>2. sessions[s].live \in [Streams -> LiveStreamInfo \cup {None}]
    BY <1>0, LiveTypes DEF Starts
  <2>3. sessions'[s].live[x] = NewStream(LivePath(x, c))
    BY <1>0, <2>1, <2>2 DEF Starts, SessionGoes
  <2> QED
    BY <1>0, <2>1, <2>3 DEF StartsStream, NewStream
<1>1. CASE \E h \in Handlers : Records(h)
  <2>1. PICK h \in Handlers : Records(h)
    BY <1>1
  <2>2. PICK t, current : t = handlers[h].session /\ current = sessions[t].current
    OBVIOUS
  <2>3. /\ t \in Sessions /\ Exists(t) /\ current \in ReceivingFileInfo
        /\ sessions'[t].live = CountFrame(sessions[t].live, current.live)
        /\ \A u \in Sessions : u # t => sessions'[u] = sessions[u]
        /\ ~Starts(s, x)
    BY <2>1, <2>2, NoneIsNoPath DEF Records, SessionGoes, Starts, Issues, HandlerGoes, ReceivingFileInfo
  <2>4. \A g \in Handlers : Records(g) => handlers[g].session = t
    BY <2>1, <2>2, RecordsOne
  <2>5. CASE s # t
    BY <2>3, <2>4, <2>5 DEF KeepsStream, Exists
  <2>6. CASE s = t /\ current.live # x
    <3>1. sessions[s].live \in [Streams -> LiveStreamInfo \cup {None}]
      BY <2>3, <2>6, LiveTypes
    <3>2. sessions'[s].live[x] = sessions[s].live[x]
      BY <2>3, <2>6, <3>1 DEF CountFrame
    <3> QED
      BY <2>2, <2>3, <2>6, <3>2 DEF KeepsStream
  <2>7. CASE s = t /\ current.live = x
    <3>1. /\ sessions[s].live \in [Streams -> LiveStreamInfo \cup {None}] /\ x # None
          /\ sessions'[s].live = CountFrame(sessions[s].live, x)
      BY <2>3, <2>7, LiveTypes, ConstantsOK
    <3>2. sessions[s].live[x] # None
      BY <3>1 DEF CountFrame
    <3>3. PICK n : n = [sessions[s].live[x] EXCEPT !.frames = sessions[s].live[x].frames + 1]
      OBVIOUS
    <3>4. sessions'[s].live = [sessions[s].live EXCEPT ![x] = n]
      BY <3>1, <3>2, <3>3 DEF CountFrame
    <3>5. sessions'[s].live[x] = n
      BY <3>1, <3>4
    <3>6. n.path = sessions[s].live[x].path /\ n.frames = sessions[s].live[x].frames + 1
      BY <3>1, <3>2, <3>3 DEF LiveStreamInfo
    <3> QED
      BY <2>1, <2>2, <2>3, <2>7, <3>2, <3>5, <3>6 DEF CountsFrame
  <2> QED
    BY <2>5, <2>6, <2>7
<1>2. CASE ~Starts(s, x) /\ ~\E h \in Handlers : Records(h)
  <2> SUFFICES Exists(s) /\ sessions'[s].live[x] = sessions[s].live[x]
    BY <1>2 DEF KeepsStream
  <2>1. CASE sessions'[s] = sessions[s]
    BY <2>1 DEF Exists
  <2>2. CASE Still
    <3>1. sessions'[s].live = sessions[s].live /\ Exists(s)
      BY <2>2 DEF Still, SessionsStay
    <3> QED
      BY <3>1
  <2>3. ASSUME NEW t \in Sessions, NEW y \in Streams, Starts(t, y) \/ Stops(t, y),
               sessions'[s] # sessions[s]
        PROVE  Exists(s) /\ sessions'[s].live[x] = sessions[s].live[x]
    <3>1. s = t /\ Exists(s)
      BY <2>3 DEF Starts, Stops, SessionGoes
    <3>2. sessions[s].live \in [Streams -> LiveStreamInfo \cup {None}]
      BY <3>1, LiveTypes
    <3>3. PICK v : sessions'[s].live = [sessions[s].live EXCEPT ![y] = v] /\ (Stops(t, y) => v = None)
      BY <2>3, <3>1 DEF Starts, Stops, SessionGoes
    <3>4. x # y
      <4>1. CASE Stops(t, y)
        BY <3>2, <3>3, <4>1
      <4>2. CASE Starts(t, y)
        BY <1>2, <3>1, <4>2
      <4> QED
        BY <2>3, <4>1, <4>2
    <3> QED
      BY <3>1, <3>2, <3>3, <3>4
  <2>4. ASSUME NEW t \in Sessions, Finalizes(t), sessions'[s] # sessions[s]
        PROVE  Exists(s) /\ sessions'[s].live[x] = sessions[s].live[x]
    BY <2>4 DEF Finalizes, SessionGoes
  <2>5. ASSUME NEW c \in Commands, Opens(c), sessions'[s] # sessions[s]
        PROVE  Exists(s) /\ sessions'[s].live[x] = sessions[s].live[x]
    BY <2>5 DEF Opens, SessionGoes
  <2> QED
    BY <1>2, <2>1, <2>2, <2>3, <2>4, <2>5 DEF Change
<1> QED
  BY <1>0, <1>1, <1>2

\* The command that starts a live stream gives it a path that nobody had.
LEMMA StartsOpening ==
    ASSUME NEW s \in Sessions, NEW x \in Streams, StartsStream(s, x),
           NEW p, p = sessions'[s].live[x].path
    PROVE  /\ p \in Paths /\ FileOf(p, x) /\ \E c \in Openings(p)' : commands'[c].session = s
<1>1. PICK c \in Commands : c = issued + 1
  BY DEF StartsStream
<1>2. /\ commands[c].kind = "none" /\ commands'[c].kind = "startLive"
      /\ commands'[c].session = s /\ commands'[c].name = x
  BY <1>1 DEF StartsStream, Starts, Issues
<1>3. p = LivePath(x, c)
  BY <1>1 DEF StartsStream
<1>4. p \in Paths /\ FileOf(p, x)
  BY <1>3, PathsOK, ConstantsOK DEF FileOf, LivePath
<1>5. c \in Openings(p)'
  BY <1>2, <1>3 DEF Openings
<1> QED
  BY <1>2, <1>4, <1>5

(***************************************************************************)
(* Every file was opened by a command, of the session that receives it.    *)
(***************************************************************************)

Receives(s, p) == Exists(s) /\ sessions[s].current # None /\ sessions[s].current.path = p

\* Live stream x of s is active, and p was given to it.
StreamsTo(s, x, p) == Exists(s) /\ sessions[s].live[x] # None /\ sessions[s].live[x].path = p

PathInv(p) ==
    /\ \A s \in Sessions : Receives(s, p) =>
          FileOf(p, sessions[s].current.live) /\ \E c \in Openings(p) : commands[c].session = s
    /\ \A s \in Sessions, x \in Streams : StreamsTo(s, x, p) =>
          FileOf(p, x) /\ \E c \in Openings(p) : commands[c].session = s
    /\ \A h \in Handlers : handlers[h].path = p => Openings(p) # {}
    /\ reports[p] # None => Openings(p) # {}

FilesInv == \A p \in Paths : PathInv(p)

LEMMA FilesNext ==
    ASSUME Base, CommandsKept, Change, FilesInv
    PROVE  FilesInv'
<1> SUFFICES ASSUME NEW p \in Paths PROVE PathInv(p)'
  BY DEF FilesInv
<1>0. PathInv(p)
  BY DEF FilesInv
<1>1. ASSUME NEW s \in Sessions, Receives(s, p)'
      PROVE  /\ FileOf(p, sessions'[s].current.live)
             /\ \E c \in Openings(p)' : commands'[c].session = s
  <2>1. Exists(s)' /\ sessions'[s].current # None /\ sessions'[s].current.path = p
    BY <1>1 DEF Receives
  <2>2. CASE KeepsFile(s)
    <3>1. Receives(s, p) /\ sessions'[s].current.live = sessions[s].current.live
      BY <2>1, <2>2 DEF Receives, KeepsFile
    <3>2. FileOf(p, sessions[s].current.live) /\ \E c \in Openings(p) : commands[c].session = s
      BY <1>0, <3>1 DEF PathInv
    <3> QED
      BY <3>1, <3>2, OpeningsGrow
  <2>3. CASE \E c \in Commands : \E q : OpensFile(s, c, q)
    BY <2>1, <2>3 DEF OpensFile
  <2> QED
    BY <2>1, <2>2, <2>3, WhereFilesComeFrom
<1>2. ASSUME NEW s \in Sessions, NEW x \in Streams, StreamsTo(s, x, p)'
      PROVE  FileOf(p, x) /\ \E c \in Openings(p)' : commands'[c].session = s
  <2>1. Exists(s)' /\ sessions'[s].live[x] # None /\ sessions'[s].live[x].path = p
    BY <1>2 DEF StreamsTo
  <2>2. CASE StreamsTo(s, x, p)
    <3>1. FileOf(p, x) /\ \E c \in Openings(p) : commands[c].session = s
      BY <1>0, <2>2 DEF PathInv
    <3> QED
      BY <3>1, OpeningsGrow
  <2>3. CASE StartsStream(s, x)
    BY <2>1, <2>3, StartsOpening
  <2> QED
    BY <2>1, <2>2, <2>3, WhereStreamsComeFrom DEF KeepsStream, CountsFrame, StreamsTo
<1>3. ASSUME NEW h \in Handlers, handlers'[h].path = p PROVE Openings(p)' # {}
  <2>1. CASE handlers[h].path = p
    BY <1>0, <2>1, OpeningsGrow DEF PathInv
  <2>2. CASE handlers[h].path # p
    <3>1. Records(h)
      BY <1>3, <2>2, WherePathsComeFrom
    <3>2. PICK s : s = handlers[h].session
      OBVIOUS
    <3>3. s \in Sessions /\ Exists(s) /\ sessions[s].current # None /\ sessions[s].current.path = p
      BY <1>3, <3>1, <3>2, NoneIsNothingElse DEF Records, HandlerGoes
    <3>4. Openings(p) # {}
      BY <1>0, <3>3 DEF PathInv, Receives
    <3> QED
      BY <3>4, OpeningsGrow
  <2> QED
    BY <2>1, <2>2
<1>4. ASSUME reports'[p] # None PROVE Openings(p)' # {}
  <2>1. CASE reports'[p] = reports[p]
    BY <1>0, <1>4, <2>1, OpeningsGrow DEF PathInv
  <2>2. CASE reports'[p] # reports[p]
    <3>1. ASSUME NEW s \in Sessions, Finalizes(s), sessions[s].current.path = p
          PROVE  Openings(p) # {}
      <4>1. Receives(s, p)
        BY <3>1, NoneIsNothingElse DEF Finalizes, Receives
      <4> QED
        BY <1>0, <4>1 DEF PathInv
    <3>2. ASSUME NEW s \in Sessions, NEW x \in Streams, StopsStream(s, x, p)
          PROVE  Openings(p) # {}
      <4>1. StreamsTo(s, x, p)
        BY <3>2, NoneIsNothingElse DEF StopsStream, StreamsTo
      <4> QED
        BY <1>0, <4>1 DEF PathInv
    <3> QED
      BY <2>2, <3>1, <3>2, WhereReportsComeFrom, OpeningsGrow
  <2> QED
    BY <2>1, <2>2
<1> QED
  BY <1>1, <1>2, <1>3, <1>4 DEF PathInv

\* The path of a live stream was given to it by one command.
LEMMA OneOpening ==
    ASSUME Base, NEW p \in Paths, p.session = None, NEW c \in Openings(p), NEW d \in Openings(p)
    PROVE  c = d
<1> SUFFICES ASSUME NEW b \in Openings(p) PROVE p.at = b
  OBVIOUS
<1>1. b \in Commands /\ CommandOK(b)
  BY DEF Openings, Base
<1>2. commands[b].kind # "request"
  BY <1>1, ConstantsOK DEF Openings, CommandOK, FilePath
<1> QED
  BY <1>2 DEF Openings, LivePath

\* Nobody receives, streams to, recorded for or reported a path that was not opened.
LEMMA NothingAtFreshPath ==
    ASSUME FilesInv, NEW p \in Paths, Openings(p) = {}
    PROVE  /\ RecordedFor(p) = {} /\ reports[p] = None
           /\ \A s \in Sessions : ~Receives(s, p)
           /\ \A s \in Sessions, x \in Streams : ~StreamsTo(s, x, p)
  BY DEF FilesInv, PathInv, RecordedFor

(***************************************************************************)
(* The count of a file, and that of a live stream.                          *)
(***************************************************************************)

LEMMA RecordedIsFinite ==
    ASSUME NEW p
    PROVE  IsFiniteSet(RecordedFor(p)) /\ Cardinality(RecordedFor(p)) \in Nat
<1>1. IsFiniteSet(Handlers)
  BY Bounds, FS_Interval DEF Handlers
<1>2. RecordedFor(p) \subseteq Handlers
  BY DEF RecordedFor
<1>3. IsFiniteSet(RecordedFor(p))
  BY <1>1, <1>2, FS_Subset
<1> QED
  BY <1>3, FS_CardinalityType

\* What a step does to the segments recorded for a path.
LEMMA RecordedStep ==
    ASSUME Base, Change, NEW p \in Paths
    PROVE  \/ RecordedFor(p)' = RecordedFor(p)
           \/ \E h \in Handlers :
                 /\ Records(h) /\ sessions[handlers[h].session].current.path = p
                 /\ Cardinality(RecordedFor(p)') = Cardinality(RecordedFor(p)) + 1
<1>1. CASE \A h \in Handlers : handlers'[h].path = p <=> handlers[h].path = p
  BY <1>1 DEF RecordedFor
<1>2. CASE \E h \in Handlers : ~(handlers'[h].path = p <=> handlers[h].path = p)
  <2>1. PICK h \in Handlers : ~(handlers'[h].path = p <=> handlers[h].path = p)
    BY <1>2
  <2>2. /\ Records(h) /\ handlers[h].path = None
        /\ \A g \in Handlers : g # h => handlers'[g].path = handlers[g].path
    BY <2>1, WherePathsComeFrom
  <2>3. handlers'[h].path = p /\ sessions[handlers[h].session].current.path = p
    BY <2>1, <2>2, NoneIsNoPath DEF Records, HandlerGoes
  <2>4. RecordedFor(p)' = RecordedFor(p) \cup {h} /\ h \notin RecordedFor(p)
    BY <2>2, <2>3, NoneIsNoPath DEF RecordedFor
  <2>5. Cardinality(RecordedFor(p)') = Cardinality(RecordedFor(p)) + 1
    BY <2>4, RecordedIsFinite, FS_AddElement
  <2> QED
    BY <2>2, <2>3, <2>5
<1> QED
  BY <1>1, <1>2

\* A segment is counted in the file it is recorded in.
LEMMA RecordCounts ==
    ASSUME NEW h \in Handlers, Records(h)
    PROVE  LET s == handlers[h].session
           IN  /\ s \in Sessions /\ Receives(s, sessions[s].current.path)
               /\ sessions[s].current.total \in Nat
               /\ sessions'[s] # None /\ sessions'[s].current # None
               /\ sessions'[s].current.path = sessions[s].current.path
               /\ sessions'[s].current.live = sessions[s].current.live
               /\ sessions'[s].current.total = sessions[s].current.total + 1
               /\ \A t \in Sessions : t # s => sessions'[t] = sessions[t]
<1>1. PICK s, current : s = handlers[h].session /\ current = sessions[s].current
  OBVIOUS
<1>2. PICK counted : counted = [current EXCEPT !.total = @ + 1]
  OBVIOUS
<1>3. /\ s \in Sessions /\ Exists(s) /\ current \in ReceivingFileInfo
      /\ SessionGoes(s, counted, CountFrame(sessions[s].live, current.live))
  BY <1>1, <1>2 DEF Records
<1>4. /\ counted \in ReceivingFileInfo /\ counted.path = current.path
      /\ counted.live = current.live
      /\ counted.total = current.total + 1 /\ current.total \in Nat
  BY <1>2, <1>3 DEF ReceivingFileInfo
<1>5. current # None /\ counted # None
  BY <1>3, <1>4, NoneIsNothingElse
<1>6. /\ sessions'[s].current = counted /\ sessions'[s] # None
      /\ \A t \in Sessions : t # s => sessions'[t] = sessions[t]
  BY <1>3 DEF SessionGoes
<1>7. PICK p : p = current.path
  OBVIOUS
<1>8. Receives(s, p)
  BY <1>1, <1>3, <1>5, <1>7 DEF Receives
<1> QED
  BY <1>1, <1>3, <1>4, <1>5, <1>6, <1>7, <1>8

LEMMA RecordedGrows ==
    ASSUME Base, Change, NEW p \in Paths
    PROVE  /\ Cardinality(RecordedFor(p)) \in Nat /\ Cardinality(RecordedFor(p)') \in Nat
           /\ Cardinality(RecordedFor(p)) <= Cardinality(RecordedFor(p)')
<1>1. Cardinality(RecordedFor(p)) \in Nat
  BY RecordedIsFinite
<1> QED
  BY <1>1, RecordedStep

\* The segment recorded in this step is recorded for p.
LEMMA RecordedHere ==
    ASSUME Base, Change, NEW h \in Handlers, Records(h), NEW p \in Paths,
           p = sessions[handlers[h].session].current.path
    PROVE  Cardinality(RecordedFor(p)') = Cardinality(RecordedFor(p)) + 1
<1>1. h \notin RecordedFor(p) /\ h \in RecordedFor(p)'
  BY NoneIsNoPath DEF Records, HandlerGoes, RecordedFor
<1> QED
  BY <1>1, RecordedStep

\* It is recorded for no other path.
LEMMA RecordedElsewhere ==
    ASSUME Base, Change, NEW p \in Paths,
           \A h \in Handlers : Records(h) => sessions[handlers[h].session].current.path # p
    PROVE  RecordedFor(p)' = RecordedFor(p)
  BY RecordedStep

(* The frames of a live stream. *)

\* A live stream whose path is that of the file its session receives has counted
\* what is recorded there; the path of another one is not used any more, or not yet.
StreamInv(s, x) ==
    Exists(s) /\ sessions[s].live[x] # None =>
        LET stream == sessions[s].live[x]
            recorded == RecordedFor(stream.path)
        IN  /\ recorded = {} \/ stream.frames = Cardinality(recorded)
            /\ sessions[s].current # None /\ sessions[s].current.live = x =>
                  IF sessions[s].current.path = stream.path
                    THEN stream.frames = Cardinality(recorded) ELSE recorded = {}
            /\ stream.frames <= Cardinality(FramesOf(s, x))

LiveInv == \A s \in Sessions, x \in Streams : StreamInv(s, x)

LEMMA FramesGrow ==
    ASSUME Base, Change, StreamsKept, NEW s \in Sessions, NEW x \in Streams
    PROVE  /\ IsFiniteSet(FramesOf(s, x)) /\ IsFiniteSet(FramesOf(s, x)')
           /\ FramesOf(s, x) \subseteq FramesOf(s, x)'
           /\ Cardinality(FramesOf(s, x)) \in Nat /\ Cardinality(FramesOf(s, x)') \in Nat
           /\ Cardinality(FramesOf(s, x)) <= Cardinality(FramesOf(s, x)')
<1>1. IsFiniteSet(Handlers) /\ FramesOf(s, x) \subseteq Handlers /\ FramesOf(s, x)' \subseteq Handlers
  BY Bounds, FS_Interval DEF Handlers, FramesOf
<1>2. IsFiniteSet(FramesOf(s, x)) /\ IsFiniteSet(FramesOf(s, x)')
  BY <1>1, FS_Subset
<1>3. ASSUME NEW h \in FramesOf(s, x) PROVE h \in FramesOf(s, x)'
  <2>1. h \in Handlers /\ handlers[h].session = s /\ handlers[h].path # None
    BY DEF FramesOf
  <2>2. handlers[h].at # "unborn"
    BY <2>1 DEF Base, StreamOK
  <2>3. handlers'[h].session = s
    BY <2>1, <2>2 DEF StreamsKept
  <2>4. handlers'[h].path = handlers[h].path
    BY <2>1, WherePathsComeFrom
  <2> QED
    BY <2>3, <2>4 DEF FramesOf
<1>4. FramesOf(s, x) \subseteq FramesOf(s, x)'
  BY <1>3
<1>5. Cardinality(FramesOf(s, x)) <= Cardinality(FramesOf(s, x)')
  BY <1>2, <1>4, FS_Subset
<1> QED
  BY <1>2, <1>4, <1>5, FS_CardinalityType

\* A live stream that is kept as it is.
LEMMA StreamKept ==
    ASSUME Base, CommandsKept, StreamsKept, Change, FilesInv, NEW s \in Sessions, NEW x \in Streams,
           StreamInv(s, x), KeepsStream(s, x), Exists(s)'
    PROVE  StreamInv(s, x)'
<1>1. PICK p : p = sessions[s].live[x].path
  OBVIOUS
<1>2. /\ p \in Paths /\ sessions[s].live[x].frames \in Nat /\ StreamsTo(s, x, p)
      /\ sessions'[s].live[x] = sessions[s].live[x]
  BY <1>1, LiveTypes DEF KeepsStream, StreamsTo
<1>3. FileOf(p, x) /\ \E c \in Openings(p) : commands[c].session = s
  BY <1>2 DEF FilesInv, PathInv
<1>4. p.session = None /\ p.name = x /\ x # None
  BY <1>3, ConstantsOK DEF FileOf
<1>5. RecordedFor(p)' = RecordedFor(p)
  <2> SUFFICES ASSUME NEW h \in Handlers, Records(h), sessions[handlers[h].session].current.path = p
               PROVE  FALSE
    BY <1>2, RecordedElsewhere
  <2>1. PICK t : t = handlers[h].session
    OBVIOUS
  <2>2. t \in Sessions /\ Receives(t, p)
    BY <2>1, RecordCounts
  <2>3. FileOf(p, sessions[t].current.live) /\ \E c \in Openings(p) : commands[c].session = t
    BY <1>2, <2>2 DEF FilesInv, PathInv
  <2>4. t = s
    BY <1>2, <1>3, <1>4, <2>3, OneOpening
  <2>5. sessions[s].current.live = x
    BY <1>4, <2>3, <2>4 DEF FileOf
  <2> QED
    BY <2>1, <2>4, <2>5 DEF KeepsStream
<1>6. Cardinality(RecordedFor(p)') = Cardinality(RecordedFor(p))
  BY <1>5
<1>7. ASSUME sessions'[s].current # None, sessions'[s].current.live = x
      PROVE  /\ sessions[s].current # None /\ sessions[s].current.live = x
             /\ sessions'[s].current.path = sessions[s].current.path
  <2>1. ASSUME NEW c \in Commands, NEW q, OpensFile(s, c, q) PROVE FALSE
    BY <1>7, <2>1 DEF OpensFile, KeepsStream
  <2>2. KeepsFile(s)
    BY <1>7, <2>1, WhereFilesComeFrom
  <2> QED
    BY <1>7, <2>2 DEF KeepsFile
<1>8. sessions[s].live[x].frames <= Cardinality(FramesOf(s, x)')
  <2>1. sessions[s].live[x].frames <= Cardinality(FramesOf(s, x))
    BY <1>2 DEF StreamInv, StreamsTo
  <2> QED
    BY <1>2, <2>1, FramesGrow
<1>9. /\ RecordedFor(p) = {} \/ sessions[s].live[x].frames = Cardinality(RecordedFor(p))
      /\ sessions[s].current # None /\ sessions[s].current.live = x =>
            IF sessions[s].current.path = p
              THEN sessions[s].live[x].frames = Cardinality(RecordedFor(p)) ELSE RecordedFor(p) = {}
  BY <1>1, <1>2 DEF StreamInv, StreamsTo
<1> QED
  BY <1>1, <1>2, <1>5, <1>6, <1>7, <1>8, <1>9 DEF StreamInv

\* A live stream that counts a frame of the file that its session receives.
LEMMA StreamCounts ==
    ASSUME Base, StreamsKept, Change, FilesInv, NEW s \in Sessions, NEW x \in Streams,
           StreamInv(s, x), CountsFrame(s, x)
    PROVE  StreamInv(s, x)'
<1>1. PICK h \in Handlers : /\ Records(h) /\ handlers[h].session = s
                            /\ sessions[s].current.live = x
  BY DEF CountsFrame
<1>2. PICK p, q : p = sessions[s].live[x].path /\ q = sessions[s].current.path
  OBVIOUS
<1>3. /\ p \in Paths /\ sessions[s].live[x].frames \in Nat /\ Exists(s) /\ sessions[s].live[x] # None
      /\ sessions'[s].live[x].path = p
      /\ sessions'[s].live[x].frames = sessions[s].live[x].frames + 1
  BY <1>2, LiveTypes DEF CountsFrame
<1>4. /\ Receives(s, q) /\ sessions[s].current # None /\ q \in Paths
      /\ sessions'[s].current.path = q /\ sessions'[s].current # None
  BY <1>1, <1>2, RecordCounts, NoneIsNothingElse DEF Records, ReceivingFileInfo
<1>5. /\ IF q = p THEN sessions[s].live[x].frames = Cardinality(RecordedFor(p)) ELSE RecordedFor(p) = {}
      /\ sessions[s].live[x].frames <= Cardinality(FramesOf(s, x))
  BY <1>1, <1>2, <1>3, <1>4 DEF StreamInv
<1>6. IF q = p THEN sessions'[s].live[x].frames = Cardinality(RecordedFor(p)') ELSE RecordedFor(p)' = {}
  <2>1. CASE q = p
    <3>1. Cardinality(RecordedFor(p)') = Cardinality(RecordedFor(p)) + 1
      BY <1>1, <1>2, <1>3, <2>1, RecordedHere
    <3> QED
      BY <1>3, <1>5, <2>1, <3>1
  <2>2. CASE q # p
    <3>1. \A g \in Handlers : Records(g) => g = h
      BY <1>1, RecordsOne
    <3>2. RecordedFor(p)' = RecordedFor(p)
      BY <1>1, <1>2, <1>3, <2>2, <3>1, RecordedElsewhere
    <3> QED
      BY <1>5, <2>2, <3>2
  <2> QED
    BY <2>1, <2>2
<1>7. sessions'[s].live[x].frames <= Cardinality(FramesOf(s, x)')
  <2>1. FileOf(q, x) /\ x # None
    BY <1>1, <1>4, ConstantsOK DEF FilesInv, PathInv
  <2>2. handlers[h].path = None /\ handlers[h].at # "unborn" /\ handlers'[h].path = q
    BY <1>1, <1>2 DEF Records, HandlerGoes
  <2>3. h \notin FramesOf(s, x) /\ h \in FramesOf(s, x)'
    BY <1>1, <1>4, <2>1, <2>2, NoneIsNoPath DEF FramesOf, FileOf, StreamsKept
  <2>4. PICK F, G : F = FramesOf(s, x) /\ G = FramesOf(s, x)'
    OBVIOUS
  <2>5. /\ IsFiniteSet(F) /\ IsFiniteSet(G) /\ F \cup {h} \subseteq G /\ h \notin F
        /\ Cardinality(F) \in Nat /\ Cardinality(G) \in Nat
    BY <2>3, <2>4, FramesGrow
  <2>6. Cardinality(F \cup {h}) = Cardinality(F) + 1
    BY <2>5, FS_AddElement
  <2>7. Cardinality(F \cup {h}) <= Cardinality(G)
    BY <2>5, FS_Subset
  <2> QED
    BY <1>3, <1>5, <2>4, <2>5, <2>6, <2>7
<1> QED
  BY <1>3, <1>4, <1>6, <1>7 DEF StreamInv

\* A live stream that is started, with a path that nobody had.
LEMMA StreamStarts ==
    ASSUME Base, StreamsKept, Change, FilesInv, NEW s \in Sessions, NEW x \in Streams,
           StartsStream(s, x)
    PROVE  StreamInv(s, x)'
<1>1. PICK c \in Commands : c = issued + 1
  BY DEF StartsStream
<1>2. PICK p \in Paths : p = LivePath(x, c)
  BY PathsOK
<1>3. /\ commands[c].kind = "none" /\ handlers' = handlers
      /\ sessions'[s].live[x].path = p /\ sessions'[s].live[x].frames = 0
  BY <1>1, <1>2 DEF StartsStream, Starts, Issues
<1>4. p.session = None /\ p.at = c
  BY <1>2 DEF LivePath
<1>5. Openings(p) = {}
  <2> SUFFICES ASSUME NEW d \in Openings(p) PROVE FALSE
    OBVIOUS
  <2>1. d \in Commands /\ CommandOK(d)
    BY DEF Openings, Base
  <2>2. commands[d].kind # "request"
    BY <1>4, <2>1, ConstantsOK DEF Openings, CommandOK, FilePath
  <2> QED
    BY <1>3, <1>4, <2>2 DEF Openings, LivePath
<1>6. RecordedFor(p)' = {}
  <2>1. RecordedFor(p) = {}
    BY <1>5, NothingAtFreshPath
  <2> QED
    BY <1>3, <2>1 DEF RecordedFor
<1>7. 0 <= Cardinality(FramesOf(s, x)')
  BY FramesGrow
<1> QED
  BY <1>3, <1>6, <1>7, FS_EmptySet DEF StreamInv

LEMMA LiveNext ==
    ASSUME Base, CommandsKept, StreamsKept, Change, FilesInv, LiveInv
    PROVE  LiveInv'
<1> SUFFICES ASSUME NEW s \in Sessions, NEW x \in Streams, Exists(s)', sessions'[s].live[x] # None
             PROVE  StreamInv(s, x)'
  BY DEF LiveInv, StreamInv, Exists
<1>1. StreamInv(s, x)
  BY DEF LiveInv
<1> QED
  BY <1>1, WhereStreamsComeFrom, StreamKept, StreamCounts, StreamStarts

(* The reports. *)

\* The file of a report names one that was never written: that of a live stream
\* that was started again.
Unwritten(p) == p.session = None /\ RecordedFor(p) = {} /\ StartedAgain(p)

LEMMA StartedAgainStays ==
    ASSUME CommandsKept, NEW p, StartedAgain(p)
    PROVE  StartedAgain(p)'
  BY DEF StartedAgain, CommandsKept

\* A stream that counted frames, none of them for its own path, counted them for
\* the path of another start.
LEMMA CountedElsewhere ==
    ASSUME Base, FilesInv, LiveInv, NEW p \in Paths, NEW s \in Sessions, NEW x \in Streams,
           StreamsTo(s, x, p), RecordedFor(p) = {}
    PROVE  sessions[s].live[x].frames = 0 \/ StartedAgain(p)
<1>1. FileOf(p, x) /\ x # None
  BY ConstantsOK DEF FilesInv, PathInv
<1>2. p.session = None /\ p.name = x
  BY <1>1 DEF FileOf
<1>3. /\ sessions[s].live[x].frames \in Nat
      /\ sessions[s].live[x].frames <= Cardinality(FramesOf(s, x))
  <2>1. sessions[s].live[x] \in LiveStreamInfo
    BY SessionOK DEF StreamsTo, Base, ServerSession
  <2>2. StreamInv(s, x)
    BY DEF LiveInv
  <2> QED
    BY <2>1, <2>2 DEF StreamInv, StreamsTo, LiveStreamInfo
<1>4. CASE FramesOf(s, x) = {}
  BY <1>3, <1>4, FS_EmptySet
<1>5. ASSUME NEW h \in FramesOf(s, x) PROVE StartedAgain(p)
  <2>1. PICK q : q = handlers[h].path
    OBVIOUS
  <2>2. h \in Handlers /\ q # None /\ q.name = x /\ q \in Paths
    BY <2>1 DEF FramesOf, Base, Types, Handler
  <2>3. q.session = None /\ q # p
    BY <2>1, <2>2, ConstantsOK DEF Paths, RecordedFor
  <2>4. PICK c \in Openings(q) : TRUE
    BY <2>1, <2>2 DEF FilesInv, PathInv
  <2>5. c \in Commands /\ CommandOK(c)
    BY <2>4 DEF Openings, Base
  <2>6. commands[c].kind # "request"
    BY <2>3, <2>4, <2>5, ConstantsOK DEF Openings, CommandOK, FilePath
  <2>7. commands[c].kind = "startLive" /\ q = LivePath(commands[c].name, c)
    BY <2>4, <2>6 DEF Openings
  <2>8. commands[c].name = x /\ q.at = c
    BY <2>2, <2>7 DEF LivePath
  <2>9. c # p.at
    BY <1>2, <2>2, <2>3, <2>8 DEF Paths
  <2> QED
    BY <1>2, <2>5, <2>7, <2>8, <2>9 DEF StartedAgain
<1> QED
  BY <1>4, <1>5

PathReport(p) ==
    /\ \A s \in Sessions : Receives(s, p) => sessions[s].current.total <= Cardinality(RecordedFor(p))
    /\ reports[p] # None => Unwritten(p) \/ reports[p] <= Cardinality(RecordedFor(p))
    /\ \A c \in Commands : Openings(p) = {c} =>
        /\ \A s \in Sessions : Receives(s, p) =>
              sessions[s].current.total = Cardinality(RecordedFor(p)) /\ reports[p] = None
        /\ reports[p] # None => Unwritten(p) \/ reports[p] = Cardinality(RecordedFor(p))

ReportsInv == \A p \in Paths : PathReport(p)

LEMMA FileTypes ==
    ASSUME Base, NEW s \in Sessions, NEW p, Receives(s, p)
    PROVE  sessions[s].current.total \in Nat
  BY SessionOK DEF Base, Receives, ReceivingFileInfo

\* A live stream is stopped: its report says what is recorded for its path.
LEMMA StopReports ==
    ASSUME Base, CommandsKept, Change, FilesInv, LiveInv, NEW p \in Paths,
           NEW s \in Sessions, NEW x \in Streams, StopsStream(s, x, p)
    PROVE  /\ RecordedFor(p)' = RecordedFor(p) /\ p.session = None
           /\ (RecordedFor(p) = {} /\ StartedAgain(p)) \/ reports'[p] = Cardinality(RecordedFor(p))
           /\ \A t \in Sessions : ~Receives(t, p)'
<1>1. Exists(s) /\ sessions[s].live[x] # None /\ StreamsTo(s, x, p)
  BY NoneIsNothingElse DEF StopsStream, StreamsTo
<1>2. FileOf(p, x) /\ \E c \in Openings(p) : commands[c].session = s
  BY <1>1 DEF FilesInv, PathInv
<1>3. p.session = None /\ p.name = x /\ x # None
  BY <1>2, ConstantsOK DEF FileOf
<1>4. RecordedFor(p)' = RecordedFor(p)
  BY DEF StopsStream, Stops, Issues, RecordedFor
<1>5. (RecordedFor(p) = {} /\ StartedAgain(p)) \/ reports'[p] = Cardinality(RecordedFor(p))
  <2>1. StreamInv(s, x)
    BY DEF LiveInv
  <2>2. reports'[p] = sessions[s].live[x].frames
    BY DEF StopsStream
  <2>3. CASE RecordedFor(p) = {}
    BY <1>1, <2>2, <2>3, CountedElsewhere, FS_EmptySet
  <2>4. CASE RecordedFor(p) # {}
    BY <1>1, <2>1, <2>2, <2>4 DEF StreamInv, StreamsTo
  <2> QED
    BY <2>3, <2>4
<1>6. ASSUME NEW t \in Sessions, Receives(t, p)' PROVE FALSE
  <2>1. Exists(t)' /\ sessions'[t].current # None /\ sessions'[t].current.path = p
    BY <1>6 DEF Receives
  <2>2. ASSUME NEW c \in Commands, NEW q, OpensFile(t, c, q) PROVE FALSE
    <3>1. q = p /\ reports' = reports /\ c \in Openings(p)' /\ c \notin Openings(p)
      BY <2>1, <2>2 DEF OpensFile
    <3>2. /\ commands[c].kind # "startLive" => commands'[c].kind # "startLive"
          /\ commands'[c].kind = "request" /\ commands'[c].at = "done" =>
                commands[c].kind = "request" /\ commands[c].at = "done"
      BY DEF StopsStream, Stops, Issues, RequestsKept
    <3>3. commands[c].kind # "none"
      BY <3>1, <3>2 DEF Openings
    <3> QED
      BY <3>1, <3>2, <3>3 DEF Openings, CommandsKept
  <2>3. KeepsFile(t)
    BY <2>1, <2>2, WhereFilesComeFrom
  <2>4. Receives(t, p) /\ sessions'[t].current.live = sessions[t].current.live
    BY <2>1, <2>3 DEF KeepsFile, Receives
  <2>5. FileOf(p, sessions[t].current.live) /\ \E c \in Openings(p) : commands[c].session = t
    BY <2>4 DEF FilesInv, PathInv
  <2>6. t = s /\ sessions[t].current.live = x
    BY <1>2, <1>3, <2>5, OneOpening DEF FileOf
  <2> QED
    BY <2>1, <2>4, <2>6 DEF StopsStream
<1> QED
  BY <1>3, <1>4, <1>5, <1>6

\* What a step may do to a report.
LEMMA ReportStep ==
    ASSUME Base, CommandsKept, Change, FilesInv, LiveInv, ReportsInv, NEW p \in Paths,
           reports'[p] # reports[p]
    PROVE  /\ RecordedFor(p)' = RecordedFor(p)
           /\ Unwritten(p)' \/ reports'[p] <= Cardinality(RecordedFor(p)')
           /\ \A c \in Commands : Openings(p) = {c} =>
                 /\ \A s \in Sessions : ~Receives(s, p)'
                 /\ Unwritten(p)' \/ reports'[p] = Cardinality(RecordedFor(p)')
<1>0. PathReport(p) /\ Cardinality(RecordedFor(p)) \in Nat
  BY RecordedIsFinite DEF ReportsInv
<1>1. ASSUME NEW s \in Sessions, Finalizes(s), sessions[s].current.path = p,
             reports'[p] = sessions[s].current.total
      PROVE  /\ RecordedFor(p)' = RecordedFor(p)
             /\ reports'[p] <= Cardinality(RecordedFor(p)')
             /\ \A c \in Commands : Openings(p) = {c} =>
                   /\ \A t \in Sessions : ~Receives(t, p)'
                   /\ reports'[p] = Cardinality(RecordedFor(p)')
  <2>1. Receives(s, p)
    BY <1>1, NoneIsNothingElse DEF Finalizes, Receives
  <2>2. RecordedFor(p)' = RecordedFor(p)
    BY <1>1 DEF Finalizes, Issues, RecordedFor
  <2>3. sessions[s].current.total <= Cardinality(RecordedFor(p))
    BY <1>0, <2>1 DEF PathReport
  <2>4. ASSUME NEW c \in Commands, Openings(p) = {c}
        PROVE  /\ \A t \in Sessions : ~Receives(t, p)'
               /\ reports'[p] = Cardinality(RecordedFor(p))
    <3>1. sessions[s].current.total = Cardinality(RecordedFor(p))
      BY <1>0, <2>1, <2>4 DEF PathReport
    <3>2. ASSUME NEW t \in Sessions, Receives(t, p)' PROVE FALSE
      <4>1. t # s /\ sessions'[t] = sessions[t]
        BY <1>1, <3>2 DEF Finalizes, SessionGoes, Receives
      <4>2. Receives(t, p)
        BY <3>2, <4>1 DEF Receives, Exists
      <4>3. commands[c].session = s /\ commands[c].session = t
        BY <2>1, <2>4, <4>2 DEF FilesInv, PathInv
      <4> QED
        BY <4>1, <4>3
    <3> QED
      BY <1>1, <3>1, <3>2
  <2> QED
    BY <1>1, <2>2, <2>3, <2>4
<1>2. ASSUME NEW s \in Sessions, NEW x \in Streams, StopsStream(s, x, p)
      PROVE  /\ RecordedFor(p)' = RecordedFor(p)
             /\ Unwritten(p)' \/ reports'[p] = Cardinality(RecordedFor(p)')
             /\ \A t \in Sessions : ~Receives(t, p)'
  <2>1. /\ RecordedFor(p)' = RecordedFor(p) /\ p.session = None
        /\ (RecordedFor(p) = {} /\ StartedAgain(p)) \/ reports'[p] = Cardinality(RecordedFor(p))
        /\ \A t \in Sessions : ~Receives(t, p)'
    BY <1>2, StopReports
  <2> QED
    BY <2>1, StartedAgainStays DEF Unwritten
<1>3. CASE \E s \in Sessions : /\ Finalizes(s) /\ sessions[s].current.path = p
                               /\ reports'[p] = sessions[s].current.total
  BY <1>1, <1>3
<1>4. CASE \E s \in Sessions, x \in Streams : StopsStream(s, x, p)
  BY <1>0, <1>2, <1>4
<1> QED
  BY <1>3, <1>4, WhereReportsComeFrom

\* Nothing more is recorded for a path that was given once and has its report.
LEMMA ReportedIsFinal ==
    ASSUME Base, Change, FilesInv, ReportsInv, NEW p \in Paths, NEW c \in Commands,
           Openings(p) = {c}, reports[p] # None
    PROVE  RecordedFor(p)' = RecordedFor(p)
<1> SUFFICES ASSUME NEW h \in Handlers, Records(h), sessions[handlers[h].session].current.path = p
             PROVE  FALSE
  BY RecordedElsewhere
<1>1. PICK s \in Sessions : Receives(s, p)
  BY RecordCounts
<1> QED
  BY <1>1 DEF ReportsInv, PathReport

LEMMA ReportsNext ==
    ASSUME Base, CommandsKept, Change, FilesInv, LiveInv, ReportsInv
    PROVE  ReportsInv'
<1> SUFFICES ASSUME NEW p \in Paths PROVE PathReport(p)'
  BY DEF ReportsInv
<1>0. /\ PathReport(p) /\ Cardinality(RecordedFor(p)) \in Nat
      /\ Cardinality(RecordedFor(p)') \in Nat
      /\ Cardinality(RecordedFor(p)) <= Cardinality(RecordedFor(p)')
  BY RecordedGrows DEF ReportsInv
<1>1. ASSUME NEW s \in Sessions, Receives(s, p)'
      PROVE  \/ /\ Receives(s, p) /\ sessions[s].current.total \in Nat
                /\ \/ /\ sessions'[s].current.total = sessions[s].current.total
                      /\ ~\E h \in Handlers : Records(h) /\ handlers[h].session = s
                   \/ /\ sessions'[s].current.total = sessions[s].current.total + 1
                      /\ Cardinality(RecordedFor(p)') = Cardinality(RecordedFor(p)) + 1
             \/ /\ sessions'[s].current.total = 0
                /\ \E c \in Openings(p)' : c \notin Openings(p)
                /\ PathsKept /\ reports' = reports
  <2>1. Exists(s)' /\ sessions'[s].current # None /\ sessions'[s].current.path = p
    BY <1>1 DEF Receives
  <2>2. CASE KeepsFile(s)
    <3>1. Receives(s, p) /\ sessions[s].current.path = p
      BY <2>1, <2>2 DEF KeepsFile, Receives
    <3>2. sessions[s].current.total \in Nat
      BY <3>1, FileTypes
    <3>3. ASSUME NEW h \in Handlers, Records(h), handlers[h].session = s
          PROVE  /\ sessions'[s].current.total = sessions[s].current.total + 1
                 /\ Cardinality(RecordedFor(p)') = Cardinality(RecordedFor(p)) + 1
      BY <3>1, <3>3, RecordCounts, RecordedHere
    <3>4. CASE ~\E h \in Handlers : Records(h) /\ handlers[h].session = s
      BY <2>2, <3>1, <3>2, <3>4 DEF KeepsFile
    <3> QED
      BY <3>1, <3>2, <3>3, <3>4
  <2>3. CASE \E c \in Commands : \E q : OpensFile(s, c, q)
    BY <2>1, <2>3 DEF OpensFile
  <2> QED
    BY <2>1, <2>2, <2>3, WhereFilesComeFrom
<1>2. ASSUME NEW s \in Sessions, Receives(s, p)'
      PROVE  sessions'[s].current.total <= Cardinality(RecordedFor(p)')
  <2>1. Receives(s, p) => sessions[s].current.total <= Cardinality(RecordedFor(p))
    BY <1>0 DEF PathReport
  <2> QED
    BY <1>0, <1>1, <1>2, <2>1
<1>3. ASSUME reports'[p] # None
      PROVE  Unwritten(p)' \/ reports'[p] <= Cardinality(RecordedFor(p)')
  <2>1. CASE reports'[p] # reports[p]
    BY <2>1, ReportStep
  <2>2. CASE reports'[p] = reports[p] /\ Unwritten(p)
    <3>1. PICK c \in Commands : c \in Openings(p)
      BY <1>3, <2>2 DEF FilesInv, PathInv, Openings
    <3>2. Openings(p) = {c}
      BY <2>2, <3>1, OneOpening DEF Unwritten
    <3> QED
      BY <1>3, <2>2, <3>2, ReportedIsFinal, StartedAgainStays DEF Unwritten
  <2>3. CASE reports'[p] = reports[p] /\ ~Unwritten(p)
    <3>1. reports[p] \in Nat /\ reports[p] <= Cardinality(RecordedFor(p))
      BY <1>0, <1>3, <2>3 DEF PathReport, Base, Types
    <3> QED
      BY <1>0, <2>3, <3>1
  <2> QED
    BY <2>1, <2>2, <2>3
<1>4. ASSUME NEW c \in Commands, Openings(p)' = {c}
      PROVE  /\ \A s \in Sessions : Receives(s, p)' =>
                   /\ sessions'[s].current.total = Cardinality(RecordedFor(p)')
                   /\ reports'[p] = None
             /\ reports'[p] # None => Unwritten(p)' \/ reports'[p] = Cardinality(RecordedFor(p)')
  <2>1. Openings(p) = {} \/ Openings(p) = {c}
    BY <1>4, OpeningsGrow
  <2>2. CASE Openings(p) = {}
    <3>1. /\ RecordedFor(p) = {} /\ reports[p] = None
          /\ \A s \in Sessions : ~Receives(s, p)
          /\ \A s \in Sessions, x \in Streams : ~StreamsTo(s, x, p)
      BY <2>2, NothingAtFreshPath
    <3>2. RecordedFor(p)' = {}
      <4>1. ASSUME NEW h \in Handlers, Records(h), sessions[handlers[h].session].current.path = p
            PROVE  FALSE
        BY <3>1, <4>1, RecordCounts
      <4> QED
        BY <3>1, <4>1, RecordedElsewhere
    <3>3. reports'[p] = None
      <4>1. ASSUME NEW s \in Sessions, Finalizes(s), sessions[s].current.path = p PROVE FALSE
        BY <3>1, <4>1, NoneIsNothingElse DEF Finalizes, Receives
      <4>2. ASSUME NEW s \in Sessions, NEW x \in Streams, StopsStream(s, x, p) PROVE FALSE
        BY <3>1, <4>2, NoneIsNothingElse DEF StopsStream, StreamsTo
      <4> QED
        BY <3>1, <4>1, <4>2, WhereReportsComeFrom
    <3>4. \A s \in Sessions : Receives(s, p)' => sessions'[s].current.total = 0
      BY <1>1, <3>1
    <3> QED
      BY <3>2, <3>3, <3>4, FS_EmptySet
  <2>3. CASE Openings(p) = {c}
    <3>1. ASSUME NEW s \in Sessions, Receives(s, p)'
          PROVE  /\ Receives(s, p) /\ reports[p] = None
                 /\ sessions'[s].current.total = Cardinality(RecordedFor(p)')
      <4>1. ~\E d \in Openings(p)' : d \notin Openings(p)
        BY <1>4, <2>3
      <4>2. Receives(s, p)
        BY <1>1, <3>1, <4>1
      <4>3. sessions[s].current.total = Cardinality(RecordedFor(p)) /\ reports[p] = None
        BY <1>0, <2>3, <4>2 DEF PathReport
      <4>4. CASE ~\E h \in Handlers : Records(h) /\ handlers[h].session = s
        <5>1. ASSUME NEW h \in Handlers, Records(h), sessions[handlers[h].session].current.path = p
              PROVE  FALSE
          <6>1. PICK t \in Sessions : t = handlers[h].session /\ Receives(t, p)
            BY <5>1, RecordCounts
          <6>2. commands[c].session = s /\ commands[c].session = t
            BY <2>3, <4>2, <6>1 DEF FilesInv, PathInv
          <6> QED
            BY <4>4, <5>1, <6>1, <6>2
        <5>2. RecordedFor(p)' = RecordedFor(p)
          BY <5>1, RecordedElsewhere
        <5>3. sessions'[s].current.total = sessions[s].current.total
          BY <1>1, <3>1, <4>1, <4>4, <5>2, <1>0
        <5> QED
          BY <4>2, <4>3, <5>2, <5>3
      <4>5. CASE \E h \in Handlers : Records(h) /\ handlers[h].session = s
        BY <1>1, <3>1, <4>1, <4>2, <4>3, <4>5
      <4> QED
        BY <4>4, <4>5
    <3>2. CASE reports'[p] # reports[p]
      BY <2>3, <3>2, ReportStep
    <3>3. CASE reports'[p] = reports[p] /\ reports[p] = None
      BY <3>1, <3>3
    <3>4. CASE reports'[p] = reports[p] /\ reports[p] # None
      <4>1. RecordedFor(p)' = RecordedFor(p)
        BY <2>3, <3>4, ReportedIsFinal
      <4>2. Unwritten(p) \/ reports[p] = Cardinality(RecordedFor(p))
        BY <1>0, <2>3, <3>4 DEF PathReport
      <4>3. \A s \in Sessions : ~Receives(s, p)'
        BY <3>1, <3>4
      <4> QED
        BY <3>4, <4>1, <4>2, <4>3, StartedAgainStays DEF Unwritten
    <3> QED
      BY <3>2, <3>3, <3>4
  <2> QED
    BY <2>1, <2>2, <2>3
<1> QED
  BY <1>2, <1>3, <1>4 DEF PathReport

(***************************************************************************)
(* The answers to requests.                                                *)
(***************************************************************************)

\* A request that was acknowledged: its session receives a file that no
\* StopLive ends, unless it was finalized since; what it receives was opened by
\* that request or by a later command.
AnsweredInv ==
    \A c \in Commands : commands[c].kind = "request" /\ commands[c].at = "done" =>
        LET s == commands[c].session
        IN  /\ \/ ~Exists(s)
               \/ sessions[s].current # None /\ sessions[s].current.live = None
               \/ \E d \in Commands : d > c /\ commands[d].kind = "finalize" /\ commands[d].session = s
            /\ \A p \in Paths : Receives(s, p) =>
                  \E d \in Openings(p) : d >= c /\ commands[d].session = s

\* The file of a session as it is after a step, when a request was answered before.
LEMMA FileStays ==
    ASSUME Base, Change, NEW s \in Sessions, Exists(s)', connections[s] # "none",
           Exists(s) => sessions[s].current # None /\ sessions[s].current.live = None
    PROVE  \/ sessions'[s].current # None /\ sessions'[s].current.live = None
           \/ Finalizes(s)
<1>1. CASE Still
  BY <1>1 DEF Still, SessionsStay
<1>2. ASSUME NEW h \in Handlers, Records(h)
      PROVE  sessions'[s].current # None /\ sessions'[s].current.live = None
  <2>1. PICK t : t = handlers[h].session
    OBVIOUS
  <2>2. CASE s = t
    BY <1>2, <2>1, <2>2, RecordCounts DEF Receives
  <2>3. CASE s # t
    BY <1>2, <2>1, <2>3, RecordCounts DEF Exists
  <2> QED
    BY <2>2, <2>3
<1>3. ASSUME NEW t \in Sessions, NEW x \in Streams, Starts(t, x) \/ Stops(t, x)
      PROVE  sessions'[s].current # None /\ sessions'[s].current.live = None
  <2>1. x # None
    BY ConstantsOK
  <2> QED
    BY <1>3, <2>1 DEF Starts, Stops, SessionGoes, Exists
<1>4. ASSUME NEW t \in Sessions, Finalizes(t), t # s
      PROVE  sessions'[s].current # None /\ sessions'[s].current.live = None
  BY <1>4 DEF Finalizes, SessionGoes, Exists
<1>5. ASSUME NEW c \in Commands, Opens(c)
      PROVE  sessions'[s].current # None /\ sessions'[s].current.live = None
  <2>1. PICK t, f : t = commands[c].session /\ f = commands[c].name
    OBVIOUS
  <2>2. FilePath(t, f) \in Paths
    BY <1>5, <2>1, PathsOK DEF Opens
  <2>3. NewFile(FilePath(t, f), None) # None /\ NewFile(FilePath(t, f), None).live = None
    BY <2>2, NewFileOK
  <2>4. CASE s = t
    BY <1>5, <2>1, <2>3, <2>4 DEF Opens, SessionGoes
  <2>5. CASE s # t
    BY <1>5, <2>1, <2>5 DEF Opens, SessionGoes, Exists
  <2> QED
    BY <2>4, <2>5
<1> QED
  BY <1>1, <1>2, <1>3, <1>4, <1>5 DEF Change

\* A request is acknowledged only by the step that opens its file.
LEMMA WhereAnswersComeFrom ==
    ASSUME Base, Change, NEW c \in Commands, commands'[c].kind = "request", commands'[c].at = "done"
    PROVE  \/ commands[c].kind = "request" /\ commands[c].at = "done"
           \/ Opens(c)
<1>1. CASE \E s \in Sessions, x \in Streams : Starts(s, x) \/ Stops(s, x)
  BY <1>1 DEF Starts, Stops, Issues, RequestsKept
<1>2. CASE \E s \in Sessions : Finalizes(s)
  BY <1>2 DEF Finalizes, Issues, RequestsKept
<1>3. CASE \E h \in Handlers : Records(h)
  BY <1>3 DEF Records
<1>4. ASSUME NEW d \in Commands, Opens(d), d # c
      PROVE commands[c].kind = "request" /\ commands[c].at = "done"
  BY <1>4 DEF Opens, CommandGoes
<1> QED
  BY <1>1, <1>2, <1>3, <1>4 DEF Change, Still, RequestsKept

\* A file that is opened is opened by the last command.
LEMMA OpenedByTheLast ==
    ASSUME Base, Change, CommandsKept, NEW c \in Commands, NEW d \in Commands, NEW p,
           commands[c].kind # "none", d \notin Openings(p), d \in Openings(p)'
    PROVE  d >= c
<1>1. commands'[d].kind \in {"request", "startLive"}
  BY DEF Openings
<1>2. CASE commands[d].kind = "none"
  <2>1. d > issued /\ ~(c > issued)
    BY <1>2 DEF Base, CommandOK, NoCommand, Types, Commands
  <2> QED
    BY <2>1 DEF Base, Types, Commands
<1>3. CASE commands[d].kind # "none"
  <2>1. /\ commands'[d].kind = commands[d].kind /\ commands'[d].session = commands[d].session
        /\ commands'[d].name = commands[d].name
    BY <1>3 DEF CommandsKept
  <2>2. commands'[d].kind = "request" /\ commands'[d].at = "done" /\ commands[d].at # "done"
    BY <2>1 DEF Openings
  <2>3. commands[d].at = "finish"
    BY <2>2, WhereAnswersComeFrom DEF Opens
  <2>4. d = issued /\ ~(c > issued)
    BY <2>3 DEF Base, CommandOK, NoCommand, InProgress
  <2> QED
    BY <2>4 DEF Base, Types, Commands
<1> QED
  BY <1>2, <1>3

LEMMA AnsweredNext ==
    ASSUME Base, Base', CommandsKept, Change, AnsweredInv
    PROVE  AnsweredInv'
<1> SUFFICES ASSUME NEW c \in Commands, commands'[c].kind = "request", commands'[c].at = "done",
                    NEW s, s = commands'[c].session
             PROVE  /\ \/ ~Exists(s)'
                       \/ sessions'[s].current # None /\ sessions'[s].current.live = None
                       \/ \E d \in Commands : /\ d > c /\ commands'[d].kind = "finalize"
                                              /\ commands'[d].session = s
                    /\ \A p \in Paths : Receives(s, p)' =>
                          \E d \in Openings(p)' : d >= c /\ commands'[d].session = s
  BY DEF AnsweredInv, Exists, Receives
<1>1. CASE commands[c].kind = "request" /\ commands[c].at = "done"
  <2>1. s = commands[c].session /\ s \in Sessions /\ connections[s] # "none"
    BY <1>1 DEF CommandsKept, Base, CommandOK
  <2>2. /\ \/ ~Exists(s)
           \/ sessions[s].current # None /\ sessions[s].current.live = None
           \/ \E d \in Commands : d > c /\ commands[d].kind = "finalize" /\ commands[d].session = s
        /\ \A p \in Paths : Receives(s, p) =>
              \E d \in Openings(p) : d >= c /\ commands[d].session = s
    BY <1>1, <2>1 DEF AnsweredInv
  <2>3. \/ ~Exists(s)'
        \/ sessions'[s].current # None /\ sessions'[s].current.live = None
        \/ \E d \in Commands : d > c /\ commands'[d].kind = "finalize" /\ commands'[d].session = s
    <3>1. CASE \E d \in Commands : d > c /\ commands[d].kind = "finalize" /\ commands[d].session = s
      BY <3>1 DEF CommandsKept
    <3>2. CASE Finalizes(s)
      <4>1. PICK d \in Commands : d = issued + 1
        BY <3>2 DEF Finalizes, Issues
      <4>2. commands'[d].kind = "finalize" /\ commands'[d].session = s /\ (c # d => c < d)
        BY <1>1, <3>2, <4>1 DEF Finalizes, Issues
      <4>3. c # d /\ c \in Nat /\ d \in Nat
        BY <1>1, <3>2, <4>1 DEF Finalizes, Issues, Commands
      <4> QED
        BY <4>2, <4>3
    <3>3. CASE Exists(s) => sessions[s].current # None /\ sessions[s].current.live = None
      BY <2>1, <3>2, <3>3, FileStays
    <3> QED
      BY <2>2, <3>1, <3>3
  <2>4. ASSUME NEW p \in Paths, Receives(s, p)'
        PROVE  \E d \in Openings(p)' : d >= c /\ commands'[d].session = s
    <3>1. Exists(s)' /\ sessions'[s].current # None /\ sessions'[s].current.path = p
      BY <2>4 DEF Receives
    <3>2. CASE KeepsFile(s)
      <4>1. Receives(s, p)
        BY <3>1, <3>2 DEF KeepsFile, Receives
      <4> QED
        BY <2>2, <4>1, OpeningsGrow
    <3>3. ASSUME NEW d \in Commands, NEW q, OpensFile(s, d, q)
          PROVE  d \in Openings(p)' /\ d >= c /\ commands'[d].session = s
      BY <1>1, <3>1, <3>3, OpenedByTheLast DEF OpensFile
    <3> QED
      BY <2>1, <3>1, <3>2, <3>3, WhereFilesComeFrom
  <2> QED
    BY <2>3, <2>4
<1>2. CASE ~(commands[c].kind = "request" /\ commands[c].at = "done")
  <2>1. Opens(c) /\ s = commands[c].session
    BY <1>2, WhereAnswersComeFrom DEF Opens, CommandGoes
  <2>2. PICK f : f = commands[c].name
    OBVIOUS
  <2>3. /\ s \in Sessions /\ FilePath(s, f) \in Paths
        /\ sessions'[s].current = NewFile(FilePath(s, f), None)
    BY <2>1, <2>2, PathsOK DEF Opens, SessionGoes
  <2>4. sessions'[s].current # None /\ sessions'[s].current.live = None
    BY <2>3, NewFileOK
  <2>5. OpensFile(s, c, FilePath(s, f))
    BY <2>1, <2>2, RequestOpensFile
  <2>6. ASSUME NEW p \in Paths, Receives(s, p)' PROVE c \in Openings(p)' /\ commands'[c].session = s
    BY <2>5, <2>6 DEF OpensFile, Receives
  <2>7. c >= c
    BY DEF Commands
  <2> QED
    BY <2>4, <2>6, <2>7
<1> QED
  BY <1>1, <1>2

LEMMA AnswersKeptNext ==
    ASSUME Base, Base', CommandsKept, ConnectionsAge, StreamsKept, Change, AnsweredInv, AnswersAreKept
    PROVE  AnswersAreKept'
<1> SUFFICES ASSUME NEW h \in Handlers, NEW c, c = handlers'[h].upload,
                    handlers'[h].at = "dropped", commands'[c].kind = "request"
             PROVE  \/ connections'[handlers'[h].session] # "open"
                    \/ \E d \in Commands : /\ d > c /\ commands'[d].kind = "finalize"
                                           /\ commands'[d].session = handlers'[h].session
  BY DEF AnswersAreKept
<1>1. PICK s : s = handlers[h].session
  OBVIOUS
<1>2. /\ handlers[h].at # "unborn" /\ handlers'[h].session = s /\ c = handlers[h].upload
      /\ c # 0 /\ StreamOK(h)
  BY <1>1 DEF StreamsKept, Base, StreamOK
<1>3. c \in Commands /\ commands[c].kind = "request" /\ commands[c].session = s
  <2>1. c \in Commands
    BY <1>2, Bounds DEF Base, Types, Handler, Commands
  <2>2. commands[c].kind # "none" /\ commands[c].session = s
    BY <1>1, <1>2 DEF StreamOK
  <2> QED
    BY <2>1, <2>2 DEF CommandsKept
<1>4. s \in Sessions /\ connections[s] # "none"
  BY <1>1, <1>2 DEF StreamOK
<1>5. \/ connections[s] # "open"
      \/ \E d \in Commands : d > c /\ commands[d].kind = "finalize" /\ commands[d].session = s
  <2>1. CASE handlers[h].at = "dropped"
    BY <1>1, <1>2, <1>3, <2>1 DEF AnswersAreKept
  <2>2. CASE handlers[h].at # "dropped"
    <3>1. LockFree /\ (~Exists(s) \/ sessions[s].current = None)
      <4>1. ~NothingDropped
        BY <2>2 DEF NothingDropped
      <4>2. ASSUME DropsNothingReceived PROVE LockFree /\ (~Exists(s) \/ sessions[s].current = None)
        BY <1>1, <2>2, <4>2 DEF DropsNothingReceived
      <4>3. ASSUME NEW t \in Sessions, NEW x \in Streams, Starts(t, x) \/ Stops(t, x) PROVE FALSE
        BY <4>1, <4>3 DEF Starts, Stops, Issues, NothingDropped
      <4>4. ASSUME NEW t \in Sessions, Finalizes(t) PROVE FALSE
        BY <4>1, <4>4 DEF Finalizes, Issues, NothingDropped
      <4>5. ASSUME NEW d \in Commands, Opens(d) PROVE FALSE
        BY <4>1, <4>5 DEF Opens, NothingDropped
      <4>6. ASSUME NEW g \in Handlers, Records(g) PROVE FALSE
        BY <4>1, <4>6 DEF Records, HandlerGoes, NothingDropped
      <4> QED
        BY <4>2, <4>3, <4>4, <4>5, <4>6 DEF Change, Still
    <3>2. commands[c].at \in {"done", "failed"}
      BY <1>2, <1>3, <3>1 DEF StreamOK, LockFree
    <3>3. CASE commands[c].at = "failed"
      BY <1>3, <3>3 DEF Base, CommandOK
    <3>4. CASE commands[c].at = "done"
      BY <1>3, <1>4, <3>1, <3>4 DEF AnsweredInv, Base, ConnectionOK
    <3> QED
      BY <3>2, <3>3, <3>4
  <2> QED
    BY <2>1, <2>2
<1>6. connections'[s] = "open" => connections[s] = "open"
  BY <1>4 DEF ConnectionsAge
<1> QED
  BY <1>2, <1>5, <1>6 DEF CommandsKept

LEMMA AnswersForwardNext ==
    ASSUME Base, Base', CommandsKept, StreamsKept, Change, AnsweredInv, AnswersGoForward
    PROVE  AnswersGoForward'
<1> SUFFICES ASSUME NEW p \in Paths, NEW h \in Handlers, handlers'[h].path = p,
                    NEW c, c = handlers'[h].upload,
                    commands'[c].kind = "request", commands'[c].at # "failed"
             PROVE  \E d \in Openings(p)' : d >= c /\ commands'[d].session = commands'[c].session
  BY DEF AnswersGoForward, RecordedFor
<1>1. PICK s : s = handlers'[h].session
  OBVIOUS
<1>2. handlers[h].at # "unborn"
  <2>1. CASE handlers[h].path = p
    BY <2>1, NoneIsNoPath DEF Base, StreamOK
  <2>2. CASE handlers[h].path # p
    BY <2>2, WherePathsComeFrom DEF Records
  <2> QED
    BY <2>1, <2>2
<1>3. /\ handlers[h].session = s /\ handlers[h].upload = c /\ c # 0
      /\ StreamOK(h) /\ StreamOK(h)'
  BY <1>1, <1>2, NoneIsNoPath DEF StreamsKept, Base, StreamOK
<1>4. c \in Commands /\ commands[c].kind # "none" /\ commands[c].session = s
  BY <1>3, Bounds DEF StreamOK, Base, Types, Handler, Commands
<1>5. commands[c].kind = "request" /\ commands[c].at # "failed" /\ commands'[c].session = s
  BY <1>4 DEF CommandsKept
<1>6. \E d \in Openings(p) : d >= c /\ commands[d].session = s
  <2>1. CASE handlers[h].path = p
    BY <1>3, <1>4, <1>5, <2>1 DEF AnswersGoForward, RecordedFor
  <2>2. CASE handlers[h].path # p
    <3>1. Records(h)
      BY <2>2, WherePathsComeFrom
    <3>2. Receives(s, p) /\ LockFree
      BY <1>3, <3>1, RecordCounts DEF Records, HandlerGoes
    <3>3. commands[c].at = "done"
      BY <1>3, <1>4, <1>5, <3>2 DEF StreamOK, LockFree
    <3> QED
      BY <1>4, <1>5, <3>2, <3>3 DEF AnsweredInv
  <2> QED
    BY <2>1, <2>2
<1> QED
  BY <1>5, <1>6, OpeningsGrow

(***************************************************************************)
(* The live stream of the file that a session receives.                    *)
(***************************************************************************)

OfStream(s, x) == Exists(s) /\ sessions[s].current # None /\ sessions[s].current.live = x

StopFailed(s, x) ==
    \E c \in Commands : /\ commands[c].kind = "stopLive" /\ commands[c].at = "failed"
                        /\ commands[c].session = s /\ commands[c].name = x

\* A step after which a session receives the file of a live stream that is not active.
StoppedGoes(s, x) ==
    \/ OfStream(s, x) /\ sessions[s].live[x] = None
    \/ StopFailed(s, x)'

LEMMA StoppedApart ==
    ASSUME NEW s \in Sessions, NEW x \in Streams, sessions'[s] = sessions[s], OfStream(s, x)',
           sessions'[s].live[x] = None
    PROVE  StoppedGoes(s, x)
  BY DEF StoppedGoes, OfStream, Exists

LEMMA StoppedStep ==
    ASSUME Base, Change, NEW s \in Sessions, NEW x \in Streams, OfStream(s, x)',
           sessions'[s].live[x] = None
    PROVE  StoppedGoes(s, x)
<1>0. Exists(s)' /\ sessions'[s].current # None /\ sessions'[s].current.live = x /\ x # None
  BY ConstantsOK DEF OfStream
<1>1. CASE Still
  BY <1>0, <1>1 DEF Still, SessionsStay, StoppedGoes, OfStream
<1>2. ASSUME NEW h \in Handlers, Records(h) PROVE StoppedGoes(s, x)
  <2>1. PICK t, current : t = handlers[h].session /\ current = sessions[t].current
    OBVIOUS
  <2>2. CASE s # t
    BY <1>2, <2>1, <2>2, RecordCounts, StoppedApart
  <2>3. CASE s = t
    <3>1. OfStream(s, x)
      BY <1>0, <1>2, <2>1, <2>3, RecordCounts DEF Receives, OfStream
    <3>2. /\ sessions'[s].live = CountFrame(sessions[s].live, x)
          /\ sessions[s].live \in [Streams -> LiveStreamInfo \cup {None}]
      BY <1>2, <2>1, <2>3, <3>1, LiveTypes DEF Records, SessionGoes, OfStream
    <3>3. CASE sessions[s].live[x] = None
      BY <3>1, <3>3 DEF StoppedGoes
    <3>4. CASE sessions[s].live[x] # None
      <4>1. PICK n : n = [sessions[s].live[x] EXCEPT !.frames = sessions[s].live[x].frames + 1]
        OBVIOUS
      <4>2. n \in LiveStreamInfo
        BY <3>2, <3>4, <4>1 DEF LiveStreamInfo
      <4>3. sessions'[s].live = [sessions[s].live EXCEPT ![x] = n]
        BY <1>0, <3>2, <3>4, <4>1 DEF CountFrame
      <4> QED
        BY <3>2, <4>2, <4>3, NoneIsNothingElse
    <3> QED
      BY <3>3, <3>4
  <2> QED
    BY <2>2, <2>3
<1>3. ASSUME NEW t \in Sessions, NEW y \in Streams, Starts(t, y) PROVE StoppedGoes(s, x)
  <2>1. CASE s # t
    BY <1>3, <2>1, StoppedApart DEF Starts, SessionGoes
  <2>2. CASE s = t
    <3>1. /\ sessions[s].live \in [Streams -> LiveStreamInfo \cup {None}] /\ Exists(s)
          /\ NewStream(LivePath(y, issued + 1)) # None
      BY <1>3, <2>2, LiveTypes, PathsOK, NewStreamOK DEF Starts, Issues
    <3>2. sessions'[s].live = [sessions[s].live EXCEPT ![y] = NewStream(LivePath(y, issued + 1))]
      BY <1>3, <2>2 DEF Starts, SessionGoes
    <3>3. x # y /\ sessions[s].live[x] = None
      BY <3>1, <3>2
    <3>4. sessions[s].current # None
      <4>1. NewFile(LivePath(y, issued + 1), y).live = y
        BY DEF NewFile
      <4> QED
        BY <1>0, <1>3, <2>2, <3>3, <4>1 DEF Starts, SessionGoes
    <3>5. sessions'[s].current = sessions[s].current
      BY <1>3, <2>2, <3>4 DEF Starts, SessionGoes
    <3> QED
      BY <1>0, <3>1, <3>3, <3>4, <3>5 DEF OfStream, StoppedGoes
  <2> QED
    BY <2>1, <2>2
<1>4. ASSUME NEW t \in Sessions, NEW y \in Streams, Stops(t, y) PROVE StoppedGoes(s, x)
  <2>1. CASE sessions'[s] = sessions[s]
    BY <2>1, StoppedApart
  <2>2. CASE sessions'[s] # sessions[s]
    <3>1. s = t /\ Exists(s)
      BY <1>4, <2>2 DEF Stops, SessionGoes
    <3>2. sessions[s].live \in [Streams -> LiveStreamInfo \cup {None}]
      BY <3>1, LiveTypes
    <3>3. sessions'[s].live = [sessions[s].live EXCEPT ![y] = None]
      BY <1>4, <2>2, <3>1 DEF Stops, SessionGoes
    <3>4. sessions'[s].current = sessions[s].current
      BY <1>0, <1>4, <2>2, <3>1 DEF Stops, SessionGoes
    <3>5. OfStream(s, x)
      BY <1>0, <3>1, <3>4 DEF OfStream
    <3>6. CASE x # y
      BY <3>2, <3>3, <3>5, <3>6 DEF StoppedGoes
    <3>7. CASE x = y
      <4>1. Issues("stopLive", s, x, "failed")
        BY <1>0, <1>4, <2>2, <3>1, <3>5, <3>7 DEF Stops, SessionGoes, OfStream
      <4>2. StopFailed(s, x)'
        BY <4>1 DEF Issues, StopFailed
      <4> QED
        BY <4>2 DEF StoppedGoes
    <3> QED
      BY <3>6, <3>7
  <2> QED
    BY <2>1, <2>2
<1>5. ASSUME NEW t \in Sessions, Finalizes(t) PROVE StoppedGoes(s, x)
  BY <1>0, <1>5, StoppedApart DEF Finalizes, SessionGoes
<1>6. ASSUME NEW c \in Commands, Opens(c) PROVE StoppedGoes(s, x)
  <2>1. CASE s # commands[c].session
    BY <1>6, <2>1, StoppedApart DEF Opens, SessionGoes
  <2>2. CASE s = commands[c].session
    <3>1. NewFile(FilePath(s, commands[c].name), None).live = None
      BY DEF NewFile
    <3>2. sessions'[s].current.live = None
      BY <1>6, <2>2, <3>1 DEF Opens, SessionGoes
    <3> QED
      BY <1>0, <3>2
  <2> QED
    BY <2>1, <2>2
<1> QED
  BY <1>1, <1>2, <1>3, <1>4, <1>5, <1>6 DEF Change

LEMMA StoppedLiveNext ==
    ASSUME Base, CommandsKept, Change, StoppedLiveEnds
    PROVE  StoppedLiveEnds'
<1> SUFFICES ASSUME NEW s \in Sessions, NEW x \in Streams, OfStream(s, x)', sessions'[s].live[x] = None
             PROVE  StopFailed(s, x)'
  BY DEF StoppedLiveEnds, OfStream, StopFailed, Exists
<1>1. CASE OfStream(s, x) /\ sessions[s].live[x] = None
  <2>1. StopFailed(s, x)
    BY <1>1 DEF StoppedLiveEnds, OfStream, StopFailed
  <2> QED
    BY <2>1 DEF StopFailed, CommandsKept
<1> QED
  BY <1>1, StoppedStep DEF StoppedGoes

(***************************************************************************)
(* The theorems.                                                           *)
(***************************************************************************)

LEMMA BaseAlways == Spec => []Base
  BY BaseInit, NextKeeps, PTL DEF Spec, Keeps

\* Every variable keeps to what its Rust type holds, and no count goes below zero.
THEOREM TypeCorrect == Spec => []TypeOK
<1>1. Base /\ DiskInv => TypeOK
  BY DEF Base, Types, DiskInv, DiskOf, TypeOK
<1>2. Spec => []DiskInv
  BY DiskInit, DiskNext, PTL DEF Spec
<1> QED
  BY <1>1, <1>2, BaseAlways, PTL

ReportBase == Base /\ FilesInv /\ LiveInv /\ ReportsInv

\* Nothing was opened, recorded, reported or received yet.
LEMMA ReportBaseInit == Init => ReportBase
<1> SUFFICES ASSUME Init PROVE ReportBase
  OBVIOUS
<1>1. \A s \in Sessions : ~Exists(s)
  BY DEF Init, Exists
<1>2. \A p \in Paths, h \in Handlers : handlers[h].path # p
  BY NoneIsNoPath DEF Init, Unborn
<1>3. \A p \in Paths : reports[p] = None
  BY DEF Init
<1>4. \A p \in Paths : PathInv(p)
  BY <1>1, <1>2, <1>3 DEF PathInv, Receives, StreamsTo
<1>5. \A p \in Paths : PathReport(p)
  BY <1>1, <1>3 DEF PathReport, Receives
<1>6. \A s \in Sessions, x \in Streams : StreamInv(s, x)
  BY <1>1 DEF StreamInv
<1> QED
  BY <1>4, <1>5, <1>6, BaseInit DEF ReportBase, FilesInv, LiveInv, ReportsInv

LEMMA ReportBaseNext == ASSUME ReportBase, [Next]_vars PROVE ReportBase'
  BY NextKeeps, FilesNext, LiveNext, ReportsNext DEF ReportBase, Keeps

\* No report, of a file or of a live stream, claims more than was recorded for its path, and
\* that of a path given once counts all that ever will be, whatever is still to be written or
\* arrives late; only the report of a live stream that was started again names a file where
\* nothing is recorded.
THEOREM ReportsFinal == Spec => []ReportsAreFinal
<1>1. ASSUME ReportBase PROVE ReportsAreFinal
  <2> SUFFICES ASSUME NEW p \in Paths, reports[p] # None
               PROVE  \/ p.session = None /\ RecordedFor(p) = {} /\ StartedAgain(p)
                      \/ /\ reports[p] <= Cardinality(RecordedFor(p))
                         /\ Cardinality(Openings(p)) = 1 => reports[p] = Cardinality(RecordedFor(p))
    BY DEF ReportsAreFinal
  <2>1. PathReport(p)
    BY <1>1 DEF ReportBase, ReportsInv
  <2>2. ASSUME Cardinality(Openings(p)) = 1
        PROVE  Unwritten(p) \/ reports[p] = Cardinality(RecordedFor(p))
    <3>1. IsFiniteSet(Openings(p))
      <4>1. IsFiniteSet(Commands) /\ Openings(p) \subseteq Commands
        BY Bounds, FS_Interval DEF Commands, Openings
      <4> QED
        BY <4>1, FS_Subset
    <3>2. PICK c : Openings(p) = {c}
      BY <2>2, <3>1, FS_Singleton
    <3>3. c \in Commands
      BY <3>2 DEF Openings
    <3> QED
      BY <2>1, <3>2, <3>3 DEF PathReport
  <2> QED
    BY <2>1, <2>2 DEF PathReport, Unwritten
<1> QED
  BY <1>1, ReportBaseInit, ReportBaseNext, PTL DEF Spec

\* The frames counted for an active live stream are segments recorded in files of that stream;
\* once any is recorded in its own file, they are exactly those.
THEOREM LiveFrames == Spec => []LiveFramesAreRecorded
<1>1. ASSUME ReportBase PROVE LiveFramesAreRecorded
  BY <1>1 DEF ReportBase, LiveInv, StreamInv, LiveFramesAreRecorded
<1> QED
  BY <1>1, ReportBaseInit, ReportBaseNext, PTL DEF Spec

AnswerBase == Base /\ AnsweredInv /\ AnswersAreKept /\ AnswersGoForward

LEMMA AnswerBaseInit == Init => AnswerBase
<1> SUFFICES ASSUME Init PROVE AnswerBase
  OBVIOUS
<1>1. \A c \in Commands : commands[c].kind = "none"
  BY DEF Init, NoCommand
<1>2. \A h \in Handlers : handlers[h].at = "unborn" /\ handlers[h].path = None
  BY DEF Init, Unborn
<1>3. AnswersAreKept
  BY <1>2 DEF AnswersAreKept
<1>4. AnswersGoForward
  BY <1>2, NoneIsNoPath DEF AnswersGoForward, RecordedFor
<1> QED
  BY <1>1, <1>3, <1>4, BaseInit DEF AnswerBase, AnsweredInv

LEMMA AnswerBaseNext == ASSUME AnswerBase, [Next]_vars PROVE AnswerBase'
  BY NextKeeps, AnsweredNext, AnswersKeptNext, AnswersForwardNext DEF AnswerBase, Keeps

\* No segment that answers a request is dropped while its connection is open, unless the
\* operator finalized the session after the request.
THEOREM AnswersKept == Spec => []AnswersAreKept
  BY AnswerBaseInit, AnswerBaseNext, PTL DEF Spec, AnswerBase

\* No segment that answers a request is recorded in a file opened before the request.
THEOREM AnswersForward == Spec => []AnswersGoForward
  BY AnswerBaseInit, AnswerBaseNext, PTL DEF Spec, AnswerBase

LiveBase == Base /\ StoppedLiveEnds

LEMMA LiveBaseInit == Init => LiveBase
  BY BaseInit DEF Init, LiveBase, StoppedLiveEnds, Exists

LEMMA LiveBaseNext == ASSUME LiveBase, [Next]_vars PROVE LiveBase'
  BY NextKeeps, StoppedLiveNext DEF LiveBase, Keeps

\* A session that still receives the file of a stopped live stream had a StopLive whose report
\* could not be written.
THEOREM StoppedLive == Spec => []StoppedLiveEnds
  BY LiveBaseInit, LiveBaseNext, PTL DEF Spec, LiveBase
=============================================================================

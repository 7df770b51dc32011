--------------------------- MODULE UploaderProofs ---------------------------
(***************************************************************************)
(* Theorems about the uploader, for every set of sessions and files, every *)
(* choice of messages and every bound.                                     *)
(***************************************************************************)
EXTENDS Uploader, WellFoundedInduction, TLAPS

(***************************************************************************)
(* Keyframe search.                                                        *)
(***************************************************************************)

\* A set of naturals that is not empty has a least element.
LEMMA LeastExists ==
    ASSUME NEW S, S \subseteq Nat, S # {}
    PROVE  \E m \in S : \A n \in S : m <= n
<1>1. PICK m \in S : \A n \in S : ~ (<<n, m>> \in OpToRel(<, Nat))
  BY NatLessThanWellFounded, WFMin, Zenon
<1>2. \A n \in S : ~ (n < m)
  BY <1>1 DEF OpToRel
<1> QED
  BY <1>2

\* One that is bounded has a greatest element.
LEMMA GreatestExists ==
    ASSUME NEW S, S \subseteq Nat, S # {}, NEW b \in Nat, \A n \in S : n <= b
    PROVE  \E m \in S : \A n \in S : n <= m
<1> DEFINE T == {b - n : n \in S}
<1>1. T \subseteq Nat
  OBVIOUS
<1>2. T # {}
  OBVIOUS
<1>3. PICK d \in T : \A e \in T : d <= e
  <2> HIDE DEF T
  <2> QED BY <1>1, <1>2, LeastExists
<1>4. PICK m \in S : d = b - m
  OBVIOUS
<1>5. ASSUME NEW n \in S PROVE n <= m
  <2>1. b - m <= b - n
    BY <1>3, <1>4
  <2> QED
    BY <2>1
<1> QED
  BY <1>5

\* seek_to_keyframe, when it accepts a position, goes to a keyframe of the
\* index: the last one at or before the position, or the first of all.
LEMMA KeyframeFound ==
    ASSUME NEW f \in Files, NEW p \in Int, ~SeekRefused(f, p)
    PROVE  /\ KeyframeAt(f, p) \in Keyframes[f]
           /\ KeyframeAt(f, p) <= p \/ (\A k \in Keyframes[f] : KeyframeAt(f, p) <= k)
           /\ \A k \in Keyframes[f] : k <= p => k <= KeyframeAt(f, p)
<1> DEFINE K == Keyframes[f]
           before == {k \in K : k <= p}
<1>1. /\ K \subseteq Nat /\ K # {} /\ Chunks[f] \in Nat /\ \A k \in K : k <= Chunks[f]
      /\ p >= 0 /\ p <= Chunks[f]
  BY ConstantsOK DEF SeekRefused
<1>2. First(f) \in K /\ \A k \in K : First(f) <= k
  <2>1. \E k \in K : \A j \in K : k <= j
    BY <1>1, LeastExists
  <2> QED
    BY <2>1 DEF First
<1>3. Last(f) \in K /\ \A k \in K : k <= Last(f)
  <2>1. \E k \in K : \A j \in K : j <= k
    BY <1>1, GreatestExists
  <2> QED
    BY <2>1 DEF Last
<1>4. CASE p <= 0 \/ (p < Chunks[f] /\ before = {})
  <2>1. KeyframeAt(f, p) = First(f)
    BY <1>4 DEF KeyframeAt
  <2>2. \A k \in K : k <= p => k <= First(f)
    BY <1>1, <1>2, <1>4
  <2> QED
    BY <2>1, <2>2, <1>2
<1>5. CASE p > 0 /\ p >= Chunks[f]
  <2>1. KeyframeAt(f, p) = Last(f)
    BY <1>1, <1>5 DEF KeyframeAt
  <2> QED
    BY <2>1, <1>1, <1>3, <1>5
<1>6. CASE p > 0 /\ p < Chunks[f] /\ before # {}
  <2>1. before \subseteq Nat /\ (\A n \in before : n <= p) /\ p \in Nat
    BY <1>1
  <2>2. \E k \in before : \A j \in before : j <= k
    <3> HIDE DEF before
    <3> QED BY <2>1, <1>6, GreatestExists
  <2>3. KeyframeAt(f, p) = CHOOSE k \in before : \A j \in before : j <= k
    BY <1>1, <1>6 DEF KeyframeAt
  <2>4. KeyframeAt(f, p) \in before /\ \A j \in before : j <= KeyframeAt(f, p)
    BY <2>2, <2>3
  <2> QED
    BY <2>4
<1> QED
  BY <1>1, <1>4, <1>5, <1>6

\* Seeking to where a seek went goes there again.  A Seek command hands the
\* position it reached to the task it spawns, which seeks to it once more:
\* both arrive at the same keyframe.
THEOREM SeekIsStable ==
    ASSUME NEW f \in Files, NEW p \in Int, ~SeekRefused(f, p)
    PROVE  /\ ~SeekRefused(f, KeyframeAt(f, p))
           /\ KeyframeAt(f, KeyframeAt(f, p)) = KeyframeAt(f, p)
<1> DEFINE k == KeyframeAt(f, p)
<1>1. k \in Keyframes[f] /\ Keyframes[f] \subseteq Nat /\ k <= Chunks[f] /\ Chunks[f] \in Nat
  BY KeyframeFound, ConstantsOK
<1>2. k \in Int /\ ~SeekRefused(f, k)
  BY <1>1 DEF SeekRefused
<1> HIDE DEF k
<1>3. /\ KeyframeAt(f, k) \in Keyframes[f]
      /\ KeyframeAt(f, k) <= k \/ (\A j \in Keyframes[f] : KeyframeAt(f, k) <= j)
      /\ \A j \in Keyframes[f] : j <= k => j <= KeyframeAt(f, k)
  BY <1>2, KeyframeFound
<1>4. KeyframeAt(f, k) = k
  BY <1>1, <1>3
<1> QED
  BY <1>2, <1>4 DEF k

(***************************************************************************)
(* Types.  TypeOK is not inductive: a step reads the session and the file  *)
(* of a task, which only a task that was spawned has, the position of one  *)
(* that seeks, and the session that the processor holds.                   *)
(***************************************************************************)

\* What is true of a task by itself, at each of its steps.
TaskInv(r) ==
    /\ r \in UploadTask
    /\ r.at # "unborn" => r.session \in Sessions /\ r.file \in Files
    /\ r.at \in {"seek", "seekStore"} => r.seek # None
    /\ r.at = "seekStore" => r.indexed /\ ~SeekRefused(r.file, r.seek)
    /\ r.at \in {"rate", "offset", "begin"} => r.seek = None \/ r.seek >= 0
    /\ r.at \in {"unborn", "start", "open", "store", "seek", "seekStore", "rate", "offset", "begin"}
          => r.sent = 0 /\ r.total = 0
    /\ r.sent <= r.total
    /\ r.at = "send" => r.sent < r.total

TypeInv ==
    /\ TypeOK
    /\ \A t \in TaskIds : TaskInv(tasks[t])
    /\ \A t \in TaskIds : t > spawned => tasks[t] = Unborn
    /\ processor.at # "idle" => processor.session \in Sessions /\ Exists(processor.session)

LEMMA UnbornOK == TaskInv(Unborn)
  BY ConstantsOK DEF TaskInv, Unborn, UploadTask, TaskSteps

LEMMA TypeInit == Init => TypeInv
  BY UnbornOK, ConstantsOK DEF Init, TypeInv, TypeOK, TaskInv, Idle, Processor, TaskIds

LEMMA GenericSkipBounded ==
    ASSUME TypeInv, NEW t \in TaskIds, tasks[t].at = "begin"
    PROVE  Remaining(t) \in Nat /\ GenericSkip(t) \in 0 .. Remaining(t)
<1>1. Remaining(t) \in Nat
  BY ConstantsOK DEF TypeInv, TypeOK, TaskInv, UploadTask, Remaining
<1>2. \A p, q \in Nat : p * q \in Nat
  OBVIOUS
<1> QED
  BY <1>1, <1>2, ConstantsOK DEF TypeInv, TypeOK, TaskInv, UploadTask, GenericSkip

\* A step of task t changes the record of t alone, and keeps TaskInv of it.
LEMMA TaskStepTask ==
    ASSUME TypeInv, NEW t \in TaskIds, TaskStep(t)
    PROVE  /\ tasks' = [tasks EXCEPT ![t] = tasks'[t]]
           /\ TaskInv(tasks'[t])
           /\ tasks[t].at # "unborn"
           /\ tasks'[t].at # "unborn"
           /\ tasks'[t].session = tasks[t].session
<1> DEFINE r == tasks[t]
<1> USE ConstantsOK DEF UploadTask, TaskSteps, TaskInv
<1>0. r \in UploadTask /\ TaskInv(r) /\ tasks \in [TaskIds -> UploadTask] /\ Chunks \in [Files -> Nat]
  BY DEF TypeInv, TypeOK
<1>1. CASE Start(t)
  BY <1>0, <1>1 DEF Start, GoTo
<1>2. CASE Open(t)
  BY <1>0, <1>2 DEF Open, GoTo
<1>3. CASE StoreIndex(t)
  BY <1>0, <1>3 DEF StoreIndex, GoTo
<1>4. CASE Seek(t)
  <2> DEFINE index == IF r.indexed THEN r.file ELSE None
  <2>1. CASE SeekRefused(index, r.seek)
    <3>1. r.at = "seek" /\ tasks' = [tasks EXCEPT ![t].at = "failed"]
      BY <1>4, <2>1 DEF Seek, GoTo
    <3> QED
      BY <1>0, <3>1
  <2>2. CASE ~SeekRefused(index, r.seek) /\ index = None
    <3>1. r.seek \in Int /\ r.seek >= 0
      BY <1>0, <1>4, <2>2 DEF Seek, SeekRefused
    <3>2. r.at = "seek" /\ tasks' = [tasks EXCEPT ![t].at = "rate"]
      BY <1>4, <2>2 DEF Seek, GoTo
    <3> QED
      BY <1>0, <3>1, <3>2
  <2>3. CASE ~SeekRefused(index, r.seek) /\ index # None
    <3>1. r.indexed /\ index = r.file
      BY <1>0, <2>3
    <3>2. tasks' = [tasks EXCEPT ![t].at = "seekStore"]
      BY <1>4, <2>3 DEF Seek, GoTo
    <3>3. r.at = "seek"
      BY <1>4 DEF Seek
    <3> QED
      BY <1>0, <2>3, <3>1, <3>2, <3>3
  <2> QED
    BY <2>1, <2>2, <2>3
<1>5. CASE SeekStore(t)
  <2>1. r.seek \in Int /\ r.seek >= 0
    BY <1>0, <1>5 DEF SeekStore, SeekRefused
  <2> QED
    BY <1>0, <1>5, <2>1 DEF SeekStore, GoTo
<1>6. CASE SetRate(t)
  BY <1>0, <1>6 DEF SetRate, GoTo
<1>7. CASE ReadOffset(t)
  <2> DEFINE s == r.session
             offset == IF Seeks(t) /\ Exists(s) /\ sessions[s].last_seek_result # None
                         THEN sessions[s].last_seek_result ELSE 0
  <2>1. r.at = "offset" /\ tasks' = [tasks EXCEPT ![t].at = "begin", ![t].offset = offset]
    BY <1>7 DEF ReadOffset
  <2>2. s \in Sessions
    BY <1>0, <2>1
  <2>3. offset \in Nat
    BY <2>2 DEF TypeInv, TypeOK, UploadSession, Exists
  <2> HIDE DEF offset
  <2> QED
    BY <1>0, <2>1, <2>3
<1>8. CASE ReadFails(t)
  BY <1>0, <1>8 DEF ReadFails, GoTo
<1>9. CASE Begin(t)
  <2> DEFINE skip == GenericSkip(t)
             total == Remaining(t) - skip
             n == [r EXCEPT !.at = "check", !.total = total, !.offset = r.offset + skip]
  <2>1. r.at = "begin" /\ tasks' = [tasks EXCEPT ![t] = n]
    BY <1>0, <1>9 DEF Begin
  <2>2. skip \in Nat /\ total \in Nat /\ r.offset + skip \in Nat
    BY <1>0, <2>1, GenericSkipBounded
  <2> HIDE DEF skip, total
  <2>3. n \in UploadTask
    BY <1>0, <2>2
  <2>4. /\ n.at = "check" /\ n.sent = 0 /\ n.total = total
        /\ n.session = r.session /\ n.session \in Sessions /\ n.file \in Files
    BY <1>0, <2>1
  <2> HIDE DEF n
  <2>5. TaskInv(n)
    BY <2>2, <2>3, <2>4
  <2>6. tasks'[t] = n
    BY <1>0, <2>1
  <2> QED
    BY <1>0, <2>1, <2>4, <2>5, <2>6
<1>10. CASE Check(t)
  BY <1>0, <1>10 DEF Check, GoTo
<1>11. CASE Send(t)
  BY <1>0, <1>11 DEF Send, GoTo
<1>12. CASE Account(t)
  BY <1>0, <1>12 DEF Account, GoTo
<1>13. CASE MarkError(t)
  BY <1>0, <1>13 DEF MarkError, GoTo
<1>14. CASE Finish(t)
  BY <1>0, <1>14 DEF Finish, GoTo
<1> QED
  BY <1>1, <1>2, <1>3, <1>4, <1>5, <1>6, <1>7, <1>8, <1>9, <1>10, <1>11, <1>12, <1>13, <1>14 DEF TaskStep

\* The two updates of a session that set two fields.
LEMMA SessionSought ==
    ASSUME NEW x \in UploadSession, NEW k \in Nat
    PROVE  LET n == [x EXCEPT !.current_position = k, !.last_seek_result = k]
           IN  n \in UploadSession /\ n.status = x.status
<1> DEFINE m == [x EXCEPT !.current_position = k]
<1>1. m \in UploadSession /\ m.status = x.status
  BY DEF UploadSession
<1> HIDE DEF m
<1>2. [m EXCEPT !.last_seek_result = k] \in UploadSession
  BY <1>1 DEF UploadSession
<1>3. [m EXCEPT !.last_seek_result = k].status = m.status
  BY <1>1 DEF UploadSession
<1> QED
  BY <1>1, <1>2, <1>3 DEF m

LEMMA SessionCounted ==
    ASSUME NEW x \in UploadSession, NEW k \in Nat
    PROVE  LET n == [x EXCEPT !.uploaded_segments = k, !.total_bytes_transmitted = @ + 1]
           IN  n \in UploadSession /\ n.status = x.status
<1> DEFINE m == [x EXCEPT !.uploaded_segments = k]
<1>1. m \in UploadSession /\ m.status = x.status
  BY DEF UploadSession
<1> HIDE DEF m
<1>2. [m EXCEPT !.total_bytes_transmitted = @ + 1] \in UploadSession
  BY <1>1 DEF UploadSession
<1>3. [m EXCEPT !.total_bytes_transmitted = @ + 1].status = m.status
  BY <1>1 DEF UploadSession
<1> QED
  BY <1>1, <1>2, <1>3 DEF m

\* A step of task t changes at most the session of t, and that one only while it
\* exists; it gives it the status Active when it starts, Error when its send has
\* failed and Completed when it finishes, and no other.
LEMMA TaskStepSession ==
    ASSUME TypeInv, NEW t \in TaskIds, TaskStep(t), NEW s, s = tasks[t].session
    PROVE  /\ s \in Sessions
           /\ sessions' = [sessions EXCEPT ![s] = sessions'[s]]
           /\ Exists(s) => sessions'[s] \in UploadSession
           /\ ~Exists(s) => sessions'[s] = None
           /\ Exists(s) => \/ sessions'[s].status = sessions[s].status
                           \/ Start(t) /\ sessions'[s].status = "Active"
                           \/ MarkError(t) /\ sessions'[s].status = "Error"
                           \/ Finish(t) /\ sessions'[s].status = "Completed"
           /\ UNCHANGED <<processor, spawned, received, halted>>
           /\ controller' \in {controller, None, t}
<1> DEFINE r == tasks[t]
<1> USE ConstantsOK DEF Exists
<1>0. /\ TaskInv(r) /\ r \in UploadTask
      /\ r.session \in Sessions /\ r.file \in Files
      /\ sessions \in [Sessions -> UploadSession \cup {None}]
      /\ s \in Sessions
  BY TaskStepTask DEF TypeInv, TypeOK, TaskInv
<1>x. sessions[s] # None => sessions[s] \in UploadSession
  BY <1>0
<1>s. ASSUME NEW status \in UploadStatus, SetStatus(t, status)
      PROVE  /\ sessions' = [sessions EXCEPT ![s] = sessions'[s]]
             /\ Exists(s) => sessions'[s] \in UploadSession /\ sessions'[s].status = status
             /\ ~Exists(s) => sessions'[s] = None
  BY <1>0, <1>x, <1>s DEF SetStatus, UploadSession
<1>1. CASE Start(t)
  BY <1>0, <1>1, <1>s DEF Start, UploadStatus
<1>2. CASE Open(t)
  BY <1>0, <1>x, <1>2 DEF Open
<1>3. CASE StoreIndex(t)
  BY <1>0, <1>x, <1>3 DEF StoreIndex, UploadSession
<1>4. CASE Seek(t)
  BY <1>0, <1>x, <1>4 DEF Seek
<1>5. CASE SeekStore(t)
  <2> DEFINE actual == KeyframeAt(r.file, r.seek)
             n == [sessions[s] EXCEPT !.current_position = actual, !.last_seek_result = actual]
  <2>1. actual \in Nat
    <3>1. r.seek \in Int /\ ~SeekRefused(r.file, r.seek)
      BY <1>0, <1>5 DEF SeekStore, TaskInv, UploadTask
    <3> QED
      BY <1>0, <3>1, KeyframeFound
  <2>2. /\ sessions' = IF Exists(s) THEN [sessions EXCEPT ![s] = n] ELSE sessions
        /\ UNCHANGED <<processor, spawned, received, halted>> /\ controller' = None
    BY <1>5 DEF SeekStore
  <2> HIDE DEF actual
  <2>3. Exists(s) => n \in UploadSession /\ n.status = sessions[s].status
    BY <1>x, <2>1, SessionSought
  <2> HIDE DEF n
  <2> QED
    BY <1>0, <2>2, <2>3
<1>6. CASE SetRate(t)
  BY <1>0, <1>x, <1>6 DEF SetRate
<1>7. CASE ReadOffset(t)
  BY <1>0, <1>x, <1>7 DEF ReadOffset
<1>8. CASE ReadFails(t)
  BY <1>0, <1>x, <1>8 DEF ReadFails
<1>9. CASE Begin(t)
  <2>1. Remaining(t) - GenericSkip(t) \in Nat
    BY <1>9, GenericSkipBounded DEF Begin
  <2> QED
    BY <1>0, <1>x, <1>9, <2>1 DEF Begin, UploadSession
<1>10. CASE Check(t)
  BY <1>0, <1>x, <1>10 DEF Check
<1>11. CASE Send(t)
  BY <1>0, <1>x, <1>11 DEF Send
<1>12. CASE Account(t)
  <2> DEFINE n == [sessions[s] EXCEPT !.uploaded_segments = r.sent,
                                      !.total_bytes_transmitted = @ + 1]
  <2>1. /\ sessions' = IF Exists(s) THEN [sessions EXCEPT ![s] = n] ELSE sessions
        /\ UNCHANGED <<processor, controller, spawned, received, halted>>
    BY <1>0, <1>12 DEF Account
  <2>2. r.sent \in Nat
    BY <1>0 DEF UploadTask
  <2>3. Exists(s) => n \in UploadSession /\ n.status = sessions[s].status
    BY <1>x, <2>2, SessionCounted
  <2> HIDE DEF n
  <2> QED
    BY <1>0, <2>1, <2>3
<1>13. CASE MarkError(t)
  BY <1>0, <1>13, <1>s DEF MarkError, UploadStatus
<1>14. CASE Finish(t)
  BY <1>0, <1>14, <1>s DEF Finish, UploadStatus
<1> QED
  BY <1>1, <1>2, <1>3, <1>4, <1>5, <1>6, <1>7, <1>8, <1>9, <1>10, <1>11, <1>12, <1>13, <1>14 DEF TaskStep

LEMMA TypeTaskStep ==
    ASSUME TypeInv, NEW t \in TaskIds, TaskStep(t)
    PROVE  TypeInv'
<1>1. /\ tasks' = [tasks EXCEPT ![t] = tasks'[t]] /\ TaskInv(tasks'[t])
      /\ tasks[t].at # "unborn"
  BY TaskStepTask
<1>2. PICK s : s = tasks[t].session
  OBVIOUS
<1>3. /\ s \in Sessions
      /\ sessions' = [sessions EXCEPT ![s] = sessions'[s]]
      /\ Exists(s) => sessions'[s] \in UploadSession
      /\ ~Exists(s) => sessions'[s] = None
      /\ UNCHANGED <<processor, spawned, received, halted>>
      /\ controller' \in {controller, None, t}
  BY <1>2, TaskStepSession
<1>4. TypeOK
  BY DEF TypeInv
<1>5. sessions' \in [Sessions -> UploadSession \cup {None}]
  BY <1>3, <1>4 DEF TypeOK
<1>6. tasks' \in [TaskIds -> UploadTask] /\ \A u \in TaskIds : TaskInv(tasks'[u])
  <2>1. tasks \in [TaskIds -> UploadTask] /\ tasks'[t] \in UploadTask
    BY <1>1, <1>4 DEF TaskInv, TypeOK
  <2> QED
    BY <1>1, <2>1 DEF TypeInv
<1>7. TypeOK'
  BY <1>3, <1>4, <1>5, <1>6 DEF TypeOK
<1>8. \A u \in TaskIds : u > spawned' => tasks'[u] = Unborn
  <2>1. ~(t > spawned)
    BY <1>1 DEF TypeInv, Unborn
  <2> QED
    BY <1>1, <1>3, <1>4, <2>1 DEF TypeInv, TypeOK
<1>9. processor.at # "idle" => processor.session \in Sessions /\ sessions'[processor.session] # None
  <2>1. ASSUME processor.at # "idle"
        PROVE  processor.session \in Sessions /\ sessions[processor.session] # None
    BY <2>1 DEF TypeInv, Exists
  <2> QED
    BY <1>3, <1>4, <2>1, NoneIsNoSession DEF TypeOK, Exists
<1> QED
  BY <1>3, <1>6, <1>7, <1>8, <1>9 DEF TypeInv, Exists

LEMMA NewTaskOK ==
    ASSUME NEW s \in Sessions, NEW f \in Files, NEW p \in Int \cup {None}, NEW r \in Int
    PROVE  /\ TaskInv(NewTask(s, f, p, r)) /\ NewTask(s, f, p, r).at = "start"
           /\ NewTask(s, f, p, r).session = s
<1> DEFINE n == NewTask(s, f, p, r)
<1>1. /\ n.at = "start" /\ n.session = s /\ n.file = f /\ n.sent = 0 /\ n.total = 0
      /\ n \in UploadTask
  BY DEF NewTask, Unborn, UploadTask, TaskSteps
<1> QED
  BY <1>1 DEF TaskInv

LEMMA NewSessionOK ==
    ASSUME NEW f \in Files, NEW p \in Int \cup {None}, NEW r \in Int
    PROVE  NewSession(f, p, r) \in UploadSession /\ NewSession(f, p, r).status = "Preparing"
BY DEF NewSession, UploadSession, UploadStatus

\* A task that is spawned takes the next place among the tasks.
LEMMA TypeSpawn ==
    ASSUME TypeInv, NEW s \in Sessions, NEW f \in Files, NEW p \in Int \cup {None},
           NEW r \in Int, Spawn(s, f, p, r)
    PROVE  /\ spawned' = spawned + 1 /\ spawned' \in TaskIds
           /\ tasks' = [tasks EXCEPT ![spawned'] = NewTask(s, f, p, r)]
           /\ tasks[spawned'] = Unborn
           /\ tasks' \in [TaskIds -> UploadTask]
           /\ \A t \in TaskIds : TaskInv(tasks'[t])
           /\ \A t \in TaskIds : t > spawned' => tasks'[t] = Unborn
<1> DEFINE n == NewTask(s, f, p, r)
<1>1. /\ spawned' = spawned + 1 /\ spawned \in 0 .. MaxTasks /\ spawned < MaxTasks
      /\ MaxTasks \in Nat /\ tasks \in [TaskIds -> UploadTask]
      /\ \A t \in TaskIds : TaskInv(tasks[t])
      /\ \A t \in TaskIds : t > spawned => tasks[t] = Unborn
  BY ConstantsOK DEF Spawn, TypeInv, TypeOK
<1>2. tasks' = [tasks EXCEPT ![spawned'] = n] /\ spawned' \in TaskIds
  BY <1>1 DEF Spawn, TaskIds
<1>3. TaskInv(n) /\ n \in UploadTask
  BY NewTaskOK DEF TaskInv
<1>4. tasks[spawned'] = Unborn
  BY <1>1, <1>2
<1>5. \A t \in TaskIds : t > spawned' => t > spawned /\ t # spawned'
  BY <1>1 DEF TaskIds
<1> HIDE DEF n
<1>6. \A t \in TaskIds : tasks'[t] = IF t = spawned' THEN n ELSE tasks[t]
  BY <1>1, <1>2
<1> QED
  BY <1>1, <1>2, <1>3, <1>4, <1>5, <1>6 DEF n

\* The messages that change one session and spawn nothing.
LEMMA TypeSessionStep ==
    ASSUME TypeInv, NEW s \in Sessions, NEW x \in UploadSession \cup {None},
           sessions' = [sessions EXCEPT ![s] = x],
           processor' \in Processor,
           processor'.at # "idle" => processor'.session = s /\ x # None,
           received' \in 0 .. MaxMessages, halted' \subseteq Sessions,
           UNCHANGED <<controller, tasks, spawned>>
    PROVE  TypeInv'
<1>1. TypeOK
  BY DEF TypeInv
<1>2. sessions' \in [Sessions -> UploadSession \cup {None}]
  BY <1>1 DEF TypeOK
<1>3. TypeOK'
  BY <1>1, <1>2 DEF TypeOK
<1>4. processor'.at # "idle" => processor'.session \in Sessions /\ sessions'[processor'.session] # None
  BY <1>1 DEF TypeOK
<1> QED
  BY <1>3, <1>4 DEF TypeInv, Exists

LEMMA TypeMessage == ASSUME TypeInv, Message PROVE TypeInv'
<1> USE ConstantsOK DEF Exists
<1>0. /\ TypeOK /\ sessions \in [Sessions -> UploadSession \cup {None}] /\ processor \in Processor
      /\ received \in 0 .. MaxMessages /\ halted \subseteq Sessions
  BY DEF TypeInv, TypeOK
<1>1. Receive => processor.at = "idle" /\ received' \in 0 .. MaxMessages
  BY <1>0 DEF Receive
<1>s. ASSUME NEW s \in Sessions, Exists(s), NEW status \in UploadStatus
      PROVE  [sessions[s] EXCEPT !.status = status] \in UploadSession
  BY <1>0, <1>s DEF UploadSession
<1>2. ASSUME NEW s \in Sessions, NEW f \in Files, NEW p \in RequestSeeks, NEW r \in RequestRates,
             FileRequest(s, f, p, r)
      PROVE  TypeInv'
  <2>1. p \in Int \cup {None} /\ r \in Int /\ Spawn(s, f, p, r)
    BY <1>2 DEF FileRequest
  <2>2. /\ spawned' \in TaskIds /\ tasks' \in [TaskIds -> UploadTask]
        /\ \A t \in TaskIds : TaskInv(tasks'[t])
        /\ \A t \in TaskIds : t > spawned' => tasks'[t] = Unborn
    BY <2>1, TypeSpawn
  <2>3. sessions' \in [Sessions -> UploadSession \cup {None}]
    BY <1>0, <1>2, <2>1, NewSessionOK DEF FileRequest
  <2>4. /\ processor' = processor /\ controller' = controller /\ halted' = halted
        /\ processor.at = "idle" /\ received' \in 0 .. MaxMessages
    BY <1>1, <1>2 DEF FileRequest
  <2>5. spawned' \in 0 .. MaxTasks
    BY <2>2 DEF TaskIds
  <2>6. TypeOK'
    BY <1>0, <2>2, <2>3, <2>4, <2>5 DEF TypeOK
  <2> QED
    BY <2>2, <2>4, <2>6 DEF TypeInv
<1>3. ASSUME NEW s \in Sessions, NEW p \in CommandSeeks, SeekBegin(s, p)
      PROVE  TypeInv'
  <2> DEFINE x == [sessions[s] EXCEPT !.status = "Seeking"]
  <2>1. /\ sessions' = [sessions EXCEPT ![s] = x]
        /\ processor' \in Processor /\ processor'.session = s
        /\ received' \in 0 .. MaxMessages
        /\ UNCHANGED <<controller, tasks, spawned, halted>>
    BY <1>1, <1>3 DEF SeekBegin, Processor
  <2>2. x \in UploadSession
    BY <1>s, <1>3 DEF SeekBegin, UploadStatus
  <2> HIDE DEF x
  <2> QED
    BY <1>0, <2>1, <2>2, NoneIsNoSession, TypeSessionStep
<1>4. ASSUME NEW s \in Sessions, NEW r \in CommandRates, SetRateBegin(s, r)
      PROVE  TypeInv'
  <2> DEFINE x == [sessions[s] EXCEPT !.status = "RateChanging", !.playback_rate = r]
  <2>1. /\ sessions' = [sessions EXCEPT ![s] = x]
        /\ processor' \in Processor /\ processor'.session = s
        /\ received' \in 0 .. MaxMessages
        /\ UNCHANGED <<controller, tasks, spawned, halted>>
    BY <1>1, <1>4 DEF SetRateBegin, Processor
  <2>2. [sessions[s] EXCEPT !.status = "RateChanging"] \in UploadSession
    BY <1>s, <1>4 DEF SetRateBegin, UploadStatus
  <2>3. x \in UploadSession
    BY <2>2 DEF UploadSession
  <2> HIDE DEF x
  <2> QED
    BY <1>0, <2>1, <2>3, NoneIsNoSession, TypeSessionStep
<1>5. ASSUME NEW s \in Sessions, Pause(s) \/ Resume(s) \/ Stop(s) \/ SessionEnd(s)
      PROVE  TypeInv'
  <2>1. PICK x \in UploadSession \cup {None} : sessions' = [sessions EXCEPT ![s] = x]
    <3>1. Exists(s)
      BY <1>5 DEF Pause, Resume, Stop, SessionEnd
    <3>2. \E status \in UploadStatus :
             \/ sessions' = [sessions EXCEPT ![s] = [sessions[s] EXCEPT !.status = status]]
             \/ sessions' = [sessions EXCEPT ![s] = None]
      BY <1>5 DEF Pause, Resume, Stop, SessionEnd, UploadStatus
    <3> QED
      BY <1>s, <3>1, <3>2
  <2>2. /\ processor' = processor /\ processor.at = "idle" /\ received' \in 0 .. MaxMessages
        /\ halted' \subseteq Sessions /\ UNCHANGED <<controller, tasks, spawned>>
    BY <1>0, <1>1, <1>5 DEF Pause, Resume, Stop, SessionEnd
  <2> QED
    BY <1>0, <2>1, <2>2, TypeSessionStep
<1> QED
  BY <1>2, <1>3, <1>4, <1>5 DEF Message

\* A session with another status, and one that SeekEnd has moved.
Marked(x, status) == [x EXCEPT !.status = status]

Moved(x, index, k) ==
    [x EXCEPT !.status = "Active", !.current_position = k,
              !.last_seek_result = IF index = None THEN @ ELSE k]

LEMMA SessionMarked ==
    ASSUME NEW x \in UploadSession, NEW status \in UploadStatus
    PROVE  Marked(x, status) \in UploadSession /\ Marked(x, status).status = status
BY DEF UploadSession, Marked

LEMMA SessionMoved ==
    ASSUME NEW x \in UploadSession, NEW k \in Int, NEW index \in Files \cup {None},
           index # None => k \in Nat
    PROVE  Moved(x, index, k) \in UploadSession /\ Moved(x, index, k).status = "Active"
<1> DEFINE y == [x EXCEPT !.status = "Active", !.current_position = k]
           n == Moved(x, index, k)
<1>1. y \in UploadSession /\ y.status = "Active"
  BY DEF UploadSession, UploadStatus
<1>2. n = [y EXCEPT !.last_seek_result = IF index = None THEN @ ELSE k]
  BY DEF UploadSession, Moved
<1> HIDE DEF n, y
<1>3. n \in UploadSession
  BY <1>1, <1>2 DEF UploadSession
<1>4. n.status = "Active"
  BY <1>1, <1>2 DEF UploadSession
<1> QED
  BY <1>3, <1>4 DEF n

\* What the processor leaves in its session once it has had the controller.
LEMMA ProcessorStepSession ==
    ASSUME TypeInv, ProcessorStep
    PROVE  \E x \in UploadSession :
              /\ x.status \in {"Active", "Error"}
              /\ sessions' = [sessions EXCEPT ![processor.session] = x]
<1> DEFINE s == processor.session
           p == processor.arg
           index == sessions[s].keyframe_index
           actual == IF index = None THEN p ELSE KeyframeAt(index, p)
<1>0. /\ sessions \in [Sessions -> UploadSession \cup {None}] /\ processor \in Processor
      /\ s \in Sessions /\ sessions[s] # None
  BY DEF TypeInv, TypeOK, ProcessorStep, SeekEnd, SetRateEnd, Exists
<1>1. sessions[s] \in UploadSession /\ p \in Int /\ index \in Files \cup {None}
  BY <1>0 DEF Processor, UploadSession
<1>2. \A status \in {"Active", "Error"} :
         Marked(sessions[s], status) \in UploadSession
         /\ Marked(sessions[s], status).status = status
  BY <1>1, SessionMarked DEF UploadStatus
<1>3. CASE SetRateEnd
  <2>1. PICK status \in {"Active", "Error"} :
           sessions' = [sessions EXCEPT ![s] = Marked(sessions[s], status)]
    BY <1>3 DEF SetRateEnd, Marked
  <2> QED
    BY <1>2, <2>1
<1>4. CASE SeekEnd /\ SeekRefused(index, p)
  <2>1. sessions' = [sessions EXCEPT ![s] = Marked(sessions[s], "Error")]
    BY <1>4 DEF SeekEnd, Marked
  <2> QED
    BY <1>2, <2>1
<1>5. CASE SeekEnd /\ ~SeekRefused(index, p)
  <2>1. sessions' = [sessions EXCEPT ![s] = Moved(sessions[s], index, actual)]
    BY <1>5 DEF SeekEnd, Moved
  <2>2. actual \in Int /\ (index # None => actual \in Nat)
    BY <1>1, <1>5, ConstantsOK, KeyframeFound
  <2> HIDE DEF actual
  <2> QED
    BY <1>1, <2>1, <2>2, SessionMoved
<1> QED
  BY <1>3, <1>4, <1>5 DEF ProcessorStep

LEMMA TypeProcessorStep == ASSUME TypeInv, ProcessorStep PROVE TypeInv'
<1> DEFINE s == processor.session
<1> USE ConstantsOK DEF Exists
<1>0. /\ TypeOK /\ sessions \in [Sessions -> UploadSession \cup {None}]
      /\ processor \in Processor /\ Idle \in Processor /\ Idle.at = "idle"
      /\ processor.at # "idle" => s \in Sessions /\ sessions[s] \in UploadSession
  BY DEF TypeInv, TypeOK, Processor, Idle
<1>s. ASSUME NEW status \in UploadStatus, processor.at # "idle"
      PROVE  [sessions[s] EXCEPT !.status = status] \in UploadSession
  BY <1>0, <1>s DEF UploadSession
<1>1. ASSUME NEW status \in UploadStatus, processor.at # "idle",
             sessions' = [sessions EXCEPT ![s].status = status],
             processor' = Idle, UNCHANGED <<controller, tasks, spawned, received, halted>>
      PROVE  TypeInv'
  <2>1. [sessions[s] EXCEPT !.status = status] \in UploadSession
    BY <1>1, <1>s
  <2> QED
    BY <1>0, <1>1, <2>1, TypeSessionStep DEF TypeOK
<1>2. CASE SetRateEnd
  <2>1. PICK status \in UploadStatus : sessions' = [sessions EXCEPT ![s].status = status]
    BY <1>2 DEF SetRateEnd, UploadStatus
  <2> QED
    BY <1>1, <1>2, <2>1 DEF SetRateEnd
<1>3. CASE SeekEnd
  <2> DEFINE p == processor.arg
             index == sessions[s].keyframe_index
             actual == IF index = None THEN p ELSE KeyframeAt(index, p)
  <2>1. CASE SeekRefused(index, p)
    <3>1. "Error" \in UploadStatus
      BY DEF UploadStatus
    <3> QED
      BY <1>1, <1>3, <2>1, <3>1 DEF SeekEnd
  <2>2. CASE ~SeekRefused(index, p)
    <3>1. /\ Spawn(s, sessions[s].file, actual, sessions[s].playback_rate)
          /\ processor' = Idle /\ UNCHANGED <<controller, received, halted>>
          /\ processor.at # "idle"
      BY <1>3, <2>2 DEF SeekEnd
    <3>2. /\ s \in Sessions /\ p \in Int /\ index \in Files \cup {None}
          /\ sessions[s].file \in Files /\ sessions[s].playback_rate \in Int
      BY <1>0, <3>1 DEF UploadSession, Processor
    <3>3. actual \in Int
      BY <2>2, <3>2, KeyframeFound
    <3> HIDE DEF actual
    <3>4. /\ spawned' \in TaskIds /\ tasks' \in [TaskIds -> UploadTask]
          /\ \A t \in TaskIds : TaskInv(tasks'[t])
          /\ \A t \in TaskIds : t > spawned' => tasks'[t] = Unborn
      BY <3>1, <3>2, <3>3, TypeSpawn
    <3>5. sessions' \in [Sessions -> UploadSession \cup {None}]
      BY <1>0, <1>3, ProcessorStepSession DEF ProcessorStep
    <3>6. spawned' \in 0 .. MaxTasks
      BY <3>4 DEF TaskIds
    <3>7. TypeOK'
      BY <1>0, <3>1, <3>2, <3>4, <3>5, <3>6 DEF TypeOK
    <3> QED
      BY <1>0, <3>1, <3>4, <3>7 DEF TypeInv
  <2> QED
    BY <2>1, <2>2
<1> QED
  BY <1>2, <1>3 DEF ProcessorStep

LEMMA TypeNext == ASSUME TypeInv, [Next]_vars PROVE TypeInv'
<1>1. CASE UNCHANGED vars
  BY <1>1 DEF vars, TypeInv, TypeOK, Exists
<1>2. CASE Next
  BY <1>2, TypeMessage, TypeProcessorStep, TypeTaskStep DEF Next
<1> QED
  BY <1>1, <1>2

\* Every variable keeps its type: whatever the platform sends, and whichever
\* task runs next, no step of the uploader reads a field that is not there.
THEOREM TypeCorrect == Spec => []TypeOK
<1>1. Init => TypeInv
  BY TypeInit
<1>2. TypeInv /\ [Next]_vars => TypeInv'
  BY TypeNext
<1>3. TypeInv => TypeOK
  BY DEF TypeInv
<1> QED
  BY <1>1, <1>2, <1>3, PTL DEF Spec

(***************************************************************************)
(* Completed is earned.  The property is not inductive: a task at "finish" *)
(* is about to report Completed, and why it left its loop has to be        *)
(* remembered.  It left after its last segment, or because its session was *)
(* Paused, removed or Completed: the first two need a message that puts    *)
(* the session in halted, the third an upload that was delivered already.  *)
(***************************************************************************)

Earned(s) == \E t \in TaskIds : tasks[t].session = s /\ Delivered(t)

EarnedInv ==
    /\ TypeInv
    /\ \A s \in Sessions : Paused(s) => s \in halted
    /\ \A t \in TaskIds : Born(t) /\ ~Exists(tasks[t].session) => tasks[t].session \in halted
    /\ \A t \in TaskIds :
          tasks[t].at = "finish" /\ tasks[t].sent # tasks[t].total =>
              tasks[t].session \in halted \/ Earned(tasks[t].session)
    /\ \A s \in Sessions : Completed(s) => s \in halted \/ Earned(s)

\* The processor never touches an upload task that runs: it can only spawn one,
\* for a session that exists.
LEMMA ProcessorTasks ==
    ASSUME TypeInv, Message \/ ProcessorStep, NEW t \in TaskIds
    PROVE  \/ tasks'[t] = tasks[t]
           \/ /\ ~Born(t) /\ tasks'[t].at = "start"
              /\ sessions'[tasks'[t].session] # None
<1>1. ASSUME NEW s \in Sessions, NEW f \in Files, NEW p \in Int \cup {None}, NEW r \in Int,
             Spawn(s, f, p, r), sessions'[s] # None
      PROVE  \/ tasks'[t] = tasks[t]
             \/ /\ ~Born(t) /\ tasks'[t].at = "start"
                /\ sessions'[tasks'[t].session] # None
  <2>1. /\ tasks' = [tasks EXCEPT ![spawned'] = NewTask(s, f, p, r)]
        /\ spawned' \in TaskIds /\ tasks[spawned'] = Unborn
        /\ tasks \in [TaskIds -> UploadTask]
    BY <1>1, TypeSpawn DEF TypeInv, TypeOK
  <2>2. NewTask(s, f, p, r).at = "start" /\ NewTask(s, f, p, r).session = s
    BY NewTaskOK
  <2> QED
    BY <1>1, <2>1, <2>2 DEF Born, Unborn
<1>2. CASE UNCHANGED tasks
  BY <1>2
<1>3. ASSUME NEW s \in Sessions, NEW f \in Files, NEW p \in RequestSeeks, NEW r \in RequestRates,
             FileRequest(s, f, p, r)
      PROVE  \/ tasks'[t] = tasks[t]
             \/ /\ ~Born(t) /\ tasks'[t].at = "start"
                /\ sessions'[tasks'[t].session] # None
  <2>1. p \in Int \cup {None} /\ r \in Int
    BY ConstantsOK
  <2>2. Spawn(s, f, p, r) /\ sessions' = [sessions EXCEPT ![s] = NewSession(f, p, r)]
    BY <1>3 DEF FileRequest
  <2>3. NewSession(f, p, r) # None
    BY <2>1, NoneIsNoSession, NewSessionOK
  <2>4. sessions'[s] # None
    BY <2>2, <2>3 DEF TypeInv, TypeOK
  <2> QED
    BY <1>1, <2>1, <2>2, <2>4
<1>4. CASE Message
  <2>1. ASSUME NEW s \in Sessions, NEW p \in CommandSeeks, SeekBegin(s, p)
        PROVE  UNCHANGED tasks
    BY <2>1 DEF SeekBegin
  <2>2. ASSUME NEW s \in Sessions, NEW r \in CommandRates, SetRateBegin(s, r)
        PROVE  UNCHANGED tasks
    BY <2>2 DEF SetRateBegin
  <2>3. ASSUME NEW s \in Sessions, Pause(s) \/ Resume(s) \/ Stop(s) \/ SessionEnd(s)
        PROVE  UNCHANGED tasks
    BY <2>3 DEF Pause, Resume, Stop, SessionEnd
  <2> QED
    BY <1>2, <1>3, <1>4, <2>1, <2>2, <2>3 DEF Message
<1>5. CASE SeekEnd
  <2> DEFINE s == processor.session
             p == processor.arg
             index == sessions[s].keyframe_index
             actual == IF index = None THEN p ELSE KeyframeAt(index, p)
  <2>1. CASE SeekRefused(index, p)
    BY <1>2, <1>5, <2>1 DEF SeekEnd
  <2>2. CASE ~SeekRefused(index, p)
    <3>1. /\ Spawn(s, sessions[s].file, actual, sessions[s].playback_rate)
          /\ processor.at # "idle"
      BY <1>5, <2>2 DEF SeekEnd
    <3>2. s \in Sessions /\ sessions[s] # None
      BY <3>1 DEF TypeInv, Exists
    <3>3. sessions[s] \in UploadSession /\ p \in Int
      BY <3>2 DEF TypeInv, TypeOK, Processor
    <3>4. sessions'[s] # None
      BY ProcessorStepSession, <1>5, <3>2, NoneIsNoSession DEF ProcessorStep, TypeInv, TypeOK
    <3>5. sessions[s].file \in Files /\ sessions[s].playback_rate \in Int /\ actual \in Int
      BY <2>2, <3>3, ConstantsOK, KeyframeFound DEF UploadSession
    <3> HIDE DEF actual
    <3> QED
      BY <1>1, <3>1, <3>2, <3>4, <3>5
  <2> QED
    BY <2>1, <2>2
<1>6. CASE SetRateEnd
  BY <1>2, <1>6 DEF SetRateEnd
<1> QED
  BY <1>4, <1>5, <1>6 DEF ProcessorStep

\* The processor removes, completes or pauses a session only for a message that
\* puts the session in halted.
LEMMA ProcessorSessions ==
    ASSUME TypeInv, Message \/ ProcessorStep, NEW u \in Sessions
    PROVE  /\ halted \subseteq halted'
           /\ Exists(u) /\ ~Exists(u)' => u \in halted'
           /\ Completed(u)' => Completed(u) \/ u \in halted'
           /\ Paused(u)' => Paused(u) \/ u \in halted'
<1> USE DEF Exists, Completed, Paused
<1>0. sessions \in [Sessions -> UploadSession \cup {None}]
  BY DEF TypeInv, TypeOK
<1>1. ASSUME NEW s \in Sessions, NEW x, sessions' = [sessions EXCEPT ![s] = x],
             halted \subseteq halted',
             x = None => s \in halted' \/ ~Exists(s),
             x.status \in {"Completed", "Paused"} => s \in halted'
      PROVE  /\ Exists(u) /\ ~Exists(u)' => u \in halted'
             /\ Completed(u)' => Completed(u) \/ u \in halted'
             /\ Paused(u)' => Paused(u) \/ u \in halted'
  BY <1>0, <1>1
<1>2. ASSUME NEW s \in Sessions, NEW x \in UploadSession, sessions' = [sessions EXCEPT ![s] = x],
             halted' = halted, x.status \notin {"Completed", "Paused"}
      PROVE  /\ Exists(u) /\ ~Exists(u)' => u \in halted'
             /\ Completed(u)' => Completed(u) \/ u \in halted'
             /\ Paused(u)' => Paused(u) \/ u \in halted'
  BY <1>1, <1>2, NoneIsNoSession
<1>3. ASSUME NEW s \in Sessions, NEW f \in Files, NEW p \in RequestSeeks, NEW r \in RequestRates,
             FileRequest(s, f, p, r)
      PROVE  \E x \in UploadSession : /\ sessions' = [sessions EXCEPT ![s] = x]
                                     /\ halted' = halted /\ x.status = "Preparing"
  BY <1>3, ConstantsOK, NewSessionOK DEF FileRequest
<1>4. ASSUME NEW s \in Sessions, NEW p \in CommandSeeks, SeekBegin(s, p)
      PROVE  \E x \in UploadSession : /\ sessions' = [sessions EXCEPT ![s] = x]
                                     /\ halted' = halted /\ x.status = "Seeking"
  <2> DEFINE x == [sessions[s] EXCEPT !.status = "Seeking"]
  <2>1. sessions' = [sessions EXCEPT ![s] = x] /\ halted' = halted /\ sessions[s] # None
    BY <1>4 DEF SeekBegin, Exists
  <2>2. x \in UploadSession /\ x.status = "Seeking"
    BY <1>0, <2>1 DEF UploadSession, UploadStatus
  <2> HIDE DEF x
  <2> QED
    BY <2>1, <2>2
<1>5. ASSUME NEW s \in Sessions, NEW r \in CommandRates, SetRateBegin(s, r)
      PROVE  \E x \in UploadSession : /\ sessions' = [sessions EXCEPT ![s] = x]
                                     /\ halted' = halted /\ x.status = "RateChanging"
  <2> DEFINE x == [sessions[s] EXCEPT !.status = "RateChanging", !.playback_rate = r]
  <2>1. sessions' = [sessions EXCEPT ![s] = x] /\ halted' = halted /\ sessions[s] # None
    BY <1>5 DEF SetRateBegin
  <2>2. x \in UploadSession /\ x.status = "RateChanging"
    BY <1>0, <2>1, ConstantsOK DEF UploadSession, UploadStatus
  <2> HIDE DEF x
  <2> QED
    BY <2>1, <2>2
<1>6. ASSUME NEW s \in Sessions, Resume(s)
      PROVE  \E x \in UploadSession : /\ sessions' = [sessions EXCEPT ![s] = x]
                                     /\ halted' = halted /\ x.status = "Active"
  <2> DEFINE x == [sessions[s] EXCEPT !.status = "Active"]
  <2>1. sessions' = [sessions EXCEPT ![s] = x] /\ halted' = halted /\ sessions[s] # None
    BY <1>6 DEF Resume, Exists
  <2>2. x \in UploadSession /\ x.status = "Active"
    BY <1>0, <2>1 DEF UploadSession, UploadStatus
  <2> HIDE DEF x
  <2> QED
    BY <2>1, <2>2
<1>7. ASSUME NEW s \in Sessions, Pause(s) \/ Stop(s) \/ SessionEnd(s)
      PROVE  /\ \E x : sessions' = [sessions EXCEPT ![s] = x]
             /\ halted \subseteq halted' /\ s \in halted'
  BY <1>7 DEF Pause, Stop, SessionEnd
<1>8. CASE Message
  <2> USE <1>2
  <2>1. CASE \E s \in Sessions, f \in Files, p \in RequestSeeks, r \in RequestRates :
                FileRequest(s, f, p, r)
    BY <1>3, <2>1
  <2>2. CASE \E s \in Sessions, p \in CommandSeeks : SeekBegin(s, p)
    BY <1>4, <2>2
  <2>3. CASE \E s \in Sessions, r \in CommandRates : SetRateBegin(s, r)
    BY <1>5, <2>3
  <2>4. CASE \E s \in Sessions : Resume(s)
    BY <1>6, <2>4
  <2>5. CASE \E s \in Sessions : Pause(s) \/ Stop(s) \/ SessionEnd(s)
    BY <1>1, <1>7, <2>5
  <2>6. halted \subseteq halted'
    BY <1>3, <1>4, <1>5, <1>6, <1>7, <1>8 DEF Message
  <2> QED
    BY <1>8, <2>1, <2>2, <2>3, <2>4, <2>5, <2>6 DEF Message
<1>9. CASE ProcessorStep
  <2>1. processor.session \in Sessions /\ halted' = halted
    BY <1>9 DEF TypeInv, ProcessorStep, SeekEnd, SetRateEnd
  <2> QED
    BY <1>2, <1>9, <2>1, ProcessorStepSession
<1> QED
  BY <1>8, <1>9

\* A task that has ended takes no step; only Check leads to "finish", and only
\* Finish leads away.
LEMMA TaskPath ==
    ASSUME TypeInv, NEW t \in TaskIds, TaskStep(t)
    PROVE  /\ ~Ended(t)
           /\ tasks[t].at = "finish" => Finish(t)
           /\ Finish(t) => /\ tasks'[t].at = "done" /\ tasks[t].at = "finish"
                          /\ tasks'[t].sent = tasks[t].sent /\ tasks'[t].total = tasks[t].total
           /\ tasks'[t].at = "finish" =>
                 /\ tasks'[t].sent = tasks[t].sent /\ tasks'[t].total = tasks[t].total
                 /\ \/ tasks[t].sent = tasks[t].total
                    \/ ~SessionActive(tasks[t].session)
<1> DEFINE r == tasks[t]
<1>0. TaskInv(r) /\ r \in UploadTask /\ tasks \in [TaskIds -> UploadTask]
  BY DEF TypeInv, TypeOK
<1> USE DEF UploadTask, Ended
<1>1. CASE Check(t)
  BY <1>0, <1>1 DEF Check, GoTo, TaskInv, Finish
<1>2. CASE Finish(t)
  BY <1>0, <1>2 DEF Finish, GoTo
<1>3. CASE Start(t) \/ Open(t) \/ StoreIndex(t) \/ Seek(t) \/ SeekStore(t) \/ SetRate(t)
  BY <1>0, <1>3 DEF Start, Open, StoreIndex, Seek, SeekStore, SetRate, GoTo, Finish
<1>4. CASE ReadOffset(t) \/ ReadFails(t) \/ Begin(t) \/ Send(t) \/ Account(t) \/ MarkError(t)
  BY <1>0, <1>4 DEF ReadOffset, ReadFails, Begin, Send, Account, MarkError, GoTo, Finish
<1> QED
  BY <1>1, <1>2, <1>3, <1>4 DEF TaskStep

\* Once delivered, always delivered.
LEMMA DeliveredStays ==
    ASSUME TypeInv, Next, NEW t \in TaskIds, Delivered(t)
    PROVE  Delivered(t)' /\ tasks'[t].session = tasks[t].session
<1>1. CASE Message \/ ProcessorStep
  BY <1>1, ProcessorTasks DEF Delivered, Born
<1>2. ASSUME NEW u \in TaskIds, TaskStep(u)
      PROVE  tasks'[t] = tasks[t]
  <2>1. u # t
    BY <1>2, TaskPath DEF Delivered, Ended
  <2>2. tasks' = [tasks EXCEPT ![u] = tasks'[u]] /\ tasks \in [TaskIds -> UploadTask]
    BY <1>2, TaskStepTask DEF TypeInv, TypeOK
  <2> QED
    BY <2>1, <2>2
<1> QED
  BY <1>1, <1>2 DEF Next, Delivered

LEMMA EarnedStays ==
    ASSUME TypeInv, Next, NEW s, Earned(s)
    PROVE  Earned(s)'
BY DeliveredStays DEF Earned

LEMMA EarnedInit == Init => EarnedInv
  BY TypeInit, ConstantsOK DEF Init, EarnedInv, Paused, Completed, Exists, Born, Unborn, TaskIds

LEMMA EarnedProcessor ==
    ASSUME EarnedInv, Message \/ ProcessorStep
    PROVE  EarnedInv'
<1>0. TypeInv /\ Next /\ TypeInv'
  BY TypeMessage, TypeProcessorStep DEF EarnedInv, Next
<1>1. ASSUME NEW s \in Sessions, Paused(s)'
      PROVE  s \in halted'
  BY <1>0, <1>1, ProcessorSessions DEF EarnedInv
<1>2. ASSUME NEW t \in TaskIds, NEW s, s = tasks'[t].session, Born(t)', sessions'[s] = None
      PROVE  s \in halted'
  <2>1. tasks'[t] = tasks[t] /\ Born(t)
    BY <1>0, <1>2, ProcessorTasks DEF Born
  <2>2. s \in Sessions /\ s = tasks[t].session
    BY <1>2, <2>1 DEF EarnedInv, TypeInv, TaskInv, Born
  <2>3. CASE Exists(s)
    BY <1>0, <1>2, <2>1, <2>2, <2>3, ProcessorSessions DEF Exists
  <2>4. CASE ~Exists(s)
    BY <1>0, <2>1, <2>2, <2>4, ProcessorSessions DEF EarnedInv
  <2> QED
    BY <2>3, <2>4
<1>3. ASSUME NEW t \in TaskIds, NEW s, s = tasks'[t].session,
             tasks'[t].at = "finish", tasks'[t].sent # tasks'[t].total
      PROVE  s \in halted' \/ Earned(s)'
  <2>1. tasks'[t] = tasks[t]
    BY <1>0, <1>3, ProcessorTasks
  <2>2. s \in Sessions /\ s = tasks[t].session
    BY <1>3, <2>1 DEF EarnedInv, TypeInv, TaskInv
  <2>3. s \in halted \/ Earned(s)
    BY <1>3, <2>1, <2>2 DEF EarnedInv
  <2> QED
    BY <1>0, <2>2, <2>3, ProcessorSessions, EarnedStays
<1>4. ASSUME NEW s \in Sessions, Completed(s)'
      PROVE  s \in halted' \/ Earned(s)'
  BY <1>0, <1>4, ProcessorSessions, EarnedStays DEF EarnedInv
<1>5. \A t \in TaskIds : Born(t)' /\ ~(sessions'[tasks'[t].session] # None) =>
                            tasks'[t].session \in halted'
  BY <1>2
<1>6. \A t \in TaskIds :
          tasks'[t].at = "finish" /\ tasks'[t].sent # tasks'[t].total =>
              \/ tasks'[t].session \in halted'
              \/ \E u \in TaskIds : tasks'[u].session = tasks'[t].session /\ Delivered(u)'
  BY <1>3 DEF Earned
<1> QED
  BY <1>0, <1>1, <1>4, <1>5, <1>6 DEF EarnedInv, Exists, Earned

LEMMA EarnedTask ==
    ASSUME EarnedInv, NEW t \in TaskIds, TaskStep(t)
    PROVE  EarnedInv'
<1>0. TypeInv /\ Next /\ TypeInv'
  BY TypeTaskStep DEF EarnedInv, Next
<1>1. PICK s : s = tasks[t].session
  OBVIOUS
<1>2. /\ s \in Sessions
      /\ sessions' = [sessions EXCEPT ![s] = sessions'[s]] /\ halted' = halted
      /\ Exists(s) => sessions'[s] # None
      /\ ~Exists(s) => sessions'[s] = None
      /\ Exists(s) => \/ sessions'[s].status = sessions[s].status
                      \/ sessions'[s].status \in {"Active", "Error"}
                      \/ Finish(t) /\ sessions'[s].status = "Completed"
  BY <1>0, <1>1, TaskStepSession, NoneIsNoSession
<1>3. /\ tasks' = [tasks EXCEPT ![t] = tasks'[t]] /\ tasks'[t].session = s
      /\ tasks[t].at # "unborn" /\ Born(t)
      /\ tasks \in [TaskIds -> UploadTask] /\ sessions \in [Sessions -> UploadSession \cup {None}]
  BY <1>0, <1>1, TaskStepTask DEF TypeInv, TypeOK, Born
<1>4. \A u \in Sessions : Exists(u)' <=> Exists(u)
  BY <1>2, <1>3 DEF Exists
<1>5. ASSUME NEW u \in Sessions, Paused(u)'
      PROVE  u \in halted'
  BY <1>2, <1>3, <1>4, <1>5 DEF EarnedInv, Paused, Exists
<1>6. ASSUME NEW u \in TaskIds, NEW x, x = tasks'[u].session, Born(u)', sessions'[x] = None
      PROVE  x \in halted'
  <2>1. x = tasks[u].session /\ Born(u) /\ x \in Sessions
    BY <1>0, <1>1, <1>3, <1>6 DEF Born, TypeInv, TaskInv
  <2>2. ~Exists(x)
    BY <1>4, <1>6, <2>1 DEF Exists
  <2> QED
    BY <1>2, <2>1, <2>2 DEF EarnedInv
<1>7. ASSUME NEW u \in TaskIds, NEW x, x = tasks'[u].session,
             tasks'[u].at = "finish", tasks'[u].sent # tasks'[u].total
      PROVE  x \in halted' \/ Earned(x)'
  <2>1. x = tasks[u].session /\ x \in Sessions
    BY <1>0, <1>1, <1>3, <1>7 DEF TypeInv, TaskInv
  <2>2. CASE u # t
    <3>1. tasks'[u] = tasks[u]
      BY <1>3, <2>2
    <3>2. x \in halted \/ Earned(x)
      BY <1>7, <2>1, <3>1 DEF EarnedInv
    <3> QED
      BY <1>0, <1>2, <3>2, EarnedStays
  <2>3. CASE u = t
    <3>1. ~SessionActive(x)
      BY <1>0, <1>7, <2>1, <2>3, TaskPath
    <3>2. x \in halted \/ Earned(x)
      BY <1>1, <1>3, <2>1, <2>3, <3>1 DEF EarnedInv, SessionActive, Exists, Paused, Completed
    <3> QED
      BY <1>0, <1>2, <3>2, EarnedStays
  <2> QED
    BY <2>2, <2>3
<1>8. ASSUME NEW u \in Sessions, Completed(u)'
      PROVE  u \in halted' \/ Earned(u)'
  <2>1. CASE Completed(u)
    BY <1>0, <1>2, <2>1, EarnedStays DEF EarnedInv
  <2>2. CASE ~Completed(u)
    <3>1. u = s /\ Finish(t)
      BY <1>2, <1>3, <1>4, <1>8, <2>2 DEF Completed, Exists
    <3>2. tasks[t].at = "finish" /\ tasks'[t].at = "done"
          /\ tasks'[t].sent = tasks[t].sent /\ tasks'[t].total = tasks[t].total
      BY <1>0, <3>1, TaskPath
    <3>3. CASE tasks[t].sent = tasks[t].total
      BY <1>3, <3>1, <3>2, <3>3 DEF Earned, Delivered
    <3>4. CASE tasks[t].sent # tasks[t].total
      <4>1. u \in halted \/ Earned(u)
        BY <1>1, <3>1, <3>2, <3>4 DEF EarnedInv
      <4> QED
        BY <1>0, <1>2, <4>1, EarnedStays
    <3> QED
      BY <3>3, <3>4
  <2> QED
    BY <2>1, <2>2
<1>9. \A u \in TaskIds : Born(u)' /\ ~(sessions'[tasks'[u].session] # None) =>
                            tasks'[u].session \in halted'
  BY <1>6
<1>10. \A u \in TaskIds :
          tasks'[u].at = "finish" /\ tasks'[u].sent # tasks'[u].total =>
              \/ tasks'[u].session \in halted'
              \/ \E w \in TaskIds : tasks'[w].session = tasks'[u].session /\ Delivered(w)'
  BY <1>7 DEF Earned
<1> QED
  BY <1>0, <1>5, <1>8, <1>9, <1>10 DEF EarnedInv, Exists, Earned

\* Of a session that was requested for one file, and that the platform never paused,
\* stopped or ended, Completed says that a task of it sent that file to the end, whatever
\* the order of failures, seeks and steps of several upload tasks.
THEOREM CompletedEarned == Spec => []CompletedIsEarned
<1>1. Init => EarnedInv
  BY EarnedInit
<1>2. EarnedInv /\ [Next]_vars => EarnedInv'
  <2>1. CASE UNCHANGED vars
    BY <2>1, TypeNext DEF vars, EarnedInv, Paused, Completed, Exists, Earned, Delivered, Born
  <2>2. ASSUME EarnedInv, Next PROVE EarnedInv'
    BY <2>2, EarnedProcessor, EarnedTask DEF Next
  <2> QED
    BY <2>1, <2>2
<1>3. EarnedInv => CompletedIsEarned
  BY DEF EarnedInv, CompletedIsEarned, Earned, OneFile
<1> QED
  BY <1>1, <1>2, <1>3, PTL DEF Spec

(***************************************************************************)
(* A stop holds.  While the processor waits for the controller it keeps    *)
(* the session map, so that its session is as it marked it when it gets    *)
(* the controller: what SeekEnd and SetRateEnd overwrite is never the      *)
(* Completed of a task that finished meanwhile.                            *)
(***************************************************************************)

LockedInv ==
    /\ TypeInv
    /\ processor.at # "idle" =>
          sessions[processor.session].status \in {"Seeking", "RateChanging"}

\* No task changes a session while the processor keeps the map.
LEMMA TaskKeepsLocked ==
    ASSUME TypeInv, NEW t \in TaskIds, TaskStep(t), ~SessionsFree
    PROVE  sessions' = sessions
<1>1. CASE Start(t) \/ StoreIndex(t) \/ SeekStore(t) \/ Begin(t) \/ Account(t)
           \/ MarkError(t) \/ Finish(t)
  BY <1>1 DEF Start, StoreIndex, SeekStore, Begin, Account, MarkError, Finish, SetStatus
<1>2. CASE Open(t) \/ Seek(t) \/ SetRate(t) \/ ReadOffset(t) \/ ReadFails(t) \/ Check(t) \/ Send(t)
  BY <1>2 DEF Open, Seek, SetRate, ReadOffset, ReadFails, Check, Send
<1> QED
  BY <1>1, <1>2 DEF TaskStep

LEMMA LockedNext == ASSUME LockedInv, [Next]_vars PROVE LockedInv'
<1>0. TypeInv /\ TypeInv'
  BY TypeNext DEF LockedInv
<1>1. CASE UNCHANGED vars
  BY <1>0, <1>1 DEF vars, LockedInv
<1>2. ASSUME NEW s \in Sessions, NEW x \in UploadSession,
             sessions' = [sessions EXCEPT ![s] = x], processor'.session = s,
             x.status \in {"Seeking", "RateChanging"}
      PROVE  LockedInv'
  BY <1>0, <1>2 DEF LockedInv, TypeInv, TypeOK
<1>3. ASSUME NEW s \in Sessions, NEW p \in CommandSeeks, SeekBegin(s, p)
      PROVE  LockedInv'
  <2>1. sessions[s] \in UploadSession
    BY <1>0, <1>3 DEF SeekBegin, Exists, TypeInv, TypeOK
  <2>2. Marked(sessions[s], "Seeking") \in UploadSession
        /\ Marked(sessions[s], "Seeking").status = "Seeking"
    BY <2>1, SessionMarked DEF UploadStatus
  <2>3. sessions' = [sessions EXCEPT ![s] = Marked(sessions[s], "Seeking")] /\ processor'.session = s
    BY <1>3 DEF SeekBegin, Marked
  <2> QED
    BY <1>2, <2>2, <2>3
<1>4. ASSUME NEW s \in Sessions, NEW r \in CommandRates, SetRateBegin(s, r)
      PROVE  LockedInv'
  <2> DEFINE x == [sessions[s] EXCEPT !.status = "RateChanging", !.playback_rate = r]
  <2>1. sessions[s] \in UploadSession
    BY <1>0, <1>4 DEF SetRateBegin, Exists, TypeInv, TypeOK
  <2>2. x \in UploadSession /\ x.status = "RateChanging"
    BY <2>1, ConstantsOK DEF UploadSession, UploadStatus
  <2>3. sessions' = [sessions EXCEPT ![s] = x] /\ processor'.session = s
    BY <1>4 DEF SetRateBegin
  <2> HIDE DEF x
  <2> QED
    BY <1>2, <2>2, <2>3
<1>5. CASE \/ \E s \in Sessions, f \in Files, p \in RequestSeeks, r \in RequestRates :
                FileRequest(s, f, p, r)
           \/ \E s \in Sessions : Pause(s) \/ Resume(s) \/ Stop(s) \/ SessionEnd(s)
  <2>1. processor' = processor /\ processor.at = "idle"
    BY <1>5 DEF FileRequest, Pause, Resume, Stop, SessionEnd, Receive
  <2> QED
    BY <1>0, <2>1 DEF LockedInv
<1>6. CASE ProcessorStep
  BY <1>0, <1>6 DEF ProcessorStep, SeekEnd, SetRateEnd, Idle, LockedInv
<1>7. ASSUME NEW t \in TaskIds, TaskStep(t)
      PROVE  LockedInv'
  <2>1. processor' = processor
    BY <1>0, <1>7, TaskStepSession
  <2>2. CASE SessionsFree
    BY <1>0, <2>1, <2>2 DEF LockedInv, SessionsFree
  <2>3. CASE ~SessionsFree
    BY <1>0, <1>7, <2>1, <2>3, TaskKeepsLocked DEF LockedInv
  <2> QED
    BY <2>2, <2>3
<1> QED
  BY <1>1, <1>3, <1>4, <1>5, <1>6, <1>7 DEF Next, Message

\* A session reported Completed stays so until a message of the platform, except
\* for an upload task that had not started and for one whose send just failed.
THEOREM StopIsKept == Spec => StopHolds
<1> DEFINE Excused(s) ==
              \/ received' = received + 1
              \/ \E t \in TaskIds : tasks[t].session = s /\ tasks[t].at \in {"start", "error"}
<1>1. Init => LockedInv
  BY TypeInit DEF Init, Idle, LockedInv
<1>2. LockedInv /\ [Next]_vars => LockedInv'
  BY LockedNext
<1>3. ASSUME LockedInv, [Next]_vars, NEW s \in Sessions, Completed(s), ~Completed(s)'
      PROVE  Excused(s)
  <2>0. TypeInv /\ sessions \in [Sessions -> UploadSession \cup {None}]
    BY <1>3 DEF LockedInv, TypeInv, TypeOK
  <2>1. CASE UNCHANGED vars
    BY <1>3, <2>1 DEF vars, Completed, Exists
  <2>2. CASE Message
    BY <2>2 DEF Message, FileRequest, SeekBegin, SetRateBegin, Pause, Resume, Stop, SessionEnd, Receive
  <2>3. CASE ProcessorStep
    <3>1. s # processor.session
      BY <1>3, <2>3 DEF LockedInv, ProcessorStep, SeekEnd, SetRateEnd, Completed
    <3>2. sessions'[s] = sessions[s]
      BY <2>0, <2>3, <3>1, ProcessorStepSession
    <3> QED
      BY <1>3, <3>2 DEF Completed, Exists
  <2>4. ASSUME NEW t \in TaskIds, TaskStep(t)
        PROVE  Excused(s)
    <3>1. PICK u : u = tasks[t].session
      OBVIOUS
    <3>2. /\ sessions' = [sessions EXCEPT ![u] = sessions'[u]]
          /\ Exists(u) => sessions'[u] # None
          /\ Exists(u) => \/ sessions'[u].status = sessions[u].status
                          \/ Start(t) \/ MarkError(t)
                          \/ sessions'[u].status = "Completed"
      BY <2>0, <2>4, <3>1, TaskStepSession, NoneIsNoSession
    <3>3. s = u /\ (Start(t) \/ MarkError(t))
      BY <1>3, <2>0, <3>2 DEF Completed, Exists
    <3> QED
      BY <3>1, <3>3 DEF Start, MarkError
  <2> QED
    BY <1>3, <2>1, <2>2, <2>3, <2>4 DEF Next
<1>4. LockedInv /\ [Next]_vars =>
         \A s \in Sessions : Completed(s) /\ ~Completed(s)' => Excused(s)
  BY <1>3
<1>5. LockedInv /\ [Next]_vars =>
         [\A s \in Sessions :
             Completed(s) /\ ~Completed(s)' =>
                 \/ received' = received + 1
                 \/ \E t \in TaskIds : /\ tasks[t].session = s
                                       /\ tasks[t].at \in {"start", "error"}
         ]_vars
  BY <1>4
<1> QED
  BY <1>1, <1>2, <1>5, PTL DEF Spec, StopHolds

(***************************************************************************)
(* The only upload of a session.  What the session shows of it is what it   *)
(* has counted, and it reads from where its own seek went.  Neither is      *)
(* inductive: a session may be removed while its task goes on, so that what *)
(* a task was given has to be told at each of its steps; and a session that *)
(* exists has had a task, so that a Seek never spawns its first.            *)
(***************************************************************************)

Reported(r) == r.sent - (IF r.at = "account" THEN 1 ELSE 0)

CountsOf(r, x) == x # None =>
    /\ x.uploaded_segments = Reported(r)
    /\ x.total_bytes_transmitted = Reported(r)
    /\ x.total_segments = r.total

Target(r) ==
    IF r.seek # None /\ r.seek > 0 /\ r.indexed THEN KeyframeAt(r.file, r.seek) ELSE 0

\* From here on r has its offset, and what it sends comes from there.
Placed(r, x) ==
    \/ r.at \in {"send", "account"} \/ r.sent > 0
    \/ x # None /\ r.at \in {"begin", "check"}

PlaceOf(r, x) ==
    /\ x # None /\ r.at \in {"start", "open", "store", "seek", "seekStore"} =>
           x.last_seek_result = None
    /\ x # None /\ r.at \in {"rate", "offset"} =>
           IF r.seek # None /\ r.indexed
             THEN /\ x.last_seek_result \in Nat
                  /\ x.last_seek_result = KeyframeAt(r.file, r.seek)
             ELSE x.last_seek_result = None
    /\ r.file \notin Generic /\ Placed(r, x) => r.offset = Target(r)

SoleOf(r, x) == CountsOf(r, x) /\ PlaceOf(r, x)

SoleInv ==
    /\ TypeInv
    /\ \A s \in Sessions : Exists(s) => \E t \in TaskIds : Born(t) /\ tasks[t].session = s
    /\ \A t \in TaskIds : Sole(t) => SoleOf(tasks[t], sessions[tasks[t].session])

\* n is r at another step.
Same(n, r) ==
    /\ n.session = r.session /\ n.file = r.file /\ n.seek = r.seek /\ n.indexed = r.indexed
    /\ n.offset = r.offset /\ n.total = r.total /\ n.sent = r.sent

\* The session y shows of its upload what x showed, if it is still there.
Shows(y, x) ==
    /\ x = None => y = None
    /\ y # None => /\ y.uploaded_segments = x.uploaded_segments
                   /\ y.total_bytes_transmitted = x.total_bytes_transmitted
                   /\ y.total_segments = x.total_segments
                   /\ y.last_seek_result = x.last_seek_result

LEMMA GoToRecord ==
    ASSUME TypeInv, NEW t \in TaskIds, NEW step, GoTo(t, step)
    PROVE  tasks'[t].at = step /\ Same(tasks'[t], tasks[t])
<1>1. tasks \in [TaskIds -> UploadTask] /\ tasks[t] \in UploadTask
  BY DEF TypeInv, TypeOK
<1>2. PICK n : n = [tasks[t] EXCEPT !.at = step]
  OBVIOUS
<1>3. n.at = step /\ Same(n, tasks[t])
  BY <1>1, <1>2 DEF UploadTask, Same
<1>4. tasks'[t] = n
  BY <1>1, <1>2 DEF GoTo
<1> QED
  BY <1>3, <1>4

\* Neither the status nor the index is part of what a session shows.
LEMMA SessionTold ==
    ASSUME NEW x \in UploadSession, NEW v
    PROVE  /\ Shows([x EXCEPT !.status = v], x)
           /\ Shows([x EXCEPT !.keyframe_index = v], x)
           /\ Shows(x, x)
<1>1. PICK y : y = [x EXCEPT !.status = v]
  OBVIOUS
<1>2. PICK z : z = [x EXCEPT !.keyframe_index = v]
  OBVIOUS
<1>3. Shows(y, x)
  BY <1>1, NoneIsNoSession DEF UploadSession, Shows
<1>4. Shows(z, x)
  BY <1>2, NoneIsNoSession DEF UploadSession, Shows
<1> QED
  BY <1>1, <1>2, <1>3, <1>4 DEF Shows

LEMMA StatusTold ==
    ASSUME TypeInv, NEW t \in TaskIds, NEW s \in Sessions, s = tasks[t].session,
           NEW status, SetStatus(t, status)
    PROVE  Shows(sessions'[s], sessions[s])
<1>1. sessions \in [Sessions -> UploadSession \cup {None}]
  BY DEF TypeInv, TypeOK
<1>2. PICK y : y = [sessions[s] EXCEPT !.status = status]
  OBVIOUS
<1>3. CASE sessions[s] = None
  <2>1. sessions' = sessions
    BY <1>3 DEF SetStatus, Exists
  <2> QED
    BY <1>3, <2>1 DEF Shows
<1>4. CASE sessions[s] # None
  <2>1. sessions' = [sessions EXCEPT ![s] = y]
    BY <1>2, <1>4 DEF SetStatus, Exists
  <2>2. sessions[s] \in UploadSession
    BY <1>1, <1>4
  <2>3. Shows(y, sessions[s])
    BY <1>2, <2>2, SessionTold
  <2> QED
    BY <1>1, <2>1, <2>3
<1> QED
  BY <1>3, <1>4

\* A task that goes to another step, tells its session nothing new and neither
\* was nor is at a step that counts.
LEMMA SoleMoves ==
    ASSUME NEW r \in UploadTask, NEW n, NEW x, NEW y, TaskInv(r),
           Same(n, r), Shows(y, x), SoleOf(r, x), r.at # "account", n.at # "account",
           \/ <<r.at, n.at>> \in {<<"start", "open">>, <<"rate", "offset">>, <<"send", "error">>,
                                  <<"check", "finish">>, <<"error", "failed">>, <<"finish", "done">>}
           \/ n.at = "failed"
           \/ r.at = "store" /\ r.seek = None /\ n.at = "rate"
           \/ r.at = "store" /\ n.at = "seek"
           \/ r.at = "seek" /\ ~r.indexed /\ n.at = "rate"
           \/ r.at = "seek" /\ n.at = "seekStore"
           \/ r.at = "check" /\ x # None /\ n.at = "send"
    PROVE  SoleOf(n, y)
<1>1. CountsOf(n, y)
  BY DEF SoleOf, CountsOf, Reported, Same, Shows
<1>2. Target(n) = Target(r)
  BY DEF Target, Same
<1>3. Placed(n, y) => Placed(r, x)
  BY DEF Placed, Same, Shows, TaskInv
<1>4. n.file \notin Generic /\ Placed(n, y) => n.offset = Target(n)
  BY <1>2, <1>3 DEF SoleOf, PlaceOf, Same
<1>5. PlaceOf(n, y)
  BY <1>4 DEF SoleOf, PlaceOf, Same, Shows
<1> QED
  BY <1>1, <1>5 DEF SoleOf

\* A step of a task keeps what its session shows of it, and where it reads.
LEMMA SoleTask ==
    ASSUME TypeInv, NEW t \in TaskIds, TaskStep(t), NEW s, s = tasks[t].session,
           SoleOf(tasks[t], sessions[s])
    PROVE  SoleOf(tasks'[t], sessions'[s])
<1>1. PICK r : r = tasks[t]
  OBVIOUS
<1>2. PICK n : n = tasks'[t]
  OBVIOUS
<1>3. PICK x : x = sessions[s]
  OBVIOUS
<1>4. PICK y : y = sessions'[s]
  OBVIOUS
<1>0. /\ r \in UploadTask /\ TaskInv(r) /\ tasks \in [TaskIds -> UploadTask]
      /\ sessions \in [Sessions -> UploadSession \cup {None}] /\ s \in Sessions
      /\ r.file \in Files /\ x \in UploadSession \cup {None} /\ SoleOf(r, x)
  BY <1>1, <1>3, TaskStepTask DEF TypeInv, TypeOK, TaskInv
<1>s. sessions' = sessions => Shows(y, x)
  BY <1>3, <1>4 DEF Shows
<1>5. CASE Start(t) \/ MarkError(t) \/ Finish(t)
  <2>1. PICK step, status : /\ GoTo(t, step) /\ SetStatus(t, status)
                            /\ <<r.at, step>> \in {<<"start", "open">>, <<"error", "failed">>,
                                                   <<"finish", "done">>}
    BY <1>1, <1>5 DEF Start, MarkError, Finish
  <2>2. Shows(y, x) /\ n.at = step /\ Same(n, r)
    BY <1>0, <1>1, <1>2, <1>3, <1>4, <2>1, StatusTold, GoToRecord
  <2> QED
    BY <1>0, <1>1, <1>2, <1>3, <1>4, <2>1, <2>2, SoleMoves
<1>6. CASE Open(t)
  <2>1. r.at = "open" /\ Shows(y, x) /\ r.sent = 0
    BY <1>0, <1>1, <1>6, <1>s DEF Open, TaskInv
  <2>2. CASE GoTo(t, "failed")
    <3>1. n.at = "failed" /\ Same(n, r)
      BY <1>1, <1>2, <2>2, GoToRecord
    <3> QED
      BY <1>0, <1>1, <1>2, <1>3, <1>4, <2>1, <3>1, SoleMoves
  <2>3. ASSUME NEW b \in BOOLEAN, tasks' = [tasks EXCEPT ![t].at = "store", ![t].indexed = b]
        PROVE  SoleOf(n, y)
    <3>1. PICK m : m = [r EXCEPT !.at = "store"]
      OBVIOUS
    <3>2. /\ m \in UploadTask /\ m.at = "store" /\ m.sent = r.sent /\ m.total = r.total
          /\ m.file = r.file
      BY <1>0, <3>1 DEF UploadTask, TaskSteps
    <3>3. n = [m EXCEPT !.indexed = b]
      BY <1>0, <1>1, <1>2, <2>3, <3>1
    <3>4. n.at = "store" /\ n.sent = 0 /\ n.total = r.total /\ n.file = r.file
      BY <2>1, <3>2, <3>3 DEF UploadTask
    <3> QED
      BY <1>0, <2>1, <3>4 DEF SoleOf, CountsOf, PlaceOf, Placed, Reported, Shows
  <2> QED
    BY <1>2, <1>4, <1>6, <2>2, <2>3 DEF Open
<1>7. CASE StoreIndex(t)
  <2>1. PICK index : /\ r.at = "store"
                     /\ sessions' = IF Exists(s) THEN [sessions EXCEPT ![s].keyframe_index = index]
                                                 ELSE sessions
                     /\ GoTo(t, IF r.seek = None THEN "rate" ELSE "seek")
    BY <1>1, <1>7 DEF StoreIndex
  <2>2. Shows(y, x)
    <3>1. CASE Exists(s)
      <4>1. PICK z : z = [x EXCEPT !.keyframe_index = index]
        OBVIOUS
      <4>2. x \in UploadSession
        BY <1>0, <1>3, <3>1 DEF Exists
      <4>3. Shows(z, x)
        BY <4>1, <4>2, SessionTold
      <4> QED
        BY <1>0, <1>3, <1>4, <2>1, <3>1, <4>1, <4>3
    <3> QED
      BY <1>s, <2>1, <3>1
  <2>3. PICK step : step = IF r.seek = None THEN "rate" ELSE "seek"
    OBVIOUS
  <2>4. n.at = step /\ Same(n, r)
    BY <1>1, <1>2, <2>1, <2>3, GoToRecord
  <2> QED
    BY <1>0, <1>1, <1>2, <1>3, <1>4, <2>1, <2>2, <2>3, <2>4, SoleMoves
<1>8. CASE Seek(t)
  <2>1. PICK step : GoTo(t, step) /\ \/ step = "failed"
                                     \/ step = "rate" /\ ~r.indexed
                                     \/ step = "seekStore"
    BY <1>0, <1>1, <1>8, ConstantsOK DEF Seek
  <2>2. r.at = "seek" /\ Shows(y, x)
    BY <1>1, <1>8, <1>s DEF Seek
  <2>3. n.at = step /\ Same(n, r)
    BY <1>1, <1>2, <2>1, GoToRecord
  <2> QED
    BY <1>0, <1>1, <1>2, <1>3, <1>4, <2>1, <2>2, <2>3, SoleMoves
<1>9. CASE SeekStore(t)
  <2>1. PICK k : k = KeyframeAt(r.file, r.seek)
    OBVIOUS
  <2>2. r.at = "seekStore" /\ r.seek # None /\ r.seek \in Int /\ ~SeekRefused(r.file, r.seek) /\ r.indexed
        /\ r.sent = 0
    BY <1>0, <1>1, <1>9 DEF SeekStore, TaskInv, UploadTask
  <2>3. k \in Nat
    <3>1. k \in Keyframes[r.file] /\ Keyframes[r.file] \subseteq Nat
      BY <1>0, <2>1, <2>2, KeyframeFound, ConstantsOK
    <3> QED
      BY <3>1
  <2>4. n.at = "rate" /\ Same(n, r)
    BY <1>1, <1>2, <1>9, GoToRecord DEF SeekStore
  <2>5. CASE x = None
    <3>1. Shows(y, x)
      BY <1>1, <1>3, <1>9, <1>s, <2>5 DEF SeekStore, Exists
    <3> QED
      BY <1>0, <1>2, <1>4, <2>2, <2>4, <2>5, <3>1
         DEF SoleOf, CountsOf, PlaceOf, Placed, Same, Shows
  <2>6. CASE x # None
    <3>1. x \in UploadSession
      BY <1>0, <2>6
    <3>2. PICK z : z = [x EXCEPT !.current_position = k]
      OBVIOUS
    <3>3. z \in UploadSession /\ z.uploaded_segments = x.uploaded_segments
          /\ z.total_bytes_transmitted = x.total_bytes_transmitted
          /\ z.total_segments = x.total_segments
      BY <2>3, <3>1, <3>2 DEF UploadSession
    <3>4. PICK w : w = [z EXCEPT !.last_seek_result = k]
      OBVIOUS
    <3>5. /\ w.uploaded_segments = x.uploaded_segments /\ w.last_seek_result = k
          /\ w.total_bytes_transmitted = x.total_bytes_transmitted
          /\ w.total_segments = x.total_segments
      BY <3>3, <3>4 DEF UploadSession
    <3>6. y = w
      <4>1. sessions' = [sessions EXCEPT ![s].current_position = k, ![s].last_seek_result = k]
        BY <1>1, <1>3, <1>9, <2>1, <2>6 DEF SeekStore, Exists
      <4>2. PICK g : g = [sessions EXCEPT ![s].current_position = k]
        OBVIOUS
      <4>3. DOMAIN g = Sessions /\ g[s] = z
        BY <1>0, <1>3, <3>2, <4>2
      <4>4. sessions' = [g EXCEPT ![s].last_seek_result = k]
        BY <4>1, <4>2
      <4> QED
        BY <1>0, <1>4, <3>4, <4>3, <4>4
    <3> QED
      BY <1>0, <1>2, <1>4, <2>1, <2>2, <2>3, <2>4, <2>6, <3>5, <3>6
         DEF SoleOf, CountsOf, PlaceOf, Placed, Reported, Same
  <2> QED
    BY <1>2, <1>4, <2>5, <2>6
<1>10. CASE SetRate(t)
  <2>1. PICK step : GoTo(t, step) /\ step \in {"failed", "offset"}
    BY <1>10 DEF SetRate
  <2>2. r.at = "rate" /\ Shows(y, x)
    BY <1>1, <1>10, <1>s DEF SetRate
  <2>3. n.at = step /\ Same(n, r)
    BY <1>1, <1>2, <2>1, GoToRecord
  <2> QED
    BY <1>0, <1>1, <1>2, <1>3, <1>4, <2>1, <2>2, <2>3, SoleMoves
<1>11. CASE ReadOffset(t)
  <2>1. PICK k : k = IF Seeks(t) /\ x # None /\ x.last_seek_result # None
                       THEN x.last_seek_result ELSE 0
    OBVIOUS
  <2>2. r.at = "offset" /\ Shows(y, x) /\ r.sent = 0 /\ (Seeks(t) <=> r.seek # None /\ r.seek > 0)
    BY <1>0, <1>1, <1>11, <1>s DEF ReadOffset, TaskInv, Seeks
  <2>3. tasks' = [tasks EXCEPT ![t].at = "begin", ![t].offset = k]
    BY <1>1, <1>3, <1>11, <2>1 DEF ReadOffset, Exists
  <2>4. PICK m : m = [r EXCEPT !.at = "begin"]
    OBVIOUS
  <2>5. m \in UploadTask /\ m.at = "begin" /\ Same(m, r)
    BY <1>0, <2>4 DEF UploadTask, TaskSteps, Same
  <2>6. n = [m EXCEPT !.offset = k]
    BY <1>0, <1>1, <1>2, <2>3, <2>4
  <2>7. /\ n.at = "begin" /\ n.sent = r.sent /\ n.total = r.total /\ n.file = r.file
        /\ n.seek = r.seek /\ n.indexed = r.indexed /\ n.offset = k
    BY <2>5, <2>6 DEF UploadTask, Same
  <2>8. CountsOf(n, y)
    BY <1>0, <2>2, <2>7 DEF SoleOf, CountsOf, Reported, Shows
  <2>9. y # None => k = Target(n)
    <3>1. Target(n) = Target(r)
      BY <2>7 DEF Target
    <3>2. y # None => x # None
      BY <2>2 DEF Shows
    <3>3. x # None => IF r.seek # None /\ r.indexed
                        THEN /\ x.last_seek_result \in Nat
                             /\ x.last_seek_result = KeyframeAt(r.file, r.seek)
                        ELSE x.last_seek_result = None
      BY <1>0, <2>2 DEF SoleOf, PlaceOf
    <3> QED
      BY <2>1, <2>2, <3>1, <3>2, <3>3, ConstantsOK DEF Target
  <2>10. PlaceOf(n, y)
    BY <2>2, <2>7, <2>9 DEF PlaceOf, Placed
  <2> QED
    BY <1>2, <1>4, <2>8, <2>10 DEF SoleOf
<1>12. CASE ReadFails(t)
  <2>1. r.at = "begin" /\ Shows(y, x) /\ n.at = "failed" /\ Same(n, r)
    BY <1>1, <1>2, <1>12, <1>s, GoToRecord DEF ReadFails
  <2> QED
    BY <1>0, <1>1, <1>2, <1>3, <1>4, <2>1, SoleMoves
<1>13. CASE Begin(t)
  <2>1. PICK total, skip : skip = GenericSkip(t) /\ total = Remaining(t) - GenericSkip(t)
    OBVIOUS
  <2>2. r.at = "begin" /\ r.sent = 0
    BY <1>0, <1>1, <1>13 DEF Begin, TaskInv
  <2>3. total \in Nat /\ skip \in Nat /\ (r.file \notin Generic => skip = 0)
    BY <1>1, <2>1, <2>2, GenericSkipBounded DEF GenericSkip
  <2>4. n.at = "check" /\ n.total = total /\ n.offset = r.offset + skip /\ n.sent = 0
        /\ n.file = r.file /\ n.seek = r.seek /\ n.indexed = r.indexed
    <3>1. tasks' = [tasks EXCEPT ![t].at = "check", ![t].total = total, ![t].offset = @ + skip]
      BY <1>13, <2>1 DEF Begin
    <3>2. PICK m : m = [r EXCEPT !.at = "check"]
      OBVIOUS
    <3>3. m \in UploadTask /\ m.at = "check" /\ Same(m, r)
      BY <1>0, <3>2 DEF UploadTask, TaskSteps, Same
    <3>4. PICK p : p = [m EXCEPT !.total = total]
      OBVIOUS
    <3>5. /\ p \in UploadTask /\ p.at = "check" /\ p.total = total /\ p.offset = r.offset
          /\ p.sent = r.sent /\ p.file = r.file /\ p.seek = r.seek /\ p.indexed = r.indexed
      BY <2>3, <3>3, <3>4 DEF UploadTask, Same
    <3>6. PICK q : q = [p EXCEPT !.offset = @ + skip]
      OBVIOUS
    <3>7. /\ q.at = "check" /\ q.total = total /\ q.offset = r.offset + skip
          /\ q.sent = r.sent /\ q.file = r.file /\ q.seek = r.seek /\ q.indexed = r.indexed
      BY <3>5, <3>6 DEF UploadTask
    <3>8. n = q
      <4>1. PICK g : g = [tasks EXCEPT ![t].at = "check"]
        OBVIOUS
      <4>2. DOMAIN g = TaskIds /\ g[t] = m
        BY <1>0, <1>1, <3>2, <4>1
      <4>3. PICK h : h = [g EXCEPT ![t].total = total]
        OBVIOUS
      <4>4. DOMAIN h = TaskIds /\ h[t] = p
        BY <3>4, <4>2, <4>3
      <4>5. tasks' = [h EXCEPT ![t].offset = @ + skip]
        BY <3>1, <4>1, <4>3
      <4> QED
        BY <1>2, <3>6, <4>4, <4>5
    <3> QED
      BY <2>2, <3>7, <3>8
  <2>5. CountsOf(n, y)
    <3>1. CASE x = None
      <4>1. Shows(y, x)
        BY <1>1, <1>3, <1>13, <1>s, <3>1 DEF Begin, Exists
      <4> QED
        BY <3>1, <4>1 DEF CountsOf, Shows
    <3>2. CASE x # None
      <4>1. x \in UploadSession /\ x.uploaded_segments = 0
        BY <1>0, <2>2, <3>2 DEF SoleOf, CountsOf, Reported
      <4>2. PICK z : z = [x EXCEPT !.total_segments = total]
        OBVIOUS
      <4>3. z \in UploadSession /\ z.uploaded_segments = 0 /\ z.total_segments = total
        BY <2>3, <4>1, <4>2 DEF UploadSession
      <4>4. PICK w : w = [z EXCEPT !.total_bytes_transmitted = 0]
        OBVIOUS
      <4>5. w.uploaded_segments = 0 /\ w.total_segments = total /\ w.total_bytes_transmitted = 0
        BY <4>3, <4>4 DEF UploadSession
      <4>6. sessions' = [sessions EXCEPT ![s].total_segments = total,
                                         ![s].total_bytes_transmitted = 0]
        BY <1>1, <1>3, <1>13, <2>1, <3>2 DEF Begin, Exists
      <4>7. PICK g : g = [sessions EXCEPT ![s].total_segments = total]
        OBVIOUS
      <4>8. DOMAIN g = Sessions /\ g[s] = z
        BY <1>0, <1>3, <4>2, <4>7
      <4>9. sessions' = [g EXCEPT ![s].total_bytes_transmitted = 0]
        BY <4>6, <4>7
      <4>10. y = w
        BY <1>0, <1>4, <4>4, <4>8, <4>9
      <4> QED
        BY <2>4, <4>5, <4>10 DEF CountsOf, Reported
    <3> QED
      BY <3>1, <3>2
  <2>6. y # None => x # None
    BY <1>1, <1>3, <1>4, <1>13 DEF Begin, Exists
  <2>7. n.file \notin Generic /\ y # None => n.offset = Target(n)
    <3>1. Target(n) = Target(r)
      BY <2>4 DEF Target
    <3>2. r.file \notin Generic /\ x # None => r.offset = Target(r)
      BY <1>0, <2>2 DEF SoleOf, PlaceOf, Placed
    <3>3. r.offset \in Nat
      BY <1>0 DEF UploadTask
    <3> QED
      BY <2>3, <2>4, <2>6, <3>1, <3>2, <3>3
  <2>8. PlaceOf(n, y)
    BY <2>4, <2>7 DEF PlaceOf, Placed
  <2> QED
    BY <1>2, <1>4, <2>5, <2>8 DEF SoleOf
<1>14. CASE Check(t)
  <2>1. PICK step : GoTo(t, step) /\ (step = "finish" \/ (step = "send" /\ x # None))
    BY <1>1, <1>3, <1>14 DEF Check, SessionActive, Exists
  <2>2. r.at = "check" /\ Shows(y, x)
    BY <1>1, <1>14, <1>s DEF Check
  <2>3. n.at = step /\ Same(n, r)
    BY <1>1, <1>2, <2>1, GoToRecord
  <2> QED
    BY <1>0, <1>1, <1>2, <1>3, <1>4, <2>1, <2>2, <2>3, SoleMoves
<1>15. CASE Send(t)
  <2>1. r.at = "send" /\ Shows(y, x)
    BY <1>1, <1>15, <1>s DEF Send
  <2>2. CASE GoTo(t, "error")
    <3>1. n.at = "error" /\ Same(n, r)
      BY <1>1, <1>2, <2>2, GoToRecord
    <3> QED
      BY <1>0, <1>1, <1>2, <1>3, <1>4, <2>1, <3>1, SoleMoves
  <2>3. CASE tasks' = [tasks EXCEPT ![t].at = "account", ![t].sent = @ + 1]
    <3>1. PICK m : m = [r EXCEPT !.at = "account"]
      OBVIOUS
    <3>2. m \in UploadTask /\ m.at = "account" /\ Same(m, r)
      BY <1>0, <3>1 DEF UploadTask, TaskSteps, Same
    <3>3. n = [m EXCEPT !.sent = @ + 1]
      BY <1>0, <1>1, <1>2, <2>3, <3>1
    <3>4. /\ n.at = "account" /\ n.sent = r.sent + 1 /\ n.total = r.total /\ n.file = r.file
          /\ n.seek = r.seek /\ n.indexed = r.indexed /\ n.offset = r.offset
      BY <3>2, <3>3 DEF UploadTask, Same
    <3>5. r.sent \in Nat
      BY <1>0 DEF UploadTask
    <3>6. CountsOf(n, y)
      BY <1>0, <2>1, <3>4, <3>5 DEF SoleOf, CountsOf, Reported, Shows
    <3>7. Target(n) = Target(r)
      BY <3>4 DEF Target
    <3>8. PlaceOf(n, y)
      BY <1>0, <2>1, <3>4, <3>7 DEF SoleOf, PlaceOf, Placed
    <3> QED
      BY <1>2, <1>4, <3>6, <3>8 DEF SoleOf
  <2> QED
    BY <1>15, <2>2, <2>3 DEF Send
<1>16. CASE Account(t)
  <2>1. r.at = "account" /\ n.at = "check" /\ Same(n, r)
    BY <1>1, <1>2, <1>16, GoToRecord DEF Account
  <2>2. CountsOf(n, y)
    <3>1. CASE x = None
      <4>1. Shows(y, x)
        BY <1>1, <1>3, <1>16, <1>s, <3>1 DEF Account, Exists
      <4> QED
        BY <3>1, <4>1 DEF CountsOf, Shows
    <3>2. CASE x # None
      <4>1. /\ x \in UploadSession /\ x.total_bytes_transmitted = r.sent - 1
            /\ x.total_segments = r.total /\ r.sent \in Nat
        BY <1>0, <2>1, <3>2 DEF SoleOf, CountsOf, Reported, UploadTask
      <4>2. PICK z : z = [x EXCEPT !.uploaded_segments = r.sent]
        OBVIOUS
      <4>3. /\ z \in UploadSession /\ z.uploaded_segments = r.sent
            /\ z.total_segments = r.total /\ z.total_bytes_transmitted = r.sent - 1
        BY <4>1, <4>2 DEF UploadSession
      <4>4. PICK w : w = [z EXCEPT !.total_bytes_transmitted = @ + 1]
        OBVIOUS
      <4>5. /\ w.uploaded_segments = r.sent /\ w.total_segments = r.total
            /\ w.total_bytes_transmitted = r.sent
        BY <4>1, <4>3, <4>4 DEF UploadSession
      <4>6. sessions' = [sessions EXCEPT ![s].uploaded_segments = r.sent,
                                         ![s].total_bytes_transmitted = @ + 1]
        BY <1>1, <1>3, <1>16, <3>2 DEF Account, Exists
      <4>7. PICK g : g = [sessions EXCEPT ![s].uploaded_segments = r.sent]
        OBVIOUS
      <4>8. DOMAIN g = Sessions /\ g[s] = z
        BY <1>0, <1>3, <4>2, <4>7
      <4>9. sessions' = [g EXCEPT ![s].total_bytes_transmitted = @ + 1]
        BY <4>6, <4>7
      <4>10. y = w
        BY <1>0, <1>4, <4>4, <4>8, <4>9
      <4> QED
        BY <2>1, <4>1, <4>5, <4>10 DEF CountsOf, Reported, Same
    <3> QED
      BY <3>1, <3>2
  <2>3. Target(n) = Target(r)
    BY <2>1 DEF Target, Same
  <2>4. PlaceOf(n, y)
    BY <1>0, <2>1, <2>3 DEF SoleOf, PlaceOf, Placed, Same
  <2> QED
    BY <1>2, <1>4, <2>2, <2>4 DEF SoleOf
<1> QED
  BY <1>5, <1>6, <1>7, <1>8, <1>9, <1>10, <1>11, <1>12, <1>13, <1>14, <1>15, <1>16 DEF TaskStep

\* What the processor does to the sessions: it spawns a task, the first of its
\* session only for a FileRequest, or leaves what the sessions show.
Requests(s, f, p, r) ==
    /\ Spawn(s, f, p, r)
    /\ \/ sessions' = [sessions EXCEPT ![s] = NewSession(f, p, r)]
       \/ Exists(s) /\ \E x : sessions' = [sessions EXCEPT ![s] = x]

LEMMA MarkedShows ==
    ASSUME TypeInv, NEW s \in Sessions, Exists(s), NEW v,
           sessions' = [sessions EXCEPT ![s].status = v]
    PROVE  \A u \in Sessions : Shows(sessions'[u], sessions[u])
<1>1. sessions \in [Sessions -> UploadSession \cup {None}] /\ sessions[s] \in UploadSession
  BY DEF TypeInv, TypeOK, Exists
<1>2. PICK y : y = [sessions[s] EXCEPT !.status = v]
  OBVIOUS
<1>3. Shows(y, sessions[s])
  BY <1>1, <1>2, SessionTold
<1>4. sessions' = [sessions EXCEPT ![s] = y]
  BY <1>2
<1>5. \A u \in Sessions : u # s => sessions'[u] = sessions[u]
  BY <1>1, <1>4
<1>6. sessions'[s] = y
  BY <1>1, <1>4
<1> QED
  BY <1>3, <1>5, <1>6 DEF Shows

LEMMA ProcessorShows ==
    ASSUME TypeInv, Message \/ ProcessorStep
    PROVE  \/ \E s \in Sessions, f \in Files, p \in Int \cup {None}, r \in Int :
                 Requests(s, f, p, r)
           \/ tasks' = tasks /\ \A u \in Sessions : Shows(sessions'[u], sessions[u])
<1>0. sessions \in [Sessions -> UploadSession \cup {None}] /\ processor \in Processor
  BY DEF TypeInv, TypeOK
<1>1. ASSUME NEW s \in Sessions, NEW f \in Files, NEW p \in RequestSeeks, NEW r \in RequestRates,
             FileRequest(s, f, p, r)
      PROVE  Requests(s, f, p, r) /\ p \in Int \cup {None} /\ r \in Int
  BY <1>1, ConstantsOK DEF FileRequest, Requests
<1>2. ASSUME NEW s \in Sessions, NEW p \in CommandSeeks, SeekBegin(s, p)
      PROVE  tasks' = tasks /\ \A u \in Sessions : Shows(sessions'[u], sessions[u])
  BY <1>2, MarkedShows DEF SeekBegin
<1>3. ASSUME NEW s \in Sessions, NEW r \in CommandRates, SetRateBegin(s, r)
      PROVE  tasks' = tasks /\ \A u \in Sessions : Shows(sessions'[u], sessions[u])
  <2>1. /\ sessions' = [sessions EXCEPT ![s].status = "RateChanging", ![s].playback_rate = r]
        /\ sessions[s] \in UploadSession /\ tasks' = tasks
    BY <1>0, <1>3 DEF SetRateBegin, Exists
  <2>2. PICK y : y = [sessions[s] EXCEPT !.status = "RateChanging"]
    OBVIOUS
  <2>3. y \in UploadSession /\ Shows(y, sessions[s])
    BY <2>1, <2>2, SessionTold DEF UploadSession, UploadStatus
  <2>4. PICK z : z = [y EXCEPT !.playback_rate = r]
    OBVIOUS
  <2>5. Shows(z, sessions[s])
    BY <2>1, <2>3, <2>4, NoneIsNoSession DEF UploadSession, Shows
  <2>6. PICK g : g = [sessions EXCEPT ![s].status = "RateChanging"]
    OBVIOUS
  <2>7. DOMAIN g = Sessions /\ g[s] = y /\ \A u \in Sessions : u # s => g[u] = sessions[u]
    BY <1>0, <2>2, <2>6
  <2>8. sessions' = [g EXCEPT ![s].playback_rate = r]
    BY <2>1, <2>6
  <2>9. sessions'[s] = z /\ \A u \in Sessions : u # s => sessions'[u] = sessions[u]
    BY <2>4, <2>7, <2>8
  <2> QED
    BY <2>1, <2>5, <2>9 DEF Shows
<1>4. ASSUME NEW s \in Sessions, Pause(s) \/ Resume(s) \/ Stop(s) \/ SessionEnd(s)
      PROVE  tasks' = tasks /\ \A u \in Sessions : Shows(sessions'[u], sessions[u])
  <2>1. CASE SessionEnd(s)
    <3>1. sessions' = [sessions EXCEPT ![s] = None] /\ tasks' = tasks
      BY <2>1 DEF SessionEnd
    <3> QED
      BY <1>0, <3>1 DEF Shows
  <2>2. CASE Pause(s) \/ Resume(s) \/ Stop(s)
    <3>1. Exists(s) /\ tasks' = tasks
          /\ \E status : sessions' = [sessions EXCEPT ![s].status = status]
      BY <2>2 DEF Pause, Resume, Stop
    <3> QED
      BY <3>1, MarkedShows
  <2> QED
    BY <1>4, <2>1, <2>2
<1>5. CASE Message
  BY <1>1, <1>2, <1>3, <1>4, <1>5 DEF Message
<1>6. CASE SetRateEnd
  <2>1. /\ processor.session \in Sessions /\ Exists(processor.session) /\ tasks' = tasks
        /\ \E status : sessions' = [sessions EXCEPT ![processor.session].status = status]
    BY <1>6 DEF SetRateEnd, TypeInv
  <2> QED
    BY <2>1, MarkedShows
<1>7. CASE SeekEnd
  <2> DEFINE s == processor.session
             p == processor.arg
             index == sessions[s].keyframe_index
             actual == IF index = None THEN p ELSE KeyframeAt(index, p)
  <2>1. s \in Sessions /\ Exists(s)
    BY <1>7 DEF SeekEnd, TypeInv
  <2>2. CASE SeekRefused(index, p)
    <3>1. sessions' = [sessions EXCEPT ![s].status = "Error"] /\ tasks' = tasks
      BY <1>7, <2>2 DEF SeekEnd
    <3> QED
      BY <2>1, <3>1, MarkedShows
  <2>3. CASE ~SeekRefused(index, p)
    <3>1. /\ sessions[s] \in UploadSession /\ sessions[s].file \in Files
          /\ sessions[s].playback_rate \in Int /\ p \in Int /\ index \in Files \cup {None}
      BY <1>0, <2>1 DEF Exists, UploadSession, Processor
    <3>2. actual \in Int
      BY <2>3, <3>1, KeyframeFound, ConstantsOK
    <3>3. Spawn(s, sessions[s].file, actual, sessions[s].playback_rate)
      BY <1>7, <2>3 DEF SeekEnd
    <3>4. \E x : sessions' = [sessions EXCEPT ![s] = x]
      BY <1>7, <2>3 DEF SeekEnd
    <3> HIDE DEF actual
    <3> QED
      BY <2>1, <3>1, <3>2, <3>3, <3>4 DEF Requests
  <2> QED
    BY <2>2, <2>3
<1> QED
  BY <1>5, <1>6, <1>7 DEF ProcessorStep

\* A new task and its new session have nothing to show, and start before the seek.
LEMMA NewIsSole ==
    ASSUME NEW s \in Sessions, NEW f \in Files, NEW p \in Int \cup {None}, NEW r \in Int
    PROVE  SoleOf(NewTask(s, f, p, r), NewSession(f, p, r))
<1>1. PICK n : n = NewTask(s, f, p, r)
  OBVIOUS
<1>2. n.at = "start" /\ n.sent = 0 /\ n.total = 0
  BY <1>1 DEF NewTask, Unborn
<1>3. PICK x : x = NewSession(f, p, r)
  OBVIOUS
<1>4. /\ x.uploaded_segments = 0 /\ x.total_bytes_transmitted = 0
      /\ x.total_segments = 0 /\ x.last_seek_result = None
  BY <1>3 DEF NewSession
<1>5. SoleOf(n, x)
  BY <1>2, <1>4 DEF SoleOf, CountsOf, PlaceOf, Placed, Reported
<1> QED
  BY <1>1, <1>3, <1>5

LEMMA UnbornSession == ASSUME TypeInv, NEW t \in TaskIds, Born(t) PROVE tasks[t].session \in Sessions
  BY DEF TypeInv, TaskInv, Born

LEMMA SoleSpawn ==
    ASSUME SoleInv, TypeInv', NEW s \in Sessions, NEW f \in Files, NEW p \in Int \cup {None},
           NEW r \in Int, Requests(s, f, p, r)
    PROVE  SoleInv'
<1>0. TypeInv /\ sessions \in [Sessions -> UploadSession \cup {None}]
      /\ tasks \in [TaskIds -> UploadTask]
  BY DEF SoleInv, TypeInv, TypeOK
<1>1. PICK n : n = NewTask(s, f, p, r)
  OBVIOUS
<1>2. PICK k \in TaskIds : tasks' = [tasks EXCEPT ![k] = n] /\ tasks[k] = Unborn
  BY <1>0, <1>1, TypeSpawn DEF Requests
<1>3. n.session = s /\ n.at = "start"
  BY <1>1, NewTaskOK
<1>4. tasks'[k] = n /\ \A t \in TaskIds : t # k => tasks'[t] = tasks[t]
  BY <1>0, <1>2
<1>5. ~Born(k)
  BY <1>2 DEF Born, Unborn
<1>6. \A u \in Sessions : u # s => sessions'[u] = sessions[u]
  BY <1>0 DEF Requests
<1>7. ASSUME NEW u \in Sessions, Exists(u)'
      PROVE  \E t \in TaskIds : Born(t)' /\ tasks'[t].session = u
  <2>1. CASE u = s
    BY <1>3, <1>4, <2>1 DEF Born
  <2>2. CASE u # s
    <3>1. Exists(u)
      BY <1>6, <1>7, <2>2 DEF Exists
    <3>2. PICK t \in TaskIds : Born(t) /\ tasks[t].session = u
      BY <3>1 DEF SoleInv
    <3>3. tasks'[t] = tasks[t]
      BY <1>4, <1>5, <3>2
    <3> QED
      BY <3>2, <3>3 DEF Born
  <2> QED
    BY <2>1, <2>2
<1>8. ASSUME NEW t \in TaskIds, Sole(t)'
      PROVE  SoleOf(tasks'[t], sessions'[tasks'[t].session])
  <2>0. /\ tasks'[t].at # "unborn"
        /\ \A u \in TaskIds : u # t => tasks'[u].session # tasks'[t].session
    BY <1>8 DEF Sole, Born
  <2>1. CASE t = k
    <3>1. \A u \in TaskIds : Born(u) => tasks[u].session # s
      BY <1>3, <1>4, <1>5, <2>0, <2>1
    <3>2. ~Exists(s)
      BY <3>1 DEF SoleInv
    <3>3. sessions' = [sessions EXCEPT ![s] = NewSession(f, p, r)]
      BY <3>2 DEF Requests
    <3>4. sessions'[s] = NewSession(f, p, r)
      BY <1>0, <3>3
    <3> QED
      BY <1>1, <1>3, <1>4, <2>1, <3>4, NewIsSole
  <2>2. CASE t # k
    <3>1. tasks'[t] = tasks[t]
      BY <1>4, <2>2
    <3>2. Born(t)
      BY <2>0, <3>1 DEF Born
    <3>3. tasks[t].session # s
      BY <1>3, <1>4, <2>0, <2>2, <3>1
    <3>4. \A u \in TaskIds : u # t => tasks[u].session # tasks[t].session
      <4>1. ASSUME NEW u \in TaskIds, u # t PROVE tasks[u].session # tasks[t].session
        <5>1. CASE u = k
          <6>1. tasks[u].session = None
            BY <1>2, <5>1 DEF Unborn
          <6> QED
            BY <1>0, <3>2, <6>1, UnbornSession, ConstantsOK
        <5>2. CASE u # k
          BY <1>4, <2>0, <3>1, <4>1, <5>2
        <5> QED
          BY <5>1, <5>2
      <4> QED
        BY <4>1
    <3>5. Sole(t)
      BY <3>2, <3>4 DEF Sole
    <3>6. tasks[t].session \in Sessions
      BY <1>0, <3>2, UnbornSession
    <3>7. sessions'[tasks[t].session] = sessions[tasks[t].session]
      BY <1>6, <3>3, <3>6
    <3> QED
      BY <3>1, <3>5, <3>7 DEF SoleInv
  <2> QED
    BY <2>1, <2>2
<1>9. \A u \in Sessions : sessions'[u] # None =>
          \E t \in TaskIds : tasks'[t].at # "unborn" /\ tasks'[t].session = u
  BY <1>7 DEF Exists, Born
<1> QED
  BY <1>8, <1>9 DEF SoleInv, Exists, Born

LEMMA SoleQuiet ==
    ASSUME SoleInv, TypeInv', tasks' = tasks,
           \A u \in Sessions : Shows(sessions'[u], sessions[u])
    PROVE  SoleInv'
<1>1. \A u \in Sessions : sessions'[u] # None => sessions[u] # None
  BY DEF Shows
<1>2. \A u \in Sessions : sessions'[u] # None =>
          \E t \in TaskIds : tasks'[t].at # "unborn" /\ tasks'[t].session = u
  BY <1>1 DEF SoleInv, Exists, Born
<1>3. ASSUME NEW t \in TaskIds, Sole(t)'
      PROVE  SoleOf(tasks'[t], sessions'[tasks'[t].session])
  <2>1. Sole(t) /\ Born(t)
    BY <1>3 DEF Sole, Born
  <2>2. tasks[t].session \in Sessions
    BY <2>1, UnbornSession DEF SoleInv
  <2>3. PICK r, x, y : r = tasks[t] /\ x = sessions[tasks[t].session] /\ y = sessions'[tasks[t].session]
    OBVIOUS
  <2>4. SoleOf(r, x) /\ Shows(y, x)
    BY <2>1, <2>2, <2>3 DEF SoleInv
  <2>5. CountsOf(r, y)
    BY <2>4 DEF SoleOf, CountsOf, Shows
  <2>6. Placed(r, y) => Placed(r, x)
    BY <2>4 DEF Placed, Shows
  <2>7. PlaceOf(r, y)
    BY <2>4, <2>6 DEF SoleOf, PlaceOf, Shows
  <2> QED
    BY <2>3, <2>5, <2>7 DEF SoleOf
<1> QED
  BY <1>2, <1>3 DEF SoleInv, Exists, Born

LEMMA SoleTaskStep ==
    ASSUME SoleInv, NEW t \in TaskIds, TaskStep(t)
    PROVE  SoleInv'
<1>0. TypeInv /\ TypeInv'
  BY TypeTaskStep DEF SoleInv
<1>1. PICK s : s = tasks[t].session
  OBVIOUS
<1>2. /\ s \in Sessions /\ sessions' = [sessions EXCEPT ![s] = sessions'[s]]
      /\ Exists(s) => sessions'[s] # None
      /\ ~Exists(s) => sessions'[s] = None
  BY <1>0, <1>1, TaskStepSession, NoneIsNoSession
<1>3. /\ tasks' = [tasks EXCEPT ![t] = tasks'[t]] /\ tasks'[t].session = s
      /\ tasks[t].at # "unborn" /\ tasks'[t].at # "unborn"
      /\ tasks \in [TaskIds -> UploadTask] /\ sessions \in [Sessions -> UploadSession \cup {None}]
  BY <1>0, <1>1, TaskStepTask DEF TypeInv, TypeOK
<1>4. /\ \A u \in TaskIds : u # t => tasks'[u] = tasks[u]
      /\ \A u \in Sessions : u # s => sessions'[u] = sessions[u]
  BY <1>2, <1>3
<1>5. /\ \A u \in TaskIds : tasks'[u].session = tasks[u].session
      /\ \A u \in TaskIds : tasks'[u].at # "unborn" <=> tasks[u].at # "unborn"
  BY <1>1, <1>3, <1>4
<1>6. \A u \in Sessions : sessions'[u] # None => sessions[u] # None
  BY <1>2, <1>4 DEF Exists
<1>7. \A u \in Sessions : sessions'[u] # None =>
          \E k \in TaskIds : tasks'[k].at # "unborn" /\ tasks'[k].session = u
  BY <1>5, <1>6 DEF SoleInv, Exists, Born
<1>8. ASSUME NEW u \in TaskIds, Sole(u)'
      PROVE  SoleOf(tasks'[u], sessions'[tasks'[u].session])
  <2>1. Sole(u) /\ Born(u)
    BY <1>5, <1>8 DEF Sole, Born
  <2>2. SoleOf(tasks[u], sessions[tasks[u].session]) /\ tasks[u].session \in Sessions
    BY <1>0, <2>1, UnbornSession DEF SoleInv
  <2>3. CASE u = t
    BY <1>0, <1>1, <1>3, <2>2, <2>3, SoleTask
  <2>4. CASE u # t
    <3>1. tasks[u].session # s
      BY <1>1, <2>1, <2>4 DEF Sole
    <3> QED
      BY <1>4, <2>2, <2>4, <3>1
  <2> QED
    BY <2>3, <2>4
<1> QED
  BY <1>0, <1>7, <1>8 DEF SoleInv, Exists, Born

LEMMA SoleInit == Init => SoleInv
<1> SUFFICES ASSUME Init PROVE SoleInv
  OBVIOUS
<1>1. TypeInv
  BY TypeInit
<1>2. \A t \in TaskIds : ~Born(t)
  BY DEF Init, Born, Unborn
<1>3. \A s \in Sessions : ~Exists(s)
  BY DEF Init, Exists
<1> QED
  BY <1>1, <1>2, <1>3 DEF SoleInv, Sole

LEMMA SoleNext == ASSUME SoleInv, [Next]_vars PROVE SoleInv'
<1>0. TypeInv'
  BY TypeNext DEF SoleInv
<1>1. CASE UNCHANGED vars
  <2>1. tasks' = tasks /\ \A u \in Sessions : Shows(sessions'[u], sessions[u])
    BY <1>1 DEF vars, Shows
  <2> QED
    BY <1>0, <2>1, SoleQuiet
<1>2. CASE Message \/ ProcessorStep
  <2>1. TypeInv
    BY DEF SoleInv
  <2> QED
    BY <1>0, <1>2, <2>1, ProcessorShows, SoleSpawn, SoleQuiet
<1> QED
  BY <1>1, <1>2, SoleTaskStep DEF Next

\* While a session has one upload task, the client's status command shows what that
\* task sent, at most one segment behind and never more than there is, whatever the
\* platform sends meanwhile.
THEOREM SoleAccounted == Spec => []SoleUploadAccounted
<1>1. ASSUME SoleInv, NEW t \in TaskIds, Sole(t), Exists(tasks[t].session)
      PROVE  LET s == tasks[t].session
                 reported == tasks[t].sent - (IF tasks[t].at = "account" THEN 1 ELSE 0)
             IN  /\ sessions[s].uploaded_segments = reported
                 /\ sessions[s].total_bytes_transmitted = reported
                 /\ sessions[s].total_segments = tasks[t].total
                 /\ reported <= tasks[t].total
  <2>1. PICK r, x : r = tasks[t] /\ x = sessions[tasks[t].session]
    OBVIOUS
  <2>2. CountsOf(r, x) /\ x # None
    BY <1>1, <2>1 DEF SoleInv, SoleOf, Exists
  <2>3. r.sent \in Nat /\ r.total \in Nat /\ r.sent <= r.total
    BY <1>1, <2>1 DEF SoleInv, TypeInv, TaskInv, UploadTask
  <2>4. /\ x.uploaded_segments = Reported(r) /\ x.total_bytes_transmitted = Reported(r)
        /\ x.total_segments = r.total /\ Reported(r) <= r.total
    BY <2>2, <2>3 DEF CountsOf, Reported
  <2> QED
    BY <2>1, <2>4 DEF Reported
<1>2. SoleInv => SoleUploadAccounted
  BY <1>1 DEF SoleUploadAccounted
<1> QED
  BY <1>2, SoleInit, SoleNext, PTL DEF Spec

\* While a session has one upload task, that task reads from the keyframe of its own
\* seek, in whatever order the platform's commands and the task's steps come.
THEOREM SoleStartsAtKeyframe == Spec => []SoleUploadStartsAtKeyframe
<1>1. ASSUME SoleInv, NEW t \in TaskIds, Sole(t), tasks[t].sent > 0, tasks[t].file \notin Generic
      PROVE  tasks[t].offset = SeekTarget(t)
  <2>1. PICK r, x : r = tasks[t] /\ x = sessions[tasks[t].session]
    OBVIOUS
  <2>2. PlaceOf(r, x) /\ Placed(r, x) /\ r.file \notin Generic
    BY <1>1, <2>1 DEF SoleInv, SoleOf, Placed
  <2>3. r.offset = Target(r)
    BY <2>2 DEF PlaceOf
  <2> QED
    BY <2>1, <2>3 DEF Target, SeekTarget, Seeks
<1>2. SoleInv => SoleUploadStartsAtKeyframe
  BY <1>1 DEF SoleUploadStartsAtKeyframe
<1> QED
  BY <1>2, SoleInit, SoleNext, PTL DEF Spec

=============================================================================

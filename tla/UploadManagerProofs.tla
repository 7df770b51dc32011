------------------------ MODULE UploadManagerProofs -------------------------
(***************************************************************************)
(* Theorems about the upload manager, for any number of calls of            *)
(* start_upload, of calls of the user and of segments.                      *)
(***************************************************************************)
EXTENDS UploadManager, TLAPS

(***************************************************************************)
(* What one upload counts.  Before it has stored its session it counted     *)
(* nothing; what it counted was sent, failed, or is in hand.                *)
(***************************************************************************)

CountInv(r) ==
    /\ r.at \in {"new", "validate", "store"} =>
          r.segment_count = 0 /\ r.transmitted_count = 0 /\ r.errors = 0
    /\ r.transmitted_count <= r.segment_count - Count(r.at \in {"count", "send"})
    /\ r.at = "progress" => r.transmitted_count # 0
    /\ r.segment_count
         <= r.transmitted_count + r.errors + Count(r.at \in {"count", "send", "error"})

\* The caller sets what may be set.
CallerInv == caller.at \in {"control", "apply"} => caller.setting \in Settings

TypeInv == TypeOK /\ CallerInv /\ \A u \in Uploads : CountInv(upload[u])

LEMMA TypeInit == Init => TypeInv
<1> SUFFICES ASSUME Init PROVE TypeInv
  OBVIOUS
<1> DEFINE r == [at |-> "new", via |-> None, segment_count |-> 0, transmitted_count |-> 0, errors |-> 0]
<1>1. r \in Upload /\ CountInv(r)
  BY DEF Upload, CountInv, Count
<1>2. \A u \in Uploads : upload[u] = r
  BY DEF Init
<1>3. controller \in [Settings -> {0, 1, NewValue}]
  BY DEF Init, Initial
<1>4. upload \in [Uploads -> Upload]
  BY <1>1 DEF Init
<1>5. calls \in 0 .. MaxCalls
  BY ManagerOK DEF Init
<1> HIDE DEF r
<1>6. TypeOK
  BY <1>3, <1>4, <1>5 DEF Init, TypeOK
<1> QED
  BY <1>1, <1>2, <1>6 DEF Init, TypeInv, CallerInv

LEMMA Moved ==
    ASSUME TypeOK, NEW u \in Uploads, NEW state, Goto(u, state)
    PROVE  /\ upload' = [upload EXCEPT ![u] = [upload[u] EXCEPT !.at = state]]
           /\ upload'[u] = [upload[u] EXCEPT !.at = state]
           /\ \A v \in Uploads : v # u => upload'[v] = upload[v]
  BY DEF Goto, TypeOK

LEMMA MovedOK ==
    ASSUME NEW r \in Upload, CountInv(r), NEW state \in Starting \cup Uploading \cup Ended,
           state \in {"validate", "store"} => r.at \in {"new", "validate", "store"},
           state \in {"count", "send"} => r.at \in {"count", "send"},
           r.at \in {"count", "send", "error"} => state \in {"send", "error"},
           state # "progress"
    PROVE  [r EXCEPT !.at = state] \in Upload /\ CountInv([r EXCEPT !.at = state])
<1> DEFINE s == [r EXCEPT !.at = state]
<1>1. /\ s \in Upload /\ s.at = state /\ s.segment_count = r.segment_count
      /\ s.transmitted_count = r.transmitted_count /\ s.errors = r.errors
  BY DEF Upload
<1>2. /\ r.segment_count \in Nat /\ r.transmitted_count \in Nat /\ r.errors \in Nat
  BY DEF Upload
<1> HIDE DEF s
<1>3. CountInv(s)
  <2>1. state # "new"
    BY DEF Starting, Uploading, Ended
  <2> QED
    BY <1>1, <1>2, <2>1 DEF CountInv, Count
<1> QED
  BY <1>1, <1>3 DEF s

\* A step of an upload leaves the others, and the record of its own as it should be.
Records(u) ==
    /\ upload' \in [Uploads -> Upload]
    /\ \A v \in Uploads : v # u => upload'[v] = upload[v]
    /\ CountInv(upload'[u])

LEMMA GotoRecord ==
    ASSUME TypeInv, NEW u \in Uploads, NEW state \in Starting \cup Uploading \cup Ended,
           Goto(u, state),
           state \in {"validate", "store"} => upload[u].at \in {"new", "validate", "store"},
           state \in {"count", "send"} => upload[u].at \in {"count", "send"},
           upload[u].at \in {"count", "send", "error"} => state \in {"send", "error"},
           state # "progress"
    PROVE  Records(u)
<1>1. upload[u] \in Upload /\ CountInv(upload[u]) /\ upload \in [Uploads -> Upload]
  BY DEF TypeInv, TypeOK
<1>2. PICK r : r = [upload[u] EXCEPT !.at = state]
  OBVIOUS
<1>3. r \in Upload /\ CountInv(r)
  BY <1>1, <1>2, MovedOK
<1>4. upload' = [upload EXCEPT ![u] = r]
  BY <1>2, Moved DEF TypeInv
<1> QED
  BY <1>1, <1>3, <1>4 DEF Records

LEMMA UploadStepRecord ==
    ASSUME TypeInv, NEW u \in Uploads, UploadStep(u)
    PROVE  Records(u)
<1> USE DEF Starting, Uploading, Ended
<1>1. CASE CheckRunning(u) \/ ValidateFile(u) \/ StoreSession(u) \/ SetRunning(u) \/ Activate(u)
  BY <1>1, GotoRecord DEF CheckRunning, ValidateFile, StoreSession, SetRunning, Activate
<1>2. CASE EstablishConnection(u) \/ StoreConnection(u) \/ OpenFile(u) \/ UpdateTotal(u)
  BY <1>2, GotoRecord DEF EstablishConnection, StoreConnection, OpenFile, UpdateTotal, MayFail
<1>3. CASE UpdateProgress(u) \/ CloseFile(u) \/ CompleteSession(u) \/ ClearRunning(u)
  BY <1>3, GotoRecord DEF UpdateProgress, CloseFile, CompleteSession, ClearRunning, MayFail
<1>0. /\ upload \in [Uploads -> Upload] /\ upload[u] \in Upload /\ CountInv(upload[u])
      /\ upload[u].segment_count \in Nat /\ upload[u].transmitted_count \in Nat
      /\ upload[u].errors \in Nat /\ connection \in Uploads \cup {None}
  BY DEF TypeInv, TypeOK, Upload
<1>4. CASE GetConnection(u)
  <2>1. PICK s : s = [[upload[u] EXCEPT !.at = IF connection = None THEN "panicked" ELSE "open"]
                         EXCEPT !.via = connection]
    OBVIOUS
  <2>2. /\ s \in Upload /\ s.at \in {"panicked", "open"} /\ s.segment_count = upload[u].segment_count
        /\ s.transmitted_count = upload[u].transmitted_count /\ s.errors = upload[u].errors
    BY <1>0, <2>1 DEF Upload
  <2>3. upload' = [upload EXCEPT ![u] = s] /\ upload[u].at = "get"
    BY <1>0, <1>4, <2>1 DEF GetConnection
  <2>4. CountInv(s)
    BY <1>0, <2>2, <2>3 DEF CountInv, Count
  <2> QED
    BY <1>0, <2>2, <2>3, <2>4 DEF Records
<1>5. CASE NextSegment(u)
  <2>1. CASE upload' = [upload EXCEPT ![u].at = "count", ![u].segment_count = @ + 1]
    <3>1. PICK r : r = [upload[u] EXCEPT !.at = "count"]
      OBVIOUS
    <3>2. /\ r \in Upload /\ r.at = "count" /\ r.segment_count = upload[u].segment_count
          /\ r.transmitted_count = upload[u].transmitted_count /\ r.errors = upload[u].errors
      BY <1>0, <3>1 DEF Upload
    <3>3. PICK s : s = [r EXCEPT !.segment_count = @ + 1]
      OBVIOUS
    <3>4. /\ s \in Upload /\ s.at = "count" /\ s.segment_count = upload[u].segment_count + 1
          /\ s.transmitted_count = upload[u].transmitted_count /\ s.errors = upload[u].errors
      BY <1>0, <3>2, <3>3 DEF Upload
    <3>5. upload' = [upload EXCEPT ![u] = s] /\ upload[u].at = "next"
      <4>1. PICK t : t = [upload EXCEPT ![u].at = "count"]
        OBVIOUS
      <4>2. /\ t \in [Uploads -> Upload] /\ t[u] = r
            /\ \A v \in Uploads : v # u => t[v] = upload[v]
        BY <1>0, <3>1, <3>2, <4>1
      <4>3. upload' = [t EXCEPT ![u].segment_count = upload[u].segment_count + 1]
        BY <1>0, <1>5, <2>1, <4>1 DEF NextSegment
      <4>4. upload' = [t EXCEPT ![u] = s]
        BY <3>2, <3>3, <4>2, <4>3
      <4> QED
        BY <1>0, <1>5, <2>1, <4>1, <4>2, <4>4 DEF NextSegment
    <3>6. CountInv(s)
      BY <1>0, <3>4, <3>5 DEF CountInv, Count
    <3> QED
      BY <1>0, <3>4, <3>5, <3>6 DEF Records
  <2> QED
    BY <1>5, <2>1, GotoRecord DEF NextSegment
<1>6. CASE SendSegment(u)
  <2>1. CASE upload' = [upload EXCEPT ![u].at = "progress", ![u].transmitted_count = @ + 1]
    <3>1. PICK r : r = [upload[u] EXCEPT !.at = "progress"]
      OBVIOUS
    <3>2. /\ r \in Upload /\ r.at = "progress" /\ r.segment_count = upload[u].segment_count
          /\ r.transmitted_count = upload[u].transmitted_count /\ r.errors = upload[u].errors
      BY <1>0, <3>1 DEF Upload
    <3>3. PICK s : s = [r EXCEPT !.transmitted_count = @ + 1]
      OBVIOUS
    <3>4. /\ s \in Upload /\ s.at = "progress" /\ s.transmitted_count = upload[u].transmitted_count + 1
          /\ s.segment_count = upload[u].segment_count /\ s.errors = upload[u].errors
      BY <1>0, <3>2, <3>3 DEF Upload
    <3>5. upload' = [upload EXCEPT ![u] = s] /\ upload[u].at = "send"
      <4>1. PICK t : t = [upload EXCEPT ![u].at = "progress"]
        OBVIOUS
      <4>2. /\ t \in [Uploads -> Upload] /\ t[u] = r
            /\ \A v \in Uploads : v # u => t[v] = upload[v]
        BY <1>0, <3>1, <3>2, <4>1
      <4>3. upload' = [t EXCEPT ![u].transmitted_count = upload[u].transmitted_count + 1]
        BY <1>0, <1>6, <2>1, <4>1 DEF SendSegment
      <4>4. upload' = [t EXCEPT ![u] = s]
        BY <3>2, <3>3, <4>2, <4>3
      <4> QED
        BY <1>0, <1>6, <2>1, <4>1, <4>2, <4>4 DEF SendSegment
    <3>6. CountInv(s)
      BY <1>0, <3>4, <3>5 DEF CountInv, Count
    <3> QED
      BY <1>0, <3>4, <3>5, <3>6 DEF Records
  <2> QED
    BY <1>6, <2>1, GotoRecord DEF SendSegment
<1>7. CASE HandleError(u)
  <2>1. PICK r : r = [upload[u] EXCEPT !.at = "next"]
    OBVIOUS
  <2>2. /\ r \in Upload /\ r.at = "next" /\ r.segment_count = upload[u].segment_count
        /\ r.transmitted_count = upload[u].transmitted_count /\ r.errors = upload[u].errors
    BY <1>0, <2>1 DEF Upload
  <2>3. PICK s : s = [r EXCEPT !.errors = @ + 1]
    OBVIOUS
  <2>4. /\ s \in Upload /\ s.at = "next" /\ s.errors = upload[u].errors + 1
        /\ s.segment_count = upload[u].segment_count /\ s.transmitted_count = upload[u].transmitted_count
    BY <1>0, <2>2, <2>3 DEF Upload
  <2>5. upload' = [upload EXCEPT ![u] = s] /\ upload[u].at = "error"
    <3>1. PICK t : t = [upload EXCEPT ![u].at = "next"]
      OBVIOUS
    <3>2. /\ t \in [Uploads -> Upload] /\ t[u] = r
          /\ \A v \in Uploads : v # u => t[v] = upload[v]
      BY <1>0, <2>1, <2>2, <3>1
    <3>3. upload' = [t EXCEPT ![u].errors = upload[u].errors + 1]
      BY <1>0, <1>7, <3>1 DEF HandleError
    <3>4. upload' = [t EXCEPT ![u] = s]
      BY <2>2, <2>3, <3>2, <3>3
    <3> QED
      BY <1>0, <1>7, <3>1, <3>2, <3>4 DEF HandleError
  <2>6. CountInv(s)
    BY <1>0, <2>4, <2>5 DEF CountInv, Count
  <2> QED
    BY <1>0, <2>4, <2>5, <2>6 DEF Records
<1> QED
  BY <1>1, <1>2, <1>3, <1>4, <1>5, <1>6, <1>7 DEF UploadStep

(***************************************************************************)
(* Types.                                                                  *)
(***************************************************************************)

\* A part of the whole, in per cent.
LEMMA PerCent ==
    ASSUME NEW a \in Nat, NEW b \in Nat, b # 0, a <= b
    PROVE  (100 * a) \div b \in 0 .. 100
<1>1. PICK q : q = (100 * a) \div b
  OBVIOUS
<1>2. q \in Int /\ q * b <= 100 * a /\ 100 * a < (q + 1) * b
  BY <1>1
<1>3. q <= 100
  <2>1. SUFFICES ASSUME q >= 101 PROVE FALSE
    BY <1>2
  <2>2. q * b >= 101 * b
    BY <1>2, <2>1
  <2> QED
    BY <1>2, <2>2
<1>4. q >= 0
  <2>1. SUFFICES ASSUME q + 1 <= 0 PROVE FALSE
    BY <1>2
  <2>2. (q + 1) * b <= 0
    BY <1>2, <2>1
  <2> QED
    BY <1>2, <2>2
<1> QED
  BY <1>1, <1>2, <1>3, <1>4

SessionOK == current_session' \in Session \cup {None}

LEMMA UploadSessionOK ==
    ASSUME TypeInv, NEW u \in Uploads, UploadStep(u)
    PROVE  SessionOK
<1>0. /\ current_session \in Session \cup {None} /\ upload[u] \in Upload /\ CountInv(upload[u])
      /\ upload[u].segment_count \in Nat /\ upload[u].transmitted_count \in Nat
  BY DEF TypeInv, TypeOK, Upload
<1>1. CASE UNCHANGED current_session
  BY <1>0, <1>1 DEF SessionOK
<1>2. CASE StoreSession(u)
  BY <1>2 DEF StoreSession, SessionOK, Session, Initial
<1>3. CASE Activate(u)
  BY <1>0, <1>3 DEF Activate, SessionUpdate, SessionOK, Session
<1>4. CASE UpdateTotal(u)
  BY <1>0, <1>4 DEF UpdateTotal, SessionUpdate, SessionOK, Session
<1>5. CASE UpdateProgress(u)
  <2>1. (100 * upload[u].transmitted_count) \div upload[u].segment_count \in 0 .. 100
    <3>1. /\ upload[u].segment_count # 0
          /\ upload[u].transmitted_count <= upload[u].segment_count
      BY <1>0, <1>5 DEF UpdateProgress, CountInv, Count
    <3> QED
      BY <1>0, <3>1, PerCent
  <2>2. PICK p \in 0 .. 100 : p = (100 * upload[u].transmitted_count) \div upload[u].segment_count
    BY <2>1
  <2>3. CASE current_session \in Session
    <3>1. PICK x : x = [current_session EXCEPT !.transmitted_segments = upload[u].transmitted_count]
      OBVIOUS
    <3>2. x \in Session
      BY <1>0, <2>3, <3>1 DEF Session
    <3>3. [x EXCEPT !.progress = p] \in Session
      BY <3>2 DEF Session
    <3>4. current_session' = IF current_session = None THEN None ELSE [x EXCEPT !.progress = p]
      BY <1>5, <2>2, <3>1 DEF UpdateProgress, SessionUpdate
    <3> QED
      BY <3>3, <3>4 DEF SessionOK
  <2>4. CASE current_session = None
    BY <1>5, <2>4 DEF UpdateProgress, SessionUpdate, SessionOK
  <2> QED
    BY <1>0, <2>3, <2>4
<1>6. CASE HandleError(u)
  BY <1>0, <1>6 DEF HandleError, SessionUpdate, SessionOK, Session
<1>7. CASE CompleteSession(u)
  <2>1. CASE current_session \in Session
    <3>1. PICK x : x = [current_session EXCEPT !.status = "Completed"]
      OBVIOUS
    <3>2. x \in Session
      BY <2>1, <3>1 DEF Session
    <3>3. [x EXCEPT !.progress = 100] \in Session
      BY <3>2 DEF Session
    <3>4. current_session' = IF current_session = None THEN None ELSE [x EXCEPT !.progress = 100]
      BY <1>7, <3>1 DEF CompleteSession, SessionUpdate
    <3> QED
      BY <3>3, <3>4 DEF SessionOK
  <2>2. CASE current_session = None
    BY <1>7, <2>2 DEF CompleteSession, SessionUpdate, SessionOK
  <2> QED
    BY <1>0, <2>1, <2>2
<1>8. CASE \/ CheckRunning(u) \/ ValidateFile(u) \/ SetRunning(u) \/ EstablishConnection(u)
           \/ StoreConnection(u) \/ GetConnection(u) \/ OpenFile(u) \/ NextSegment(u)
           \/ SendSegment(u) \/ CloseFile(u) \/ ClearRunning(u)
  BY <1>1, <1>8 DEF CheckRunning, ValidateFile, SetRunning, EstablishConnection, StoreConnection,
                    GetConnection, OpenFile, NextSegment, SendSegment, CloseFile, ClearRunning, MayFail
<1> QED
  BY <1>2, <1>3, <1>4, <1>5, <1>6, <1>7, <1>8 DEF UploadStep

LEMMA TypeUpload ==
    ASSUME TypeInv, NEW u \in Uploads, UploadStep(u)
    PROVE  TypeInv'
<1>1. Records(u) /\ SessionOK
  BY UploadStepRecord, UploadSessionOK
<1>2. /\ is_running' \in BOOLEAN /\ connection' \in Uploads \cup {None}
      /\ UNCHANGED callerVars /\ stopped' \subseteq Uploads
      /\ overlapped' \in BOOLEAN /\ raced' \in BOOLEAN /\ interrupted' \in BOOLEAN
  <2>0. /\ is_running \in BOOLEAN /\ connection \in Uploads \cup {None} /\ stopped \subseteq Uploads
        /\ overlapped \in BOOLEAN /\ raced \in BOOLEAN /\ interrupted \in BOOLEAN
    BY DEF TypeInv, TypeOK
  <2>1. CASE CheckRunning(u) \/ ValidateFile(u) \/ StoreSession(u) \/ SetRunning(u) \/ Activate(u)
    BY <2>0, <2>1 DEF CheckRunning, ValidateFile, StoreSession, SetRunning, Activate, history
  <2>2. CASE \/ EstablishConnection(u) \/ StoreConnection(u) \/ GetConnection(u) \/ OpenFile(u)
             \/ NextSegment(u) \/ UpdateTotal(u)
    BY <2>0, <2>2 DEF EstablishConnection, StoreConnection, GetConnection, OpenFile, NextSegment,
                      UpdateTotal, MayFail, history
  <2>3. CASE \/ SendSegment(u) \/ UpdateProgress(u) \/ HandleError(u) \/ CloseFile(u)
             \/ CompleteSession(u) \/ ClearRunning(u)
    BY <2>0, <2>3 DEF SendSegment, UpdateProgress, HandleError, CloseFile, CompleteSession,
                      ClearRunning, MayFail, history
  <2> QED
    BY <2>1, <2>2, <2>3 DEF UploadStep
<1>3. TypeOK'
  BY <1>1, <1>2 DEF TypeInv, TypeOK, Records, SessionOK, callerVars
<1>4. CallerInv'
  BY <1>2 DEF TypeInv, CallerInv, callerVars
<1>5. \A v \in Uploads : CountInv(upload[v])'
  <2>1. ASSUME NEW v \in Uploads PROVE CountInv(upload[v]')
    BY <1>1 DEF TypeInv, Records
  <2> QED
    BY <2>1 DEF CountInv
<1> QED
  BY <1>3, <1>4, <1>5 DEF TypeInv

CallerStep == CallStop \/ CallShutdown \/ CallAdjust \/ CallerContinues

LEMMA TypeCaller == ASSUME TypeInv, CallerStep PROVE TypeInv'
<1>0. /\ TypeOK /\ CallerInv /\ MaxCalls \in Nat /\ calls \in 0 .. MaxCalls
      /\ current_session \in Session \cup {None}
      /\ controller \in [Settings -> {0, 1, NewValue}]
      /\ caller.setting \in Settings \cup {None}
  BY ManagerOK DEF TypeInv, TypeOK
<1>1. upload' = upload
  BY DEF CallerStep, CallStop, CallShutdown, CallAdjust, CallerContinues, ShutdownStops, StopUpload,
         Refused, PauseSession, DropConnection, AdjustController, AdjustSession
<1>2. SessionOK
  <2>1. CASE UNCHANGED current_session
    BY <1>0, <2>1 DEF SessionOK
  <2>2. CASE PauseSession
    BY <1>0, <2>2 DEF PauseSession, SessionUpdate, SessionOK, Session
  <2>3. CASE AdjustSession
    <3>1. CASE current_session \in Session
      <4>1. caller.setting \in Settings
        BY <1>0, <2>3 DEF AdjustSession, CallerInv
      <4>2. PICK f : f = [current_session.settings EXCEPT ![caller.setting] = NewValue]
        OBVIOUS
      <4>3. f \in [Settings -> {0, 1, NewValue}]
        BY <3>1, <4>1, <4>2 DEF Session
      <4>4. [current_session EXCEPT !.settings = f] \in Session
        BY <3>1, <4>3 DEF Session
      <4>5. current_session' = IF current_session = None THEN None
                               ELSE [current_session EXCEPT !.settings = f]
        BY <2>3, <4>2 DEF AdjustSession, SessionUpdate
      <4> QED
        BY <4>4, <4>5 DEF SessionOK
    <3>2. CASE current_session = None
      BY <2>3, <3>2 DEF AdjustSession, SessionUpdate, SessionOK
    <3> QED
      BY <1>0, <3>1, <3>2
  <2> QED
    BY <2>1, <2>2, <2>3 DEF CallerStep, CallStop, CallShutdown, CallAdjust, CallerContinues,
         ShutdownStops, StopUpload, Refused, DropConnection, AdjustController
<1>3. /\ caller' \in [at : {"idle", "stopping", "pause", "disconnect", "control", "apply"},
                      setting : Settings \cup {None}]
      /\ CallerInv'
  <2>1. CASE CallStop \/ CallShutdown \/ ShutdownStops \/ PauseSession \/ DropConnection
    BY <2>1 DEF CallStop, CallShutdown, ShutdownStops, StopUpload, Refused, PauseSession,
                DropConnection, At, CallerInv
  <2>2. CASE CallAdjust \/ AdjustController \/ AdjustSession
    BY <1>0, <2>2 DEF CallAdjust, AdjustController, AdjustSession, At, CallerInv
  <2> QED
    BY <2>1, <2>2 DEF CallerStep, CallerContinues
<1>4. calls' \in 0 .. MaxCalls
  BY <1>0 DEF CallerStep, CallStop, CallShutdown, CallAdjust, CallerContinues, ShutdownStops, Call,
         PauseSession, DropConnection, AdjustController, AdjustSession
<1>5. controller' \in [Settings -> {0, 1, NewValue}]
  <2>1. CASE AdjustController
    <3>1. caller.setting \in Settings
      BY <1>0, <2>1 DEF AdjustController, CallerInv
    <3> QED
      BY <1>0, <2>1, <3>1 DEF AdjustController
  <2>2. CASE UNCHANGED controller
    BY <1>0, <2>2
  <2> QED
    BY <2>1, <2>2 DEF CallerStep, CallStop, CallShutdown, CallAdjust, CallerContinues,
         ShutdownStops, StopUpload, Refused, PauseSession, DropConnection, AdjustSession
<1>6. /\ is_running' \in BOOLEAN /\ connection' \in Uploads \cup {None} /\ stopped' \subseteq Uploads
      /\ overlapped' = overlapped /\ raced' = raced /\ interrupted' \in BOOLEAN
  BY <1>0 DEF TypeOK, CallerStep, CallStop, CallShutdown, CallAdjust, CallerContinues,
         ShutdownStops, StopUpload, Refused, PauseSession, DropConnection, AdjustController,
         AdjustSession, history
<1>7. TypeOK'
  BY <1>0, <1>1, <1>2, <1>3, <1>4, <1>5, <1>6 DEF TypeOK, SessionOK
<1>8. \A v \in Uploads : CountInv(upload[v])'
  BY <1>1 DEF TypeInv, CountInv
<1> QED
  BY <1>3, <1>7, <1>8 DEF TypeInv

LEMMA TypeNext == ASSUME TypeInv, [Next]_vars PROVE TypeInv'
<1>1. CASE UNCHANGED vars
  BY <1>1 DEF vars, TypeInv, TypeOK, CallerInv, CountInv
<1> QED
  BY <1>1, TypeUpload, TypeCaller DEF Next, CallerStep

\* Every variable of the upload manager has its type: in particular the progress
\* never exceeds 100 %, whatever fails, stops or runs beside.
THEOREM TypeCorrect == Spec => []TypeOK
<1>1. TypeInv => TypeOK
  BY DEF TypeInv
<1> QED
  BY <1>1, TypeInit, TypeNext, PTL DEF Spec

(***************************************************************************)
(* What a step of an upload does to the variables that keep uploads apart.  *)
(***************************************************************************)

Keeps == UNCHANGED <<is_running, connection, overlapped, raced>>

Shape(u) ==
    \/ /\ upload[u].at = "new" /\ upload'[u].at = IF is_running THEN "refused" ELSE "validate"
       /\ upload'[u].via = upload[u].via
       /\ raced' = (raced \/ (~is_running /\ \E v \in Uploads : upload[v].at \in Starting))
       /\ UNCHANGED <<is_running, connection, overlapped>>
    \/ /\ upload[u].at = "store" /\ upload'[u].at = "run" /\ upload'[u].via = upload[u].via
       /\ overlapped' = (overlapped \/ \E v \in Uploads \ {u} : UnderWay(v))
       /\ UNCHANGED <<is_running, connection, raced>>
    \/ /\ upload[u].at = "run" /\ upload'[u].at = "activate" /\ upload'[u].via = upload[u].via
       /\ is_running' = TRUE
       /\ UNCHANGED <<connection, overlapped, raced>>
    \/ /\ upload[u].at = "keep" /\ upload'[u].at = "get" /\ upload'[u].via = upload[u].via
       /\ connection' = u
       /\ UNCHANGED <<is_running, overlapped, raced>>
    \/ /\ upload[u].at = "get" /\ upload'[u].via = connection
       /\ upload'[u].at = IF connection = None THEN "panicked" ELSE "open"
       /\ Keeps
    \/ /\ upload[u].at = "clear" /\ upload'[u].at = "completed" /\ upload'[u].via = upload[u].via
       /\ is_running' = FALSE
       /\ UNCHANGED <<connection, overlapped, raced>>
    \/ /\ upload[u].at = "validate" /\ upload'[u].at \in {"store", "refused"}
       /\ upload'[u].via = upload[u].via /\ Keeps
    \/ /\ upload[u].at \in Uploading \ {"clear", "get", "keep"}
       /\ upload'[u].at \in (Uploading \ {"get"}) \cup {"failed"}
       /\ upload'[u].via = upload[u].via /\ Keeps

LEMMA StepShape ==
    ASSUME TypeInv, NEW u \in Uploads, UploadStep(u)
    PROVE  Shape(u) /\ interrupted' = interrupted /\ caller' = caller
<1>0. upload \in [Uploads -> Upload] /\ upload[u] \in Upload
  BY DEF TypeInv, TypeOK
<1>1. ASSUME NEW state, Goto(u, state)
      PROVE  upload'[u].at = state /\ upload'[u].via = upload[u].via
  BY <1>0, <1>1 DEF Goto, Upload
<1>2. CASE CheckRunning(u) \/ ValidateFile(u)
  BY <1>1, <1>2 DEF CheckRunning, ValidateFile, Shape, Keeps, history, callerVars
<1>3. CASE StoreSession(u)
  BY <1>1, <1>3 DEF StoreSession, Shape, callerVars
<1>4. CASE SetRunning(u) \/ StoreConnection(u) \/ ClearRunning(u)
  BY <1>1, <1>4 DEF SetRunning, StoreConnection, ClearRunning, Shape, history, callerVars
<1>5. CASE Activate(u) \/ UpdateTotal(u) \/ UpdateProgress(u) \/ CompleteSession(u)
  BY <1>1, <1>5 DEF Activate, UpdateTotal, UpdateProgress, CompleteSession, Shape, Keeps, Uploading,
                    history, callerVars
<1>6. CASE EstablishConnection(u) \/ OpenFile(u) \/ CloseFile(u)
  BY <1>1, <1>6 DEF EstablishConnection, OpenFile, CloseFile, MayFail, Shape, Keeps, Uploading,
                    history, callerVars
<1>7. CASE GetConnection(u)
  <2>1. /\ upload'[u].via = connection
        /\ upload'[u].at = IF connection = None THEN "panicked" ELSE "open"
    <3>1. PICK state : state = IF connection = None THEN "panicked" ELSE "open"
      OBVIOUS
    <3>2. upload' = [upload EXCEPT ![u].at = state, ![u].via = connection]
      BY <1>7, <3>1 DEF GetConnection
    <3>3. upload'[u].at = state /\ upload'[u].via = connection
      BY <1>0, <3>2 DEF Upload
    <3> QED
      BY <3>1, <3>3
  <2> QED
    BY <1>7, <2>1 DEF GetConnection, Shape, Keeps, history, callerVars
<1>8. CASE NextSegment(u) \/ SendSegment(u) \/ HandleError(u)
  <2>1. /\ upload[u].at \in {"next", "send", "error"}
        /\ upload'[u].at \in {"close", "count", "error", "progress", "next"}
        /\ upload'[u].via = upload[u].via
    <3>1. CASE NextSegment(u)
      BY <1>0, <1>1, <3>1 DEF NextSegment, Upload
    <3>2. CASE SendSegment(u)
      BY <1>0, <1>1, <3>2 DEF SendSegment, Upload
    <3>3. CASE HandleError(u)
      BY <1>0, <3>3 DEF HandleError, Upload
    <3> QED
      BY <1>8, <3>1, <3>2, <3>3
  <2> QED
    BY <1>8, <2>1 DEF NextSegment, SendSegment, HandleError, Shape, Keeps, Uploading, history,
                      callerVars
<1> QED
  BY <1>2, <1>3, <1>4, <1>5, <1>6, <1>7, <1>8 DEF UploadStep

(***************************************************************************)
(* SessionAlreadyActive keeps uploads apart.  As long as no two calls raced *)
(* and none was stopped, one upload at most has passed the check, and the   *)
(* flag is set while it uploads.                                            *)
(***************************************************************************)

Claimed == Starting \cup Uploading

OneAtATime ==
    ~raced /\ ~interrupted =>
        /\ \A u, v \in Uploads : upload[u].at \in Claimed /\ upload[v].at \in Claimed => u = v
        /\ \A u \in Uploads : upload[u].at \in Uploading => is_running

OneUnderWay == ~overlapped => \A u, v \in Uploads : UnderWay(u) /\ UnderWay(v) => u = v

ConnectionKept ==
    \A u \in Uploads : upload[u].at = "get" =>
        /\ ~overlapped => connection \in {u, None}
        /\ ~interrupted => connection # None

StopIsAnInterruption == caller.at \in {"pause", "disconnect"} => interrupted

ApartInv == /\ TypeInv /\ OneAtATime /\ OneUnderWay /\ ConnectionKept /\ StopIsAnInterruption
            /\ UploadsKeptApart

LEMMA ApartInit == Init => ApartInv
<1> SUFFICES ASSUME Init PROVE ApartInv
  OBVIOUS
<1>1. \A u \in Uploads : upload[u].at = "new" /\ upload[u].via = None
  BY DEF Init
<1>2. ~overlapped /\ ~raced /\ ~interrupted /\ caller.at = "idle"
  BY DEF Init
<1> QED
  BY <1>1, <1>2, TypeInit DEF ApartInv, OneAtATime, Claimed, Starting, Uploading, OneUnderWay, UnderWay,
       ConnectionKept, StopIsAnInterruption, UploadsKeptApart

LEMMA ApartUpload ==
    ASSUME ApartInv, NEW u \in Uploads, UploadStep(u)
    PROVE  ApartInv'
<1>0. /\ \A v \in Uploads : v # u => upload'[v] = upload[v]
      /\ Shape(u) /\ interrupted' = interrupted /\ caller' = caller /\ TypeInv'
      /\ raced \in BOOLEAN /\ raced' \in BOOLEAN /\ overlapped \in BOOLEAN /\ overlapped' \in BOOLEAN
      /\ is_running \in BOOLEAN /\ is_running' \in BOOLEAN
  BY UploadStepRecord, StepShape, TypeUpload DEF ApartInv, Records, TypeInv, TypeOK
<1>1. OneAtATime'
  <2>1. /\ raced => raced'
        /\ is_running' # is_running => is_running' \/ upload[u].at = "clear"
        /\ upload[u].at = "clear" => upload'[u].at = "completed"
    BY <1>0 DEF Shape, Keeps, Uploading
  <2>2. upload'[u].at \in Claimed =>
          \/ upload[u].at \in Claimed
          \/ ~is_running /\ (raced' \/ \A v \in Uploads : upload[v].at \notin Starting)
    BY <1>0 DEF Shape, Claimed, Starting, Uploading
  <2>3. upload'[u].at \in Uploading => is_running' \/ upload[u].at \in Uploading
    BY <1>0 DEF Shape, Uploading, Starting
  <2>4. SUFFICES ASSUME ~raced', ~interrupted'
                 PROVE  /\ \A v, w \in Uploads : upload'[v].at \in Claimed /\ upload'[w].at \in Claimed => v = w
                        /\ \A v \in Uploads : upload'[v].at \in Uploading => is_running'
    BY DEF OneAtATime
  <2>5. /\ \A v, w \in Uploads : upload[v].at \in Claimed /\ upload[w].at \in Claimed => v = w
        /\ \A v \in Uploads : upload[v].at \in Uploading => is_running
    BY <1>0, <2>1, <2>4 DEF ApartInv, OneAtATime
  <2>6. ASSUME NEW v \in Uploads, v # u, upload[v].at \in Claimed PROVE upload'[u].at \notin Claimed
    BY <2>2, <2>4, <2>5, <2>6 DEF Claimed
  <2>7. ASSUME NEW v \in Uploads, upload'[v].at \in Uploading PROVE is_running'
    <3>1. CASE v = u
      BY <2>1, <2>3, <2>5, <2>7, <3>1 DEF Uploading
    <3>2. CASE v # u
      <4>1. upload[v].at \in Uploading
        BY <1>0, <2>7, <3>2
      <4>2. upload[u].at # "clear"
        BY <2>5, <3>2, <4>1 DEF Claimed, Uploading
      <4> QED
        BY <2>1, <2>5, <4>1, <4>2 DEF ApartInv, TypeInv, TypeOK
    <3> QED
      BY <3>1, <3>2
  <2> QED
    BY <1>0, <2>5, <2>6, <2>7
<1>2. OneUnderWay'
  <2>1. /\ overlapped => overlapped'
        /\ UnderWay(u)' => \/ UnderWay(u)
                          \/ overlapped' \/ \A v \in Uploads \ {u} : ~UnderWay(v)
    BY <1>0 DEF Shape, Keeps, UnderWay, Uploading
  <2>2. \A v \in Uploads : v # u => (UnderWay(v)' <=> UnderWay(v))
    BY <1>0 DEF UnderWay
  <2> QED
    BY <2>1, <2>2 DEF ApartInv, OneUnderWay
<1>3. ConnectionKept'
  <2>1. None \notin Uploads
    BY ManagerOK
  <2>2. /\ overlapped => overlapped'
        /\ connection' # connection => connection' = u /\ upload'[u].at = "get"
        /\ upload'[u].at = "get" => connection' = u
    BY <1>0 DEF Shape, Keeps, Uploading
  <2>3. ASSUME NEW v \in Uploads, v # u, upload'[v].at = "get", ~overlapped', upload'[u].at = "get"
        PROVE  FALSE
    BY <1>2, <2>3 DEF OneUnderWay, UnderWay, Uploading
  <2> QED
    BY <1>0, <2>1, <2>2, <2>3 DEF ApartInv, ConnectionKept
<1>4. StopIsAnInterruption'
  BY <1>0 DEF ApartInv, StopIsAnInterruption
<1>5. UploadsKeptApart'
  <2>1. overlapped' => raced' \/ interrupted'
    <3>1. CASE overlapped' = overlapped /\ (raced => raced')
      BY <1>0, <3>1 DEF ApartInv, UploadsKeptApart
    <3>2. CASE /\ upload[u].at = "store" /\ raced' = raced
               /\ overlapped' = (overlapped \/ \E v \in Uploads \ {u} : UnderWay(v))
      BY <1>0, <3>2 DEF ApartInv, UploadsKeptApart, OneAtATime, UnderWay, Claimed, Starting
    <3>3. raced => raced'
      BY <1>0 DEF Shape, Keeps
    <3>4. \/ overlapped' = overlapped
          \/ /\ upload[u].at = "store" /\ raced' = raced
             /\ overlapped' = (overlapped \/ \E v \in Uploads \ {u} : UnderWay(v))
      BY <1>0 DEF Shape, Keeps
    <3> QED
      BY <3>1, <3>2, <3>3, <3>4
  <2>4. /\ overlapped => overlapped'
        /\ upload'[u].via = upload[u].via \/ (upload[u].at = "get" /\ upload'[u].via = connection)
        /\ upload'[u].at = "panicked" => upload[u].at = "get" /\ connection = None
    <3>1. overlapped => overlapped'
      BY <1>0 DEF Shape, Keeps, UnderWay, Uploading
    <3>2. upload'[u].via = upload[u].via \/ (upload[u].at = "get" /\ upload'[u].via = connection)
      BY <1>0 DEF Shape, Keeps, UnderWay, Uploading, Starting
    <3>3. upload'[u].at = "panicked" => upload[u].at = "get" /\ connection = None
      BY <1>0 DEF Shape, Uploading
    <3> QED
      BY <3>1, <3>2, <3>3
  <2>2. ASSUME NEW v \in Uploads PROVE ~overlapped' => upload'[v].via \in {v, None}
    BY <1>0, <2>4 DEF ApartInv, UploadsKeptApart, ConnectionKept
  <2>3. ASSUME NEW v \in Uploads PROVE upload'[v].at = "panicked" => interrupted'
    BY <1>0, <2>4 DEF ApartInv, UploadsKeptApart, ConnectionKept
  <2> QED
    BY <2>1, <2>2, <2>3 DEF UploadsKeptApart
<1> QED
  BY <1>0, <1>1, <1>2, <1>3, <1>4, <1>5 DEF ApartInv

LEMMA ApartCaller == ASSUME ApartInv, CallerStep PROVE ApartInv'
<1>1. /\ upload' = upload /\ overlapped' = overlapped /\ raced' = raced
      /\ interrupted => interrupted'
      /\ is_running' # is_running => interrupted'
      /\ connection' # connection => connection' = None /\ caller.at = "disconnect"
      /\ caller'.at \in {"pause", "disconnect"} => interrupted' \/ caller.at = "pause"
  BY DEF CallerStep, CallStop, CallShutdown, CallAdjust, CallerContinues, ShutdownStops, StopUpload,
         Refused, PauseSession, DropConnection, AdjustController, AdjustSession, At, history
<1>2. TypeInv'
  BY TypeCaller DEF ApartInv
<1>3. OneAtATime'
  BY <1>1 DEF ApartInv, OneAtATime
<1>4. OneUnderWay'
  BY <1>1 DEF ApartInv, OneUnderWay, UnderWay
<1>5. ConnectionKept'
  BY <1>1 DEF ApartInv, ConnectionKept, StopIsAnInterruption
<1>6. StopIsAnInterruption'
  BY <1>1 DEF ApartInv, StopIsAnInterruption
<1>7. UploadsKeptApart'
  BY <1>1 DEF ApartInv, UploadsKeptApart
<1> QED
  BY <1>2, <1>3, <1>4, <1>5, <1>6, <1>7 DEF ApartInv

LEMMA ApartNext == ASSUME ApartInv, [Next]_vars PROVE ApartInv'
<1>1. CASE UNCHANGED vars
  BY <1>1, TypeNext DEF vars, ApartInv, OneAtATime, OneUnderWay, UnderWay, ConnectionKept,
       StopIsAnInterruption, UploadsKeptApart
<1> QED
  BY <1>1, ApartUpload, ApartCaller DEF Next, CallerStep

\* Uploads overlap only when two calls raced for the flag or one was stopped; and
\* apart from that each sends on its own connection and none panics for lack of it
\* unless a stop took it, whatever the number of calls.
THEOREM KeptApart == Spec => []UploadsKeptApart
<1>1. ApartInv => UploadsKeptApart
  BY DEF ApartInv
<1> QED
  BY <1>1, ApartInit, ApartNext, PTL DEF Spec

(***************************************************************************)
(* The flag and the uploads under way.                                      *)
(***************************************************************************)

FlagInv == ApartInv /\ FlagTellsOfUploads

\* What keeps the flag set.
Holds(at) == at \in Uploading \cup {"failed", "panicked"}

LEMMA FlagInit == Init => FlagInv
<1>1. Init => ~is_running /\ \A u \in Uploads : upload[u].at = "new"
  BY DEF Init
<1> QED
  BY <1>1, ApartInit DEF FlagInv, FlagTellsOfUploads, Uploading

LEMMA FlagUpload ==
    ASSUME FlagInv, NEW u \in Uploads, UploadStep(u)
    PROVE  FlagTellsOfUploads'
<1>0. /\ \A v \in Uploads : v # u => upload'[v] = upload[v]
      /\ Shape(u) /\ interrupted' = interrupted
      /\ is_running \in BOOLEAN /\ is_running' \in BOOLEAN
      /\ overlapped \in BOOLEAN /\ overlapped' \in BOOLEAN
  BY UploadStepRecord, StepShape, TypeUpload DEF FlagInv, ApartInv, Records, TypeInv, TypeOK
<1>1. /\ overlapped => overlapped'
      /\ is_running' => is_running \/ upload'[u].at = "activate"
      /\ is_running /\ ~is_running' => upload[u].at = "clear" /\ upload'[u].at = "completed"
      /\ upload[u].at = "clear" => ~is_running'
      /\ Holds(upload[u].at) => upload[u].at = "clear" \/ Holds(upload'[u].at)
      /\ upload'[u].at \in Uploading => is_running' \/ upload[u].at \in Uploading
  BY <1>0 DEF Shape, Keeps, Uploading, Holds
<1>2. ASSUME is_running' PROVE \E v \in Uploads : Holds(upload'[v].at)
  <2>1. CASE upload'[u].at = "activate"
    BY <2>1 DEF Holds, Uploading
  <2>2. CASE is_running
    <3>1. PICK v \in Uploads : Holds(upload[v].at)
      BY <2>2 DEF FlagInv, FlagTellsOfUploads, Holds
    <3> QED
      BY <1>0, <1>1, <1>2, <3>1
  <2> QED
    BY <1>1, <1>2, <2>1, <2>2
<1>3. ASSUME ~is_running', NEW v \in Uploads, upload'[v].at \in Uploading
      PROVE  interrupted' \/ overlapped'
  <2>1. upload[v].at \in Uploading
    BY <1>0, <1>1, <1>3
  <2>2. CASE ~is_running
    BY <1>0, <1>1, <2>1, <2>2 DEF FlagInv, FlagTellsOfUploads
  <2>3. CASE is_running
    <3>1. upload[u].at = "clear" /\ upload'[u].at = "completed"
      BY <1>1, <1>3, <2>3
    <3>2. v # u
      BY <1>3, <3>1 DEF Uploading
    <3> QED
      BY <1>1, <2>1, <3>1, <3>2 DEF FlagInv, ApartInv, OneUnderWay, UnderWay, Uploading
  <2> QED
    BY <1>0, <2>2, <2>3
<1> QED
  BY <1>2, <1>3 DEF FlagTellsOfUploads, Holds

LEMMA FlagCaller == ASSUME FlagInv, CallerStep PROVE FlagTellsOfUploads'
<1>1. /\ upload' = upload /\ overlapped' = overlapped
      /\ interrupted => interrupted'
      /\ \/ is_running' = is_running
         \/ ~is_running' /\ interrupted'
  BY DEF CallerStep, CallStop, CallShutdown, CallAdjust, CallerContinues, ShutdownStops, StopUpload,
         Refused, PauseSession, DropConnection, AdjustController, AdjustSession, history
<1> QED
  BY <1>1 DEF FlagInv, FlagTellsOfUploads

LEMMA FlagNext == ASSUME FlagInv, [Next]_vars PROVE FlagInv'
<1>1. CASE UNCHANGED vars
  BY <1>1, ApartNext DEF vars, FlagInv, FlagTellsOfUploads
<1>2. ApartInv'
  BY ApartNext DEF FlagInv
<1> QED
  BY <1>1, <1>2, FlagUpload, FlagCaller DEF FlagInv, Next, CallerStep

\* A flag that is set belongs to an upload under way or was left by one that failed
\* or died, and an upload under way has the flag unless it was stopped or another
\* upload overlapped with it, whatever the number of calls.
THEOREM FlagTells == Spec => []FlagTellsOfUploads
<1>1. FlagInv => FlagTellsOfUploads
  BY DEF FlagInv
<1> QED
  BY <1>1, FlagInit, FlagNext, PTL DEF Spec

(***************************************************************************)
(* The session and the upload under way.  An upload counts from the moment  *)
(* it has stored its session, and the session stays its own until another   *)
(* stores one, which overlaps with it unless it has ended.                  *)
(***************************************************************************)

\* What the session says of the upload r that stored it.
Tells(session, r) ==
    /\ session.total_segments = r.segment_count - Count(r.at = "count")
    /\ session.transmitted_segments = r.transmitted_count - Count(r.at = "progress")
    /\ session.errors = r.errors
    /\ session.status = "Completed" =>
          r.at \in {"clear", "completed"} /\ session.progress = 100
    /\ r.at \notin {"new", "validate", "store"}

SessionTells == current_session # None /\ ~overlapped =>
                   Tells(current_session, upload[current_session.id])

SessionOfUpload == current_session # None /\ ~overlapped =>
                      \A u \in Uploads : UnderWay(u) => current_session.id = u

AccountInv == TypeInv /\ SessionTells /\ SessionOfUpload

LEMMA AccountInit == Init => AccountInv
  BY TypeInit DEF Init, AccountInv, SessionTells, SessionOfUpload, UnderWay, Uploading

\* A step of an upload that is not under way, and does not store a session.
LEMMA AccountBefore ==
    ASSUME AccountInv, NEW u \in Uploads, CheckRunning(u) \/ ValidateFile(u)
    PROVE  SessionTells' /\ SessionOfUpload'
<1>1. UploadStep(u)
  BY DEF UploadStep
<1>2. Records(u)
  BY <1>1, UploadStepRecord DEF AccountInv
<1>3. /\ upload[u].at \in {"new", "validate"} /\ UNCHANGED <<current_session, overlapped>>
      /\ upload'[u].at \in {"validate", "store", "refused"}
  BY DEF CheckRunning, ValidateFile, history, Goto, AccountInv, TypeInv, TypeOK, Upload
<1>4. SessionOfUpload'
  BY <1>2, <1>3 DEF AccountInv, SessionOfUpload, UnderWay, Uploading, Records
<1>5. SessionTells'
  <2>1. SUFFICES ASSUME current_session # None, ~overlapped
                 PROVE  Tells(current_session, upload'[current_session.id])
    BY <1>3 DEF SessionTells
  <2>2. Tells(current_session, upload[current_session.id]) /\ current_session.id \in Uploads
    BY <2>1 DEF AccountInv, SessionTells, TypeInv, TypeOK, Session
  <2>3. current_session.id # u
    BY <1>3, <2>2 DEF Tells
  <2> QED
    BY <1>2, <2>2, <2>3 DEF Records
<1> QED
  BY <1>4, <1>5

LEMMA AccountStore ==
    ASSUME AccountInv, NEW u \in Uploads, StoreSession(u)
    PROVE  SessionTells' /\ SessionOfUpload'
<1>1. Records(u) /\ upload[u].at = "store" /\ CountInv(upload[u])
  BY UploadStepRecord DEF AccountInv, UploadStep, TypeInv, StoreSession
<1>2. /\ upload'[u].at = "run" /\ upload'[u].segment_count = upload[u].segment_count
      /\ upload'[u].transmitted_count = upload[u].transmitted_count /\ upload'[u].errors = upload[u].errors
  BY DEF StoreSession, Goto, AccountInv, TypeInv, TypeOK, Upload
<1>3. PICK session : session = [id |-> u, status |-> "Preparing", progress |-> 0,
                           settings |-> Initial, total_segments |-> 0,
                           transmitted_segments |-> 0, errors |-> 0]
  OBVIOUS
<1>4. /\ session.id = u /\ session.status = "Preparing" /\ session.total_segments = 0
      /\ session.transmitted_segments = 0 /\ session.errors = 0
  BY <1>3
<1>5. current_session' = session
  BY <1>3 DEF StoreSession
<1>7. Tells(session, upload'[u])
  BY <1>1, <1>2, <1>4 DEF Tells, CountInv, Count
<1>8. ~overlapped' => \A v \in Uploads \ {u} : ~UnderWay(v)
  BY DEF StoreSession, UnderWay
<1>9. SessionOfUpload'
  BY <1>1, <1>4, <1>5, <1>8 DEF SessionOfUpload, UnderWay, Records
<1> QED
  BY <1>4, <1>5, <1>7, <1>9 DEF SessionTells

\* A step of an upload under way that is the session's own.
LEMMA AccountStep ==
    ASSUME AccountInv, NEW u \in Uploads, UploadStep(u),
           upload[u].at \in Uploading \cup {"run"},
           current_session # None, current_session' # None, ~overlapped, current_session.id = u
    PROVE  Tells(current_session', upload'[u]) /\ current_session'.id = u
<1>0. /\ upload \in [Uploads -> Upload] /\ upload[u] \in Upload /\ current_session \in Session
      /\ upload[u].segment_count \in Nat /\ upload[u].transmitted_count \in Nat /\ upload[u].errors \in Nat
      /\ current_session.id = u
  BY DEF AccountInv, TypeInv, TypeOK, Upload
<1>1. Tells(current_session, upload[u])
  BY DEF AccountInv, SessionTells
<1>2. ASSUME NEW state, Goto(u, state)
      PROVE  /\ upload'[u].at = state /\ upload'[u].segment_count = upload[u].segment_count
             /\ upload'[u].transmitted_count = upload[u].transmitted_count
             /\ upload'[u].errors = upload[u].errors
  BY <1>0, <1>2 DEF Goto, Upload
<1>3. CASE SetRunning(u) \/ EstablishConnection(u) \/ StoreConnection(u) \/ OpenFile(u) \/ CloseFile(u)
           \/ ClearRunning(u)
  BY <1>0, <1>1, <1>2, <1>3 DEF SetRunning, EstablishConnection, StoreConnection, OpenFile, CloseFile,
       ClearRunning, MayFail, Tells, Count
<1>4. CASE Activate(u)
  <2>1. current_session' = [current_session EXCEPT !.status = "Active"]
    BY <1>4 DEF Activate, SessionUpdate
  <2> QED
    BY <1>0, <1>1, <1>2, <1>4, <2>1 DEF Activate, Tells, Count, Session
<1>5. CASE UpdateTotal(u)
  <2>1. current_session' = [current_session EXCEPT !.total_segments = upload[u].segment_count]
    BY <1>5 DEF UpdateTotal, SessionUpdate
  <2> QED
    BY <1>0, <1>1, <1>2, <1>5, <2>1 DEF UpdateTotal, Tells, Count, Session
<1>6. CASE UpdateProgress(u)
  <2>1. PICK x : x = [current_session EXCEPT !.transmitted_segments = upload[u].transmitted_count]
    OBVIOUS
  <2>2. /\ x.transmitted_segments = upload[u].transmitted_count /\ x.id = u
        /\ x.total_segments = current_session.total_segments
        /\ x.errors = current_session.errors /\ x.status = current_session.status /\ x \in Session
    BY <1>0, <2>1 DEF Session
  <2>3. PICK p : p = (100 * upload[u].transmitted_count) \div upload[u].segment_count
    OBVIOUS
  <2>4. current_session' = [x EXCEPT !.progress = p]
    BY <1>6, <2>1, <2>3 DEF UpdateProgress, SessionUpdate
  <2>5. /\ current_session'.transmitted_segments = x.transmitted_segments /\ current_session'.id = u
        /\ current_session'.total_segments = x.total_segments
        /\ current_session'.errors = x.errors /\ current_session'.status = x.status
    BY <2>2, <2>4 DEF Session
  <2>6. upload[u].at = "progress" /\ Goto(u, "next")
    BY <1>6 DEF UpdateProgress
  <2> QED
    BY <1>0, <1>1, <1>2, <2>2, <2>5, <2>6 DEF Tells, Count
<1>7. CASE CompleteSession(u)
  <2>1. PICK x : x = [current_session EXCEPT !.status = "Completed"]
    OBVIOUS
  <2>2. /\ x.transmitted_segments = current_session.transmitted_segments /\ x.id = u
        /\ x.total_segments = current_session.total_segments
        /\ x.errors = current_session.errors /\ x \in Session
    BY <1>0, <2>1 DEF Session
  <2>4. current_session' = [x EXCEPT !.progress = 100]
    BY <1>7, <2>1 DEF CompleteSession, SessionUpdate
  <2>5. /\ current_session'.transmitted_segments = x.transmitted_segments /\ current_session'.id = u
        /\ current_session'.total_segments = x.total_segments
        /\ current_session'.errors = x.errors /\ current_session'.progress = 100
    BY <2>2, <2>4 DEF Session
  <2>6. upload[u].at = "complete" /\ Goto(u, "clear")
    BY <1>7 DEF CompleteSession
  <2> QED
    BY <1>0, <1>1, <1>2, <2>2, <2>5, <2>6 DEF Tells, Count
<1>8. CASE GetConnection(u)
  <2>1. PICK state : state = IF connection = None THEN "panicked" ELSE "open"
    OBVIOUS
  <2>2. upload' = [upload EXCEPT ![u].at = state, ![u].via = connection]
    BY <1>8, <2>1 DEF GetConnection
  <2>3. /\ upload'[u].at = state /\ upload'[u].segment_count = upload[u].segment_count
        /\ upload'[u].transmitted_count = upload[u].transmitted_count
        /\ upload'[u].errors = upload[u].errors
    BY <1>0, <2>2 DEF Upload
  <2> QED
    BY <1>0, <1>1, <1>8, <2>1, <2>3 DEF GetConnection, Tells, Count
<1>9. CASE NextSegment(u)
  <2>1. CASE Goto(u, "close") \/ Goto(u, "error")
    BY <1>0, <1>1, <1>2, <1>9, <2>1 DEF NextSegment, Tells, Count
  <2>2. CASE upload' = [upload EXCEPT ![u].at = "count", ![u].segment_count = @ + 1]
    <3>1. /\ upload'[u].at = "count" /\ upload'[u].segment_count = upload[u].segment_count + 1
          /\ upload'[u].transmitted_count = upload[u].transmitted_count
          /\ upload'[u].errors = upload[u].errors
      BY <1>0, <2>2 DEF Upload
    <3> QED
      BY <1>0, <1>1, <1>9, <3>1 DEF NextSegment, Tells, Count
  <2> QED
    BY <1>9, <2>1, <2>2 DEF NextSegment
<1>10. CASE SendSegment(u)
  <2>1. CASE Goto(u, "error")
    BY <1>0, <1>1, <1>2, <1>10, <2>1 DEF SendSegment, Tells, Count
  <2>2. CASE upload' = [upload EXCEPT ![u].at = "progress", ![u].transmitted_count = @ + 1]
    <3>1. /\ upload'[u].at = "progress" /\ upload'[u].segment_count = upload[u].segment_count
          /\ upload'[u].transmitted_count = upload[u].transmitted_count + 1
          /\ upload'[u].errors = upload[u].errors
      BY <1>0, <2>2 DEF Upload
    <3> QED
      BY <1>0, <1>1, <1>10, <3>1 DEF SendSegment, Tells, Count
  <2> QED
    BY <1>10, <2>1, <2>2 DEF SendSegment
<1>11. CASE HandleError(u)
  <2>1. /\ current_session' = [current_session EXCEPT !.errors = current_session.errors + 1]
        /\ current_session.errors = upload[u].errors
    BY <1>1, <1>11 DEF HandleError, SessionUpdate, Tells
  <2>2. /\ upload'[u].at = "next" /\ upload'[u].segment_count = upload[u].segment_count
        /\ upload'[u].transmitted_count = upload[u].transmitted_count
        /\ upload'[u].errors = upload[u].errors + 1
    BY <1>0, <1>11 DEF HandleError, Upload
  <2> QED
    BY <1>0, <1>1, <1>11, <2>1, <2>2 DEF HandleError, Tells, Count, Session
<1>12. ~CheckRunning(u) /\ ~ValidateFile(u) /\ ~StoreSession(u)
  BY DEF CheckRunning, ValidateFile, StoreSession, Uploading
<1> QED
  BY <1>3, <1>4, <1>5, <1>6, <1>7, <1>8, <1>9, <1>10, <1>11, <1>12 DEF UploadStep

LEMMA AccountUpload ==
    ASSUME AccountInv, NEW u \in Uploads, UploadStep(u)
    PROVE  AccountInv'
<1>1. TypeInv' /\ Records(u)
  BY TypeUpload, UploadStepRecord DEF AccountInv
<1>2. CASE CheckRunning(u) \/ ValidateFile(u)
  BY <1>1, <1>2, AccountBefore DEF AccountInv
<1>3. CASE StoreSession(u)
  BY <1>1, <1>3, AccountStore DEF AccountInv
<1>4. CASE ~CheckRunning(u) /\ ~ValidateFile(u) /\ ~StoreSession(u)
  <2>1. /\ upload[u].at \in Uploading \cup {"run"}
        /\ overlapped' = overlapped
        /\ current_session = None => current_session' = None
    <3>1. CASE SetRunning(u) \/ Activate(u) \/ EstablishConnection(u) \/ StoreConnection(u) \/ GetConnection(u)
      BY <3>1 DEF SetRunning, Activate, EstablishConnection, StoreConnection, GetConnection, MayFail,
                  SessionUpdate, Uploading, history
    <3>2. CASE OpenFile(u) \/ NextSegment(u) \/ UpdateTotal(u) \/ SendSegment(u)
      BY <3>2 DEF OpenFile, NextSegment, UpdateTotal, SendSegment, MayFail, SessionUpdate, Uploading, history
    <3>3. CASE UpdateProgress(u) \/ HandleError(u) \/ CloseFile(u) \/ CompleteSession(u) \/ ClearRunning(u)
      BY <3>3 DEF UpdateProgress, HandleError, CloseFile, CompleteSession, ClearRunning, MayFail,
                  SessionUpdate, Uploading, history
    <3> QED
      BY <1>4, <3>1, <3>2, <3>3 DEF UploadStep
  <2>2. CASE current_session' = None \/ overlapped
    BY <1>1, <2>1, <2>2 DEF AccountInv, SessionTells, SessionOfUpload
  <2>3. CASE current_session' # None /\ ~overlapped
    <3>1. current_session # None /\ current_session.id = u
      BY <2>1, <2>3 DEF AccountInv, SessionOfUpload, UnderWay
    <3>2. Tells(current_session', upload'[u]) /\ current_session'.id = u
      BY <2>1, <2>3, <3>1, AccountStep
    <3>3. ASSUME NEW v \in Uploads, UnderWay(v)' PROVE v = u
      BY <1>1, <2>3, <3>1, <3>3 DEF AccountInv, SessionOfUpload, UnderWay, Records
    <3>4. SessionTells' /\ SessionOfUpload'
      BY <3>2, <3>3 DEF SessionTells, SessionOfUpload
    <3> QED
      BY <1>1, <3>4 DEF AccountInv
  <2> QED
    BY <2>2, <2>3
<1> QED
  BY <1>2, <1>3, <1>4

LEMMA AccountCaller == ASSUME AccountInv, CallerStep PROVE AccountInv'
<1>1. upload' = upload /\ overlapped' = overlapped /\ TypeInv'
  BY TypeCaller DEF AccountInv, CallerStep, CallStop, CallShutdown, CallAdjust, CallerContinues,
     ShutdownStops, StopUpload, Refused, PauseSession, DropConnection, AdjustController, AdjustSession,
     history
<1>2. SUFFICES SessionTells' /\ SessionOfUpload'
  BY <1>1 DEF AccountInv
<1>3. CASE current_session' = None
  BY <1>3 DEF SessionTells, SessionOfUpload
<1>4. CASE current_session' = current_session
  BY <1>1, <1>4 DEF AccountInv, SessionTells, SessionOfUpload, UnderWay
<1>5. CASE current_session' # None /\ (PauseSession \/ AdjustSession)
  <2>1. current_session \in Session /\ current_session # None
    BY <1>5 DEF AccountInv, TypeInv, TypeOK, PauseSession, AdjustSession, SessionUpdate
  <2>2. /\ current_session'.id = current_session.id
        /\ current_session'.total_segments = current_session.total_segments
        /\ current_session'.transmitted_segments = current_session.transmitted_segments
        /\ current_session'.errors = current_session.errors
        /\ current_session'.progress = current_session.progress
        /\ current_session'.status \in {current_session.status, "Paused"}
    <3>1. CASE PauseSession
      <4>1. current_session' = [current_session EXCEPT !.status = "Paused"]
        BY <2>1, <3>1 DEF PauseSession, SessionUpdate
      <4> QED
        BY <2>1, <4>1 DEF Session
    <3>2. CASE AdjustSession
      <4>1. PICK f : f = [current_session.settings EXCEPT ![caller.setting] = NewValue]
        OBVIOUS
      <4>2. current_session' = [current_session EXCEPT !.settings = f]
        BY <2>1, <3>2, <4>1 DEF AdjustSession, SessionUpdate
      <4> QED
        BY <2>1, <4>2 DEF Session
    <3> QED
      BY <1>5, <3>1, <3>2
  <2>3. SessionTells'
    BY <1>1, <2>1, <2>2 DEF AccountInv, SessionTells, Tells
  <2>4. SessionOfUpload'
    BY <1>1, <2>1, <2>2 DEF AccountInv, SessionOfUpload, UnderWay
  <2> QED
    BY <2>3, <2>4
<1> QED
  BY <1>3, <1>4, <1>5 DEF CallerStep, CallStop, CallShutdown, CallAdjust, CallerContinues,
     ShutdownStops, StopUpload, Refused, DropConnection, AdjustController

LEMMA AccountNext == ASSUME AccountInv, [Next]_vars PROVE AccountInv'
<1>1. CASE UNCHANGED vars
  BY <1>1, TypeNext DEF vars, AccountInv, SessionTells, SessionOfUpload, UnderWay
<1> QED
  BY <1>1, AccountUpload, AccountCaller DEF Next, CallerStep

LEMMA AccountImplies == AccountInv => SoleUploadAccounted
<1> SUFFICES ASSUME AccountInv, current_session # None, ~overlapped,
                    NEW own, own = upload[current_session.id]
             PROVE  /\ current_session.total_segments = own.segment_count - Count(own.at = "count")
                    /\ current_session.transmitted_segments
                         = own.transmitted_count - Count(own.at = "progress")
                    /\ current_session.errors = own.errors
                    /\ own.transmitted_count <= own.segment_count
                    /\ own.segment_count
                         <= own.transmitted_count + own.errors
                              + Count(own.at \in {"count", "send", "error"})
                    /\ current_session.status = "Completed" =>
                          /\ own.at \in {"clear", "completed"}
                          /\ current_session.progress = 100
  BY DEF SoleUploadAccounted
<1>1. Tells(current_session, own)
  BY DEF AccountInv, SessionTells
<1>2. CountInv(own) /\ own.segment_count \in Nat /\ own.transmitted_count \in Nat
  BY DEF AccountInv, TypeInv, TypeOK, Session, Upload
<1> QED
  BY <1>1, <1>2 DEF Tells, CountInv, Count

\* As long as no other upload interferes the session tells exactly what its upload
\* did, and is Completed only once every segment was sent or failed, whatever the
\* caller does in between.
THEOREM SessionAccounted == Spec => []SoleUploadAccounted
  BY AccountInit, AccountNext, AccountImplies, PTL DEF Spec

(***************************************************************************)
(* A stop.                                                                 *)
(***************************************************************************)

StoppedInv == TypeInv /\ (stopped # {} => ~is_running)

LEMMA StoppedInit == Init => StoppedInv
  BY TypeInit DEF Init, StoppedInv

LEMMA StoppedNext == ASSUME StoppedInv, [Next]_vars PROVE StoppedInv'
<1>1. TypeInv'
  BY TypeNext DEF StoppedInv
<1>2. CASE UNCHANGED vars
  BY <1>1, <1>2 DEF vars, StoppedInv
<1>3. ASSUME NEW u \in Uploads, UploadStep(u) PROVE stopped' # {} => ~is_running'
  <2>1. CASE SetRunning(u) \/ ClearRunning(u)
    BY <2>1 DEF SetRunning, ClearRunning
  <2>2. CASE CheckRunning(u) \/ ValidateFile(u) \/ StoreSession(u) \/ Activate(u) \/ EstablishConnection(u)
    BY <2>2 DEF CheckRunning, ValidateFile, StoreSession, Activate, EstablishConnection, MayFail,
                history, StoppedInv
  <2>3. CASE StoreConnection(u) \/ GetConnection(u) \/ OpenFile(u) \/ NextSegment(u) \/ UpdateTotal(u)
    BY <2>3 DEF StoreConnection, GetConnection, OpenFile, NextSegment, UpdateTotal, MayFail,
                history, StoppedInv
  <2>4. CASE SendSegment(u) \/ UpdateProgress(u) \/ HandleError(u) \/ CloseFile(u) \/ CompleteSession(u)
    BY <2>4 DEF SendSegment, UpdateProgress, HandleError, CloseFile, CompleteSession, MayFail,
                history, StoppedInv
  <2> QED
    BY <1>3, <2>1, <2>2, <2>3, <2>4 DEF UploadStep
<1>4. ASSUME CallerStep PROVE stopped' # {} => ~is_running'
  BY <1>4 DEF CallerStep, CallStop, CallShutdown, CallAdjust, CallerContinues, ShutdownStops,
     StopUpload, Refused, PauseSession, DropConnection, AdjustController, AdjustSession, history,
     StoppedInv
<1> QED
  BY <1>1, <1>2, <1>3, <1>4 DEF Next, CallerStep, StoppedInv

LEMMA StoppedStep ==
    ASSUME StoppedInv, [Next]_vars, NEW v \in stopped, upload[v].at = "next"
    PROVE  upload'[v].at \in {"next", "close"}
<1>0. v \in Uploads /\ upload \in [Uploads -> Upload] /\ ~is_running
  BY DEF StoppedInv, TypeInv, TypeOK
<1>1. CASE upload' = upload
  BY <1>1
<1>2. ASSUME UploadStep(v) PROVE upload'[v].at = "close"
  <2>1. NextSegment(v)
    BY <1>2 DEF UploadStep, CheckRunning, ValidateFile, StoreSession, SetRunning, Activate,
                EstablishConnection, StoreConnection, GetConnection, OpenFile, UpdateTotal,
                SendSegment, UpdateProgress, HandleError, CloseFile, CompleteSession, ClearRunning,
                MayFail
  <2>2. Goto(v, "close")
    BY <1>0, <2>1 DEF NextSegment
  <2> QED
    BY <1>0, <2>2 DEF Goto, Upload
<1>3. ASSUME NEW u \in Uploads, UploadStep(u), u # v PROVE upload'[v] = upload[v]
  BY <1>0, <1>3, UploadStepRecord DEF StoppedInv, Records
<1>4. CASE CallerStep
  <2>1. upload' = upload
    BY <1>4 DEF CallerStep, CallStop, CallShutdown, CallAdjust, CallerContinues, ShutdownStops,
       StopUpload, Refused, PauseSession, DropConnection, AdjustController, AdjustSession
  <2> QED
    BY <2>1
<1> QED
  BY <1>0, <1>1, <1>2, <1>3, <1>4 DEF Next, CallerStep, vars

\* An upload that was stopped takes no further item of its stream until the flag is
\* set again: the loop ends when it looks at the flag, for any uploads.
THEOREM StoppedStop == Spec => StoppedUploadsStop
<1>1. ASSUME StoppedInv, [Next]_vars
      PROVE  [\A u \in stopped : upload[u].at = "next" => upload'[u].at \in {"next", "close"}]_vars
  BY <1>1, StoppedStep
<1> QED
  BY <1>1, StoppedInit, StoppedNext, PTL DEF Spec, StoppedUploadsStop

=============================================================================

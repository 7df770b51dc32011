--------------------------- MODULE RecoveryProofs ---------------------------
(***************************************************************************)
(* Theorems about recovering a connection, for any finite set of tasks, any *)
(* limits and any number of troubles.                                       *)
(***************************************************************************)
EXTENDS Recovery, FiniteSetTheorems, TLAPS

(***************************************************************************)
(* Types, without the delays: that these, powers of two, are numbers, is     *)
(* proved with the other types at the end.                                  *)
(***************************************************************************)

Fields == {"at", "error", "strategy", "retry_count", "backoff_duration", "troubles"}
Counters == {"connection_failures", "recovery_attempts", "protocol_errors", "server_errors"}

CallersOK(f) ==
    /\ DOMAIN f = Callers
    /\ \A c \in Callers : DOMAIN f[c] = Fields /\ f[c].at \in Places /\ f[c].retry_count \in Nat

CountersOK == /\ statistics \in [Counters -> Nat] /\ attempts \in [Callers -> Nat]
              /\ turned_away \in Nat /\ acks \in Nat

TypeInv == CallersOK(caller) /\ CountersOK

\* A step that moves c to a place, with n as its count of retries.
Sets(c, at, n) ==
    /\ CallersOK(caller')
    /\ caller'[c].at = at /\ caller'[c].retry_count = n
    /\ \A d \in Callers : d # c => caller'[d] = caller[d]

LEMMA SetsRecord ==
    ASSUME TypeInv, NEW c \in Callers, NEW r, caller' = [caller EXCEPT ![c] = r],
           DOMAIN r = Fields, r.at \in Places, r.retry_count \in Nat
    PROVE  Sets(c, r.at, r.retry_count)
  BY DEF TypeInv, CallersOK, Sets

LEMMA SetsGoto ==
    ASSUME TypeInv, NEW c \in Callers, NEW state \in Places, Goto(c, state)
    PROVE  Sets(c, state, caller[c].retry_count)
<1>1. DOMAIN caller = Callers /\ DOMAIN caller[c] = Fields /\ caller[c].retry_count \in Nat
  BY DEF TypeInv, CallersOK
<1>2. PICK s : s = [caller[c] EXCEPT !.at = state]
  OBVIOUS
<1>3. PICK r : r = [s EXCEPT !.error = IF state = "idle" THEN NoError ELSE @]
  OBVIOUS
<1>4. DOMAIN r = Fields /\ r.at = state /\ r.retry_count = caller[c].retry_count
  BY <1>1, <1>2, <1>3 DEF Fields
<1>5. caller' = [caller EXCEPT ![c] = r]
  <2>1. PICK t : t = [caller EXCEPT ![c].at = state]
    OBVIOUS
  <2>2. DOMAIN t = Callers /\ t[c] = s /\ t = [caller EXCEPT ![c] = s]
    BY <1>1, <1>2, <2>1
  <2>3. caller' = [t EXCEPT ![c].error = IF state = "idle" THEN NoError ELSE @]
    BY <2>1 DEF Goto
  <2>4. caller' = [t EXCEPT ![c] = r]
    BY <1>3, <2>2, <2>3
  <2> QED
    BY <1>1, <2>2, <2>4
<1> QED
  BY <1>1, <1>4, <1>5, SetsRecord

(***************************************************************************)
(* How many are somewhere, when one of them moves.                          *)
(***************************************************************************)

One(condition) == IF condition THEN 1 ELSE 0

LEMMA CountMoved ==
    ASSUME NEW S, NEW T, NEW c, IsFiniteSet(S), \A d : d # c => (d \in S <=> d \in T)
    PROVE  /\ IsFiniteSet(T) /\ Cardinality(S) \in Nat /\ Cardinality(T) \in Nat
           /\ Cardinality(T) = Cardinality(S) + One(c \in T) - One(c \in S)
<1>0. Cardinality(S) \in Nat
  BY FS_CardinalityType
<1>1. CASE c \in S /\ c \notin T
  <2>1. T = S \ {c}
    BY <1>1
  <2> QED
    BY <1>0, <1>1, <2>1, FS_RemoveElement, FS_CardinalityType DEF One
<1>2. CASE c \notin S /\ c \in T
  <2>1. T = S \cup {c}
    BY <1>2
  <2> QED
    BY <1>0, <1>2, <2>1, FS_AddElement, FS_CardinalityType DEF One
<1>3. CASE c \in S <=> c \in T
  <2>1. S = T
    BY <1>3
  <2> QED
    BY <1>0, <2>1 DEF One
<1> QED
  BY <1>1, <1>2, <1>3

LEMMA InMoved ==
    ASSUME NEW c \in Callers, NEW places, \A d \in Callers : d # c => caller'[d] = caller[d]
    PROVE  /\ Cardinality(In(places)) \in Nat /\ Cardinality(In(places)') \in Nat
           /\ Cardinality(In(places)') = Cardinality(In(places)) + One(caller'[c].at \in places)
                                            - One(caller[c].at \in places)
<1>1. PICK S : S = {d \in Callers : caller[d].at \in places}
  OBVIOUS
<1>2. PICK T : T = {d \in Callers : caller'[d].at \in places}
  OBVIOUS
<1>3. IsFiniteSet(S)
  <2>1. IsFiniteSet(Callers) /\ S \in SUBSET Callers
    BY <1>1, RecoveryOK
  <2> QED
    BY <2>1, FS_Subset
<1>4. \A d : d # c => (d \in S <=> d \in T)
  BY <1>1, <1>2
<1>5. /\ Cardinality(S) \in Nat /\ Cardinality(T) \in Nat
      /\ Cardinality(T) = Cardinality(S) + One(c \in T) - One(c \in S)
  BY <1>3, <1>4, CountMoved
<1>6. (c \in S <=> caller[c].at \in places) /\ (c \in T <=> caller'[c].at \in places)
  BY <1>1, <1>2
<1> QED
  BY <1>1, <1>2, <1>5, <1>6 DEF In, One

LEMMA Limits == /\ IsFiniteSet(Callers) /\ max_retries \in Nat /\ handler_max_retries \in Nat
                /\ max_protocol_errors \in Nat
  BY RecoveryOK

LEMMA MaxOfTwo ==
    ASSUME NEW a \in Nat, NEW b \in Nat
    PROVE  Max({a, b}) \in Nat /\ a <= Max({a, b}) /\ b <= Max({a, b})
<1>1. \E x \in {a, b} : \A y \in {a, b} : x >= y
  <2>1. CASE a <= b
    BY <2>1
  <2>2. CASE b <= a
    BY <2>2
  <2> QED
    BY <2>1, <2>2
<1>2. Max({a, b}) \in {a, b} /\ \A y \in {a, b} : Max({a, b}) >= y
  BY <1>1 DEF Max
<1> QED
  BY <1>2

(***************************************************************************)
(* What a step of c does to its attempts and to the statistics.             *)
(***************************************************************************)

Trying == {"backoff", "reconnect"}

AttemptShape(c) ==
    \/ /\ caller'[c].retry_count = caller[c].retry_count
       /\ caller[c].at \in Trying <=> caller'[c].at \in Trying
       /\ attempts' = attempts
    \/ /\ caller[c].at = "decide" /\ caller'[c].at = "backoff"
       /\ caller'[c].retry_count = caller[c].retry_count + 1
       /\ caller[c].retry_count < handler_max_retries
       /\ attempts' = attempts
    \/ /\ caller[c].at = "reconnect" /\ caller'[c].at = "count"
       /\ caller'[c].retry_count = caller[c].retry_count
       /\ attempts' = [attempts EXCEPT ![c] = @ + 1]
    \/ /\ caller[c].at = "connect" /\ caller'[c].at = "endpoint"
       /\ caller'[c].retry_count = caller[c].retry_count + 1
       /\ caller[c].retry_count < max_retries
       /\ attempts' = [attempts EXCEPT ![c] = @ + 1]
    \/ /\ caller[c].at = "handshake" /\ caller'[c].at = "idle"
       /\ caller'[c].retry_count = 0
       /\ attempts' = [attempts EXCEPT ![c] = 0]

Counted == {"decide", "backoff", "limit", "ack"}

StatisticsShape(c) ==
    \/ /\ caller[c].at \notin Counted /\ caller'[c].at \notin Counted
       /\ statistics' = statistics \/ statistics' = [statistics EXCEPT !["server_errors"] = @ + 1]
       /\ turned_away' = turned_away /\ acks' = acks
    \/ /\ caller[c].at = "decide" /\ caller'[c].at = "backoff"
       /\ statistics' = statistics /\ turned_away' = turned_away /\ acks' = acks
    \/ /\ caller[c].at = "count" /\ caller'[c].at = "decide"
       /\ statistics' = [statistics EXCEPT !["connection_failures"] = @ + 1]
       /\ turned_away' = turned_away /\ acks' = acks
    \/ /\ caller[c].at = "decide" /\ caller'[c].at = "idle"
       /\ statistics' = statistics /\ turned_away' = turned_away + 1 /\ acks' = acks
    \/ /\ caller[c].at = "backoff" /\ caller'[c].at = "reconnect"
       /\ statistics' = [statistics EXCEPT !["recovery_attempts"] = @ + 1]
       /\ turned_away' = turned_away /\ acks' = acks
    \/ /\ caller[c].at = "protocol" /\ caller'[c].at = "limit"
       /\ statistics' = [statistics EXCEPT !["protocol_errors"] = @ + 1]
       /\ turned_away' = turned_away /\ acks' = acks
    \/ /\ caller[c].at = "limit"
       /\ caller'[c].at = IF statistics["protocol_errors"] > max_protocol_errors THEN "idle" ELSE "ack"
       /\ statistics' = statistics /\ turned_away' = turned_away /\ acks' = acks
    \/ /\ caller[c].at = "ack" /\ caller'[c].at = "idle"
       /\ statistics' = statistics /\ turned_away' = turned_away
       /\ acks' \in {acks, acks + 1}

Shape(c) ==
    /\ CallersOK(caller') /\ \A d \in Callers : d # c => caller'[d] = caller[d]
    /\ AttemptShape(c) /\ StatisticsShape(c)

CallStep(c) == HandlerStep(c) \/ TransportStep(c) \/ Trouble(c)

LEMMA TroubleShape ==
    ASSUME TypeInv, NEW c \in Callers, Trouble(c)
    PROVE  Shape(c)
<1>1. ASSUME NEW state \in {"connect", "count", "report", "protocol", "negotiate", "send"}, NEW e,
             Meets(c, state, e)
      PROVE  Shape(c)
  <2>1. DOMAIN caller = Callers /\ DOMAIN caller[c] = Fields /\ caller[c].retry_count \in Nat
    BY DEF TypeInv, CallersOK
  <2>2. PICK s : s = [caller[c] EXCEPT !.at = state]
    OBVIOUS
  <2>3. PICK u : u = [s EXCEPT !.error = e]
    OBVIOUS
  <2>4. PICK r : r = [u EXCEPT !.troubles = @ + 1]
    OBVIOUS
  <2>5. DOMAIN r = Fields /\ r.at = state /\ r.retry_count = caller[c].retry_count
    BY <2>1, <2>2, <2>3, <2>4 DEF Fields
  <2>6. caller' = [caller EXCEPT ![c] = r]
    <3>1. PICK t : t = [caller EXCEPT ![c].at = state]
      OBVIOUS
    <3>2. DOMAIN t = Callers /\ t[c] = s /\ t = [caller EXCEPT ![c] = s]
      BY <2>1, <2>2, <3>1
    <3>3. PICK w : w = [t EXCEPT ![c].error = e]
      OBVIOUS
    <3>4. DOMAIN w = Callers /\ w[c] = u /\ w = [caller EXCEPT ![c] = u]
      BY <2>1, <2>3, <3>2, <3>3
    <3>5. caller' = [w EXCEPT ![c].troubles = @ + 1]
      BY <1>1, <3>1, <3>3 DEF Meets
    <3> QED
      BY <2>1, <2>4, <3>4, <3>5
  <2>7. state \in Places
    BY DEF Places
  <2>8. Sets(c, r.at, r.retry_count)
    BY <2>1, <2>5, <2>6, <2>7, SetsRecord
  <2>9. /\ caller[c].at = "idle" /\ statistics' = statistics /\ attempts' = attempts
        /\ turned_away' = turned_away /\ acks' = acks
    BY <1>1 DEF Meets
  <2>10. AttemptShape(c) /\ StatisticsShape(c)
    BY <2>5, <2>8, <2>9 DEF Sets, AttemptShape, StatisticsShape, Trying, Counted
  <2> QED
    BY <2>8, <2>10 DEF Sets, Shape
<1> QED
  BY <1>1 DEF Trouble, LosesConnection, MeetsServerError, MeetsProtocolError, WantsVersion

LEMMA RetryRecord ==
    ASSUME TypeInv, NEW c \in Callers, NEW at \in Places, NEW delay,
           caller' = [caller EXCEPT ![c].at = at, ![c].backoff_duration = delay,
                                    ![c].retry_count = @ + 1]
    PROVE  Sets(c, at, caller[c].retry_count + 1)
<1>1. DOMAIN caller = Callers /\ DOMAIN caller[c] = Fields /\ caller[c].retry_count \in Nat
  BY DEF TypeInv, CallersOK
<1>2. PICK s : s = [caller[c] EXCEPT !.at = at]
  OBVIOUS
<1>3. PICK u : u = [s EXCEPT !.backoff_duration = delay]
  OBVIOUS
<1>4. PICK r : r = [u EXCEPT !.retry_count = @ + 1]
  OBVIOUS
<1>5. DOMAIN r = Fields /\ r.at = at /\ r.retry_count = caller[c].retry_count + 1
  BY <1>1, <1>2, <1>3, <1>4 DEF Fields
<1>6. caller' = [caller EXCEPT ![c] = r]
  <2>1. PICK t : t = [caller EXCEPT ![c].at = at]
    OBVIOUS
  <2>2. DOMAIN t = Callers /\ t[c] = s /\ t = [caller EXCEPT ![c] = s]
    BY <1>1, <1>2, <2>1
  <2>3. PICK w : w = [t EXCEPT ![c].backoff_duration = delay]
    OBVIOUS
  <2>4. DOMAIN w = Callers /\ w[c] = u /\ w = [caller EXCEPT ![c] = u]
    BY <1>1, <1>3, <2>2, <2>3
  <2>5. caller' = [w EXCEPT ![c].retry_count = @ + 1]
    BY <2>1, <2>3
  <2> QED
    BY <1>1, <1>4, <2>4, <2>5
<1>7. r.at \in Places /\ r.retry_count \in Nat
  BY <1>1, <1>5
<1>8. Sets(c, r.at, r.retry_count)
  BY <1>5, <1>6, <1>7, SetsRecord
<1> QED
  BY <1>5, <1>8 DEF Sets

\* A step that only moves c, to a place that is counted for nothing else.
LEMMA GotoShape ==
    ASSUME TypeInv, NEW c \in Callers, NEW state \in Places, Goto(c, state),
           StatisticsShape(c), attempts' = attempts,
           caller[c].at \in Trying <=> state \in Trying
    PROVE  Shape(c)
  BY SetsGoto DEF Sets, Shape, AttemptShape

LEMMA PlainShape ==
    ASSUME TypeInv, NEW c \in Callers, NEW state \in Places, Goto(c, state),
           caller[c].at \notin Counted \cup Trying, state \notin Counted \cup Trying,
           attempts' = attempts, statistics' = statistics, turned_away' = turned_away, acks' = acks
    PROVE  Shape(c)
  BY SetsGoto DEF Sets, Shape, AttemptShape, StatisticsShape

LEMMA TransportShape ==
    ASSUME TypeInv, NEW c \in Callers, TransportStep(c)
    PROVE  Shape(c)
<1> USE DEF Places, Counted, Trying
<1>1. CASE ExceedsRetries(c)
  BY <1>1, PlainShape DEF ExceedsRetries
<1>2. CASE RecoverConnection(c)
  <2>1. Sets(c, "endpoint", caller[c].retry_count + 1)
    BY <1>2, RetryRecord DEF RecoverConnection
  <2>2. AttemptShape(c) /\ StatisticsShape(c)
    BY <1>2, <2>1 DEF RecoverConnection, Sets, AttemptShape, StatisticsShape
  <2> QED
    BY <2>1, <2>2 DEF Sets, Shape
<1>3. CASE EnsureEndpoint(c)
  BY <1>3, PlainShape DEF EnsureEndpoint
<1>4. CASE Handshake(c)
  <2>1. CASE Goto(c, "connect") /\ UNCHANGED attempts
    BY <1>4, <2>1, PlainShape DEF Handshake
  <2>2. CASE /\ caller' = [caller EXCEPT ![c].at = "idle", ![c].error = NoError,
                                         ![c].retry_count = 0]
             /\ attempts' = [attempts EXCEPT ![c] = 0]
    <3>1. DOMAIN caller = Callers /\ DOMAIN caller[c] = Fields
      BY DEF TypeInv, CallersOK
    <3>2. PICK s : s = [caller[c] EXCEPT !.at = "idle"]
      OBVIOUS
    <3>3. PICK w : w = [s EXCEPT !.error = NoError]
      OBVIOUS
    <3>4. PICK r : r = [w EXCEPT !.retry_count = 0]
      OBVIOUS
    <3>5. DOMAIN r = Fields /\ r.at = "idle" /\ r.retry_count = 0
      BY <3>1, <3>2, <3>3, <3>4 DEF Fields
    <3>6. caller' = [caller EXCEPT ![c] = r]
      <4>1. PICK t : t = [caller EXCEPT ![c].at = "idle"]
        OBVIOUS
      <4>2. DOMAIN t = Callers /\ t[c] = s /\ t = [caller EXCEPT ![c] = s]
        BY <3>1, <3>2, <4>1
      <4>3. PICK x : x = [t EXCEPT ![c].error = NoError]
        OBVIOUS
      <4>4. DOMAIN x = Callers /\ x[c] = w /\ x = [caller EXCEPT ![c] = w]
        BY <3>1, <3>3, <4>2, <4>3
      <4>5. caller' = [x EXCEPT ![c].retry_count = 0]
        BY <2>2, <4>1, <4>3
      <4> QED
        BY <3>1, <3>4, <4>4, <4>5
    <3>9. r.at \in Places /\ r.retry_count \in Nat
      BY <3>5
    <3>7. Sets(c, r.at, r.retry_count)
      BY <3>5, <3>6, <3>9, SetsRecord
    <3>8. AttemptShape(c) /\ StatisticsShape(c)
      BY <1>4, <2>2, <3>5, <3>7 DEF Handshake, Sets, AttemptShape, StatisticsShape
    <3> QED
      BY <3>7, <3>8 DEF Sets, Shape
  <2> QED
    BY <1>4, <2>1, <2>2 DEF Handshake
<1>5. CASE TransportNegotiates(c)
  BY <1>5, PlainShape DEF TransportNegotiates
<1> QED
  BY <1>1, <1>2, <1>3, <1>4, <1>5 DEF TransportStep

LEMMA HandlerShape ==
    ASSUME TypeInv, NEW c \in Callers, HandlerStep(c)
    PROVE  Shape(c)
<1> USE DEF Places, Counted, Trying
<1>1. CASE CountFailure(c)
  <2>1. Goto(c, "decide") /\ caller[c].at = "count" /\ attempts' = attempts
    BY <1>1 DEF CountFailure
  <2>2. Sets(c, "decide", caller[c].retry_count)
    BY <2>1, SetsGoto
  <2>3. StatisticsShape(c)
    BY <1>1, <2>2 DEF CountFailure, Sets, Count, StatisticsShape
  <2> QED
    BY <2>1, <2>3, GotoShape
<1>2. CASE GiveUp(c)
  <2>1. Goto(c, "idle") /\ caller[c].at = "decide" /\ attempts' = attempts
    BY <1>2 DEF GiveUp
  <2>2. Sets(c, "idle", caller[c].retry_count)
    BY <2>1, SetsGoto
  <2>3. StatisticsShape(c)
    BY <1>2, <2>2 DEF GiveUp, Sets, StatisticsShape
  <2> QED
    BY <2>1, <2>3, GotoShape
<1>3. CASE Backoff(c)
  <2>1. Sets(c, "backoff", caller[c].retry_count + 1)
    BY <1>3, RetryRecord DEF Backoff
  <2>2. AttemptShape(c) /\ StatisticsShape(c)
    BY <1>3, <2>1 DEF Backoff, Retries, Sets, AttemptShape, StatisticsShape
  <2> QED
    BY <2>1, <2>2 DEF Sets, Shape
<1>4. CASE CountAttempt(c)
  <2>1. Goto(c, "reconnect") /\ caller[c].at = "backoff" /\ attempts' = attempts
    BY <1>4 DEF CountAttempt
  <2>2. Sets(c, "reconnect", caller[c].retry_count)
    BY <2>1, SetsGoto
  <2>3. StatisticsShape(c)
    BY <1>4, <2>2 DEF CountAttempt, Sets, Count, StatisticsShape
  <2> QED
    BY <2>1, <2>3, GotoShape
<1>5. CASE SimulateReconnection(c)
  <2>1. Sets(c, "count", caller[c].retry_count)
    BY <1>5, SetsGoto DEF SimulateReconnection
  <2>2. AttemptShape(c) /\ StatisticsShape(c)
    BY <1>5, <2>1 DEF SimulateReconnection, Sets, AttemptShape, StatisticsShape
  <2> QED
    BY <2>1, <2>2 DEF Sets, Shape
<1>6. CASE HandleServerError(c)
  <2>1. PICK state \in {"idle", "count"} : Goto(c, state)
    BY <1>6 DEF HandleServerError
  <2>2. Sets(c, state, caller[c].retry_count)
    BY <2>1, SetsGoto
  <2>3. StatisticsShape(c) /\ caller[c].at = "report" /\ attempts' = attempts
    BY <1>6, <2>2 DEF HandleServerError, Sets, Count, StatisticsShape
  <2> QED
    BY <2>1, <2>3, GotoShape
<1>7. CASE CountProtocolError(c)
  <2>1. Goto(c, "limit") /\ caller[c].at = "protocol" /\ attempts' = attempts
    BY <1>7 DEF CountProtocolError
  <2>2. Sets(c, "limit", caller[c].retry_count)
    BY <2>1, SetsGoto
  <2>3. StatisticsShape(c)
    BY <1>7, <2>2 DEF CountProtocolError, Sets, Count, StatisticsShape
  <2> QED
    BY <2>1, <2>3, GotoShape
<1>8. CASE CheckProtocolErrors(c)
  <2>1. PICK state \in {"idle", "ack"} :
             state = IF statistics["protocol_errors"] > max_protocol_errors THEN "idle" ELSE "ack"
    OBVIOUS
  <2>2. Goto(c, state) /\ caller[c].at = "limit" /\ attempts' = attempts
    BY <1>8, <2>1 DEF CheckProtocolErrors
  <2>3. Sets(c, state, caller[c].retry_count)
    BY <2>2, SetsGoto
  <2>4. StatisticsShape(c)
    BY <1>8, <2>1, <2>3 DEF CheckProtocolErrors, Sets, StatisticsShape
  <2> QED
    BY <2>2, <2>4, GotoShape
<1>9. CASE Acknowledge(c)
  <2>1. Goto(c, "idle") /\ caller[c].at = "ack" /\ attempts' = attempts
    BY <1>9 DEF Acknowledge
  <2>2. Sets(c, "idle", caller[c].retry_count)
    BY <2>1, SetsGoto
  <2>3. StatisticsShape(c)
    BY <1>9, <2>2 DEF Acknowledge, Sets, StatisticsShape
  <2> QED
    BY <2>1, <2>3, GotoShape
<1>10. CASE SendVersion(c) \/ ReceiveResponse(c)
  BY <1>10, PlainShape DEF SendVersion, ReceiveResponse
<1> QED
  BY <1>1, <1>2, <1>3, <1>4, <1>5, <1>6, <1>7, <1>8, <1>9, <1>10 DEF HandlerStep

LEMMA StepShape == ASSUME TypeInv, NEW c \in Callers, CallStep(c) PROVE Shape(c)
  BY HandlerShape, TransportShape, TroubleShape DEF CallStep

LEMMA TypeInit == Init => TypeInv
<1> SUFFICES ASSUME Init PROVE TypeInv
  OBVIOUS
<1>1. CallersOK(caller)
  BY DEF Init, CallersOK, Fields, Places
<1>2. CountersOK
  BY DEF Init, CountersOK, Counters
<1> QED
  BY <1>1, <1>2 DEF TypeInv

LEMMA TypeStep == ASSUME TypeInv, NEW c \in Callers, CallStep(c) PROVE TypeInv'
<1>1. Shape(c)
  BY StepShape
<1>2. CallersOK(caller)'
  BY <1>1 DEF Shape, CallersOK
<1>3. statistics' \in [Counters -> Nat] /\ turned_away' \in Nat /\ acks' \in Nat
  BY <1>1 DEF TypeInv, CountersOK, Counters, Shape, StatisticsShape
<1>4. attempts' \in [Callers -> Nat]
  BY <1>1 DEF TypeInv, CountersOK, Shape, AttemptShape
<1> QED
  BY <1>2, <1>3, <1>4 DEF TypeInv, CountersOK

(***************************************************************************)
(* The attempts of a task: while one is under way its count of retries is   *)
(* one ahead and still within the limit of the handler.                     *)
(***************************************************************************)

AttemptsOf(r, n) ==
    /\ r.retry_count = n + One(r.at \in Trying)
    /\ n <= Max({max_retries, handler_max_retries})
    /\ r.at \in Trying => r.retry_count <= handler_max_retries

AttemptsInv == TypeInv /\ \A c \in Callers : AttemptsOf(caller[c], attempts[c])

LEMMA AttemptsInit == Init => AttemptsInv
<1> SUFFICES ASSUME Init, NEW c \in Callers PROVE AttemptsOf(caller[c], attempts[c])
  BY TypeInit DEF AttemptsInv
<1>1. caller[c].at = "idle" /\ caller[c].retry_count = 0 /\ attempts[c] = 0
  BY DEF Init
<1>2. 0 <= Max({max_retries, handler_max_retries})
  BY MaxOfTwo, Limits
<1> QED
  BY <1>1, <1>2 DEF AttemptsOf, One, Trying

LEMMA AttemptsStep ==
    ASSUME AttemptsInv, NEW c \in Callers, CallStep(c)
    PROVE  AttemptsInv'
<1>1. TypeInv' /\ Shape(c)
  BY TypeStep, StepShape DEF AttemptsInv
<1>2. ASSUME NEW d \in Callers, d # c PROVE AttemptsOf(caller'[d], attempts'[d])
  <2>1. caller'[d] = caller[d]
    BY <1>1, <1>2 DEF Shape
  <2>2. attempts'[d] = attempts[d]
    BY <1>1, <1>2 DEF Shape, AttemptShape, AttemptsInv, TypeInv, CountersOK
  <2> QED
    BY <2>1, <2>2 DEF AttemptsInv
<1>3. AttemptsOf(caller'[c], attempts'[c])
  <2>1. PICK m \in Nat : /\ m = Max({max_retries, handler_max_retries})
                         /\ max_retries <= m /\ handler_max_retries <= m
    BY MaxOfTwo, Limits
  <2>2. /\ attempts \in [Callers -> Nat] /\ attempts[c] \in Nat /\ caller[c].retry_count \in Nat
        /\ max_retries \in Nat /\ handler_max_retries \in Nat
    BY Limits DEF AttemptsInv, TypeInv, CountersOK, CallersOK
  <2>3. /\ caller[c].retry_count = attempts[c] + One(caller[c].at \in Trying)
        /\ attempts[c] <= m
        /\ caller[c].at \in Trying => caller[c].retry_count <= handler_max_retries
    BY <2>1 DEF AttemptsInv, AttemptsOf
  <2>4. AttemptShape(c)
    BY <1>1 DEF Shape
  <2> QED
    BY <2>1, <2>2, <2>3, <2>4 DEF AttemptShape, AttemptsOf, One, Trying
<1> QED
  BY <1>1, <1>2, <1>3 DEF AttemptsInv

LEMMA AttemptsNext == ASSUME AttemptsInv, [Next]_vars PROVE AttemptsInv'
<1>1. CASE UNCHANGED vars
  BY <1>1 DEF vars, AttemptsInv, TypeInv, CallersOK, CountersOK
<1> QED
  BY <1>1, AttemptsStep DEF Next, CallStep

\* Whatever mechanism a task uses, its RecoveryState counts every attempt once and
\* nobody tries more often than the larger limit, for any limits and numbers of tasks.
THEOREM EveryAttemptCounted == Spec => []AttemptsCounted
<1>1. ASSUME AttemptsInv, NEW c \in Callers
      PROVE  /\ caller[c].retry_count
                  = attempts[c] + Cardinality(In({"backoff", "reconnect"}) \cap {c})
             /\ attempts[c] <= Max({max_retries, handler_max_retries})
  <2>1. AttemptsOf(caller[c], attempts[c])
    BY <1>1 DEF AttemptsInv
  <2>2. CASE caller[c].at \in Trying
    <3>1. In({"backoff", "reconnect"}) \cap {c} = {c}
      BY <2>2 DEF In, Trying
    <3> QED
      BY <2>1, <2>2, <3>1, FS_Singleton DEF AttemptsOf, One
  <2>3. CASE caller[c].at \notin Trying
    <3>1. In({"backoff", "reconnect"}) \cap {c} = {}
      BY <2>3 DEF In, Trying
    <3> QED
      BY <2>1, <2>3, <3>1, FS_EmptySet DEF AttemptsOf, One
  <2> QED
    BY <2>2, <2>3
<1>2. AttemptsInv => AttemptsCounted
  BY <1>1 DEF AttemptsCounted
<1> QED
  BY <1>2, AttemptsInit, AttemptsNext, PTL DEF Spec

(***************************************************************************)
(* The statistics.  A protocol error is counted before the limit is read,   *)
(* so that every task about to read it is in the count.                     *)
(***************************************************************************)

StatisticsInv ==
    /\ TypeInv
    /\ statistics["connection_failures"]
         = statistics["recovery_attempts"] + turned_away + Cardinality(In({"decide", "backoff"}))
    /\ acks + Cardinality(In({"ack"})) <= max_protocol_errors
    /\ acks + Cardinality(In({"ack"})) + Cardinality(In({"limit"}))
         <= statistics["protocol_errors"]

LEMMA StatisticsInit == Init => StatisticsInv
<1> SUFFICES ASSUME Init PROVE StatisticsInv
  OBVIOUS
<1>1. In({"decide", "backoff"}) = {} /\ In({"ack"}) = {} /\ In({"limit"}) = {}
  BY DEF Init, In
<1>2. /\ statistics["connection_failures"] = 0 /\ statistics["recovery_attempts"] = 0
      /\ statistics["protocol_errors"] = 0 /\ turned_away = 0 /\ acks = 0
  BY DEF Init
<1> QED
  BY <1>1, <1>2, TypeInit, FS_EmptySet, Limits DEF StatisticsInv

LEMMA StatisticsStep ==
    ASSUME StatisticsInv, NEW c \in Callers, CallStep(c)
    PROVE  StatisticsInv'
<1>1. TypeInv' /\ Shape(c)
  BY TypeStep, StepShape DEF StatisticsInv
<1>2. PICK f \in Nat, a \in Nat, l \in Nat :
          /\ f = Cardinality(In({"decide", "backoff"})) /\ a = Cardinality(In({"ack"}))
          /\ l = Cardinality(In({"limit"}))
  BY <1>1, InMoved DEF Shape
<1>3. /\ Cardinality(In({"decide", "backoff"})') = f + One(caller'[c].at \in {"decide", "backoff"})
                                                     - One(caller[c].at \in {"decide", "backoff"})
      /\ Cardinality(In({"ack"})') = a + One(caller'[c].at \in {"ack"}) - One(caller[c].at \in {"ack"})
      /\ Cardinality(In({"limit"})') = l + One(caller'[c].at \in {"limit"})
                                         - One(caller[c].at \in {"limit"})
  BY <1>1, <1>2, InMoved DEF Shape
<1>4. caller[c].at \in {"limit"} => l # 0
  <2>1. ASSUME caller[c].at \in {"limit"}, l = 0 PROVE FALSE
    <3>1. IsFiniteSet(Callers) /\ In({"limit"}) \in SUBSET Callers /\ c \in In({"limit"})
      BY <2>1, Limits DEF In
    <3>2. IsFiniteSet(In({"limit"}))
      BY <3>1, FS_Subset
    <3> QED
      BY <1>2, <2>1, <3>1, <3>2, FS_EmptySet
  <2> QED
    BY <2>1
<1>5. /\ statistics \in [Counters -> Nat] /\ turned_away \in Nat /\ acks \in Nat
      /\ statistics["connection_failures"] \in Nat /\ statistics["recovery_attempts"] \in Nat
      /\ statistics["protocol_errors"] \in Nat /\ max_protocol_errors \in Nat
  BY Limits DEF StatisticsInv, TypeInv, CountersOK, Counters
<1>6. /\ statistics["connection_failures"] = statistics["recovery_attempts"] + turned_away + f
      /\ acks + a <= max_protocol_errors
      /\ acks + a + l <= statistics["protocol_errors"]
  BY <1>2 DEF StatisticsInv
<1>7. StatisticsShape(c)
  BY <1>1 DEF Shape
<1>8. PICK f2, a2, l2 :
          /\ f2 = Cardinality(In({"decide", "backoff"})') /\ a2 = Cardinality(In({"ack"})')
          /\ l2 = Cardinality(In({"limit"})')
  OBVIOUS
<1>9. /\ statistics'["connection_failures"] = statistics'["recovery_attempts"] + turned_away' + f2
      /\ acks' + a2 <= max_protocol_errors
      /\ acks' + a2 + l2 <= statistics'["protocol_errors"]
  BY <1>3, <1>4, <1>5, <1>6, <1>7, <1>8 DEF StatisticsShape, Counted, Counters, One
<1> QED
  BY <1>1, <1>8, <1>9 DEF StatisticsInv

LEMMA StatisticsNext == ASSUME StatisticsInv, [Next]_vars PROVE StatisticsInv'
<1>1. CASE UNCHANGED vars
  BY <1>1 DEF vars, StatisticsInv, TypeInv, CallersOK, CountersOK, In
<1> QED
  BY <1>1, StatisticsStep DEF Next, CallStep

\* The statistics tell what happened, and no more protocol errors are acknowledged
\* than the limit allows, however many tasks report at the same time.
THEOREM StatisticsTrue == Spec => []StatisticsTellTheTruth
<1>1. StatisticsInv => StatisticsTellTheTruth
  BY DEF StatisticsInv, StatisticsTellTheTruth
<1> QED
  BY <1>1, StatisticsInit, StatisticsNext, PTL DEF Spec

(***************************************************************************)
(* The full types, and what negotiations end with.  The provers know no     *)
(* powers, but a set of n elements has 2^n subsets, and that is a number.   *)
(***************************************************************************)

LEMMA PowerIsNat == ASSUME NEW n \in Nat PROVE 2 ^ n \in Nat
<1>1. IsFiniteSet(1 .. n) /\ Cardinality(1 .. n) = n
  BY FS_Interval
<1>2. IsFiniteSet(SUBSET (1 .. n)) /\ Cardinality(SUBSET (1 .. n)) = 2 ^ n
  BY <1>1, FS_SUBSET
<1> QED
  BY <1>2, FS_CardinalityType

LEMMA MinOfTwo ==
    ASSUME NEW a \in Nat, NEW b \in Nat
    PROVE  Min({a, b}) \in Nat
<1>1. \E x \in {a, b} : \A y \in {a, b} : x <= y
  <2>1. CASE a <= b
    BY <2>1
  <2>2. CASE b <= a
    BY <2>2
  <2> QED
    BY <2>1, <2>2
<1>2. Min({a, b}) \in {a, b}
  BY <1>1 DEF Min
<1> QED
  BY <1>2

LEMMA StrategiesKnown ==
    Strategies \subseteq {"Immediate", "ExponentialBackoff", "LinearBackoff", "AdaptiveBackoff"}
  BY RecoveryOK

\* Every delay is a number of milliseconds.
LEMMA DelaysAreNat ==
    ASSUME NEW n \in Nat, NEW s \in Strategies
    PROVE  CalculateBackoffDelay(n) \in Nat /\ TransportBackoff(s, n) \in Nat
<1>1. PICK p \in Nat : p = 2 ^ n
  BY PowerIsNat
<1>2. 100 * p \in Nat /\ 30000 \in Nat /\ 1000 * n \in Nat /\ 500 + 200 * n \in Nat /\ 0 \in Nat
  OBVIOUS
<1>3. s \in {"Immediate", "ExponentialBackoff", "LinearBackoff", "AdaptiveBackoff"}
  BY StrategiesKnown
<1>4. CalculateBackoffDelay(n) \in Nat
  BY <1>1, <1>2, MinOfTwo DEF CalculateBackoffDelay
<1>5. TransportBackoff(s, n) \in Nat
  <2>1. CASE s = "Immediate"
    BY <2>1 DEF TransportBackoff
  <2>2. CASE s = "ExponentialBackoff"
    BY <1>1, <1>2, <2>2 DEF TransportBackoff
  <2>3. CASE s = "LinearBackoff"
    BY <1>2, <2>3 DEF TransportBackoff
  <2>4. CASE s = "AdaptiveBackoff"
    BY <1>2, <2>4 DEF TransportBackoff
  <2> QED
    BY <1>3, <2>1, <2>2, <2>3, <2>4
<1> QED
  BY <1>4, <1>5

VersionsOK == versions \subseteq [by : {"handler", "transport"},
                                  version : {"accepted", "rejected", "timeout"}]

FullInv == /\ TypeInv /\ caller \in [Callers -> Caller]
           /\ endpoint \in BOOLEAN /\ VersionsOK

\* A step that replaces the record of c.
Updates(c) == \E r \in Caller : caller' = [caller EXCEPT ![c] = r]

LEMMA CallerGoto ==
    ASSUME FullInv, NEW c \in Callers, NEW state \in Places, Goto(c, state)
    PROVE  Updates(c)
<1>1. DOMAIN caller = Callers /\ caller[c] \in Caller
  BY DEF FullInv
<1>2. NoError \in Errors
  BY DEF NoError, Errors
<1>3. PICK s : s = [caller[c] EXCEPT !.at = state]
  OBVIOUS
<1>4. s \in Caller
  BY <1>1, <1>3 DEF Caller
<1>5. PICK e \in Errors : e = IF state = "idle" THEN NoError ELSE s.error
  BY <1>2, <1>4 DEF Caller
<1>6. PICK r : r = [s EXCEPT !.error = e]
  OBVIOUS
<1>7. r \in Caller
  BY <1>4, <1>5, <1>6 DEF Caller
<1>8. PICK t : t = [caller EXCEPT ![c].at = state]
  OBVIOUS
<1>9. DOMAIN t = Callers /\ t[c] = s /\ t = [caller EXCEPT ![c] = s]
  BY <1>1, <1>3, <1>8
<1>10. caller' = [t EXCEPT ![c].error = IF state = "idle" THEN NoError ELSE @]
  BY <1>8 DEF Goto
<1>11. caller' = [t EXCEPT ![c].error = e]
  BY <1>5, <1>9, <1>10
<1>12. caller' = [t EXCEPT ![c] = r]
  BY <1>6, <1>9, <1>11
<1>13. caller' = [caller EXCEPT ![c] = r]
  BY <1>1, <1>9, <1>12
<1> QED
  BY <1>7, <1>13 DEF Updates

LEMMA CallerMeets ==
    ASSUME FullInv, NEW c \in Callers, NEW state \in Places, NEW e \in Errors, Meets(c, state, e)
    PROVE  Updates(c)
<1>1. DOMAIN caller = Callers /\ caller[c] \in Caller /\ caller[c].troubles < MaxTroubles
  BY DEF FullInv, Meets
<1>2. PICK s : s = [caller[c] EXCEPT !.at = state]
  OBVIOUS
<1>3. PICK u : u = [s EXCEPT !.error = e]
  OBVIOUS
<1>4. PICK r : r = [u EXCEPT !.troubles = @ + 1]
  OBVIOUS
<1>5. r \in Caller
  <2>1. s \in Caller /\ s.troubles = caller[c].troubles
    BY <1>1, <1>2 DEF Caller
  <2>2. u \in Caller /\ u.troubles = caller[c].troubles
    BY <1>3, <2>1 DEF Caller
  <2>3. MaxTroubles \in Nat
    BY RecoveryOK
  <2>4. u.troubles + 1 \in 0 .. MaxTroubles
    BY <1>1, <2>2, <2>3 DEF Caller
  <2> QED
    BY <1>4, <2>2, <2>4 DEF Caller
<1>6. PICK t : t = [caller EXCEPT ![c].at = state]
  OBVIOUS
<1>7. DOMAIN t = Callers /\ t[c] = s /\ t = [caller EXCEPT ![c] = s]
  BY <1>1, <1>2, <1>6
<1>8. PICK w : w = [t EXCEPT ![c].error = e]
  OBVIOUS
<1>9. DOMAIN w = Callers /\ w[c] = u /\ w = [caller EXCEPT ![c] = u]
  BY <1>1, <1>3, <1>7, <1>8
<1>10. caller' = [w EXCEPT ![c].troubles = @ + 1]
  BY <1>6, <1>8 DEF Meets
<1>11. caller' = [caller EXCEPT ![c] = r]
  BY <1>1, <1>4, <1>9, <1>10
<1> QED
  BY <1>5, <1>11 DEF Updates

LEMMA CallerRetry ==
    ASSUME FullInv, NEW c \in Callers, NEW at \in Places, NEW delay \in Nat,
           caller' = [caller EXCEPT ![c].at = at, ![c].backoff_duration = delay,
                                    ![c].retry_count = @ + 1]
    PROVE  Updates(c)
<1>1. DOMAIN caller = Callers /\ caller[c] \in Caller
  BY DEF FullInv
<1>2. PICK s : s = [caller[c] EXCEPT !.at = at]
  OBVIOUS
<1>3. PICK u : u = [s EXCEPT !.backoff_duration = delay]
  OBVIOUS
<1>4. PICK r : r = [u EXCEPT !.retry_count = @ + 1]
  OBVIOUS
<1>5. r \in Caller
  BY <1>1, <1>2, <1>3, <1>4 DEF Caller
<1>6. PICK t : t = [caller EXCEPT ![c].at = at]
  OBVIOUS
<1>7. DOMAIN t = Callers /\ t[c] = s /\ t = [caller EXCEPT ![c] = s]
  BY <1>1, <1>2, <1>6
<1>8. PICK w : w = [t EXCEPT ![c].backoff_duration = delay]
  OBVIOUS
<1>9. DOMAIN w = Callers /\ w[c] = u /\ w = [caller EXCEPT ![c] = u]
  BY <1>1, <1>3, <1>7, <1>8
<1>10. caller' = [w EXCEPT ![c].retry_count = @ + 1]
  BY <1>6, <1>8
<1>11. caller' = [caller EXCEPT ![c] = r]
  BY <1>1, <1>4, <1>9, <1>10
<1> QED
  BY <1>5, <1>11 DEF Updates

LEMMA CallerResets ==
    ASSUME FullInv, NEW c \in Callers,
           caller' = [caller EXCEPT ![c].at = "idle", ![c].error = NoError, ![c].retry_count = 0]
    PROVE  Updates(c)
<1>1. DOMAIN caller = Callers /\ caller[c] \in Caller /\ "idle" \in Places
  BY DEF FullInv, Places
<1>0. NoError \in Errors
  BY DEF NoError, Errors
<1>2. PICK s : s = [caller[c] EXCEPT !.at = "idle"]
  OBVIOUS
<1>3. PICK u : u = [s EXCEPT !.error = NoError]
  OBVIOUS
<1>4. PICK r : r = [u EXCEPT !.retry_count = 0]
  OBVIOUS
<1>5. r \in Caller
  BY <1>0, <1>1, <1>2, <1>3, <1>4 DEF Caller
<1>6. PICK t : t = [caller EXCEPT ![c].at = "idle"]
  OBVIOUS
<1>7. DOMAIN t = Callers /\ t[c] = s /\ t = [caller EXCEPT ![c] = s]
  BY <1>1, <1>2, <1>6
<1>8. PICK w : w = [t EXCEPT ![c].error = NoError]
  OBVIOUS
<1>9. DOMAIN w = Callers /\ w[c] = u /\ w = [caller EXCEPT ![c] = u]
  BY <1>1, <1>3, <1>7, <1>8
<1>10. caller' = [w EXCEPT ![c].retry_count = 0]
  BY <1>6, <1>8
<1>11. caller' = [caller EXCEPT ![c] = r]
  BY <1>1, <1>4, <1>9, <1>10
<1> QED
  BY <1>5, <1>11 DEF Updates

\* The status the handler makes up is read as another number.
\* What a step does to the endpoint and to the versions.
Rest == endpoint' \in BOOLEAN /\ VersionsOK'

Keeps(c) == Updates(c) /\ Rest

LEMMA RestKept ==
    ASSUME FullInv, UNCHANGED <<endpoint, versions>>
    PROVE  Rest
  BY DEF FullInv, VersionsOK, Rest

LEMMA HandlerKeeps == ASSUME FullInv, NEW c \in Callers, HandlerStep(c) PROVE Keeps(c)
<1> USE DEF Places
<1>1. CASE CountFailure(c) \/ GiveUp(c) \/ CountAttempt(c) \/ SimulateReconnection(c)
  BY <1>1, CallerGoto, RestKept DEF CountFailure, GiveUp, CountAttempt, SimulateReconnection, Keeps
<1>2. CASE Backoff(c)
  <2>1. caller[c].retry_count \in Nat /\ caller[c].strategy \in Strategies
    BY DEF FullInv, Caller
  <2>2. PICK delay \in Nat : delay = CalculateBackoffDelay(caller[c].retry_count)
    BY <2>1, DelaysAreNat
  <2>3. caller' = [caller EXCEPT ![c].at = "backoff", ![c].backoff_duration = delay,
                                 ![c].retry_count = @ + 1]
    BY <1>2, <2>2 DEF Backoff
  <2>4. UNCHANGED <<endpoint, versions>>
    BY <1>2 DEF Backoff
  <2> QED
    BY <2>3, <2>4, CallerRetry, RestKept DEF Keeps
<1>3. CASE HandleServerError(c)
  <2>1. PICK state \in {"idle", "count"} : Goto(c, state)
    BY <1>3 DEF HandleServerError
  <2>2. UNCHANGED <<endpoint, versions>>
    BY <1>3 DEF HandleServerError
  <2> QED
    BY <2>1, <2>2, CallerGoto, RestKept DEF Keeps
<1>4. CASE CountProtocolError(c) \/ Acknowledge(c) \/ SendVersion(c)
  BY <1>4, CallerGoto, RestKept DEF CountProtocolError, Acknowledge, SendVersion, Keeps
<1>5. CASE CheckProtocolErrors(c)
  <2>1. PICK state \in {"idle", "ack"} :
             state = IF statistics.protocol_errors > max_protocol_errors THEN "idle" ELSE "ack"
    OBVIOUS
  <2>2. Goto(c, state) /\ UNCHANGED <<endpoint, versions>>
    BY <1>5, <2>1 DEF CheckProtocolErrors
  <2> QED
    BY <2>2, CallerGoto, RestKept DEF Keeps
<1>6. CASE ReceiveResponse(c)
  <2>1. Goto(c, "idle") /\ endpoint' = endpoint
    BY <1>6 DEF ReceiveResponse
  <2>2. PICK answer \in {"accepted", "rejected", "timeout"} :
             versions' = versions \cup {[by |-> "handler", version |-> answer]}
    BY <1>6 DEF ReceiveResponse
  <2>3. VersionsOK'
    BY <2>2 DEF FullInv, VersionsOK
  <2> QED
    BY <2>1, <2>3, CallerGoto DEF FullInv, Keeps, Rest
<1> QED
  BY <1>1, <1>2, <1>3, <1>4, <1>5, <1>6 DEF HandlerStep

LEMMA TransportKeeps == ASSUME FullInv, NEW c \in Callers, TransportStep(c) PROVE Keeps(c)
<1> USE DEF Places
<1>1. CASE ExceedsRetries(c)
  BY <1>1, CallerGoto, RestKept DEF ExceedsRetries, Keeps
<1>2. CASE RecoverConnection(c)
  <2>1. caller[c].retry_count \in Nat /\ caller[c].strategy \in Strategies
    BY DEF FullInv, Caller
  <2>2. PICK delay \in Nat :
             delay = TransportBackoff(caller[c].strategy, caller[c].retry_count)
    BY <2>1, DelaysAreNat
  <2>3. caller' = [caller EXCEPT ![c].at = "endpoint", ![c].backoff_duration = delay,
                                 ![c].retry_count = @ + 1]
    BY <1>2, <2>2 DEF RecoverConnection
  <2>4. UNCHANGED <<endpoint, versions>>
    BY <1>2 DEF RecoverConnection
  <2> QED
    BY <2>3, <2>4, CallerRetry, RestKept DEF Keeps
<1>3. CASE EnsureEndpoint(c)
  <2>1. \E state \in {"handshake", "connect"} : Goto(c, state)
    BY <1>3 DEF EnsureEndpoint
  <2>2. endpoint' \in BOOLEAN /\ versions' = versions
    BY <1>3 DEF EnsureEndpoint, FullInv
  <2>3. VersionsOK'
    BY <2>2 DEF FullInv, VersionsOK
  <2> QED
    BY <2>1, <2>2, <2>3, CallerGoto DEF Keeps, Rest
<1>4. CASE Handshake(c)
  <2>1. Updates(c)
    BY <1>4, CallerResets, CallerGoto DEF Handshake
  <2>2. UNCHANGED <<endpoint, versions>>
    BY <1>4 DEF Handshake
  <2> QED
    BY <2>1, <2>2, RestKept DEF Keeps
<1>5. CASE TransportNegotiates(c)
  <2>1. Goto(c, "idle") /\ endpoint' = endpoint
    BY <1>5 DEF TransportNegotiates
  <2>2. versions' \in {versions, versions \cup {[by |-> "transport", version |-> "accepted"]}}
    BY <1>5 DEF TransportNegotiates
  <2>3. VersionsOK'
    BY <2>2 DEF FullInv, VersionsOK
  <2> QED
    BY <2>1, <2>3, CallerGoto DEF FullInv, Keeps, Rest
<1> QED
  BY <1>1, <1>2, <1>3, <1>4, <1>5 DEF TransportStep

LEMMA TroubleKeeps == ASSUME FullInv, NEW c \in Callers, Trouble(c) PROVE Keeps(c)
<1>1. PICK state \in {"connect", "count", "report", "protocol", "negotiate", "send"}, e \in Errors :
           Meets(c, state, e)
  BY DEF Trouble, LosesConnection, MeetsServerError, MeetsProtocolError, WantsVersion, NoCode,
         NoError, Errors
<1>2. state \in Places /\ UNCHANGED <<endpoint, versions>>
  BY <1>1 DEF Places, Meets
<1> QED
  BY <1>1, <1>2, CallerMeets, RestKept DEF Keeps

LEMMA FullInit == Init => FullInv
<1> SUFFICES ASSUME Init PROVE FullInv
  OBVIOUS
<1>1. caller \in [Callers -> Caller]
  <2>1. PICK s \in Strategies : caller = [c \in Callers |->
           [at |-> "idle", error |-> NoError, strategy |-> s,
            retry_count |-> 0, backoff_duration |-> 0, troubles |-> 0]]
    BY DEF Init
  <2>2. NoError \in Errors /\ 0 \in 0 .. MaxTroubles
    BY RecoveryOK DEF NoError, Errors
  <2> QED
    BY <2>1, <2>2 DEF Caller, Places
<1> QED
  BY <1>1, TypeInit DEF Init, FullInv, VersionsOK

LEMMA FullNext == ASSUME FullInv, [Next]_vars PROVE FullInv'
<1>1. CASE UNCHANGED vars
  BY <1>1 DEF vars, FullInv, TypeInv, CallersOK, CountersOK, VersionsOK
<1>2. ASSUME NEW c \in Callers, CallStep(c) PROVE FullInv'
  <2>1. Keeps(c)
    BY <1>2, HandlerKeeps, TransportKeeps, TroubleKeeps DEF CallStep
  <2>2. TypeInv'
    BY <1>2, TypeStep DEF FullInv
  <2>3. caller' \in [Callers -> Caller]
    BY <2>1 DEF FullInv, Keeps, Updates
  <2> QED
    BY <2>1, <2>2, <2>3 DEF FullInv, Keeps, Rest
<1> QED
  BY <1>1, <1>2 DEF Next, CallStep

\* Type correctness of any number of recoveries: in particular every backoff of
\* both mechanisms is a natural number for every strategy and every count of
\* retries, and the error of a call is one of those the network or the server
\* may cause.
THEOREM TypeCorrect == Spec => []TypeOK
<1>1. FullInv => TypeOK
  BY DEF FullInv, TypeInv, CountersOK, Counters, VersionsOK, TypeOK
<1> QED
  BY <1>1, FullInit, FullNext, PTL DEF Spec

=============================================================================

------------------------------ MODULE Recovery ------------------------------
(***************************************************************************)
(* Recovering a connection: recover_connection of the transport             *)
(* (src/src/transport.rs) and the network error handler                     *)
(* (src/src/network_error_handler.rs).                                      *)
(*                                                                         *)
(* The repository offers both and wires neither into an upload, so their    *)
(* callers are external: tasks that each keep one RecoveryState and, when   *)
(* a connection is lost, call one of the two again and again until it gives *)
(* them a connection or tells them to give up.  They also report errors of  *)
(* the protocol and of the server, and negotiate the version.  All share    *)
(* the statistics of the handler, whose lock is taken for one counter at a  *)
(* time, and the endpoint of the transport.                                 *)
(*                                                                         *)
(* A connection is made, or not, as the network likes.  Delays are those    *)
(* the code computes, in milliseconds and without the jitter; a delay only  *)
(* separates the steps around it.                                           *)
(***************************************************************************)
EXTENDS Integers, FiniteSets, FiniteSetsExt

CONSTANTS
    Callers,             \* tasks that share a handler and a transport
    Strategies,          \* the recovery strategies they choose from
    Codes,               \* the codes the server may send
    max_retries,         \* of RecoveryState, for the transport; 5 in the code
    handler_max_retries, \* of RetryConfig, for the handler; 5 in the code
    max_protocol_errors, \* of ProtocolConfig; 10 in the code
    MaxTroubles          \* bound: troubles each caller meets

ASSUME RecoveryOK ==
    /\ IsFiniteSet(Callers)
    /\ Strategies \subseteq {"Immediate", "ExponentialBackoff", "LinearBackoff", "AdaptiveBackoff"}
    /\ max_retries \in Nat /\ handler_max_retries \in Nat
    /\ max_protocol_errors \in Nat /\ MaxTroubles \in Nat

ASSUME CodesOK == Codes \subseteq 1 .. 65535

VARIABLES
    caller,      \* task -> where it is, with which error, and its RecoveryState
    statistics,  \* ErrorStatistics
    endpoint,    \* whether the transport has an endpoint
    versions,    \* what negotiations ended with, and who said so
    attempts,    \* history: task -> reconnections tried since the last success
    turned_away, \* history: failures the handler did not retry
    acks         \* history: protocol errors acknowledged

vars == <<caller, statistics, endpoint, versions, attempts, turned_away, acks>>

\* A code of 0 is an error that is not the server's: a lost connection is
\* retried, any other failure is not.
Errors == [kind : {"ConnectionLost", "Other"}, code : {0}]
          \cup [kind : {"ServerError"}, code : Codes]

Places == {"idle", "count", "decide", "backoff", "reconnect", "connect", "endpoint",
           "handshake", "report", "protocol", "limit", "ack", "negotiate", "response", "send"}

Caller == [at : Places, error : Errors, strategy : Strategies, retry_count : Nat,
           backoff_duration : Nat, troubles : 0 .. MaxTroubles]

NoError == [kind |-> "Other", code |-> 0]

Init ==
    /\ \E s \in Strategies : caller = [c \in Callers |->
           [at |-> "idle", error |-> NoError, strategy |-> s,
            retry_count |-> 0, backoff_duration |-> 0, troubles |-> 0]]
    /\ statistics = [connection_failures |-> 0, recovery_attempts |-> 0,
                     protocol_errors |-> 0, server_errors |-> 0]
    /\ endpoint = FALSE
    /\ versions = {}
    /\ attempts = [c \in Callers |-> 0]
    /\ turned_away = 0
    /\ acks = 0

\* The error is a parameter of the call: it ends with it.
Goto(c, state) == caller' = [caller EXCEPT ![c].at = state,
                                           ![c].error = IF state = "idle" THEN NoError ELSE @]

Count(counter) == statistics' = [statistics EXCEPT ![counter] = @ + 1]

-----------------------------------------------------------------------------
(* How the code classifies errors and how long it waits. *)

IsRetryableError(e) ==
    \/ e.kind = "ConnectionLost"
    \/ e.kind = "ServerError" /\ e.code \in (500 .. 599) \cup {1002, 1003}

\* The recovery action of parse_server_error.
RecoveryAction(code) ==
    CASE code \in {400, 404, 1001} -> "None"
      [] code \in {401, 1004}      -> "Reauthenticate"
      [] code = 429                -> "BackoffAndRetry"
      [] code = 1002               -> "ReduceQuality"
      [] code = 1003               -> "WaitAndRetry"
      [] code = 1005               -> "ResendSegment"
      [] OTHER                     -> "RetryWithBackoff"

\* calculate_backoff_delay: base_delay 100 ms, doubled, at most max_delay 30 s.
CalculateBackoffDelay(attempt) == Min({100 * 2 ^ attempt, 30000})

\* Mutant of TransportBackoff: the linear backoff is a step behind.
TransportBackoffBehind(strategy, n) ==
    IF strategy = "LinearBackoff" THEN 1000 * (n - 1) ELSE 100 * 2 ^ n

\* The backoff of recover_connection.
TransportBackoff(strategy, n) ==
    CASE strategy = "Immediate"          -> 0
      [] strategy = "ExponentialBackoff" -> 100 * 2 ^ n
      [] strategy = "LinearBackoff"      -> 1000 * n
      [] strategy = "AdaptiveBackoff"    -> 500 + 200 * n

-----------------------------------------------------------------------------
(* What a task may meet. *)

Meets(c, state, e) ==
    /\ caller[c].at = "idle"
    /\ caller[c].troubles < MaxTroubles
    /\ caller' = [caller EXCEPT ![c].at = state, ![c].error = e, ![c].troubles = @ + 1]
    /\ UNCHANGED <<statistics, endpoint, versions, attempts, turned_away, acks>>

NoCode(kind) == [kind |-> kind, code |-> 0]

LosesConnection(c) ==
    \/ Meets(c, "connect", NoCode("ConnectionLost"))
    \/ \E kind \in {"ConnectionLost", "Other"} : Meets(c, "count", NoCode(kind))

MeetsServerError(c) == \E code \in Codes :
    Meets(c, "report", [kind |-> "ServerError", code |-> code])

MeetsProtocolError(c) == Meets(c, "protocol", NoError)

\* By the handler, which waits for an answer, or by the transport, which does not.
WantsVersion(c) == \E state \in {"negotiate", "send"} : Meets(c, state, NoError)

-----------------------------------------------------------------------------
(* handle_connection_failure *)

CountFailure(c) ==
    /\ caller[c].at = "count"
    /\ Count("connection_failures")
    /\ Goto(c, "decide")
    /\ UNCHANGED <<endpoint, versions, attempts, turned_away, acks>>

Retries(c) == IsRetryableError(caller[c].error) /\ caller[c].retry_count < handler_max_retries

\* RecoveryFailed for an error that is not retried, or RetryExhausted.
GiveUp(c) ==
    /\ caller[c].at = "decide"
    /\ ~Retries(c)
    /\ Goto(c, "idle")
    /\ turned_away' = turned_away + 1
    /\ UNCHANGED <<statistics, endpoint, versions, attempts, acks>>

\* Mutant of Backoff: the attempt is not counted.
BackoffUncounted(c) ==
    /\ caller[c].at = "decide"
    /\ Retries(c)
    /\ Goto(c, "backoff")
    /\ UNCHANGED <<statistics, endpoint, versions, attempts, turned_away, acks>>

Backoff(c) ==
    /\ caller[c].at = "decide"
    /\ Retries(c)
    /\ caller' = [caller EXCEPT
                    ![c].at = "backoff",
                    ![c].backoff_duration = CalculateBackoffDelay(caller[c].retry_count),
                    ![c].retry_count = @ + 1]
    /\ UNCHANGED <<statistics, endpoint, versions, attempts, turned_away, acks>>

CountAttempt(c) ==
    /\ caller[c].at = "backoff"
    /\ Count("recovery_attempts")
    /\ Goto(c, "reconnect")
    /\ UNCHANGED <<endpoint, versions, attempts, turned_away, acks>>

\* simulate_reconnection gives an error whatever it draws.  The caller tries again.
SimulateReconnection(c) ==
    /\ caller[c].at = "reconnect"
    /\ attempts' = [attempts EXCEPT ![c] = @ + 1]
    /\ Goto(c, "count")
    /\ UNCHANGED <<statistics, endpoint, versions, turned_away, acks>>

-----------------------------------------------------------------------------
(* recover_connection *)

ExceedsRetries(c) ==
    /\ caller[c].at = "connect"
    /\ caller[c].retry_count >= max_retries
    /\ Goto(c, "idle")
    /\ UNCHANGED <<statistics, endpoint, versions, attempts, turned_away, acks>>

RecoverConnection(c) ==
    /\ caller[c].at = "connect"
    /\ caller[c].retry_count < max_retries
    /\ caller' = [caller EXCEPT
                    ![c].at = "endpoint",
                    ![c].backoff_duration =
                        TransportBackoff(caller[c].strategy, caller[c].retry_count),
                    ![c].retry_count = @ + 1]
    /\ attempts' = [attempts EXCEPT ![c] = @ + 1]
    /\ UNCHANGED <<statistics, endpoint, versions, turned_away, acks>>

\* ensure_endpoint, under its lock.  Without a socket the attempt fails.
EnsureEndpoint(c) ==
    /\ caller[c].at = "endpoint"
    /\ \/ endpoint' = TRUE /\ Goto(c, "handshake")
       \/ ~endpoint /\ Goto(c, "connect") /\ UNCHANGED endpoint
    /\ UNCHANGED <<statistics, versions, attempts, turned_away, acks>>

\* Mutant of Handshake: the count is reset whether it succeeds or not.
HandshakeResets(c) ==
    /\ caller[c].at = "handshake"
    /\ \E state \in {"idle", "connect"} :
          caller' = [caller EXCEPT ![c].at = state, ![c].error = NoError, ![c].retry_count = 0]
    /\ attempts' = [attempts EXCEPT ![c] = 0]
    /\ UNCHANGED <<statistics, endpoint, versions, turned_away, acks>>

\* connect: the count is reset on success, else the caller tries again.
Handshake(c) ==
    /\ caller[c].at = "handshake"
    /\ \/ /\ caller' = [caller EXCEPT ![c].at = "idle", ![c].error = NoError,
                                         ![c].retry_count = 0]
          /\ attempts' = [attempts EXCEPT ![c] = 0]
       \/ /\ Goto(c, "connect")
          /\ UNCHANGED attempts
    /\ UNCHANGED <<statistics, endpoint, versions, turned_away, acks>>

-----------------------------------------------------------------------------
(* handle_server_error, after which the caller reports the failure as well. *)

HandleServerError(c) ==
    /\ caller[c].at = "report"
    /\ Count("server_errors")
    /\ LET action == RecoveryAction(caller[c].error.code) IN
       \/ action \in {"None", "Reauthenticate"} /\ Goto(c, "idle")
       \/ action # "None" /\ Goto(c, "count")
    /\ UNCHANGED <<endpoint, versions, attempts, turned_away, acks>>

-----------------------------------------------------------------------------
(* handle_protocol_error: the counter is read again after it was released. *)

CountProtocolError(c) ==
    /\ caller[c].at = "protocol"
    /\ Count("protocol_errors")
    /\ Goto(c, "limit")
    /\ UNCHANGED <<endpoint, versions, attempts, turned_away, acks>>

\* Mutant of CheckProtocolErrors: one more is let through.
CheckProtocolErrorsLate(c) ==
    /\ caller[c].at = "limit"
    /\ Goto(c, IF statistics.protocol_errors > max_protocol_errors + 1 THEN "idle" ELSE "ack")
    /\ UNCHANGED <<statistics, endpoint, versions, attempts, turned_away, acks>>

CheckProtocolErrors(c) ==
    /\ caller[c].at = "limit"
    /\ Goto(c, IF statistics.protocol_errors > max_protocol_errors THEN "idle" ELSE "ack")
    /\ UNCHANGED <<statistics, endpoint, versions, attempts, turned_away, acks>>

Acknowledge(c) ==
    /\ caller[c].at = "ack"
    /\ acks' \in {acks, acks + 1}
    /\ Goto(c, "idle")
    /\ UNCHANGED <<statistics, endpoint, versions, attempts, turned_away>>

-----------------------------------------------------------------------------
(* negotiate_protocol_version, of the handler and of the transport. *)

\* send_protocol_message_safe fails now and then.
SendVersion(c) ==
    /\ caller[c].at = "negotiate"
    /\ \E next \in {"response", "idle"} : Goto(c, next)
    /\ UNCHANGED <<statistics, endpoint, versions, attempts, turned_away, acks>>

Success == 200

\* wait_for_protocol_response makes the payload, from_be_bytes reads it.
ResponsePayload == <<200, 0>>

StatusCode(payload) == 256 * payload[1] + payload[2]

\* The response, or the end of negotiation_timeout.
ReceiveResponse(c) ==
    /\ caller[c].at = "response"
    /\ \/ versions' = versions \cup {[by |-> "handler", version |->
               IF StatusCode(ResponsePayload) = Success THEN "accepted" ELSE "rejected"]}
       \/ versions' = versions \cup {[by |-> "handler", version |-> "timeout"]}
    /\ Goto(c, "idle")
    /\ UNCHANGED <<statistics, endpoint, attempts, turned_away, acks>>

\* The transport sends its version and takes it for accepted.
TransportNegotiates(c) ==
    /\ caller[c].at = "send"
    /\ versions' \in {versions, versions \cup {[by |-> "transport", version |-> "accepted"]}}
    /\ Goto(c, "idle")
    /\ UNCHANGED <<statistics, endpoint, attempts, turned_away, acks>>

-----------------------------------------------------------------------------
HandlerStep(c) ==
    \/ CountFailure(c) \/ GiveUp(c) \/ Backoff(c) \/ CountAttempt(c)
    \/ SimulateReconnection(c) \/ HandleServerError(c) \/ CountProtocolError(c)
    \/ CheckProtocolErrors(c) \/ Acknowledge(c) \/ SendVersion(c) \/ ReceiveResponse(c)

TransportStep(c) ==
    \/ ExceedsRetries(c) \/ RecoverConnection(c) \/ EnsureEndpoint(c) \/ Handshake(c)
    \/ TransportNegotiates(c)

Trouble(c) ==
    \/ LosesConnection(c) \/ MeetsServerError(c) \/ MeetsProtocolError(c) \/ WantsVersion(c)

Next == \E c \in Callers : HandlerStep(c) \/ TransportStep(c) \/ Trouble(c)

\* A call that was made goes on: every delay passes, every connect ends somehow.
Spec == Init /\ [][Next]_vars /\ \A c \in Callers : WF_vars(HandlerStep(c) \/ TransportStep(c))

-----------------------------------------------------------------------------
(* Properties. *)

TypeOK ==
    /\ caller \in [Callers -> Caller]
    /\ statistics \in [{"connection_failures", "recovery_attempts",
                        "protocol_errors", "server_errors"} -> Nat]
    /\ endpoint \in BOOLEAN
    /\ versions \subseteq [by : {"handler", "transport"},
                           version : {"accepted", "rejected", "timeout"}]
    /\ attempts \in [Callers -> Nat]
    /\ turned_away \in Nat /\ acks \in Nat

In(places) == {c \in Callers : caller[c].at \in places}

\* Whichever mechanism a task uses, and also when it changes from one to the
\* other, its RecoveryState counts every attempt since the last success once,
\* and nobody tries more often than the larger of the two limits
\* (transport.rs:324, 351, 358, network_error_handler.rs:278, 286).
AttemptsCounted ==
    \A c \in Callers :
        /\ caller[c].retry_count = attempts[c] + Cardinality(In({"backoff", "reconnect"}) \cap {c})
        /\ attempts[c] <= Max({max_retries, handler_max_retries})

\* The shared statistics tell what happened although no lock is kept from one
\* counter to the next: every failure was retried, turned away or is under way,
\* and not more protocol errors were acknowledged than the limit allows
\* (network_error_handler.rs:262-265, 300-302, 498-511).
StatisticsTellTheTruth ==
    /\ statistics.connection_failures
         = statistics.recovery_attempts + turned_away + Cardinality(In({"decide", "backoff"}))
    /\ acks + Cardinality(In({"ack"})) <= max_protocol_errors

\* A task that recovers a connection comes to an end, however often the network
\* fails: the count grows until the limit (transport.rs:324, network_error_handler.rs:278).
RecoveryEnds == \A c \in Callers : caller[c].at \in {"connect", "count"} ~> caller[c].at = "idle"

=============================================================================

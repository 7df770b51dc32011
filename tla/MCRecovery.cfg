\* Both mechanisms with limits that differ, and a protocol error too many.
CONSTANTS
    t1 = t1
    t2 = t2
    Callers = {t1, t2}
    Strategies = {"ExponentialBackoff", "LinearBackoff"}
    Codes = {400, 401, 429, 1003}
    max_retries = 2
    handler_max_retries = 1
    max_protocol_errors = 1
    MaxTroubles = 2

SPECIFICATION Spec
INVARIANT TypeOK
INVARIANT AttemptsCounted
INVARIANT StatisticsTellTheTruth
PROPERTY RecoveryEnds
CHECK_DEADLOCK FALSE

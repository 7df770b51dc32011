\* One client; every order of three commands, and two streams of its handshake and segments.
CONSTANTS
    s1 = s1
    a = a
    b = b
    cam = cam
    None = None
    Sessions = {s1}
    Files = {a, b}
    Streams = {cam}
    MaxCommands = 3
    MaxStreams = 2
    MaxSegments = 2

SPECIFICATION Spec
INVARIANT TypeOK
INVARIANT ReportsAreFinal
INVARIANT DiskHoldsWhatWasRecorded
INVARIANT AnswersAreKept
INVARIANT AnswersGoForward
INVARIANT LiveFramesAreRecorded
INVARIANT StoppedLiveEnds
PROPERTY StreamsHandled
PROPERTY LostSessionsRemoved
CHECK_DEADLOCK FALSE

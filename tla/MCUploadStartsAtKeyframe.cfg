\* Two uploads of one session, each with its own seek.
CONSTANTS
    a = a
    b = b
    s1 = s1
    None = None
    Sessions = {s1}
    Files <- MCFiles
    Chunks <- MCChunks
    Keyframes <- MCKeyframes
    Generic <- MCGeneric
    GenericStride = 1
    RequestSeeks <- MCRequestSeeks
    CommandSeeks <- MCCommandSeeks
    RequestRates = {1}
    CommandRates = {2, 11}
    MaxMessages = 2
    MaxTasks = 2

SPECIFICATION Spec
INVARIANT UploadStartsAtKeyframe
CHECK_DEADLOCK FALSE

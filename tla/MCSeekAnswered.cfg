\* A Seek whose arm keeps the session map while an upload task keeps the controller.
CONSTANTS
    a = a
    b = b
    s1 = s1
    None = None
    Sessions = {s1}
    Files <- MCFiles
    Chunks <- MCChunks
    Keyframes <- MCKeyframes
    Generic <- MCGeneric
    GenericStride = 1
    RequestSeeks <- MCRequestSeeks
    CommandSeeks <- MCCommandSeeks
    RequestRates = {1}
    CommandRates = {2, 11}
    MaxMessages = 2
    MaxTasks = 2

SPECIFICATION Spec
PROPERTY SeekAnswered
CHECK_DEADLOCK FALSE

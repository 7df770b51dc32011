\* One session per connection, as the server opens them; the platform may
\* request again, seek, change the rate, pause, resume, stop and end it.
CONSTANTS
    a = a
    b = b
    s1 = s1
    None = None
    Sessions = {s1}
    Files <- MCFiles
    Chunks <- MCChunks
    Keyframes <- MCKeyframes
    Generic <- MCGeneric
    GenericStride = 1
    RequestSeeks <- MCRequestSeeks
    CommandSeeks <- MCCommandSeeks
    RequestRates = {1}
    CommandRates = {11}
    MaxMessages = 3
    MaxTasks = 2

SPECIFICATION Spec
INVARIANT TypeOK
INVARIANT CompletedIsEarned
INVARIANT SoleUploadAccounted
INVARIANT SoleUploadStartsAtKeyframe
PROPERTY StopHolds
PROPERTY UploadsEnd
CHECK_DEADLOCK FALSE

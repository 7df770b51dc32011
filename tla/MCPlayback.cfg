\* Every strategy over files of up to 125 start codes, every rate over six segments.
CONSTANTS
    None = None
    Videos <- AllVideos
    Times = {5, 20, 31}
    Rates = {0, 10, 20, 40, 50, 120}
    Capacities = {5}
    MemoryLimit = 2
    PreciseFrames = 12
    MaxCalls = 5

SPECIFICATION Spec
INVARIANT TypeOK
INVARIANT QueueKeepsKeyFrames
PROPERTY IndexFindsKeyframes
CHECK_DEADLOCK FALSE

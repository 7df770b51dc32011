\* Three chunks, too large ones and empty ones among them, one adjustment or one resumption.
CONSTANTS
    None = None
    Sizes <- ChunkSizes
    Targets = {None}
    MaxChunks = 3
    MaxCalls = 1

SPECIFICATION Spec
INVARIANT TypeOK
INVARIANT ChunksAccounted
INVARIANT SegmentsInLine
PROPERTY Delivers
CHECK_DEADLOCK FALSE

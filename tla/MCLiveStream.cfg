\* Two streams, a channel that fills up, sends that fail, FFmpeg that ends or never starts.
CONSTANTS
    Lives = {1, 2}
    Fps = {0, 1}
    Intervals = {0, 2}
    ChannelSize = 1
    MaxDuration = 0
    MaxChunks = 2
    MaxStops = 1

SPECIFICATION Spec
INVARIANT TypeOK
INVARIANT GapsAreFailedSends
INVARIANT EndedStreamsLeaveNothing
PROPERTY Delivers
CHECK_DEADLOCK FALSE

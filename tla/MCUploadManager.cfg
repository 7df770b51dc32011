\* Two uploads of two segments, and a call of the user between any of their steps.
CONSTANTS
    first = first
    second = second
    None = None
    Uploads = {first, second}
    Settings = {"playback_rate"}
    MaxSegments = 2
    MaxCalls = 1

SPECIFICATION Spec
INVARIANT TypeOK
INVARIANT UploadsKeptApart
INVARIANT FlagTellsOfUploads
INVARIANT SoleUploadAccounted
PROPERTY StoppedUploadsStop
PROPERTY CallsReturn
CHECK_DEADLOCK FALSE

\* One request whose upload has two segments.
CONSTANTS
    s1 = s1
    a = a
    b = b
    cam = cam
    None = None
    Sessions = {s1}
    Files = {a}
    Streams = {cam}
    MaxCommands = 1
    MaxStreams = 2
    MaxSegments = 2

SPECIFICATION Spec
INVARIANT FilesInOrder
CHECK_DEADLOCK FALSE

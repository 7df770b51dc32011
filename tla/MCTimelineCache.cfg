\* Three calls of any kind, preloads at any time, one edit of a video.
CONSTANTS
    small = small
    large = large
    smallPath = smallPath
    largePath = largePath
    None = None
    Videos = {small, large}
    TimelinePath <- MCTimelinePath
    Size <- MCSize
    Limit = 2
    MaxCalls = 3
    MaxEdits = 1

SPECIFICATION Spec
INVARIANT TypeOK
INVARIANT SizeCoversCache
INVARIANT FreshUnlessRaced
PROPERTY CallsEnd
CHECK_DEADLOCK FALSE

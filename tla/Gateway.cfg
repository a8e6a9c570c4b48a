SPECIFICATION SendSpec
CONSTANTS
    MsgId = {1, 2}
    Code = {k1, k2}
    CodeTTL = 1
    CodeMaxCalls = 1
    PollLimit = 1
    Timeout = 0
    FirstCursor = {0, 1, 3}
    InOrder = FALSE
    NoCode = NoCode
    MaxAttached = 2
SYMMETRY CodeSymmetry
INVARIANTS WatchFaithful RefusalsFinal SendWhole
CHECK_DEADLOCK FALSE

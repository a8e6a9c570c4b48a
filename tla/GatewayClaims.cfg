SPECIFICATION SendSpec
CONSTANTS
    MsgId = {1, 2}
    Code = {k1, k2}
    CodeTTL = 1
    CodeMaxCalls = 1
    PollLimit = 2
    Timeout = 0
    FirstCursor = {0, 1, 3}
    InOrder = TRUE
    NoCode = NoCode
    MaxAttached = 2
SYMMETRY CodeSymmetry
INVARIANT NothingMissed
PROPERTY BadFileSpendsNothing
CHECK_DEADLOCK FALSE

SPECIFICATION Spec
CONSTANTS
    Requested = {2, 3}
    MIN_SR_MHZ = 1
    MAX_SR_MHZ = 2
    ChannelsAsked = {1, 2}
    MaxStarts = 2
    MaxCalls = 2
    MaxLine = 3
INVARIANTS
    ChannelApplied
    FirstStartSafe
    StreamFollowsBlock
PROPERTIES
    RateChangedQuietly
    CallersReturn
CHECK_DEADLOCK FALSE

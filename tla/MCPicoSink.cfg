SPECIFICATION Spec
CONSTANTS
    Requested = {1, 2}
    Bandwidths = {1, 2}
    Available <- MCAvailable
    PowerUp <- MCPowerUp
    MAX_SR_MHZ = 3
    Items = {2}
    Mega = 10
    MaxTime = 3
    MaxSamples = 5
    MaxCalls = 2
INVARIANTS
    RateHeld
    SleepBounded
    RateKnown
CHECK_DEADLOCK FALSE

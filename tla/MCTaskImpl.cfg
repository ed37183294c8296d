SPECIFICATION FairSpec
CONSTANT MaxWakes = 12
INVARIANTS
    SlotNotShared
    WakesAccounted
PROPERTIES
    TaskQuiesces
    StopReturns
CHECK_DEADLOCK FALSE

SPECIFICATION FairSpec
CONSTANTS
    Files = {1, 2}
    Slots = {w1, w2}
    Width = 1
    MaxAttempts = 2
    MaxAsks = 2
    MaxFaults = 1
    MaxRestarts = 1
INVARIANTS
    StoredIsFold
    
PROPERTIES
    LandedStays
    ComesToRest
CHECK_DEADLOCK FALSE

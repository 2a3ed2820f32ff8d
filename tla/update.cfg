SPECIFICATION FairSpec
CONSTANTS
    Updates = {u1, u2}
    Versions = {v1, v2}
    First = v1
    u1 = u1
    u2 = u2
    v1 = v1
    v2 = v2
    NoUpdate = NoUpdate
    NoVersion = NoVersion
    NoMarker = NoMarker
    Schemas <- Both
    Flaws = {"none", "gate"}
    Burst = 2
    MaxFaults = 1
    MaxClicks = 2
INVARIANTS
    OneInFlight
    FreshIsArmed
PROPERTIES
    OwnRevertOpens
    MarkerResolved
CHECK_DEADLOCK FALSE

SPECIFICATION FairSpec
CONSTANTS
    r1 = r1
    r2 = r2
    Runs = {r1, r2}
    Instances = {"i1", "i2"}
    NoRun = NoRun
    Points = 1
    Policies <- OneStops
    MaxClicks = 1
    MaxFaults = 2
INVARIANTS
    OneSweep
    
    SweepsApart
PROPERTIES
    StoppedIsRestored
    WaitingGoes
CHECK_DEADLOCK FALSE

SPECIFICATION FairSpec
CONSTANTS
    Instances = {"i"}
    Ports = {1, 2}
    Requests = {"q"}
    FirstPort <- OneThere
    MaxServed = 2
    MaxClicks = 2
    MaxFaults = 1
INVARIANTS
    
    RevokedIsRefused
PROPERTIES
    RestartLosesNothing
    CountsArrive
CHECK_DEADLOCK FALSE

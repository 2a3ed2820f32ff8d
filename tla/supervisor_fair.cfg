SPECIFICATION FairSpec
CONSTANTS
    loop = loop
    kick = kick
    Passes <- OnePass
    Loop = loop
    Setups <- FairSetups
    Ports <- TwoPorts
    RestartMax = 1
    MaxAsks = 1
    MaxFaults = 1
PROPERTIES
    StopSettles
    WantedSettles
CHECK_DEADLOCK FALSE

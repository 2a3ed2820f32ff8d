SPECIFICATION Spec
CONSTANTS
    loop = loop
    kick = kick
    Passes <- TwoPasses
    Loop = loop
    Setups <- AllSetups
    Ports <- TwoPorts
    RestartMax = 1
    MaxAsks = 1
    MaxFaults = 0
INVARIANTS
    RunIsLedgered
    CrashLoopBounded
    OneRefusal
CHECK_DEADLOCK FALSE

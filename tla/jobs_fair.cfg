SPECIFICATION FairSpec
CONSTANTS
    Jobs = {"b", "d"}
    Runners = {r1, r2}
    NoJob = NoJob
    KindOf <- FairKinds
    SubjectOf <- FairSubjects
    Priority <- FairPriority
    Budget <- FairBudget
    MayPause = {"d"}
    MaxBoots = 2
    MaxFaults = 1
    MaxClicks = 2
INVARIANTS
    NoStrandedLease
    DomainInStep
PROPERTIES
    CancelNeverRestarts
    CancelReachesWorker
    NoStarvation
CHECK_DEADLOCK FALSE

SPECIFICATION Spec
CONSTANTS
    Jobs = {"d", "v"}
    Runners = {r1, r2}
    NoJob = NoJob
    KindOf <- PauseKinds
    SubjectOf <- PauseSubjects
    Priority <- PausePriority
    Budget <- PauseBudget
    MayPause = {"d"}
    MaxBoots = 1
    MaxFaults = 0
    MaxClicks = 2
PROPERTIES
    OutcomeFromOwner
CHECK_DEADLOCK FALSE

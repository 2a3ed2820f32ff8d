SPECIFICATION Spec
CONSTANTS
    Jobs = {"a", "b", "d"}
    Runners = {r1, r2}
    NoJob = NoJob
    KindOf <- VersionKinds
    SubjectOf <- VersionSubjects
    Priority <- VersionPriority
    Budget <- VersionBudget
    MayPause = {}
    MaxBoots = 2
    MaxFaults = 2
    MaxClicks = 1
SYMMETRY Slots
INVARIANTS
    TypeOK
    ExclusiveWorker
    NoForeignLease
    AttemptsWithinBudget
PROPERTIES
    Lifecycle
CHECK_DEADLOCK FALSE

SPECIFICATION Spec
CONSTANTS
    Models = {"m", "n"}
    Blobs = {"x"}
    BlobOf <- OneBlob
    Instances = {"i"}
    Scanners = {"s", "t"}
    None = None
    MaxClicks = 3
    MaxFaults = 2
INVARIANTS
    
    OnlyLatecomersLose
PROPERTIES
    HashFollowsWriters
CHECK_DEADLOCK FALSE

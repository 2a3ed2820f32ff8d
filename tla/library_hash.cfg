SPECIFICATION Spec
CONSTANTS
    Models = {"m", "n"}
    Blobs = {"x"}
    BlobOf <- OneBlob
    Instances = {"i"}
    Scanners = {"s", "t"}
    None = None
    MaxClicks = 2
    MaxFaults = 0
INVARIANTS
    HashFollowsModel
CHECK_DEADLOCK FALSE

SPECIFICATION Spec
CONSTANTS
    a = a
    b = b
    c = c
    i = i
    j = j
    Versions = {a, b, c}
    Ready = {a, b}
    Replacement <- Replacing
    Instances = {i}
    NoVersion = NoVersion
    NoInstance = NoInstance
    Keeps = {TRUE, FALSE}
    Liberties = {}
    MaxBoots = 2
    MaxFaults = 1
    MaxClicks = 2
INVARIANTS
    LinksFollowRows
    TreeBehindRow
PROPERTIES
    VerdictTellsBuild
    LostSlotIsRetired
    
CHECK_DEADLOCK FALSE

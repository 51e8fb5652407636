CONSTANTS
    p1 = p1
    p2 = p2
    m1 = m1
    m2 = m2
    v1 = v1
    v2 = v2
    Nowhere = Nowhere
    Port <- MCPort
    Mac <- MCMac
    Vlan <- MCVlan
    Observation <- MCHarmless
    MaxCollections = 2
    Faults = {}
SPECIFICATION FairSpec
PROPERTY PrestageIsPassed
CHECK_DEADLOCK FALSE

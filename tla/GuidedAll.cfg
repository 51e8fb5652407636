CONSTANTS
    p1 = p1
    p2 = p2
    m1 = m1
    m2 = m2
    v1 = v1
    v2 = v2
    Nowhere = Nowhere
    Port <- MCPort
    Mac <- MCMac
    Vlan <- MCVlan
    Observation <- MCObservation
    MaxCollections = 3
    Faults = {"fails", "crash"}
SPECIFICATION FairSpec
INVARIANT TypeOK
INVARIANT CommandsMeanStatusPlan
INVARIANT StagedLineage
INVARIANT FinalizedWhole
INVARIANT EndpointsHaveEvidence
PROPERTY Completes
CHECK_DEADLOCK FALSE

CONSTANTS
    p1 = p1
    p2 = p2
    Port <- MCPort
    Open <- MCOpen
    Initial <- MCInitial
    MaxDiscoveries = 2
    Faults = {"rpc", "lost", "disk", "crash", "admin"}
SPECIFICATION FairSpec
INVARIANT TypeOK
INVARIANT PolicyIsLive
INVARIANT CreatesOnFreePorts
INVARIANT TrialIsPayload
PROPERTY WriteEnds

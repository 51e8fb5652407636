CONSTANTS
    p1 = p1
    p2 = p2
    Port <- MCPort
    Open <- MCOpen
    Initial <- MCBlank
    MaxDiscoveries = 2
    Faults = {"rpc"}
SPECIFICATION Spec
INVARIANT NoOneSidedLag

CONSTANTS
    p1 = p1
    p2 = p2
    v1 = v1
    Edge <- MCEdge
    Stale <- MCStale
    Faults = {"rpc", "lost", "disk", "crash", "timer", "edits", "admin"}
SPECIFICATION Spec
INVARIANT TypeOK
INVARIANT KeptIsValidated
INVARIANT CommittedIsTrue
INVARIANT RolledBackRestores
PROPERTY TrialIsHardening

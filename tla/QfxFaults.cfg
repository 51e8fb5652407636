CONSTANTS
    management = management
    recovery = recovery
    data = data
    other = other
    Baseline <- MCBaseline
    Required <- MCRequired
    Foreign <- MCForeign
    Faults = {"rpc", "lost", "disk", "crash", "timer", "admin"}
SPECIFICATION FairSpec
INVARIANT TypeOK
INVARIANT TrialOverBaseline
INVARIANT KeptOnlyAfterValidation
INVARIANT ConfirmedRecordIsTrue
INVARIANT RolledBackRecordIsTrue
INVARIANT OneSidedIsVisible
PROPERTY PairSpec
PROPERTY CommitRunEnds

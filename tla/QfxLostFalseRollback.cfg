CONSTANTS
    management = management
    recovery = recovery
    data = data
    other = other
    Baseline <- MCBaseline
    Required <- MCRequired
    Foreign <- MCForeign
    Faults = {"lost"}
SPECIFICATION Spec
INVARIANT RollbackClaimHolds

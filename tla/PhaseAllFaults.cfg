CONSTANTS
    hostname = hostname
    transit = transit
    foreign = foreign
    p1 = p1
    p2 = p2
    Rendered <- MCRendered
    Transit <- MCTransit
    Foreign <- MCForeign
    Port <- MCOnePort
    Faults = {"rpc", "lost", "disk", "crash", "timer", "edits", "rebind"}
SPECIFICATION FairSpec
INVARIANT TypeOK
PROPERTY TrialIsApproved
INVARIANT SuccessIsLive
INVARIANT RolledBackIsGone
PROPERTY OldSwitchOnlyPayload
PROPERTY TouchedPortsComeBack

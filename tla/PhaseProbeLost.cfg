CONSTANTS
    hostname = hostname
    transit = transit
    foreign = foreign
    p1 = p1
    p2 = p2
    Rendered <- MCRendered
    Transit <- MCTransit
    Foreign <- MCForeign
    Port <- MCPorts
    Faults = {"lost"}
SPECIFICATION Spec
INVARIANT NoPortLeftDisabled

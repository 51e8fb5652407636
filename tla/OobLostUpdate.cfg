CONSTANTS
    north = north
    south = south
    s1 = s1
    s2 = s2
    ip1 = ip1
    ip2 = ip2
    None = None
    Migration <- MCMigration
    Guided <- MCGuided
    Switch <- MCSwitch
    Ip <- MCIp
    Faults = {"fails"}
SPECIFICATION Spec
INVARIANT OlderReadyIsRetired

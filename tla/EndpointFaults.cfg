CONSTANTS
    desk = desk
    phone = phone
    left = left
    right = right
    blue = blue
    green = green
    NoVlan = NoVlan
    Intent <- MCIntent
    Port <- MCPort
    Vlan <- MCVlan
    Described <- MCDescribed
    MaxTransactions = 2
    Faults = {"rpc", "lost", "disk", "crash", "timer", "edits", "admin"}
SPECIFICATION Spec
SYMMETRY PortSymmetry
INVARIANT TypeOK
INVARIANT TrialIsExact
INVARIANT RecordedIsLive
INVARIANT OneVlanPerPort
INVARIANT UnambiguousTrial
PROPERTY LedgerSpec

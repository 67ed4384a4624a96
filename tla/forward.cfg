\* Two handlers at a time, a tunnel switch either way, one fault of any kind.
SPECIFICATION LiveSpec
CONSTANTS
    n1 = n1
    n2 = n2
    wide = wide
    narrow = narrow
    Nodes = {n1, n2}
    Procs = {p1, p2}
    Contents = {wide, narrow}
    Tunnel <- TunnelOf
    Entry <- EntryOf
    NoService = NoService
    NoNode = NoNode
    Faults = {"late", "refused", "storage", "link", "restart"}
    MaxRetries = 1
    MaxRequests = 3
    MaxFaults = 1
CHECK_DEADLOCK FALSE
INVARIANTS
    TypeOK
    UndisturbedAchieves
PROPERTIES
    LostWithCause
    GhostsAreSwept

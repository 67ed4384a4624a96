\* A tunnel over two shares, one of which may be withdrawn; one fault of any kind.
SPECIFICATION FairSpec
CONSTANTS
    t1 = t1  t2 = t2  e1 = e1  e2 = e2  m1 = m1  A = A  B = B
    Tunnels = {t1}
    Hops = {e1, m1}
    TunnelOf <- PathTunnelOf
    Below <- PathBelow
    Shares = {A, B}
    ShareOf <- PathShareOf
    PortsOf <- PathPortsOf
    Procs = {p1}
    Strays = {x1}
    SingleConnection = FALSE
    NoHop = NoHop
    NoTunnel = NoTunnel
    NoRow = NoRow
    MaxCut = 1
    MaxRequests = 2
    Faults = {"node", "timeout", "lost", "storage", "conflict", "local", "host"}
    MaxFaults = 1
INVARIANTS
    BoundServes
    NothingLeftBehind
    PathJoined
PROPERTIES
    RequestsEnd
    ExceededIsWithdrawn
CHECK_DEADLOCK FALSE

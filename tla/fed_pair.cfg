SPECIFICATION Spec
CONSTANTS
    t1 = t1  t2 = t2  e1 = e1  e2 = e2  m1 = m1  A = A  B = B
    Tunnels = {t1, t2}
    Hops = {e1, e2}
    TunnelOf <- PairTunnelOf
    Below <- PairBelow
    Shares = {A}
    ShareOf <- PairShareOf
    PortsOf <- PairPortsOf
    Procs = {p1, p2}
    Strays = {x1}
    SingleConnection = FALSE
    NoHop = NoHop
    NoTunnel = NoTunnel
    NoRow = NoRow
    MaxCut = 1
    MaxRequests = 2
    Faults = {"node", "timeout", "lost", "storage", "conflict", "local", "host"}
    MaxFaults = 1
INVARIANTS TypeOK BoundServes NothingLeftBehind NobodyStuck
CHECK_DEADLOCK FALSE

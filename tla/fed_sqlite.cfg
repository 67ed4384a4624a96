SPECIFICATION FairSpec
CONSTANTS
    t1 = t1  t2 = t2  e1 = e1  e2 = e2  m1 = m1  A = A  B = B
    Tunnels = {t1}
    Hops = {e1, m1}
    TunnelOf <- PathTunnelOf
    Below <- PathBelow
    Shares = {A, B}
    ShareOf <- PathShareOf
    PortsOf <- PathPortsOf
    Procs = {p1}
    Strays = {}
    SingleConnection = TRUE
    NoHop = NoHop
    NoTunnel = NoTunnel
    NoRow = NoRow
    MaxCut = 0
    MaxRequests = 1
    Faults = {"lost"}
    MaxFaults = 1
INVARIANT NobodyStuck
PROPERTIES RequestsEnd
CHECK_DEADLOCK FALSE

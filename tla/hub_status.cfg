SPECIFICATION Spec
CONSTANTS
  n1 = n1
  n2 = n2
  c1 = c1
  c2 = c2
  c3 = c3
  k1 = k1
  NoNode = NoNode
  NoConn = NoConn
  Nodes = {n1}
  Conns = {c1, c2}
  Calls = {k1}
  Owner <- OwnerOneNode
  Target <- TargetOneCall
  Misaddressed = {}
CHECK_DEADLOCK FALSE
INVARIANTS
  StatusMatchesSession

\* A node with two connections, another that may misaddress, one call.
SPECIFICATION LiveSpec
CONSTANTS
  n1 = n1
  n2 = n2
  c1 = c1
  c2 = c2
  c3 = c3
  k1 = k1
  NoNode = NoNode
  NoConn = NoConn
  Nodes = {n1, n2}
  Conns = {c1, c2, c3}
  Calls = {k1}
  Owner <- OwnerTwoNodes
  Target <- TargetOneCall
  Misaddressed <- MisaddressedOne
CHECK_DEADLOCK FALSE
INVARIANTS
  TypeOK
  Ownership
  SessionServed
PROPERTIES
  ImplementsCommandService
  EveryCallReturns
  LostSessionRemoved

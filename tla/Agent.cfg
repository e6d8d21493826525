SPECIFICATION Spec
CONSTANTS
  p1 = p1
  c1 = c1
  k1 = k1
  k2 = k2
  Conns <- MCConns
  Requests <- MCRequests
  AuditCap = 1
INVARIANTS
  TypeOK
  ServedFromOpenStores
  NoVerdictFromClosedStore
PROPERTIES
  StopIsGraceful
  CallReturns
  AuditHoldsUpNobody
  ShutdownReturns
CHECK_DEADLOCK FALSE

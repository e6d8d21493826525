SPECIFICATION Spec
CONSTANTS
  p1 = p1
  p2 = p2
  a1 = a1
  c1 = c1
  e1 = e1
  g1 = g1
  g2 = g2
  Opens <- MCOpens
  Policies <- MCPolicies
  Paths = {p1}
  Globs = {g1, g2}
  NewRules <- MCNewRules
  MonitorOnly = FALSE
  Cooldown = 1
  BusCap = 1
  MaxId = 2
INVARIANTS
  TypeOK
  OneChangeIsAtomic
PROPERTIES
  DecideReturns
CHECK_DEADLOCK FALSE

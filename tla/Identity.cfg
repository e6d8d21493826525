SPECIFICATION Spec
CONSTANTS
  launchd = launchd
  Pids = {launchd, p1, p2, p3}
  Exes = {x, y}
  Unknown = Unknown
  MaxDepth = 2
  MaxRules = 1
SYMMETRY Symmetry
INVARIANTS
  TypeOK
  OneChangeSeen
  AlwaysHolds
  NobodysRule
CHECK_DEADLOCK FALSE

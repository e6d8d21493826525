SPECIFICATION Spec
CONSTANTS
  Paths = {p1}
  Categories = {g1}
  Chains = {c1}
  Exes = {e1}
  Horizon = 1
  MaxId = 3
INVARIANTS
  TypeOK
  LookupDeterministic
  PathBeatsCategory
PROPERTIES
  NeverOverwritten
CHECK_DEADLOCK FALSE

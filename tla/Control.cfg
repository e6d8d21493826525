SPECIFICATION Spec
CONSTANTS
  p1 = p1
  c1 = c1
  Policies = {builtin, edited}
  Default = builtin
  Nothing = Nothing
  Apps = {a1}
  NewRules <- MCNewRules
  MaxId = 1
INVARIANT
  TypeOK
PROPERTIES
  PolicySettles
  SwitchFollows
  RevokeTakes

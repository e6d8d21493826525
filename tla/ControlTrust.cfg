SPECIFICATION Safety
CONSTANTS
  p1 = p1
  c1 = c1
  Policies = {builtin, edited}
  Default = builtin
  Nothing = Nothing
  Apps = {a1, a2}
  NewRules <- MCNewRules
  MaxId = 1
PROPERTY
  BrowseAdds

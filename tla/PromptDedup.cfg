SPECIFICATION Steady
CONSTANTS
  i1 = i1
  i2 = i2
  c1 = c1
  c2 = c2
  e1 = e1
  a1 = a1
  sh = sh
  Identities = {i1, i2}
  ChainOf <- MCChainOf
  ExeOf <- MCExeOf
  Ancestry <- MCAncestry
  MaxDepth = 3
  Launchd = Launchd
  Ellipsis = Ellipsis
  Answers <- MCAnswers
  Paths = {p1}
  Ids = {r1, r2}
  Empty = Empty
  StaleAfter = 1
  Cooldown = 2
  BusCap = 1
SYMMETRY Symmetry
INVARIANT
  DedupOnlyOutstanding
CHECK_DEADLOCK FALSE

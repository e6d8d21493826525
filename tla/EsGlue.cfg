SPECIFICATION Spec
CONSTANTS
  Msgs = {m1, m2}
  QueueCap = 1
  MaxRejects = 1
  None = None
INVARIANTS
  TypeOK
  AnsweredOnce
  NoUseAfterFree
  NothingForgotten
  DenyOnlyFromAgent
  CountersBalance
PROPERTIES
  OpenSettles
  SelfOpenReturns
  QueuedIsFreed
  ImplementsAuthOpen
CHECK_DEADLOCK FALSE

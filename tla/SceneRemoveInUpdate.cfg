SPECIFICATION Spec
CONSTANTS
  e1 = e1
  e2 = e2
  e3 = e3
  c1 = c1
  c2 = c2
  Entity = {e1}
  Component = {c1, c2}
  NoEntity = NoEntity
  NoComponent = NoComponent
  ListOf <- OneOrder
  LastList = 1
  Client = {"remove"}
INVARIANTS
  NeverCallsDeleted
CHECK_DEADLOCK FALSE

SPECIFICATION FairSpec
CONSTANTS
  e1 = e1
  e2 = e2
  e3 = e3
  c1 = c1
  c2 = c2
  Entity = {e1, e2, e3}
  Component = {c1}
  NoEntity = NoEntity
  NoComponent = NoComponent
  ListOf <- OnlyOne
  LastList = 2
  Client = {"cycle"}
CHECK_DEADLOCK FALSE
INVARIANTS RegisteredIffAlive HierarchyConsistent NothingDanglesAhead
PROPERTIES
  DestroyTakesChildren
  DoomedByAncestry
  LateIsDestroyed

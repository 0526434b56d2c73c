SPECIFICATION Spec
CONSTANTS
  SizeX = 3
  SizeY = 2
  CellCosts = {0, 1, 3}
  Diagonals = TRUE
  HeavyDiagonals = TRUE
  AvoidDiagonalCross = TRUE
  SearchLimit = 3
  MarkValues = 256
  Ends <- ThreeEnds
  MaxSearches = 2
INVARIANTS
  PathIsWalkable
  FindsIfThereIs
  GivesTheSmallest
PROPERTY
  SearchEnds
CHECK_DEADLOCK FALSE

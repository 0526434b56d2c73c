SPECIFICATION MazeSpec
CONSTANTS
  Width = 3
  Height = 2
  CorridorLengths = {1, 2, 3}
  MaxIterations = 100
  MaxGenerations = 2
INVARIANTS
  CorridorsAreATree
  MazeIsWhole
CHECK_DEADLOCK FALSE

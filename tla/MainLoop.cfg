SPECIFICATION LoopSpec
CONSTANTS
  Component = {c1, c2}
  Camera = {main}
  Size = {small, large}
  VideoMode = small
  Desktop = large
  ByHand = ByHand
  MaxPosts = 1
INVARIANTS
  ListensAsAsked
  ViewsFitTheWindow
  ScriptsCloseOnce
PROPERTIES
  EveryListenerIsAsked
  StopEndsTheLoop
CHECK_DEADLOCK FALSE

SPECIFICATION Spec
CONSTANTS
  avatar = avatar
  cat = cat
  long = long
  short = short
  None = None
  Mover <- MCMover
  HitBox <- MCHitBox
  Stride <- MCStride
  Columns = 7
  Rows = 5
  CellSize = 2
  MapCell <- MCMapCell
  TypeBox <- MCTypeBox
  MapOrigin <- MCOrigin
  Rooms <- MCRooms
  Atlas = {long, short}
  Sequence <- MCSequence
  Still <- MCStill
  FrameCount <- MCFrameCount
  MaxLoops = 1
  MaxCalls = 1
  Avatar = avatar
  Keys <- MCKeys
  Starts <- MCStarts
INVARIANTS
  NothingOverlaps
  PlaysWhatWasAsked
  PoseFollowsKeys
PROPERTIES
  StaysInRoom
  AnimationsEnd
CHECK_DEADLOCK FALSE

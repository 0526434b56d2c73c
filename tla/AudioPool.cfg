SPECIFICATION Spec
CONSTANTS
  Emitter = {e1, e2, e3}
  Nobody = Nobody
  SourceCount = 3
SYMMETRY EmitterSymmetry
INVARIANTS
  RefsAreOwned
  NoOrphanSound
  OnlyStopLeavesDangling
PROPERTY
  PoolSpec
CHECK_DEADLOCK FALSE

SPECIFICATION Spec
CONSTANTS
  Entity = {e1, e2, e3}
  NoEntity = NoEntity
  Stale = Stale
  MaxPosition = 1
  MaxScale = 2
  LateTransform = FALSE
INVARIANTS
  LocallyCoherent
  MatrixIsGlobal

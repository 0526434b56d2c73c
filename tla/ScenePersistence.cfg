SPECIFICATION Spec
CONSTANTS
  Entity = {e1, e2}
  Tag = {t1}
  Position = {p0, p1}
  Origin = p0
  NoFile = NoFile
  MaxID = 2
  MaxTransforms = 2
SYMMETRY EntitySymmetry
INVARIANTS
  IdentifiersUnique
  TagIndexExact
PROPERTY
  LoadRestores

SPECIFICATION BankSpec
CONSTANTS
  ax = ax
  bx = bx
  d = d
  readme = readme
  texture = texture
  atlas = atlas
  x = x
  y = y
  Nil = Nil
  Files <- MCFiles
  Order <- MCOrder
  TypeOf <- MCTypeOf
  BaseName <- MCBaseName
  Changes = 2
INVARIANTS
  SuccessIsComplete
  LoadedOnce

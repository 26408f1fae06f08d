CONSTANTS
  I = I
  C = C
  D = D
  X = X
  Y = Y
  None = None
  WordBits = 4
  Key <- Keys
  HashOf <- MCHashOf
  Value <- Values
  Arity <- MCArity
  Inputs <- MCInputs
SPECIFICATION Spec
INVARIANTS
  FindIsExact
  StorageIsExact
PROPERTY ImplementsDependencyGraph

CONSTANTS
  I = I
  C = C
  D = D
  X = X
  M = M
  root = root
  nc = nc
  a = a
  b = b
  NoComponent = NoComponent
  Component <- Names
  WithArgs = {}
  Type <- Types
  Program <- MCProgram
SPECIFICATION Spec
INVARIANTS
  TypeOK
  ConflictsAreReported
  CompressionIsLicensed
  InterfaceKeepsItsClass
  AllocatorReserved

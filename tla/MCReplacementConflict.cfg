CONSTANTS
  root = root
  a = a
  b = b
  w = w
  NoComponent = NoComponent
  Component <- Names
  WithArgs = {w}
  Type = {}
  MaxCalls = 2
  Bases = {NoComponent}
  Program <- MCProgram
SPECIFICATION Spec
INVARIANT ConflictingReplacementIsReported

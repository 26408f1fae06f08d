CONSTANTS
  A = A
  I = I
  C = C
  P = P
  M = M
  e1 = e1
  e2 = e2
  t1 = t1
  t2 = t2
  None = None
  Thread <- Threads
  Type <- MCType
  Element <- MCElement
  MultiType = {M}
  Kind <- MCKind
  Needs <- MCNeeds
  Lazy <- MCLazy
  Elements <- MCElements
  Exposed <- MCExposed
  MaxCalls = 2
  MaxThrows = 1
SPECIFICATION FairSpec
INVARIANTS
  OneInstancePerType
  LocksMatchFrames
  DestroyedAfterDependents
  OwnedExactlyOnce
  SpaceTakenOnce
  VectorsAreComplete
  EagerInjectsEverything
PROPERTIES
  CallsReturn
  ImplementsLazyInjector

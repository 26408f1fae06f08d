CONSTANTS
  root = root
  a = a
  b = b
  w = w
  NoComponent = NoComponent
  Component <- Names
  WithArgs = {w}
  Type = {}
  MaxCalls = 2
  Bases = {NoComponent, w}
  Program <- MCProgram
SPECIFICATION FairSpec
INVARIANTS
  MarkersMatchInProgress
  InstalledAtMostOnce
  ReplacedNeverInstalled
  OwnershipExact
  ExpandedIsClosure
  LoopsAreDetected
  
PROPERTY NormalizationTerminates

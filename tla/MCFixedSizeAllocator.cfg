CONSTANTS
  byte = byte
  word = word
  struct = struct
  NoType = NoType
  Type <- Types
  Size <- MCSize
  Alignment <- MCAlignment
  TriviallyDestructible = {byte}
  Address = {0, 1, 2, 3}
  MaxTypes = 2
  MaxExternal = 1
  MaxSize = 22
SPECIFICATION Spec
INVARIANTS
  WithinStorage
  ObjectsAreUsable
  SlotsSuffice

SPECIFICATION Spec
CONSTANTS
  Workers = {w1, w2}
  Chunks <- SmallChunks
  PatLens = {4, 5}
  MinLen = 2
  MaxLen = 3
  MaxItems = 2
  MaxU32 = 9
  Block = 2
  MaxFails = 1
  None = None
INVARIANTS
  TypeOK
  ScanAgrees
PROPERTIES
  Termination

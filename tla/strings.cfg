SPECIFICATION Spec
CONSTANTS
  Bytes = {"text", "nul", "lead", "cont"}
  MaxU64 = 9
  EvidenceLen = 7
  ChunkSize = 4
  Overlap = 3
  MinLen = 2
  MaxLen = 3
  Window = 2
INVARIANTS
  TypeOK
  SpansAreText
  NothingMissed
  TwiceOnlyAtSeam
  RegionsExact
CHECK_DEADLOCK FALSE

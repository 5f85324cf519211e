\* Two workers per pool race for a file limit of one; two threads may panic.
SPECIFICATION Spec
CONSTANTS
  MaxU64 = 15
  EvidenceLen = 4
  ChunkSize = 2
  Overlap = 2
  ResumeOffset = 0
  Workers = 2
  Scanners = {s1, s2}
  Carvers = {c1, c2}
  Stringers = {t1, t2}
  Sigs = {0, 1, 2}
  PatLen = 2
  SqliteSigs = {}
  StringScan = FALSE
  Spans = {}
  EntropyWindow = {}
  MaxFiles = {1}
  MaxBytes = 15
  MaxChunks = 15
  MayCancel = FALSE
  Progress = TRUE
  Checkpoint = TRUE
  ReadFaults = {}
  WriteFaults = FALSE
  MaxPanics = 2
SYMMETRY PoolSymmetry
INVARIANTS
  RunRecorded
  BoundedOvershoot
  DroppedOnlyAtLimit
PROPERTY ImplementsLedger

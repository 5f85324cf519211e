\* A byte limit that ends in the middle of a chunk.
SPECIFICATION Spec
CONSTANTS
  MaxU64 = 15
  EvidenceLen = 6
  ChunkSize = 2
  Overlap = 1
  ResumeOffset = 0
  Workers = 2
  Scanners = {s1, s2}
  Carvers = {c1, c2}
  Stringers = {t1, t2}
  Sigs = {1, 3, 4}
  PatLen = 2
  SqliteSigs = {}
  StringScan = FALSE
  Spans = {}
  EntropyWindow = {}
  MaxFiles = {}
  MaxBytes = 4
  MaxChunks = 15
  MayCancel = FALSE
  Progress = FALSE
  Checkpoint = TRUE
  ReadFaults = {}
  WriteFaults = FALSE
  MaxPanics = 0
SYMMETRY PoolSymmetry
INVARIANTS
  CheckpointCovers

\* A resumed run that Ctrl+C or the chunk limit may stop before the end, with
\* every kind of record: files, strings, entropy regions, parsed databases.
SPECIFICATION Spec
CONSTANTS
  MaxU64 = 15
  EvidenceLen = 7
  ChunkSize = 2
  Overlap = 2
  ResumeOffset = 2
  Workers = 2
  Scanners = {s1, s2}
  Carvers = {c1, c2}
  Stringers = {t1, t2}
  Sigs = {1, 5}
  PatLen = 2
  SqliteSigs = {5}
  StringScan = TRUE
  Spans = {2}
  EntropyWindow = {2}
  MaxFiles = {}
  MaxBytes = 15
  MaxChunks = 3
  MayCancel = TRUE
  Progress = FALSE
  Checkpoint = TRUE
  ReadFaults = {}
  WriteFaults = FALSE
  MaxPanics = 0
SYMMETRY PoolSymmetry
INVARIANTS
  CheckpointCovers
  RunRecorded

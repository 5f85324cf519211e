\* workers = 0 (one thread per pool, capacities 1 and 2), a limit, Ctrl+C, read errors, sink errors and a panic.
SPECIFICATION FairSpec
CONSTANTS
  MaxU64 = 15
  EvidenceLen = 4
  ChunkSize = 2
  Overlap = 1
  ResumeOffset = 0
  Workers = 0
  Scanners = {s1}
  Carvers = {c1}
  Stringers = {t1}
  Sigs = {0, 1, 2, 3}
  PatLen = 2
  SqliteSigs = {}
  StringScan = TRUE
  Spans = {1}
  EntropyWindow = {}
  MaxFiles = {1}
  MaxBytes = 15
  MaxChunks = 15
  MayCancel = TRUE
  Progress = FALSE
  Checkpoint = TRUE
  ReadFaults = {"error", "short"}
  WriteFaults = TRUE
  MaxPanics = 1
PROPERTY Termination
INVARIANT TypeOK

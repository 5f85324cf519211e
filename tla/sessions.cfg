\* Up to four runs, cancelled, limited, crashed and resumed in any order.
SPECIFICATION Spec
CONSTANTS
  MaxU64 = 15
  EvidenceLen = 7
  Sigs = {1, 2, 4, 5}
  PatLen = 2
  Options <- MixedOptions
  RunIds = {"A", "B"}
  MaxRuns = 4
INVARIANTS
  TypeOK
  ResumeExact
  CheckpointUsable
PROPERTY CompleteExact

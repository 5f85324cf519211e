\* Every run is started with the same run id.
SPECIFICATION Spec
CONSTANTS
  MaxU64 = 15
  EvidenceLen = 7
  Sigs = {1, 2, 4, 5}
  PatLen = 2
  Options <- MixedOptions
  RunIds = {"A"}
  MaxRuns = 4
PROPERTY RecordsSurvive

\* Every evidence, chunk size and overlap below 10, with u64 ending at 9.
SPECIFICATION Loop
CONSTANTS
  MaxU64 = 9
  Totals = {0, 1, 2, 3, 4, 5, 6, 7, 8, 9}
  Sizes = {0, 1, 2, 3, 4, 5, 6, 7, 8, 9}
  Overlaps = {0, 1, 2, 3, 9}
  PatLens = {1, 2, 4}
INVARIANTS
  LoopBuildsChunks
  OwnedOnce

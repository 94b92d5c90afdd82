SPECIFICATION SelectionSpec
CONSTANTS
  MaxCandidates = 3
  MaxBytes = 4
  MaxDecoded = 4
  MaxU64 = 5
  Rows = 3
  Sizes = {1, 2, 3}
  DecodedSizes = {1, 2, 3}
  PageRows = {1, 3}
  Pages = {0, 1, 2}
  MaxIndices = 3
INVARIANT CheapestIsSelected
INVARIANT FullScanIsJustified
INVARIANT BudgetsHold
CHECK_DEADLOCK FALSE

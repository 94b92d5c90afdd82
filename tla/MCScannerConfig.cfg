SPECIFICATION Spec
CONSTANTS
  MaxQueries = 2
  MaxCandidates = 4
  MaxBatchCells = 3
  Counts = {0, 1, 2, 3}
  Dimensions = {0, 1, 2}
  Probes = {0, 1, 2}
  MaxCalls = 4
INVARIANT ConfigCompatible
INVARIANT PlansAreSound
INVARIANT PlansAgree
CHECK_DEADLOCK FALSE

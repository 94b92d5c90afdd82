SPECIFICATION Spec
CONSTANTS
  u1 = u1
  u2 = u2
  Datasets = 1
  Contexts = {c1}
  Scanners = {s1, s2}
  Fragments = {1, 2, 3, 4}
  Uuids = {u1, u2}
  Stored <- MCStored
  Built <- MCBuilt
  Requests <- MCRequests
  MaxArcs = 2
SYMMETRY FtsSymmetry
INVARIANT ScanIsExact
INVARIANT ShardsAddUp
INVARIANT StrictMissesNothing
\* The host may stop making calls.
CHECK_DEADLOCK FALSE

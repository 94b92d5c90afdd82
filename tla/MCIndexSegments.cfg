SPECIFICATION Spec
CONSTANTS
  Columns <- MCColumns
  Dim <- MCDim
  Metrics = {"L2", "Dot"}
  VectorParams <- MCVectorParams
  Partitions = {2}
  SubVectors = {1}
  Bits = {8}
  Fragments = {11, 12}
  Selections <- MCSelections
  Slots = {m1, m2, m3}
  Builders = {b1, b2}
  ShortLengths = {1}
  MaxCalls = 6
SYMMETRY HandleSymmetry
INVARIANT ModelSetsAgree
INVARIANT SegmentsCoverTheirSnapshot
PROPERTY ModelsStayWithCaller
PROPERTY CommitIsAllOrNothing
CHECK_DEADLOCK FALSE

SPECIFICATION SegmentSpec
CONSTANTS
  Segments <- SegmentSet
  Index <- IndexOf
  Column <- ColumnOf
  Coverage <- CoverageOf
  BTree = {"A", "B"}
  Scopes <- ScopeSet
  Trees <- TreeSet
  Size <- SizeOf
  MaxSize = 5
  Filters <- FilterSet
  Columns = {"a", "b"}
  RowFragment = 2
  MaxNodes = 4
  MaxDepth = 2
INVARIANT ScopedReadIsExact
INVARIANT LoaderNeverRefuses
CHECK_DEADLOCK FALSE

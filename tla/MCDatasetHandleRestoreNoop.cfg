SPECIFICATION Spec
CONSTANTS
  Handles = {h1, h2}
  Threads = {t1, t2}
  Pins = {p1}
  MaxVersion = 3
  MaxSnapshots = 3
  MaxPanics = 0
  NoThread = NoThread
INVARIANT RestoreLatestIsNoop
CHECK_DEADLOCK FALSE

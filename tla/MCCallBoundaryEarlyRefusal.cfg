SPECIFICATION Spec
CONSTANTS
  Threads = {t1}
  Streams = {s1}
  Null = Null
  Failures = {"IO"}
  MaxCalls = 2
  MaxDepth = 1
INVARIANT GivenStreamsAreConsumed
\* The host may stop making calls.
CHECK_DEADLOCK FALSE

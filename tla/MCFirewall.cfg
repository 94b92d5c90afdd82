SPECIFICATION FirewallSpec
CONSTANTS
  Threads = {t1, t2}
  Streams = {s1, s2}
  Null = Null
  Failures = {"IO", "Explosive"}
  MaxCalls = 3
  MaxDepth = 2
  Scanners = {c1}
  Exports = {r1, r2}
  Unowned = Unowned
  MaxItems = 3
  MaxAccepts = 3
SYMMETRY FirewallSymmetry
INVARIANT LastErrorIsTheAnswer
INVARIANT StreamsConsumedOnce
INVARIANT NeverAborts
INVARIANT PanicReportedOnce
PROPERTY PoisonPrecedesNews
\* The host may stop making calls.
CHECK_DEADLOCK FALSE

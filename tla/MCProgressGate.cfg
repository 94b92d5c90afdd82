SPECIFICATION FairSpec
CONSTANTS
  Workers = {k1, k2, k3}
  MaxEvents = 2
INVARIANT OnlyWhileExecuting
PROPERTY ExecuteReturns
PROPERTY ImplementsRetirement
\* A freed builder whose workers have reported every event is done.
CHECK_DEADLOCK FALSE

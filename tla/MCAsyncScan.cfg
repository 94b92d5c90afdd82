SPECIFICATION FairSpec
CONSTANTS
  Callers = {t1, t2}
  Workers = {w1}
  Dispatcher = Dispatcher
  Scanners = {s1}
  Calls = {c1, c2}
  Null = Null
  NotStarted = NotStarted
INVARIANT OneOwner
INVARIANT CallbackSeesItsOutcome
INVARIANT PanicPoisonsFirst
PROPERTY EveryCallCompletes
PROPERTY ImplementsContract
CHECK_DEADLOCK FALSE

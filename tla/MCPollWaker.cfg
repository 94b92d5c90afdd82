SPECIFICATION FairSpec
CONSTANTS
  Wakers = {w1, w2}
  Threads = {t1, t2}
  MaxClones = 2
  NoWaker = NoWaker
INVARIANT NoCallbackAfterClose
INVARIANT FiresAtMostOnce
INVARIANT ContextsAccountedFor
PROPERTY CloseReturns
PROPERTY PendingIsWoken
PROPERTY ImplementsRetirement
\* A closed scanner whose clones are all dropped has nothing left to do.
CHECK_DEADLOCK FALSE

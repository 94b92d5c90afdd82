SPECIFICATION FairSpec
CONSTANTS
  Handles = {h1, h2}
  Threads = {t1, t2}
  Pins = {p1}
  MaxVersion = 4
  MaxSnapshots = 4
  MaxPanics = 1
  NoThread = NoThread
INVARIANT NoTornSnapshot
INVARIANT ReadYourWrites
INVARIANT RestoreTakesEffect
PROPERTY HandleNeverGoesBack
PROPERTY PinsAreStable
PROPERTY MutationsReturn
CHECK_DEADLOCK FALSE

CONSTANTS
  MAX_SEMAPHORE = 3
  Processes = {p1, p2, p3}
  Names = {a, b}
  NoName = NoName
  Inits = {0, 1}
  MaxValue = 2
SPECIFICATION FairSpec
INVARIANT SignalFindsSleeper
PROPERTIES SleepersAreServed
\* All processes may sleep.
CHECK_DEADLOCK FALSE

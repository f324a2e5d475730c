CONSTANTS
  t1 = t1
  t2 = t2
  t3 = t3
  s1 = s1
  s2 = s2
  Threads <- MCThreads
  Main = t1
  NoThread = NoThread
  NoSem = NoSem
  Sems <- MCSems
  InitialValue <- MCInitialValue
  MaxValue = 2
  MaxPending = 1
SPECIFICATION FairSpec
INVARIANTS OneHome NoLostWakeup CarcassReaped
PROPERTIES ImplementsSemaphore ReadyRuns UnitsAreTaken

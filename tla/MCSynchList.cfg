CONSTANTS
  Threads = {t1, t2, t3, t4}
  NoThread = NoThread
  MaxAppends = 3
  MaxApplies = 1
SPECIFICATION FairSpec
INVARIANTS MutualExclusion WaiterAlive NoLostSignal
PROPERTY ItemsAreTaken
CHECK_DEADLOCK FALSE

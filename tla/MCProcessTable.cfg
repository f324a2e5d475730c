\* Two siblings, or a child and a grandchild of process 0.
CONSTANTS
  MAX_PROCESS = 3
  ExitCodes = {0, 1}
SPECIFICATION FairSpec
INVARIANTS JoinAfterExit ReleasePerJoin NumWaitExact
PROPERTIES PidForever JoinReturns ReleaseIsTaken
\* The machine may halt, and every process may wait for another.
CHECK_DEADLOCK FALSE

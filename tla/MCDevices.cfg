CONSTANTS
  Threads = {t1, t2}
  NoThread = NoThread
  Chars <- MCChars
  Inputs <- MCInputs
  ConsoleTime = 2
  SeekTime = 1
  RotationTime = 2
  SectorsPerTrack = 2
  NumTracks = 2
  TimerDelays = {2}
  TickLengths = {1, 2}
SPECIFICATION DevicesSpec
INVARIANTS OneCompletion InputInOrder HeadPasses
PROPERTY IoCompletes

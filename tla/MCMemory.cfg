CONSTANTS
  p1 = p1
  p2 = p2
  p3 = p3
  Procs <- MCProcs
  Programs <- MCPrograms
  Coff <- MCCoff
  NoProc = NoProc
  NumPhysPages = 6
  HostBigEndian = TRUE
SPECIFICATION Spec
INVARIANTS MapExact OwnContext Isolation SegmentsLoaded
SYMMETRY Symmetry
CHECK_DEADLOCK FALSE

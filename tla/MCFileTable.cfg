CONSTANTS
  MaxFileOpen = 4
  Names = {"a"}
  NoIno = NoIno
  Inodes = {f1, f2, f3}
  MaxLen = 2
SPECIFICATION Spec
INVARIANTS CleanNeverFaults SlotsAccounted
PROPERTY IdsIndependent
CHECK_DEADLOCK FALSE
SYMMETRY Symmetry

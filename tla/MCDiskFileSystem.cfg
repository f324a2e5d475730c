CONSTANTS
  NumSectors = 9
  SectorSize = 2
  TransferSize = 2
  NumDirect = 2
  NumDirEntries = 2
  DirSectors = 2
  FlagSector <- MCFlagSector
  NameSector <- MCNameSector
  Names = {a, b}
  NoName = NoName
  Bytes = {"x"}
  Sizes = {1, 3, 5}
  Handles = {h1}
  None = None
SPECIFICATION Spec
INVARIANTS DiskConsistent ContentsKept
SYMMETRY Symmetry
CHECK_DEADLOCK FALSE

CONSTANTS
  Items <- MCItems
  Key <- MCKey
  NoItem = NoItem
  MaxCells = 4
  InitialBuckets = 1
  ResizeRatio = 1
  IncreaseSizeBy = 2
  NumBits = 5
  BitsInWord = 3
  listTestVector <- MCListVector
  hashTestVector <- MCHashVector
SPECIFICATION Spec
INVARIANT Sound
PROPERTY ImplementsCollection
CHECK_DEADLOCK FALSE

SPECIFICATION Spec
CONSTANTS
  ByteBits = 3
  MemSize = 8
  SC_Add = 30
  SC_Exit = 1
  Handled = {2, 3, 13}
  Results = {5, 4095}
  Values = {0, 1, 3, 6, 30, 2047, 2048, 4095}
  Fuel = 2
  TextFuel = 17
  Stubs <- MCStubs
  Instrs <- MCInstrs
  Contents <- MCContents
INVARIANT StubsReturn
PROPERTY ImplementsArch
CHECK_DEADLOCK FALSE

CONSTANTS
  ByteBits = 4
  Levels = 3
  AddressBits = 12
  RamSize = 64
  FirstVector = 1
  Rom <- MCRom
  Programs <- MCPrograms
  Starts <- MCStarts
  Expected <- MCExpected
SPECIFICATION Spec
INVARIANTS
  OutcomeIsRight
PROPERTIES
  ArithmeticIsRight
  ShiftsAreRight
  BranchesCompare
  HandlersAreTransparent
  TicksAreServed
\* A machine that crashed stands still until it is reset.
CHECK_DEADLOCK FALSE

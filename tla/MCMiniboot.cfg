\* Every start, every header of MCHeaders.  The system stops when both CPUs have
\* jumped, on an error stop, in the GBA's loader, when they are out of
\* step or the ARM9 is lost.
CONSTANTS
  AddressSpace = 256
  MainEnd = 12
  Arm7Base = 100
  Arm7End = 108
  DriverSize = 8
  Headers <- MCHeaders
  StartNibbles = {0}
  Leftovers = {0, 1, 5}
SPECIFICATION MinibootSpec
INVARIANTS TypeOK CopiedBeforeLoad BinariesIntact LeaveTogether EntersMiniboot SecureAreaSaved
PROPERTIES ImplementsStart BootCompletes
CHECK_DEADLOCK FALSE

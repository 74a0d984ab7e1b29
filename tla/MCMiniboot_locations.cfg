\* Headers whose end wraps around pass the location checks.  The system
\* stops as in MCMiniboot.cfg.
CONSTANTS
  AddressSpace = 256
  MainEnd = 12
  Arm7Base = 100
  Arm7End = 108
  DriverSize = 8
  Headers <- MCHeaders
  StartNibbles = {0}
  Leftovers = {0, 1, 5}
SPECIFICATION MinibootSpec
INVARIANT LocationsValid
CHECK_DEADLOCK FALSE

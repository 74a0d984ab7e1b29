\* The menu, its file and the store.
CONSTANTS
  Bit = {1, 2}
  ConfLen = 2
  Paths = {{1}, {2}}
  DriverSize = 12
  LoaderSpace = 14
SPECIFICATION FairSpec
INVARIANTS TypeOK UnchangedIsStored LeftIsStored
PROPERTIES LoadsAllOrNothing StartContinues

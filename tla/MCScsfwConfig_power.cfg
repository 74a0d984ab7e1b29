\* Power failures only: every flash command works, a sub-sector's erase may
\* be torn.
CONSTANTS
  Bit <- MCBit
  MAX_CONFS = 2
  ConfLen = 2
  MagicLen = 1
  SubSectors = 2
  ConfSub <- MCConfSub
  MAGIC <- MCMagic
  SLOT_MAGIC <- MCSlotMagic
  ConfWord = {{1}}
  FwSub = {}
  TornErase = TRUE
  Faults = FALSE
SPECIFICATION FreshSpec
INVARIANTS TypeOK NeverOverwrites
PROPERTY ImplementsStore

\* Worn-out cells: any erase or program command may fail, on top of power
\* failures.
CONSTANTS
  Bit <- MCBit
  MAX_CONFS = 2
  ConfLen = 1
  MagicLen = 1
  SubSectors = 2
  ConfSub <- MCConfSub
  MAGIC <- MCMagic
  SLOT_MAGIC <- MCSlotMagic
  ConfWord <- MCConfWord
  FwSub = {}
  TornErase = TRUE
  Faults = TRUE
SPECIFICATION FreshSpec
INVARIANT SavedIsReadBack

\* A firmware image that reaches into the second sub-sector of the block.
CONSTANTS
  Bit <- MCBit
  MAX_CONFS = 2
  ConfLen = 1
  MagicLen = 1
  SubSectors = 2
  ConfSub <- MCConfSub
  MAGIC <- MCMagic
  SLOT_MAGIC <- MCSlotMagic
  ConfWord <- MCConfWord
  FwSub = {1}
  TornErase = FALSE
  Faults = FALSE
SPECIFICATION FreshSpec
INVARIANT FirmwareKept

\* Every card of MCKernel in one board, every board with two cards.  The system
\* stops with the kernel started or with a coloured screen.
SPECIFICATION MCSpec
CONSTANTS
  SS = 4
  DirPerSector = 2
  MAX_DIR = 5
  MAX_FAT12 = 6
  MAX_FAT16 = 8
  MinSectors = 8
  BufSize = 8
  MaxErrors = 2
  MaxKernel = 48
  SdramSize = 52
  Cards <- MCCards
  Paths <- MCPaths
  Boards <- MCBoards
INVARIANT TypeOK ReadsTheFile OpensFirst StartsWholeKernel NeverRefused
PROPERTY StartsOrStops
CHECK_DEADLOCK FALSE

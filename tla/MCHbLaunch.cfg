\* Every card of MCHbLaunch with one driver, every driver with one card.  The
\* system stops with the program started, a driver that does not fit, or the
\* exception of an empty listing.
CONSTANTS
  Chars <- MCChars
  Junk = "?"
  ENTRIES_PER_SCREEN = 3
  ENTRY_PAGE_LENGTH = 2
  Order <- MCOrder
  Cards <- MCCards
  Hotkeys <- MCHotkeys
  Drivers <- MCDrivers
  HbmenuRoom <- MCHbmenuRoom
  LoaderRoom <- MCLoaderRoom
  ProgramRooms <- MCProgramRooms
  Binaries <- MCBinaries
SPECIFICATION MCSpec
INVARIANTS TypeOK ArgumentsArrive WellFormedStarts ShownIsStarted RelocatedOnce
PROPERTIES StarredReturned
CHECK_DEADLOCK FALSE

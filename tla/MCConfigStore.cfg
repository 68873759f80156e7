CONSTANTS
  Interval = 1
  MaxEdits = 1
  MaxFaults = 2
  MaxCrashes = 1
  MaxTampers = 1
SPECIFICATION FairSpec
INVARIANTS
  NothingForgotten
  FlushedWhenLeft
PROPERTIES
  SavesAtomically
  OriginalKept
  ChangesReachDisk

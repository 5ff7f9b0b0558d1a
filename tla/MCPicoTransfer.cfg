CONSTANTS
  Files = 4
  Size <- MixedFiles
  Byte = 3
  Field = 2
  Header = 3
SPECIFICATION FairSpec
CHECK_DEADLOCK FALSE
INVARIANTS
  DiskHoldsItsFiles
  SavedOnceInOrder
PROPERTIES
  EveryFileIsSaved
  PicoBecomesIdle

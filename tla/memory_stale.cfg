SPECIFICATION Spec
CONSTANTS
  PageSize = 2
  FlashSize = 6
  EepromSize = 2
  LoadThreshold = 3
  InitialFlash <- MCInitialFlash
  Files <- MCFiles
  Reads <- PageReads
  Writes <- PageWrites
INVARIANT ReadIsMemory
CHECK_DEADLOCK FALSE

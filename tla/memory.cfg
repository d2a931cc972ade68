SPECIFICATION Spec
CONSTANTS
  PageSize = 2
  FlashSize = 6
  EepromSize = 2
  LoadThreshold = 3
  InitialFlash <- MCInitialFlash
  Files <- MCFiles
  Reads <- MCReads
  Writes <- MCWrites
INVARIANTS TypeOK ModesAgree ReadCurrent VerifySound ProgramSound
PROPERTY ModeRestored
CHECK_DEADLOCK FALSE

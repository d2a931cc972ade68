SPECIFICATION FairSpec
CONSTANTS
  PageSize = 4
  FlashSize = 8
  EepromSize = 4
  MaxLocations = 4
  Bitrates <- MCBitrates
  MaxTries = 10
  SyncTries = 3
  MaxFaults = 1
  RateParts <- MCRateParts
  ChainParts <- MCChainParts
  PortParts <- MCPortParts
  CommandLines <- MCCommandLines
  JTAG_DEV = ""
  Boxes <- MCBoxes
  Files <- MCFiles
  FuseText <- MCFuseText
  LockText <- MCLockText
  GdbReads <- MCGdbReads
  GdbWrites <- MCGdbWrites
  Breakpoints <- MCBreakpoints
  MaxAccesses = 1
  MaxBreaks = 4
INVARIANTS TypeOK AnswerOwn ConfiguredAsGiven StoppedBetweenSteps TargetAsAsked DownloadSound DiesForAReason GdbReadsMemory BreakpointsPlaced
PROPERTY Settles

SPECIFICATION FairSpec
CONSTANTS
  MaxTries = 2
  ResetAfter = 0
  MaxPackets = 2
  MaxCalls = 2
  MaxInfos = 1
INVARIANTS TypeOK WholeFrames
PROPERTIES ImplementsChannel ReadServed

SPECIFICATION FairSpec
CONSTANTS
  EventSeq = 3
  MaxTries = 3
  SyncTries = 2
  Rates = 2
  ApplyNsrst = TRUE
  Frontend = "avarice"
  Faults = {"crc", "cut"}
  MaxExchanges = 6
  MaxEvents = 1
INVARIANTS TypeOK LinkInv
PROPERTIES ImplementsRequestReply CallEnds

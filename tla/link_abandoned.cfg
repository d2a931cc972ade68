SPECIFICATION Spec
CONSTANTS
  EventSeq = 2
  MaxTries = 2
  SyncTries = 1
  Rates = 1
  ApplyNsrst = FALSE
  Frontend = "manuel"
  Faults = {}
  MaxExchanges = 6
  MaxEvents = 1
INVARIANTS ReplyIsExpected

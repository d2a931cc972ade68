SPECIFICATION FairSpec
CONSTANTS
  Terminal = term
  Heap = {a1}
  MaxConnections = 2
  MaxTexts = 2
  MaxLines = 2
  Kinds = {"open", "plain", "speaks", "quit"}
INVARIANTS ListenersAlive AnswersInOrder
PROPERTIES IteratorValid Answered
CHECK_DEADLOCK FALSE

SPECIFICATION Spec
CONSTANTS
  Terminal = term
  Heap = {a1}
  MaxConnections = 2
  MaxTexts = 2
  MaxLines = 2
  Kinds = {"open", "plain", "speaks", "quit"}
INVARIANT NeverHangs
CHECK_DEADLOCK FALSE

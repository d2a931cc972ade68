SPECIFICATION FairSpec
CONSTANTS
  Commands <- SessionCommands
  FlashSize = 2
  Addresses = {2}
  MaxCommands = 3
  MaxInterrupts = 1
  MaxDamage = 1
INVARIANTS ExecutedOnce BreakpointsKept
PROPERTIES NoCommandEaten Answered ServerEnds
CHECK_DEADLOCK FALSE

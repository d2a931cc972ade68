SPECIFICATION Spec
CONSTANTS
  Commands <- LoadCommands
  FlashSize = 4
  Addresses = {2}
  MaxCommands = 2
  MaxInterrupts = 0
  MaxDamage = 0
INVARIANT LoadStored
CHECK_DEADLOCK FALSE

SPECIFICATION Spec
CONSTANTS
  NumBlocks = 2
  Bursts = 1
  Thresh = 1
  Files = {"sav"}
  NewFiles = {}
  MaxWrites = 0
  MaxEvents = 1
INVARIANTS NeverHalfRestored
CHECK_DEADLOCK FALSE

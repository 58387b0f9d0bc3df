SPECIFICATION Spec
CONSTANTS
  NumBlocks = 2
  Bursts = 1
  Thresh = 1
  Files = {"sav"}
  NewFiles = {"sav"}
  MaxWrites = 1
  MaxEvents = 1
INVARIANTS SafetyNets
CHECK_DEADLOCK FALSE

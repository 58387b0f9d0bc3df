SPECIFICATION FairSpec
CONSTANTS
  NumBlocks = 2
  Bursts = 1
  Thresh = 1
  Files = {"sav", "other"}
  NewFiles = {"other"}
  MaxWrites = 2
  MaxEvents = 2
INVARIANTS RestoreIsWhole NothingForgotten
PROPERTIES NeverResaves TransfersEnd
CHECK_DEADLOCK FALSE

SPECIFICATION FairSpec
CONSTANTS
  Banks = 2
  Sectors = 2
  LinesOfSector = 1
  BurstWords = 1
  GameWords = {1, 4}
  Data = {7}
  MaxPrograms = 2
  MaxEvents = 2
INVARIANTS LineIsTrue CompletionIsReal
PROPERTIES NothingStalls
CHECK_DEADLOCK FALSE

SPECIFICATION FairSpec
CONSTANTS
  Beats = 3
  LaneWords = 1
  Values = {0, 1}
  GameWords = {0, 2}
  MpegWords = {2}
  FifoDepth = 2
INVARIANTS LinesAreCurrent CountIsOccupancy WritesLand
PROPERTIES StalledReadCompletes

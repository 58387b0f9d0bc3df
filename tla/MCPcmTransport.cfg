SPECIFICATION FairSpec
CONSTANTS
  RingBeats = 2
  FifoDepth = 2
  EpochMod = 4
  MaxBeats = 4
INVARIANTS RingIsSafe StaleEpochIsSilent
PROPERTIES ImplementsFifo PlaysOut

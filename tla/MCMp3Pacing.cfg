SPECIFICATION Mp3FairSpec
CONSTANTS
  Starts = {0, 2}
  Ends = {0, 4}
  CtrlWords = {{15}, {13, 14, 15}}
  ConsMod = 3
  CredMax = 2
  MaxEpoch = 3
  MaxResets = 1
INVARIANTS InStep MirrorInSync NeverLeads
PROPERTIES SongEnds
CHECK_DEADLOCK FALSE

SPECIFICATION Mp3Spec
CONSTANTS
  Starts = {0, 2}
  Ends = {0, 4}
  CtrlWords = {{}, {13, 14}, {13, 14, 15}}
  ConsMod = 3
  CredMax = 2
  MaxEpoch = 3
  MaxResets = 1
INVARIANTS NoBurst
CHECK_DEADLOCK FALSE

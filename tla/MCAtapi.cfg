SPECIFICATION FairSpec
CONSTANTS
  HdrWords = 1
  UserWords = 3
  TailWords = 1
  PacketWords = 2
  FixedWords = 2
  Settle = 1
  Pace = 1
  IdentSettle = 1
  Pregap = 1
  Lbas = {0, 5}
  Lens = {0, 1, 2}
  MaxCommands = 3
INVARIANTS ServesInOrder NoLostEdge
PROPERTIES CompletesOnce ReadsFinish
CHECK_DEADLOCK FALSE

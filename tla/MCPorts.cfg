SPECIFICATION FairSpec
CONSTANTS
  RamBeats = {"a", "b"}
  RingBeats = {"r", "s"}
  Values = {0, 1}
  MaxBurst = 2
  MaxPend = 3
  Words = {"v", "w"}
  Masked = "masked"
  CountMod = 4
  PendMax = 5
  MaxBehind = 3
  NWords = 2
  Bytes = {0, 1}
  GameCells = {0, 1}
  WordGap = 11
  WriteGap = 5
  SizeBits = 4
  SectorLen = 3
  PREGAP_LBA = 2
  Lbas = {1, 4, 9}
  MaxTracks = 2
INVARIANTS RoutedRight BurstsUnbroken WritesLand EachItsOwn EventsConserved
           ImagesWhole SaveIsAsked DiscIsTheMounted
PROPERTIES RingServed

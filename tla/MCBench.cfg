SPECIFICATION Spec
CONSTANTS
  NCH = 5
  Kinds = {"strobe", "idle", "level"}
  Nodes = {1, 2, 3, 4}
  Outside = 9
  NodeWords <- MCNodeWords
  HeadRects = 1
  HeadQuads = 2
  Band <- MCBand
  Picks = {3, 4}
  MaxNodes = 3
  QuadCounts = {0, 1, 4}
  Coords = {1}
  rows = {480, 491}
  NPixels = 2
  MaxHolds = 2
  PcKeys = {"reset", "main_init"}
  Events = {"fb_black", "vga_lit"}
  MaxTrace = 3
  Required = {"reset"}
  Codes = {29, 56, 59}
  Buttons = {311, 400}
  Declared = {29, 56, 59}
  PadDeclared = {311}
  MaxKeys = 3
  MaxCombos = 2
  Other = 4
  MaxFiles = 2
  Lengths = {1, 2, 3}
  Extended = {0, 3}
  StartWords = {1}
  Chunks = {1, 3}
  MaxReload = 4
  InvRuns = 2
INVARIANTS ReadsOwnColumn  DrawsTheList CleanIsClean ExitCodeIsTrue
           PressesAsAsked RecommendedResumes VerdictIsTrue
CHECK_DEADLOCK FALSE

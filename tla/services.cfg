SPECIFICATION ServicesSpec
CONSTANTS
  empty = empty
  small = small
  large = large
  Versions = {empty, small, large}
  None = None
  Damaged = Damaged
  Blocks <- Sizes
  CallsFail = TRUE
  CloseFails = TRUE
  Exiters = {t1, t2}
  Numbers <- Products
  Word = 16
  PadStates <- TwoPads
  Unplugged = Unplugged
  Touches <- Fingers
  Panel <- FrontPanel
  Margin = 4
  Controls = {0, 1}
  Levels = {0, 1}
  Filters = {"NEAREST_MIPMAP_LINEAR", "LINEAR_MIPMAP_NEAREST", "LINEAR_MIPMAP_LINEAR"}
  MaxLive = 1
  Bytes = 5
  Byte = 4
  Chars = {0, 1, 3, 6}
  Tables <- SymbolTables
  Sections <- SectionTables
  LastAddress = 12
INVARIANTS
  AckedSurvives
  ReadsAllOrNothing
  CacheIsSound
  TakesWhatItIsGiven
  TexturesAsConfigured
  VariantsCompile
  PatchesLand
PROPERTIES
  SoundImplementsSaveFile
  AnswersAreTrue
CHECK_DEADLOCK FALSE

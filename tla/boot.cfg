SPECIFICATION FairSpec
CONSTANTS
  Images <- AllImages
  ConfigFiles = {"off", "trilinear", "no mipmaps"}
INVARIANTS
  CodeIsFinal
  HeadersAlive
  NothingLeftOver
PROPERTIES
  GxmTakenOnce
  BootAnswers
CHECK_DEADLOCK FALSE

SPECIFICATION Spec
CONSTANTS
  Images <- AllImages
  Words = 16
  TextBase = 8
  Slots = {0, 4}
  Symbols = {1, 2, 3}
  Names = {"own", "imported", "missing"}
  Functions <- ImportTable
  Libraries <- AllLibraries
  TextSize = 24
  Funcs <- Hookable
  Start <- Starts
  Size <- Sizes
  Targets = {1, 2}
  Unhooked = 0
INVARIANTS
  SoContract
  ResolvedAsLinked
  HooksAreExact
CHECK_DEADLOCK FALSE

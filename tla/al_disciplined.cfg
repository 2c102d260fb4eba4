CONSTANTS
  t1 = t1  t2 = t2  s1 = s1  s2 = s2  b1 = b1  b2 = b2  b3 = b3
  Threads = {t1}
  Sources = {s1, s2}
  Buffers = {b1, b2, b3}
  NoSource = NoSource
  Strays = FALSE
SPECIFICATION Spec
SYMMETRY AlSymmetry
INVARIANTS
  StopWasRightBefore
PROPERTIES
  DeletesWhatWasAsked

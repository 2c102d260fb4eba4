SPECIFICATION Spec
CONSTANTS
  w1 = w1
  w2 = w2
  p1 = p1
  p2 = p2
  o1 = o1
  o2 = o2
  o3 = o3
  Waiters = {w1, w2}
  Zero = Zero
  NoThread = NoThread
  Timed = {w2}
  Posters = {p1, p2}
  Objects = {o1, o2, o3}
  LockedNotify = FALSE
  MaxPosts = 2
  MaxFails = 1
SYMMETRY ObjectSymmetry
INVARIANTS
  SleepersReachable
  NoLostWakeup
CHECK_DEADLOCK FALSE

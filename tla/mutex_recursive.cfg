SPECIFICATION Spec
CONSTANTS
  t1 = t1
  t2 = t2
  t3 = t3
  c1 = c1
  c2 = c2
  o1 = o1
  o2 = o2
  o3 = o3
  Threads <- TwoThreads
  Cells = {c1}
  Objects = {o1, o2, o3}
  Recursive = {c1}
  Zero = Zero
  RecInit = RecInit
  NoThread = NoThread
  NoCell = NoCell
  SerialFirstUse = TRUE
  Relock = TRUE
INVARIANT RecursiveRelock

SPECIFICATION WaitsSpec
CONSTANTS
  Threads = {t1, t2}
  Controls = {k1, k2}
  Overlap = TRUE
  Wanted = {0, 1}
  Most = 2
  MaxLives = 2
  MaxPosts = 3
  Callers = {c1, c2}
  Ids = {i1, i2}
  NoId = NoId
  j1 = j1
  j2 = j2
  j3 = j3
  Jobs <- ThreeJobs
  NoJob = NoJob
  Priority <- GamePriorities
  Failing = TRUE
  Count = 2
  MaxPending = 1
  MayFail = TRUE
  Micros = 4
  Nanos = 3
  Word = 8
  MaxTicks = 7
  MaxWall = 5
  Requests <- SleepRequests
  Order <- FourSettings
  NoFile = NoFile
  Unknown = "unknown"
  Default <- FirstValues
  Values <- Numbers
  Printed <- Rounded
  MaxLanguage = 1
  Mods = {12}
  Files <- UserFiles
INVARIANTS
  OnceKept
  LaunchesStayApart
  DialogShowsPictures
  SettingsLast
PROPERTIES
  SerialImplementsOnce
  SemaphoresCount
  TimeIsTold
  KeepsSettings
  WaitsEnd
  LoopsEnd
CHECK_DEADLOCK FALSE

SPECIFICATION SySpec
CONSTANTS
  Threads = {t1, t2, t3}
  Handlers = {h1}
  NoOne = NoOne
  InitialCount = 0
  UintMax = 3
  LockThreads = {k1, k2, k3, k4}
  Reentrant = {k4}
  Null = Null
  HangActors = {c1, c2, c3}
  Lockables = {l1, l2, l3}
  Nobody = Nobody
  Lists = {1, 2}
  ListThreads = {1, 2, 3, 4}
  NULLNODE <- MCNull
INVARIANTS
  NoLostWakeup
  NoStrandedSleeper
  ReleaseCheckStillValid
  DetectorIsRight
  ListsHoldTheirThreads
PROPERTIES
  ImplementsSemaphore
  ImplementsMutex
CHECK_DEADLOCK FALSE

SPECIFICATION MCLive
CONSTANTS
  t1 = t1
  t2 = t2
  t3 = t3
  None = None
  NumCpus = 2
  Threads <- MCThreads
  BootThread <- MCBoot
  Nobody = Nobody
  p1 = p1
  p2 = p2
  s1 = s1
  s2 = s2
  s3 = s3
  SplCpus = {p1, p2}
  SplThreads = {s1, s2}
  SplBootThread <- MCSplBoot
  NumLocks = 1
  MaxFrames = 0
  MaxAllFrames = 0
PROPERTIES
  ReadyThreadRuns

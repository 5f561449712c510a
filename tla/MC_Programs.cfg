CONSTANTS
  Cpus_ = {c1, c2}
  Programs <- MCPrograms
  BootLines <- MCBootLines
  Lines <- MCLines
  MaxProcs = 2
  FRAMES = 7
  NUM_TLB = 2
  USERSTACK = 5
  DUMBVM_STACKPAGES = 1
  MAXBG = 2
  Pids = {1, 2, 3}
  Statuses <- MCStatuses
  VALUES = 256
  MaxForks = 4
  Settings <- MCSettings
  RANDOM_MAX = 6
  CATBUF = 2
  ForkFails = 1
  UsemRuns <- MCRuns
  UsemKernels = {"free", "locked"}
  DIM = 35
  NMATS = 11
  MODULUS = 32768
  AnswerJobs = {0, 23}
  PVMJOBS = 3
  PVMKernels = {"right", "mixes"}
  DirNames <- MCDirNames
  NTRIES = 2
  NPROCS = 1
SPECIFICATION MCSpec
SYMMETRY Symmetry
INVARIANTS
  
  JobTableExact
  
  TurnsTaken
  ParallelvmIsRight
  DirconcCleansUp
CHECK_DEADLOCK FALSE

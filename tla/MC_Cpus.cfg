SPECIFICATION MCSpec
CONSTANTS
  Boot = b0
  Secondary = {c1, c2, c3}
  UintMax = 7
  NoOne = NoOne
  Cpus = {c1, c2}
  MaxSends = 4
  LbSlots = {0, 1, 2}
  LbMachines <- MCMachines
  LbCpus = {0, 1, 2}
  LbDuds = 2
  LbRaises = 2
  LbNoMem = 1
INVARIANTS
  NobodyInsideDestroyed
  AttachedRight
PROPERTIES
  BootContinues
  SignalledIpiHandled
  BootsOrPanics
CHECK_DEADLOCK FALSE

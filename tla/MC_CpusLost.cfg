SPECIFICATION MCSpec
CONSTANTS
  Boot = b0
  Secondary = {c1, c2, c3}
  UintMax = 7
  NoOne = NoOne
  Cpus = {c1, c2}
  MaxSends = 4
  LbSlots = {0, 1, 2}
  LbMachines <- MCMachines
  LbCpus = {0, 1, 2}
  LbDuds = 3
  LbRaises = 0
  LbNoMem = 0
PROPERTY
  EveryIpiHandled
CHECK_DEADLOCK FALSE

CONSTANTS
  BLOCKSIZE = 2
  Ndb = 3
  Dbperidb = 2
  Many = 4
  ManyLinks = 2
  TreeThings = 2
  RandThings = 3
  SeqFiles = 4
  SeqOps = 2
  RandPos = {3}
  RandLen = {3}
  RandTrunc = {5}
  DATA_MAXSIZE = 8
  NBLOCKS = 11
  MAPBITS = 13
  NDIRECT = 1
  DBPERIDB = 2
  PERBLOCK = 4
  Damages = 1
  Runs = 3
  BadPtrs = {0, 1, 4, 7, 8, 10, 11}
  BadSizes = {0, 1, 3, 8, 9, 17, 25}
  BadNames <- MCBadNames
  EmuThreads = {T1, T2}
  EmuFiles = {f}
  Root = root
  EmuHandles = {0, 1, 2}
  EmuVnodes = {v1, v2}
  RootVnode = r
  EmuNone = EmuNone
  EMU_MAXIO = 1
  EmuTransfers <- MCTransfers
  EmuMaxSize = 1
  EmuRetries = 1
  EmuOpen = 1
  MediaErrors = 1
  EmuNoMems = 1
SYMMETRY Symmetry
SPECIFICATION MCSpec
INVARIANTS
  FrackIsFair
  DamageReported
  CleanMeansConsistent
  RepairKeeps
  EmuExact

SPECIFICATION MCSpec
CONSTANTS
  Threads = {x1, x2, x3}
  Names = {a1, a2}
  MaxSems = 2
  Users = {x1, x2, x3}
  NoOne = NoOne
  UintMax = 3
  MaxResid = 2
  MaxTotal = 5
  None = None
  Callers = {a1, a2}
  Kids = {k}
  Devs = {b1, b2}
  Kproc = Kproc
  Nothing = Nothing
  SfsThreads = {x1, x2, x3}
  FileNames = {a1, a2}
  Inos = {b1, b2}
  MaxLinks = 2
  NoIno = NoIno
  Files = {a1, a2}
  NumBlocks = 5
  NDIRECT = 1
  DBPERIDB = 2
  KmThreads = {a1, a2}
  NumPages = 4
  BlockTypes = {0, 1}
  BlocksPerPage <- MCBlocksPerPage
  NumRoots = 2
  RefsPerPage = 2
  NoRef = NoRef
SYMMETRY Symmetry
INVARIANTS
  DirectoriesStayMounted
  SemaphoresExact
  NamesAndInodesExact
  BlocksExact
  HeapExact

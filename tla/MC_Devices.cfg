SPECIFICATION MCSpec
CONSTANTS
  Threads = {t1, t2}
  RawThreads = {t2}
  Data = {a, b}
  NumSectors = 2
  MaxLen = 1
  MaxTries = 1
  None = None
  Writers = {w1, w2}
  Readers = {menu, r1, r2}
  Kgets = {menu}
  Chars = {x, y}
  NoChar = NoChar
  INPUT_BUFFER = 3
  Free = Free
INVARIANTS
  ConsoleExact
  DiskExact
PROPERTIES
  OperationEnds

CONSTANTS
  HALF_BITS = 2
  INTW = 4
  LLW = 8
  FormatMax = 6
  WidthMax = 40
  BufLens = {0, 3}
  LONG = 2
  MemSize = 8
  ArrayMax = 5
  UNSIGNEDW = 2
  PAGE_SIZE = 8
  Limits = {16, 32, 48}
  SMALLSIZE = 3
  MEDIUMSIZE = 7
  BIGSIZE = 17
  HUGESIZE = 64
  OVERHEAD = 8
  ABSURD_OVERHEAD = 12
  Sizes = {1, 5, 12}
  NPTRS = 3
  LOOPS = 6
  Tests = 2
  FRAMES = 16
  HUGE = 32
  FEW = 3
  SOME = 4
  LOT = 5
  STRESSMAX = 4
  STRESSPAGES = 3
  STRESSLOOPS = 3
  Faults = {"none", "new break", "break stays", "one page too many", "one frame twice", "stays mapped", "past the end", "frames leak", "exit leaks", "pages not copied", "pages shared"}
  Made <- MCMade
  SLOT = 2
  RANDOMREADS = 2
  SeekFaults = {"skips", "name at eof", "repeats", "seek lies", "seek ignored", "eof below", "hurt by bad reads", "open keeps", "fails"}
  Inputs <- MCInputs
  BufSize = 2
SPECIFICATION MCSpec
INVARIANTS
  LibraryIsRight
  HeapKept
  
  TacReverses
CHECK_DEADLOCK FALSE

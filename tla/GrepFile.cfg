\* GREP on blocks of two bytes.
CONSTANTS
  None = None
  Procs = {p1, p2}
  NumBlocks = 8
  Scenarios <- FarFiles
  BufWords = 15
  MaxExtents = 3
  CdwModulus = 32
  Capacity = 3
  GrepBuf = 6
SPECIFICATION Spec
INVARIANT GrepSearchesFile

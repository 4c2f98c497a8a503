\* HEAAN_ADD and GREP from file to file.
CONSTANTS
  None = None
  Procs = {p1, p2}
  NumBlocks = 8
  Scenarios <- AllScenarios
  BufWords = 15
  MaxExtents = 3
  CdwModulus = 32
  Capacity = 3
  GrepBuf = 6
SPECIFICATION Spec
INVARIANTS
  FilesIntact
  GrepFindsLines
  GrepFits
PROPERTIES
  CommandEnds

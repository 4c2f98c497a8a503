\* HEAAN_ADD with every fault, beside reads.
CONSTANTS
  None = None
  Reqs = {r1, r2, r3}
  Slots = {s1, s2, s3}
  Cmds <- HeaanRunCmds
  MaxIo = 4
  NumBlocks = 4
  BlockSize = 2
  LbaModulus = 8
  PoolSize = 4
  CacheSize = 1
  MaxDiscard = 0
  MaxWriteZeroes = 3
  Unsupported = {}
  IoFaults = TRUE
  AllocFaults = TRUE
  PathErrors = FALSE
SPECIFICATION Spec
CHECK_DEADLOCK FALSE
SYMMETRY Symmetry
INVARIANTS
  IoStaysOnDevice
  CompletedAtMostOnce

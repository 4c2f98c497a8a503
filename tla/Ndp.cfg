\* ECHO and HEAAN_ADD with descriptors to spare and no faults.
CONSTANTS
  None = None
  Reqs = {r1, r2}
  Slots = {s1, s2}
  Cmds <- NdpCmds
  MaxIo = 4
  NumBlocks = 4
  BlockSize = 2
  LbaModulus = 8
  PoolSize = 8
  CacheSize = 1
  MaxDiscard = 0
  MaxWriteZeroes = 3
  Unsupported = {}
  IoFaults = FALSE
  AllocFaults = FALSE
  PathErrors = FALSE
SPECIFICATION Spec
CHECK_DEADLOCK FALSE
INVARIANTS
  CompletedMeansIdle
  InputsBeforeOutputs
PROPERTIES
  ImplementsService

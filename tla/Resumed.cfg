\* GREP, DSM and a read share one descriptor: they have to wait and resume.
CONSTANTS
  None = None
  Reqs = {r1, r2}
  Slots = {s1}
  Cmds <- ResumedCmds
  MaxIo = 2
  NumBlocks = 4
  BlockSize = 2
  LbaModulus = 8
  PoolSize = 1
  CacheSize = 1
  MaxDiscard = 0
  MaxWriteZeroes = 3
  Unsupported = {}
  IoFaults = FALSE
  AllocFaults = FALSE
  PathErrors = FALSE
SPECIFICATION Spec
CHECK_DEADLOCK FALSE
INVARIANT ResumedUsesHostData

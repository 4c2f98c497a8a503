\* Liveness of commands that wait and resume, three requests sharing one descriptor.
CONSTANTS
  None = None
  Reqs = {r1, r2, r3}
  Slots = {s1}
  Cmds <- AnsweredCmds
  MaxIo = 3
  NumBlocks = 4
  BlockSize = 2
  LbaModulus = 8
  PoolSize = 1
  CacheSize = 1
  MaxDiscard = 0
  MaxWriteZeroes = 3
  Unsupported = {}
  IoFaults = TRUE
  AllocFaults = FALSE
  PathErrors = TRUE
SPECIFICATION Spec
CHECK_DEADLOCK FALSE
PROPERTIES
  ImplementsService

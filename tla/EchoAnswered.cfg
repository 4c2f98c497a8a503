\* ECHO beside a read, two descriptors: the second read of an ECHO finds none.
CONSTANTS
  None = None
  Reqs = {r1, r2}
  Slots = {s1, s2}
  Cmds <- EchoReadCmds
  MaxIo = 2
  NumBlocks = 4
  BlockSize = 2
  LbaModulus = 8
  PoolSize = 2
  CacheSize = 1
  MaxDiscard = 0
  MaxWriteZeroes = 3
  Unsupported = {}
  IoFaults = FALSE
  AllocFaults = FALSE
  PathErrors = FALSE
SPECIFICATION Spec
CHECK_DEADLOCK FALSE
PROPERTY EveryCommandAnswered

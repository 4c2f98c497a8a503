\* Every command but HEAAN_ADD, three requests sharing two descriptors, all faults.
CONSTANTS
  None = None
  Reqs = {r1, r2, r3}
  Slots = {s1, s2, s3}
  Cmds <- AllButHeaan
  MaxIo = 3
  NumBlocks = 4
  BlockSize = 2
  LbaModulus = 8
  PoolSize = 2
  CacheSize = 1
  MaxDiscard = 0
  MaxWriteZeroes = 3
  Unsupported = {"PASSTHRU"}
  IoFaults = TRUE
  AllocFaults = TRUE
  PathErrors = TRUE
SPECIFICATION Spec
CHECK_DEADLOCK FALSE
SYMMETRY Symmetry
INVARIANTS
  CompletedAtMostOnce
  CompletedMeansIdle
  ContextsAreLive
  SuccessMeansPerformed
  IoStaysOnDevice

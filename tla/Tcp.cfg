\* A connection with two request objects and two data buffers.
CONSTANTS
  resource_count = 2
  NumBufs = 2
  Cmds <- AllCmds
  DataLen = 2
  Digests = {TRUE, FALSE}
  Faulty = {"none"}
  BadPdus = TRUE
SPECIFICATION Spec
INVARIANTS
  DataBeforeExec
  Conserved
  PduOwned
  ReceivePdusCounted
  DepthKept
  FusedInOrder
  ReadyIsWaiting
PROPERTIES
  FreedMeansAnswered
  LosesOnlyFirst

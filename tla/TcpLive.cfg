\* Reads and writes share one data buffer; the connection breaks, is terminated or dropped.
CONSTANTS
  resource_count = 2
  NumBufs = 1
  Cmds <- ReadAndWrite
  DataLen = 1
  Digests = {TRUE}
  Faulty = {"none"}
  BadPdus = TRUE
SPECIFICATION FairSpec
PROPERTIES
  CommandsEnd
  AwaitReqLeaves
  DisconnectEnds

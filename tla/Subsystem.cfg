\* A subsystem with two namespaces is paused to remove, add or resize the first,
\* stopped, started and resumed, while hosts send, disconnect and reconnect.
CONSTANTS
  g1 = g1  g2 = g2  qa = qa  qi = qi
  a1 = a1  a2 = a2  i1 = i1  i2 = i2
  None = None
  Groups = {g1, g2}
  Qpairs = {qa, qi}
  Requests = {a1, a2, i1, i2}
  AdminQpairs = {qa}
  GroupOf <- MCGroupOf
  QpairOf <- MCQpairOf
  MaxNsid = 2
  Classes = {"mgmt", "aer", "connect", "io"}
  Changes <- AllChanges
  MaxPending = 1
  AsDocumented = TRUE
  ChannelFaults = TRUE
SPECIFICATION FairSpec
INVARIANTS
  MgmtCounted
  IoCounted
  PausedMeansQuiet
  ActiveReleasesQueue
  DeactivatingIsBusy
  TransitionsAccepted
PROPERTIES
  RemovedWhenPaused
  ChangesFinish

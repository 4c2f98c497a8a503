\* Two threads share four descriptors; each channel caches one, so that
\* pool, caches and both wait queues are exhausted and refilled.
CONSTANTS
  Threads = {t1, t2}
  Ios = {io1, io2, io3, io4}
  Entries = {e1, e2, e3}
  bdev_io_cache_size = 1
SPECIFICATION Spec
INVARIANTS
  WaitersMeanEmptyCache
  WaiterHasWaker
  EachIoInOnePlace
PROPERTIES
  NoLineJumping
  WaiterCalledBack

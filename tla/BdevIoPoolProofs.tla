-------------------------- MODULE BdevIoPoolProofs --------------------------
(***************************************************************************)
(* Proofs about the descriptor pool for any set of threads, descriptors    *)
(* and wait entries.  Where a cache must hold something the theorem says   *)
(* so with the assumption bdev_io_cache_size >= 1.                         *)
(***************************************************************************)
EXTENDS BdevIoPool, FiniteSetTheorems, TLAPS

(***************************************************************************)
(* What makes the safety invariants inductive.  Only open channels have    *)
(* waiters, so a new channel may fill its cache.  A channel never gives    *)
(* away its last descriptor: spdk_bdev_free_io feeds the cache before the  *)
(* pool.                                                                   *)
(***************************************************************************)
WaitersOnOpenChannels == \A t \in Threads : io_wait_queue[t] # <<>> => t \in open

QueueInv == WaitersMeanEmptyCache /\ WaitersOnOpenChannels

OwnsAnIo == \A t \in open : Owned(t) # {}

(***************************************************************************)
(* A cache as large as a non-zero size has a descriptor in it.             *)
(***************************************************************************)
LEMMA FullCacheNotEmpty ==
  ASSUME bdev_io_cache_size >= 1, NEW S, Cardinality(S) >= bdev_io_cache_size
  PROVE  S # {}
  BY FS_EmptySet, CacheSizeAssumption

(***************************************************************************)
(* The wait queues spdk_bdev_free_io leaves behind are sequences of        *)
(* entries.                                                                *)
(***************************************************************************)
LEMMA RestOfQueue ==
  ASSUME NEW q \in Seq(Entries), NEW k \in DOMAIN q
  PROVE  /\ SubSeq(q, k + 1, Len(q)) \in Seq(Entries)
         /\ Append(SubSeq(q, k + 1, Len(q)), q[k]) \in Seq(Entries)
         /\ {q[i] : i \in 1 .. k} \in SUBSET Entries
  OBVIOUS

(***************************************************************************)
(* The state variables stay within their types through every function of   *)
(* the pool.                                                               *)
(***************************************************************************)
THEOREM TypeCorrect == Spec => []TypeOK
<1>1. Init => TypeOK
  BY DEF Init, TypeOK
<1>2. TypeOK /\ [Next]_vars => TypeOK'
  <2> SUFFICES ASSUME TypeOK, [Next]_vars PROVE TypeOK'
    OBVIOUS
  <2> USE DEF TypeOK
  <2>1. CASE UNCHANGED vars
    BY <2>1 DEF vars
  <2>2. ASSUME NEW t \in Threads, bdev_mgmt_channel_create(t) PROVE TypeOK'
    BY <2>2 DEF bdev_mgmt_channel_create
  <2>3. ASSUME NEW t \in Threads, bdev_mgmt_channel_destroy(t) PROVE TypeOK'
    BY <2>3 DEF bdev_mgmt_channel_destroy
  <2>4. ASSUME NEW t \in Threads, bdev_channel_get_io(t) PROVE TypeOK'
    BY <2>4 DEF bdev_channel_get_io, Obtainable
  <2>5. ASSUME NEW t \in Threads, NEW e \in Entries, spdk_bdev_queue_io_wait(t, e)
        PROVE  TypeOK'
    BY <2>5 DEF spdk_bdev_queue_io_wait
  <2>6. ASSUME NEW t \in Threads, NEW io \in Ios, io \in inflight[t], FreeToPool(t, io)
        PROVE  TypeOK'
    BY <2>6 DEF FreeToPool
  <2>7. ASSUME NEW t \in Threads, NEW io \in Ios, FreeToCache(t, io)
        PROVE  TypeOK'
    <3>1. CASE NobodySubmits(t, io)
      BY <2>7, <3>1 DEF FreeToCache, NobodySubmits, Queued
    <3>2. ASSUME NEW k \in DOMAIN io_wait_queue[t], WaiterSubmits(t, io, k)
          PROVE  TypeOK'
      <4> DEFINE q == io_wait_queue[t]
                 rest == SubSeq(q, k + 1, Len(q))
      <4>1. /\ rest \in Seq(Entries)
            /\ Append(rest, q[k]) \in Seq(Entries)
            /\ {q[i] : i \in 1 .. k} \in SUBSET Entries
        BY RestOfQueue
      <4>2. PICK next \in per_thread_cache[t] \cup {io} :
              /\ per_thread_cache' =
                   [per_thread_cache EXCEPT ![t] = (@ \cup {io}) \ {next}]
              /\ inflight' = [inflight EXCEPT ![t] = (@ \ {io}) \cup {next}]
        BY <3>2, ZenonT(60) DEF WaiterSubmits
      <4>3. /\ per_thread_cache' \in [Threads -> SUBSET Ios]
            /\ inflight' \in [Threads -> SUBSET Ios]
        BY <4>2
      <4>4. io_wait_queue' \in [Threads -> Seq(Entries)] /\ called' \in SUBSET Entries
        BY <3>2, <4>1, ZenonT(60) DEF WaiterSubmits
      <4>5. QED
        BY <2>7, <4>3, <4>4 DEF FreeToCache
    <3>3. QED
      BY <2>7, <3>1, <3>2 DEF FreeToCache
  <2>8. QED
    BY <2>1, <2>2, <2>3, <2>4, <2>5, <2>6, <2>7 DEF Next, spdk_bdev_free_io
<1>3. QED
  BY <1>1, <1>2, PTL DEF Spec

(***************************************************************************)
(* Nobody waits beside a cached descriptor, whatever the cache size:       *)
(* spdk_bdev_queue_io_wait is reached only with an empty cache, and        *)
(* spdk_bdev_free_io, when it fills a cache, calls waiters back until the  *)
(* cache or the queue is empty.  Waiters have a channel, since a waiter    *)
(* keeps its reference to it.  One step per function of the pool.          *)
(***************************************************************************)
LEMMA QueueInvHolds == Spec => []QueueInv
<1>1. Init => QueueInv
  BY DEF Init, QueueInv, WaitersMeanEmptyCache, WaitersOnOpenChannels
<1>2. TypeOK /\ QueueInv /\ [Next]_vars => QueueInv'
  <2> SUFFICES ASSUME TypeOK, QueueInv, [Next]_vars
               PROVE  QueueInv'
    OBVIOUS
  <2> USE DEF TypeOK, QueueInv, WaitersMeanEmptyCache, WaitersOnOpenChannels
  <2>1. CASE UNCHANGED vars
    BY <2>1 DEF vars
  <2>2. ASSUME NEW t \in Threads, bdev_mgmt_channel_create(t)
        PROVE  QueueInv'
    BY <2>2 DEF bdev_mgmt_channel_create
  <2>3. ASSUME NEW t \in Threads, bdev_mgmt_channel_destroy(t)
        PROVE  QueueInv'
    BY <2>3 DEF bdev_mgmt_channel_destroy
  <2>4. ASSUME NEW t \in Threads, bdev_channel_get_io(t)
        PROVE  QueueInv'
    BY <2>4 DEF bdev_channel_get_io, Obtainable
  <2>5. ASSUME NEW t \in Threads, NEW e \in Entries, spdk_bdev_queue_io_wait(t, e)
        PROVE  QueueInv'
    BY <2>5 DEF spdk_bdev_queue_io_wait, Obtainable
  <2>6. ASSUME NEW t \in Threads, NEW io \in Ios, FreeToPool(t, io)
        PROVE  QueueInv'
    BY <2>6 DEF FreeToPool
  <2>7. ASSUME NEW t \in Threads, NEW io \in Ios, FreeToCache(t, io)
        PROVE  QueueInv'
    <3>1. CASE NobodySubmits(t, io)
      BY <2>7, <3>1 DEF FreeToCache, NobodySubmits
    <3>2. ASSUME NEW k \in DOMAIN io_wait_queue[t], WaiterSubmits(t, io, k)
          PROVE  QueueInv'
      <4>1. per_thread_cache[t] = {} /\ t \in open
        BY <3>2
      <4>2. per_thread_cache' = [per_thread_cache EXCEPT ![t] = {}]
        BY <3>2, <4>1, ZenonT(60) DEF WaiterSubmits
      <4>3. \A u \in Threads \ {t} : io_wait_queue'[u] = io_wait_queue[u]
        BY <3>2 DEF WaiterSubmits
      <4>4. QED
        BY <2>7, <4>1, <4>2, <4>3 DEF FreeToCache
    <3>3. QED
      BY <2>7, <3>1, <3>2 DEF FreeToCache
  <2>8. QED
    BY <2>1, <2>2, <2>3, <2>4, <2>5, <2>6, <2>7 DEF Next, spdk_bdev_free_io
<1>3. QED
  BY <1>1, <1>2, TypeCorrect, PTL DEF Spec

(***************************************************************************)
(* A waiter never sleeps beside a cached descriptor, for every cache size. *)
(***************************************************************************)
THEOREM WaitersMeanEmptyCacheHolds == Spec => []WaitersMeanEmptyCache
<1>1. QueueInv => WaitersMeanEmptyCache
  BY DEF QueueInv
<1>2. QED
  BY <1>1, QueueInvHolds, PTL

(***************************************************************************)
(* spdk_bdev_free_io: "We should never have a full cache with entries on   *)
(* the io wait queue."  The assertion there holds once a full cache is not *)
(* an empty one.                                                           *)
(***************************************************************************)
FullCacheHasNoWaiters ==
  \A t \in Threads :
    per_thread_cache_count(t) >= bdev_io_cache_size => io_wait_queue[t] = <<>>

(***************************************************************************)
(* With a cache for at least one descriptor, no request waits on a thread  *)
(* whose cache is full.                                                    *)
(***************************************************************************)
THEOREM FullCacheHasNoWaitersHolds ==
  ASSUME bdev_io_cache_size >= 1
  PROVE  Spec => []FullCacheHasNoWaiters
<1>1. WaitersMeanEmptyCache => FullCacheHasNoWaiters
  BY FullCacheNotEmpty
     DEF WaitersMeanEmptyCache, FullCacheHasNoWaiters, per_thread_cache_count
<1>2. QED
  BY <1>1, WaitersMeanEmptyCacheHolds, PTL

(***************************************************************************)
(* An open channel keeps a descriptor when its cache has room for one.     *)
(* One step per function of the pool.                                      *)
(***************************************************************************)
LEMMA OwnsAnIoInductive ==
  ASSUME bdev_io_cache_size >= 1, TypeOK, QueueInv, OwnsAnIo, [Next]_vars
  PROVE  OwnsAnIo'
<1> USE DEF TypeOK, QueueInv, WaitersMeanEmptyCache, WaitersOnOpenChannels,
      OwnsAnIo, Owned
<1>1. CASE UNCHANGED vars
  BY <1>1 DEF vars
<1>2. ASSUME NEW t \in Threads, bdev_mgmt_channel_create(t) PROVE OwnsAnIo'
  <2>1. PICK taken \in SUBSET bdev_io_pool :
          /\ Cardinality(taken) = bdev_io_cache_size
          /\ per_thread_cache' = [per_thread_cache EXCEPT ![t] = taken]
    BY <1>2, ZenonT(60) DEF bdev_mgmt_channel_create
  <2>2. taken # {}
    <3>1. Cardinality(taken) >= bdev_io_cache_size
      BY <2>1, CacheSizeAssumption
    <3>2. QED
      BY <3>1, FullCacheNotEmpty
  <2>3. io_wait_queue[t] = <<>>
    BY <1>2 DEF bdev_mgmt_channel_create
  <2>4. QED
    BY <1>2, <2>1, <2>2, <2>3, ZenonT(60) DEF bdev_mgmt_channel_create
<1>3. ASSUME NEW t \in Threads, bdev_mgmt_channel_destroy(t) PROVE OwnsAnIo'
  BY <1>3, ZenonT(60) DEF bdev_mgmt_channel_destroy
<1>4. ASSUME NEW t \in Threads, bdev_channel_get_io(t) PROVE OwnsAnIo'
  BY <1>4, ZenonT(60) DEF bdev_channel_get_io, Obtainable
<1>5. ASSUME NEW t \in Threads, NEW e \in Entries, spdk_bdev_queue_io_wait(t, e)
      PROVE  OwnsAnIo'
  BY <1>5, ZenonT(60) DEF spdk_bdev_queue_io_wait, Obtainable
<1>6. ASSUME NEW t \in Threads, NEW io \in Ios, io \in inflight[t], FreeToPool(t, io)
      PROVE  OwnsAnIo'
  <2>1. per_thread_cache[t] # {}
    BY <1>6, FullCacheNotEmpty DEF FreeToPool, per_thread_cache_count
  <2>2. QED
    BY <1>6, <2>1, ZenonT(60) DEF FreeToPool
<1>7. ASSUME NEW t \in Threads, NEW io \in Ios, io \in inflight[t], FreeToCache(t, io)
      PROVE  OwnsAnIo'
  <2>1. CASE NobodySubmits(t, io)
    BY <1>7, <2>1, ZenonT(60) DEF FreeToCache, NobodySubmits
  <2>2. ASSUME NEW k \in DOMAIN io_wait_queue[t], WaiterSubmits(t, io, k)
        PROVE  OwnsAnIo'
    <3>1. io_wait_queue[t] # <<>> /\ per_thread_cache[t] = {} /\ t \in open
      BY <2>2
    <3>2. /\ per_thread_cache' = [per_thread_cache EXCEPT ![t] = {}]
          /\ inflight' = [inflight EXCEPT ![t] = @ \cup {io}]
      BY <2>2, <3>1, <1>7, ZenonT(60) DEF WaiterSubmits
    <3>3. \A u \in Threads \ {t} : io_wait_queue'[u] = io_wait_queue[u]
      BY <2>2 DEF WaiterSubmits
    <3>4. QED
      BY <1>7, <3>1, <3>2, <3>3, ZenonT(60) DEF FreeToCache
  <2>3. QED
    BY <1>7, <2>1, <2>2, ZenonT(60) DEF FreeToCache
<1>8. QED
  BY <1>1, <1>2, <1>3, <1>4, <1>5, <1>6, <1>7, ZenonT(60) DEF Next, spdk_bdev_free_io

(***************************************************************************)
(* bdev_mgmt_channel_create keeps its promise that "this thread cannot be  *)
(* starved": a waiter always has a descriptor in flight on its own thread, *)
(* whose release will call it back.                                        *)
(***************************************************************************)
THEOREM WaiterHasWakerHolds ==
  ASSUME bdev_io_cache_size >= 1
  PROVE  Spec => []WaiterHasWaker
<1>1. Init => OwnsAnIo
  BY DEF Init, OwnsAnIo
<1>2. TypeOK /\ QueueInv /\ OwnsAnIo /\ [Next]_vars => OwnsAnIo'
  BY OwnsAnIoInductive
<1>3. QueueInv /\ OwnsAnIo => WaiterHasWaker
  BY DEF QueueInv, WaitersMeanEmptyCache, WaitersOnOpenChannels, OwnsAnIo, Owned,
         WaiterHasWaker
<1>4. QED
  BY <1>1, <1>2, <1>3, TypeCorrect, QueueInvHolds, PTL DEF Spec

(***************************************************************************)
(* A channel that does not exist holds nothing: bdev_mgmt_channel_create   *)
(* starts from an empty cache.                                             *)
(***************************************************************************)
ClosedChannelsEmpty ==
  \A t \in Threads \ open : per_thread_cache[t] = {} /\ inflight[t] = {}

(***************************************************************************)
(* Every function of the pool moves descriptors between the pool, one      *)
(* cache and one thread's users without losing or duplicating any, whatever*)
(* the cache size.                                                         *)
(***************************************************************************)
THEOREM EachIoInOnePlaceHolds == Spec => []EachIoInOnePlace
<1> DEFINE Inv == EachIoInOnePlace /\ ClosedChannelsEmpty
<1>1. Init => Inv
  BY DEF Init, EachIoInOnePlace, Owned, ClosedChannelsEmpty
<1>2. TypeOK /\ Inv /\ [Next]_vars => Inv'
  <2> SUFFICES ASSUME TypeOK, Inv, [Next]_vars PROVE Inv'
    OBVIOUS
  <2> USE DEF TypeOK, EachIoInOnePlace, Owned, ClosedChannelsEmpty
  <2>1. CASE UNCHANGED vars
    BY <2>1, ZenonT(60) DEF vars
  <2>2. ASSUME NEW t \in Threads, bdev_mgmt_channel_create(t) PROVE Inv'
    <3>1. PICK taken \in SUBSET bdev_io_pool :
            /\ bdev_io_pool' = bdev_io_pool \ taken
            /\ per_thread_cache' = [per_thread_cache EXCEPT ![t] = taken]
      BY <2>2, ZenonT(60) DEF bdev_mgmt_channel_create
    <3>2. per_thread_cache[t] = {} /\ inflight[t] = {} /\ UNCHANGED inflight
      BY <2>2 DEF bdev_mgmt_channel_create
    <3>3. EachIoInOnePlace'
      BY <3>1, <3>2
    <3>4. ClosedChannelsEmpty'
      BY <2>2, <3>1, <3>2, ZenonT(60) DEF bdev_mgmt_channel_create
    <3>5. QED
      BY <3>3, <3>4, ZenonT(60)
  <2>3. ASSUME NEW t \in Threads, bdev_mgmt_channel_destroy(t) PROVE Inv'
    BY <2>3, ZenonT(60) DEF bdev_mgmt_channel_destroy
  <2>4. ASSUME NEW t \in Threads, bdev_channel_get_io(t) PROVE Inv'
    <3>1. PICK io \in per_thread_cache[t] \cup bdev_io_pool :
            /\ inflight' = [inflight EXCEPT ![t] = @ \cup {io}]
            /\ per_thread_cache' = [per_thread_cache EXCEPT ![t] = @ \ {io}]
            /\ bdev_io_pool' = bdev_io_pool \ {io}
      BY <2>4, ZenonT(60) DEF bdev_channel_get_io, Obtainable
    <3>2. t \in open /\ UNCHANGED open
      BY <2>4 DEF bdev_channel_get_io
    <3>3. EachIoInOnePlace'
      BY <3>1
    <3>4. ClosedChannelsEmpty'
      BY <3>1, <3>2
    <3>5. QED
      BY <3>3, <3>4, ZenonT(60)
  <2>5. ASSUME NEW t \in Threads, NEW e \in Entries, spdk_bdev_queue_io_wait(t, e)
        PROVE  Inv'
    BY <2>5 DEF spdk_bdev_queue_io_wait
  <2>6. ASSUME NEW t \in Threads, NEW io \in Ios, io \in inflight[t], FreeToPool(t, io)
        PROVE  Inv'
    BY <2>6 DEF FreeToPool
  <2>7. ASSUME NEW t \in Threads, NEW io \in Ios, io \in inflight[t], FreeToCache(t, io)
        PROVE  Inv'
    <3>1. CASE NobodySubmits(t, io)
      BY <2>7, <3>1 DEF FreeToCache, NobodySubmits
    <3>2. ASSUME NEW k \in DOMAIN io_wait_queue[t], WaiterSubmits(t, io, k)
          PROVE  Inv'
      <4>1. PICK next \in per_thread_cache[t] \cup {io} :
              /\ per_thread_cache' =
                   [per_thread_cache EXCEPT ![t] = (@ \cup {io}) \ {next}]
              /\ inflight' = [inflight EXCEPT ![t] = (@ \ {io}) \cup {next}]
        BY <3>2 DEF WaiterSubmits
      <4>2. UNCHANGED <<bdev_io_pool, open>> /\ t \in open
        BY <2>7 DEF FreeToCache
      <4>3. EachIoInOnePlace'
        BY <2>7, <4>1, <4>2
      <4>4. ClosedChannelsEmpty'
        BY <4>1, <4>2
      <4>5. QED
        BY <4>3, <4>4
    <3>3. QED
      BY <2>7, <3>1, <3>2 DEF FreeToCache
  <2>8. QED
    BY <2>1, <2>2, <2>3, <2>4, <2>5, <2>6, <2>7, ZenonT(60) DEF Next, spdk_bdev_free_io
<1>3. QED
  BY <1>1, <1>2, TypeCorrect, PTL DEF Spec
=============================================================================

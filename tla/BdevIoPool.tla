----------------------------- MODULE BdevIoPool -----------------------------
(***************************************************************************)
(* The spdk_bdev_io descriptors of the bdev layer (lib/bdev/bdev.c): one   *)
(* global mempool, one management channel per thread with a small cache of *)
(* descriptors, and on each channel a FIFO of callers that were refused    *)
(* with -ENOMEM and asked to be called back.                               *)
(*                                                                         *)
(* An SPDK thread runs to completion, so each function called by a user of *)
(* the layer is one atomic step of its thread; threads interleave, and all *)
(* they share is the (lock-free, external) mempool.                        *)
(***************************************************************************)
EXTENDS Naturals, Sequences, FiniteSets

CONSTANTS
  Threads,            \* SPDK threads
  Ios,                \* the descriptors spdk_mempool_create allocates
  Entries,            \* spdk_bdev_io_wait_entry objects owned by the callers
  bdev_io_cache_size  \* g_bdev_opts.bdev_io_cache_size

ASSUME CacheSizeAssumption == bdev_io_cache_size \in Nat
ASSUME IosAssumption == IsFiniteSet(Ios)

VARIABLES
  bdev_io_pool,      \* descriptors in the global mempool
  per_thread_cache,  \* per_thread_cache[t]: descriptors cached by t's channel
  inflight,          \* inflight[t]: descriptors handed out on t, not freed yet
  io_wait_queue,     \* io_wait_queue[t]: entries waiting on t's channel
  open,              \* the threads whose management channel exists
  called             \* the entries whose cb_fn the last step has called

vars == <<bdev_io_pool, per_thread_cache, inflight, io_wait_queue, open, called>>

TypeOK ==
  /\ bdev_io_pool \in SUBSET Ios
  /\ per_thread_cache \in [Threads -> SUBSET Ios]
  /\ inflight \in [Threads -> SUBSET Ios]
  /\ io_wait_queue \in [Threads -> Seq(Entries)]
  /\ open \in SUBSET Threads
  /\ called \in SUBSET Entries

Init ==
  /\ bdev_io_pool = Ios
  /\ per_thread_cache = [t \in Threads |-> {}]
  /\ inflight = [t \in Threads |-> {}]
  /\ io_wait_queue = [t \in Threads |-> <<>>]
  /\ open = {}
  /\ called = {}

per_thread_cache_count(t) == Cardinality(per_thread_cache[t])

Queued(t) == {io_wait_queue[t][i] : i \in DOMAIN io_wait_queue[t]}

(***************************************************************************)
(* The channel's cache is filled from the pool, bdev_io_cache_size times;  *)
(* if the pool runs out, what was taken is put back and the creation fails *)
(* with nothing changed.                                                   *)
(***************************************************************************)
bdev_mgmt_channel_create(t) ==
  /\ t \notin open
  /\ \E taken \in SUBSET bdev_io_pool :
       /\ Cardinality(taken) = bdev_io_cache_size
       /\ bdev_io_pool' = bdev_io_pool \ taken
       /\ per_thread_cache' = [per_thread_cache EXCEPT ![t] = taken]
  /\ open' = open \cup {t}
  /\ called' = {}
  /\ UNCHANGED <<inflight, io_wait_queue>>

(* Faulty variant: the cached descriptors are not returned to the pool. *)
DestroyLeaks(t) ==
  /\ t \in open
  /\ inflight[t] = {} /\ io_wait_queue[t] = <<>>
  /\ per_thread_cache' = [per_thread_cache EXCEPT ![t] = {}]
  /\ open' = open \ {t}
  /\ called' = {}
  /\ UNCHANGED <<bdev_io_pool, inflight, io_wait_queue>>

(***************************************************************************)
(* The last reference to the channel is dropped, which its users do once   *)
(* none of their I/O or wait entries is left on it.                        *)
(***************************************************************************)
bdev_mgmt_channel_destroy(t) ==
  /\ t \in open
  /\ inflight[t] = {} /\ io_wait_queue[t] = <<>>
  /\ bdev_io_pool' = bdev_io_pool \cup per_thread_cache[t]
  /\ per_thread_cache' = [per_thread_cache EXCEPT ![t] = {}]
  /\ open' = open \ {t}
  /\ called' = {}
  /\ UNCHANGED <<inflight, io_wait_queue>>

(* Faulty variant: no look at the wait queue. *)
ObtainableJumps(t) == IF per_thread_cache[t] # {} THEN per_thread_cache[t] ELSE bdev_io_pool

(***************************************************************************)
(* bdev_channel_get_io: the cache first; an empty cache with waiters       *)
(* refuses, so that nobody jumps the line; only then the global pool.      *)
(***************************************************************************)
Obtainable(t) ==
  IF per_thread_cache[t] # {} THEN per_thread_cache[t]
  ELSE IF io_wait_queue[t] # <<>> THEN {}
  ELSE bdev_io_pool

bdev_channel_get_io(t) ==
  /\ t \in open
  /\ \E io \in Obtainable(t) :
       /\ inflight' = [inflight EXCEPT ![t] = @ \cup {io}]
       /\ per_thread_cache' = [per_thread_cache EXCEPT ![t] = @ \ {io}]
       /\ bdev_io_pool' = bdev_io_pool \ {io}
  /\ called' = {}
  /\ UNCHANGED <<io_wait_queue, open>>

(* Faulty variant: waiters are served last in, first out. *)
QueueAtHead(t, e) ==
  /\ t \in open
  /\ Obtainable(t) = {}
  /\ \A u \in Threads : e \notin Queued(u)
  /\ io_wait_queue' = [io_wait_queue EXCEPT ![t] = <<e>> \o @]
  /\ called' = {}
  /\ UNCHANGED <<bdev_io_pool, per_thread_cache, inflight, open>>

(***************************************************************************)
(* A caller that has just been refused with -ENOMEM queues its entry, as   *)
(* the function's contract asks.  A caller that gives up instead changes   *)
(* nothing here.                                                           *)
(***************************************************************************)
spdk_bdev_queue_io_wait(t, e) ==
  /\ t \in open
  /\ Obtainable(t) = {}
  /\ \A u \in Threads : e \notin Queued(u)
  /\ io_wait_queue' = [io_wait_queue EXCEPT ![t] = Append(@, e)]
  /\ called' = {}
  /\ UNCHANGED <<bdev_io_pool, per_thread_cache, inflight, open>>

(* Faulty variant: to the pool although the cache has room. *)
FreePrefersPool(t, io) ==
  /\ bdev_io_pool' = bdev_io_pool \cup {io}
  /\ inflight' = [inflight EXCEPT ![t] = @ \ {io}]
  /\ called' = {}
  /\ UNCHANGED <<per_thread_cache, io_wait_queue, open>>

(***************************************************************************)
(* spdk_bdev_free_io when the cache is full: back to the global pool.      *)
(***************************************************************************)
FreeToPool(t, io) ==
  /\ per_thread_cache_count(t) >= bdev_io_cache_size
  /\ bdev_io_pool' = bdev_io_pool \cup {io}
  /\ inflight' = [inflight EXCEPT ![t] = @ \ {io}]
  /\ called' = {}
  /\ UNCHANGED <<per_thread_cache, io_wait_queue, open>>

(* Faulty variant: the descriptor is cached and the waiters are forgotten. *)
WaitersForgotten(t, io) ==
  /\ per_thread_cache' = [per_thread_cache EXCEPT ![t] = @ \cup {io}]
  /\ inflight' = [inflight EXCEPT ![t] = @ \ {io}]
  /\ called' = {}
  /\ UNCHANGED io_wait_queue

(***************************************************************************)
(* spdk_bdev_free_io when the cache has room: the descriptor is cached and *)
(* waiters are called back, in order, as long as the cache is not empty.   *)
(* Either all of them fail or give up without submitting, ...              *)
(***************************************************************************)
NobodySubmits(t, io) ==
  /\ per_thread_cache' = [per_thread_cache EXCEPT ![t] = @ \cup {io}]
  /\ inflight' = [inflight EXCEPT ![t] = @ \ {io}]
  /\ io_wait_queue' = [io_wait_queue EXCEPT ![t] = <<>>]
  /\ called' = Queued(t)

(***************************************************************************)
(* ... or the k-th is the first to submit: it takes a cached descriptor,   *)
(* and may want a further one and queue its entry again behind the others. *)
(* That ends the loop: the cache was empty before, WaitersMeanEmptyCache.  *)
(***************************************************************************)
WaiterSubmits(t, io, k) ==
  LET q == io_wait_queue[t]
      rest == SubSeq(q, k + 1, Len(q))
  IN /\ \E next \in per_thread_cache[t] \cup {io} :
          /\ per_thread_cache' =
               [per_thread_cache EXCEPT ![t] = (@ \cup {io}) \ {next}]
          /\ inflight' = [inflight EXCEPT ![t] = (@ \ {io}) \cup {next}]
     /\ called' = {q[i] : i \in 1 .. k}
     /\ \/ io_wait_queue' = [io_wait_queue EXCEPT ![t] = rest]
        \/ /\ rest # <<>> \/ bdev_io_pool = {}
           /\ io_wait_queue' = [io_wait_queue EXCEPT ![t] = Append(rest, q[k])]

FreeToCache(t, io) ==
  /\ per_thread_cache_count(t) < bdev_io_cache_size
  /\ \/ NobodySubmits(t, io)
     \/ \E k \in DOMAIN io_wait_queue[t] : WaiterSubmits(t, io, k)
  /\ UNCHANGED <<bdev_io_pool, open>>

spdk_bdev_free_io(t, io) ==
  /\ io \in inflight[t]
  /\ FreeToPool(t, io) \/ FreeToCache(t, io)

Next ==
  \E t \in Threads :
    \/ bdev_mgmt_channel_create(t)
    \/ bdev_mgmt_channel_destroy(t)
    \/ bdev_channel_get_io(t)
    \/ \E e \in Entries : spdk_bdev_queue_io_wait(t, e)
    \/ \E io \in Ios : spdk_bdev_free_io(t, io)

(***************************************************************************)
(* Every I/O that was submitted completes and its owner frees the          *)
(* descriptor; nothing else is guaranteed to happen.                       *)
(***************************************************************************)
Fairness == \A t \in Threads, io \in Ios : WF_vars(spdk_bdev_free_io(t, io))

Spec == Init /\ [][Next]_vars /\ Fairness

-----------------------------------------------------------------------------
(***************************************************************************)
(* spdk_bdev_free_io asserts that a full cache has no waiters, and         *)
(* nvmf_bdev_ctrl_queue_io that a wait entry is never queued while the     *)
(* cache has a descriptor: whenever somebody waits the cache is empty, or  *)
(* the waiter would sleep beside a free descriptor.                        *)
(***************************************************************************)
WaitersMeanEmptyCache ==
  \A t \in Threads : io_wait_queue[t] # <<>> => per_thread_cache[t] = {}

(***************************************************************************)
(* bdev_mgmt_channel_create: "Pre-populate bdev_io cache to ensure this    *)
(* thread cannot be starved."  Whenever somebody waits on a thread, a      *)
(* descriptor is in flight on that same thread: only spdk_bdev_free_io on  *)
(* that thread calls a waiter back, whatever the other threads give back.  *)
(***************************************************************************)
WaiterHasWaker ==
  \A t \in Threads : io_wait_queue[t] # <<>> => inflight[t] # {}

(***************************************************************************)
(* No descriptor is lost or handed out twice across pool, caches and users.*)
(***************************************************************************)
Owned(t) == per_thread_cache[t] \cup inflight[t]

EachIoInOnePlace ==
  /\ \A io \in Ios : io \in bdev_io_pool \/ \E t \in Threads : io \in Owned(t)
  /\ \A t \in Threads :
       /\ per_thread_cache[t] \cap inflight[t] = {}
       /\ bdev_io_pool \cap Owned(t) = {}
       /\ \A u \in Threads \ {t} : Owned(t) \cap Owned(u) = {}

(***************************************************************************)
(* bdev_channel_get_io's "we don't want this caller to jump the line":     *)
(* while somebody waits on a thread, no step hands out one more descriptor *)
(* there, even when other threads have refilled the global pool.           *)
(***************************************************************************)
NoLineJumping ==
  [][\A t \in Threads :
       io_wait_queue[t] # <<>> =>
         Cardinality(inflight'[t]) <= Cardinality(inflight[t])]_vars

(***************************************************************************)
(* As long as I/O completes, the callback of every queued entry is called. *)
(***************************************************************************)
WaiterCalledBack ==
  \A t \in Threads, e \in Entries : (e \in Queued(t)) ~> (e \in called)
=============================================================================

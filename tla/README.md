# Formal model of the NDP/HEaaN NVMe-oF target

TLA+ specifications of the near-data-processing target in this repository: an
SPDK 24.09 NVMe/TCP target with three added I/O commands, ECHO (0xd0), GREP
(0xd1) and HEAAN_ADD (0xe0, homomorphic addition of two ciphertext files on the
target), and a host `nvme io-passthru` that turns file names into block extents.

## The system

| part | source | state | operations |
|---|---|---|---|
| host passthru | `nvme-cli/nvme.c` 8690-9221 | command, extent buffer, the host's files | `get_file_layout`, `passthru` |
| NVMe/TCP transport | `spdk/lib/nvmf/tcp.c` | request state, receive state, PDUs, buffers | `nvmf_tcp_req_process`, `nvmf_tcp_sock_process`, abort, disconnect |
| request execution | `spdk/lib/nvmf/ctrlr.c`, `nvmf.c` | outstanding and queued requests, counters per subsystem and namespace | `spdk_nvmf_request_exec`, `_nvmf_request_complete`, pause and resume of a poll group |
| subsystem | `spdk/lib/nvmf/subsystem.c` | subsystem state, pending state changes, namespaces | start, stop, pause, resume, namespace hot-remove, resize, add |
| dispatch | `ctrlr.c` 4363-4507 | response status | `nvmf_ctrlr_process_io_cmd` |
| command handlers | `spdk/lib/nvmf/ctrlr_bdev.c` | per-command contexts, `pending_fills`, `range_index`, the data buffer | one handler per opcode, one callback per I/O |
| bdev descriptors | `spdk/lib/bdev/bdev.c` | `bdev_io_pool`, `per_thread_cache`, `io_wait_queue` | get, free, queue for a wake-up, channel create/destroy |

A request travels from the transport through admission (is the subsystem
active?) and dispatch to a handler. The handler either completes it at once or
submits I/O. Each I/O needs a descriptor. A standard command that finds none
queues itself and is called back *inside* another request's `spdk_bdev_free_io`;
ECHO and HEAAN_ADD fail instead. An SPDK thread runs each function to
completion, so the interleavings that matter are the order of callbacks on one
thread, messages between threads, and the shared pool.

What makes it hard: resubmission nested in a free; commands with several I/Os
completing in any order, some failing; contexts freed while callbacks still point
to them; handlers run twice after `-ENOMEM`; pauses that visit poll groups one
after the other while requests start, end and queue; acknowledgements, data and
digests of one request in any order; disconnection at any step; caches and pools
at their limits; byte/block conversion between host and target. PROJECT.json
lists each such place with the properties that cover it.

## Modules

| module | models |
|---|---|
| `BdevIoPool` | the descriptor pool for several threads, with channels that come and go |
| `BdevIoPoolProofs` | theorems about it |
| `NvmfRequest` | abstract: what the transport may rely on (a final status, one completion) |
| `CtrlrBdev` | the handlers and callbacks on one poll group thread, over the descriptor pool seen from that thread |
| `CtrlrBdevInv` | its inductive invariant, and what the pieces the handlers are made of do |
| `CtrlrBdevFacts` | shared lemmas: arithmetic of ranges, submission and completion, replacing a request or a context |
| `CtrlrBdevQueue` | the handlers that may queue their request, DSM's included, their completions and the nested resubmission of `spdk_bdev_free_io` keep it |
| `CtrlrBdevCustom` | the arrival and the callbacks of ECHO and HEAAN_ADD keep it |
| `CtrlrBdevProofs` | the theorems that follow, and the refinement of `NvmfRequest` |
| `SubsystemPause` | a subsystem's state changes over its poll groups, and the admission, queueing and counting of requests |
| `SubsystemPauseProofs` | its inductive invariant, kept by every step, and the theorems that follow for any use |
| `SubsystemPauseNs` | theorems about namespaces and accepted transitions, for the documented use |
| `TcpRequest` | one NVMe/TCP connection: receive states, request states, buffers, disconnection |
| `GrepLines` | GREP's line search as operators, and the reference definition |
| `NdpFiles` | GREP and HEAAN_ADD from file to file: host encoding, target decoding, the bytes on the device |
| `MC*` | instances for model checking |

The definitions marked *Faulty variant* are plausible mistakes in the definition
that follows; substituting one breaks the property PROJECT.json pairs it with.

**BdevIoPool.** `bdev_io_pool`, `per_thread_cache[t]`, `io_wait_queue[t]` are
the code's; `inflight[t]` is what the users hold, `open` the threads with a
channel, `called` the entries whose callback the last step has run (only the
liveness property reads it). `spdk_bdev_free_io` is split by branch:
`FreeToPool`, and `FreeToCache` with the loop that calls waiters back. A waiter
may give up, submit, or submit and queue again for a further descriptor. The code
of `bdev_mgmt_channel_destroy` does not look at the wait queue or at I/O in
flight; the model destroys a channel only without either, because their owners
hold references to it.

**CtrlrBdev.** One record per request (`req`), one per context address (`ctx`),
the thread's cache count, the pool count, the wait queue. Because a callback can
run another request's handler inside itself, handlers are functions from the
record of all state (`W`) to the next one, and an action applies such a function
with `Step`. Correspondence:

* `nvmf_ctrlr_process_io_cmd` is the arrival of a command; `PATH_ERROR` stands
  for each refusal before the switch (disabled controller, namespace, ANA,
  reservation). `Dispatch` is the switch.
* `Callback(r, j)` is the completion of the j-th I/O of request r, with any
  outcome `IoFaults` allows.
* `spdk_bdev_free_io(w, r, j, k)` includes the nested resubmission: the first k
  waiters are refused on the way, the next takes the descriptor.
* `Complete` is `spdk_nvmf_request_complete`; `cpl` counts calls.
* Buffers are sequences of blocks tagged with their origin, enough to tell the
  host's data, cleared data and the two files apart.
* `crashed` is the death of the process through a null pointer.

Assumptions: a request object is used once; a buffer is one iovec and ranges of
ECHO and GREP fit it; freed DPDK memory reads as zero (external), so a callback
with a freed context dereferences NULL; a HEAAN_ADD has at least one input
extent, and one without a data buffer (`len` 0) is refused; the bdev is opened for writing; a fault in allocating HEAAN_ADD's data
buffers is not distinguished from one in allocating its context. The named
assumptions say that addresses (the destination of a COPY, `sdlba`, too), lengths and
the size of the device fit the w bits of the code's integers (`WidthAssumption`), how many ranges each opcode carries
(`FormatAssumption`: one, two for ECHO, a number of inputs within the extents for
HEAAN_ADD), that the pool can fill one cache (`PoolAssumption`), and the types of the
other constants.
`ImplementsService` is `NvmfRequest!Spec` with `st` and `sc` read off `req`.
`IoStaysOnDevice` is about every range that was submitted, the byte extents of
HEAAN_ADD and both sides of a COPY included; FLUSH (sent for the whole device) and
PASSTHRU (forwarded unread) have no range of their own to check.
`SuccessMeansPerformed` leaves out only GREP; of DSM it says that an error of one
unmap survives to the completion, not that every range was unmapped, which is
`RangesUnmapped` (Disagreements).

**SubsystemPause.** `state`, `state_changes`, `sgroup`, `ns_info` are the code's
fields; `iter` is the state change in progress with its channel iterator. A poll
group is a thread; one more thread visits the groups in turn with messages.
`nvmf_subsystem_state_change` (a change is asked for) and
`nvmf_subsystem_do_state_change` (it is begun) are two steps; `GroupStep` is what
a visited group does; the completion callbacks of hot-remove, resize and add
(remove or add the namespace, then resume) are part of the step that ends the
change. Requests are classed by what the counters tell apart: admin or fabrics,
asynchronous event request, Connect, I/O, and Verify, whose opcode 0x0c is also
that of the asynchronous event request. Left out: replacing a namespace by
another (uuid) in one pause, `num_blocks` notices, reservation data, pausing all
namespaces, a failing `nvmf_poll_group_add_subsystem`, the retry for a duplicate
QID, in-band authentication, failing allocations. A host waits for the answer to
its Connect. The queue of a group is released in some order, not first in, first
out.

**TcpRequest.** One I/O connection in a release build (assertions out). `reqs`,
`free`, `pending`, `pool` are the code's; `q` holds the connection and receive
states; `lost` counts buffers that die with a connection and `execd` the fused
pair just executed (both only read by properties). Like in `CtrlrBdev`, handlers
are functions of the record of all state. Completion, which fails a waiting fused
partner, and the line for buffers are recursive operators, so this module has no
theorems. The receive actions follow
`nvmf_tcp_sock_process`; writes and data digests end in callbacks of their own, in
any order. Left out: zcopy, DIF, bidirectional commands, the control messages of
the admin queue, a wrong PDU data offset, the poll group's buffer cache, buffers
shared with other connections. A digest in flight when the queue pair is
destroyed is discarded. Abort acts on requests in NEED_BUFFER. In the runs only
commands that are not fused meet digest errors and aborts (`Faulty`); see
Disagreements.

**GrepLines, NdpFiles.** `GrepLines` has the search of
`nvmf_bdev_ctrlr_complete_cmd_custom` iovec by iovec, with the growth of the
result buffer, and `MatchingLines`, what a user would expect. In `NdpFiles` a
process on the host takes the layout of its files (`get_file_layout`: fsync,
extents, fallocate of the target), packs the extents, and the target unpacks them,
reads, computes, writes. The file system is external: extents at any free place,
dirty pages written back at any time. A ciphertext is the bytes of its file and
adding is bytewise. Failing I/O, descriptors and allocations are `CtrlrBdev`'s.
Assumed: inputs have no holes; nobody runs a command on a file another command is
writing, or writes a file in use; ranges of GREP fit its buffer. `passthru_grep` cuts
address and length to what cdw11 and cdw12 hold (`CdwModulus`, 2^32 in the code); the
devices of the runs are smaller, so what a cut address leads to is not checked. Stale
clean pages and the flag of unwritten extents are not modelled.

## Runs

Passing:

| run | instance | shows |
|---|---|---|
| `bdev_io_pool` | 2 threads, 4 descriptors, 3 wait entries, cache 1 | asserted cache/queue relation, a waker for each waiter, conservation, no line jumping; every waiter called back |
| `commands` | 3 requests, 2 descriptors, 32 commands (all but HEAAN_ADD), all faults | waiting and nested resubmission, refusals, DSM with 3 ranges, ECHO's contexts; one completion, success only if performed and no unmap failed, every submitted range inside the device |
| `answered` | 3 requests, 1 descriptor | refinement including liveness for waiting commands |
| `ndp` | 2 requests, 8 descriptors, no faults | ECHO and HEAAN_ADD as designed, refinement including liveness |
| `heaan` | 3 requests, 4 descriptors, I/O and allocation faults | what HEAAN_ADD keeps under faults, with unaligned or outlying extents or no buffer: submitted extents inside the device, one completion |
| `subsystem` | 2 poll groups, an admin and an I/O queue pair, 4 requests, 2 namespaces; remove, add, resize, stop, start, resume; channel faults | counters never drift, nothing executes while paused, no request stays queued in an active subsystem, transitions are the accepted ones, a namespace is removed only when paused, every change ends |
| `tcp` | 2 request objects, 2 buffers, writes of 2 H2C PDUs, 8 kinds of command, digests on and off, bad PDUs, aborts | a command executes with all its data and its buffer, buffers and PDUs are accounted for, fused pairs in order, a request is freed only when answered |
| `tcp_live` | 2 request objects, 1 buffer, digests on, reads and writes | commands end, a connection out of requests goes on, a disconnected queue pair is destroyed |
| `files` | 2 processes, 8 blocks, buffer of 15 words; fragmented, absent, short, long, in-place and empty files; GREP on every text of 6 bytes over {newline, K, X}, of 4 bytes with NUL, in iovecs of 3 and 6 | HEAAN_ADD leaves in the target file the sum and nothing else changed; GREP returns the matching lines; both end |

Bounds. Two requests on one descriptor suffice for one to wait on the other;
three give a queue with a waiter behind a waiter. A cache of 1 in a pool of 2
has both branches of free. Four blocks with 3-bit LBAs include ranges that end at,
past, and wrap around the end. Three DSM ranges on two descriptors stop in the
middle. HEAAN_ADD has two inputs and up to two target extents, so each phase has
a callback that is not the last. Two poll groups are needed for one to be paused
while the other still runs; `MaxPending` = 1 is what the documentation of
`nvmf.h` allows (`AsDocumented`); the proofs cover more. Two request objects allow a
fused pair and a command that finds no object; a write of two PDUs has data on
both sides of the acknowledgement. `BufWords` and `Capacity` stand for 512 words
and 4096 bytes; the files of the run need up to the bound, and texts go past the
capacity. `CHECK_DEADLOCK FALSE` is set for `CtrlrBdev`: requests are used once,
so the model stops when all are done or the process died.

The type invariants are proved for `BdevIoPool` and `SubsystemPause`, and for the
requests, contexts and queue of `CtrlrBdev` (`World` in `IInv`). `TypeOK` of
`CtrlrBdev`, `TcpRequest` and `NdpFiles` holds on the instances of `commands`,
`tcp` and `files` (add it as an INVARIANT).

Fairness. The bdev layer completes each I/O it accepted and the pollers of a
thread run forever, so callbacks are weakly fair; for `BdevIoPool` the same of each
`spdk_bdev_free_io`. No command has to arrive. In `SubsystemPause` messages between
threads are delivered and every command that was started completes, except
asynchronous event requests, which end only with their queue pair. In `TcpRequest`
the poll group polls its sockets and its line for buffers, the layers below call
back, the message that destroys a queue pair is delivered, the termination timer
expires; a host that is sent an R2T sends the data or goes away (strong fairness:
the receive state comes and goes), a host closes a terminated connection, and the
keep-alive timer drops one that is broken. In `NdpFiles` only HEAAN_ADD's steps on
the target are fair.

## Disagreements

Between the code and a comment, assertion or document. Three have a run:

| run | what happens |
|---|---|
| `echo_answered` | ECHO is never completed if its second read cannot be submitted |
| `resumed` | GREP resumed after waiting searches for an empty keyword; DSM resumed after waiting skips its last ranges |
| `grep_file` | GREP searches other blocks than the file's: bytes are sent as block addresses |

`ResumedUsesHostData` of `resumed` is the conjunction of `KeywordKept` (GREP) and
`RangesUnmapped` (DSM); TLC stops at the first of the two it meets, and `Resumed.cfg`
with either one alone shows that one's trace.

The others were reproduced with TLC by changing a passing configuration as said.

Handlers:

* HEAAN_ADD frees its context under I/O in flight when one read fails or cannot be
  submitted (`ctrlr_bdev.c:1136`, `:1151`): `Heaan.cfg` with `ContextsAreLive`.
* HEAAN_ADD keeps descriptors and ignores a write it could not submit (`:1143`,
  `:1206`), so a waiter may starve, which `bdev.c:2009` excludes: `Heaan.cfg` with
  `WaiterHasWaker`.
* DSM is completed twice when a later range is over the discard limit (`:1657`,
  comment at `:1677`): `Resumed.cfg` with `Cmds <- DsmLimitCmds`, `PoolSize = 2`,
  `MaxDiscard = 1` and `CompletedAtMostOnce`.
* GREP's callback ignores `success`, so a failed read may be reported as a match;
  `SuccessMeansPerformed` leaves GREP out. ECHO returns the metadata file only
  (`:880`), and HEAAN_ADD writes to the response after completing the request
  (`:1152`) and uses its context without looking at the result of the allocation
  (`:1231`); these follow from reading the code.
* With `bdev_io_cache_size` 0, which `spdk_bdev_set_opts` accepts, every cache counts
  as full, so a free with somebody waiting fails the assertion `bdev.c:2502` (a build
  without assertions never calls the waiter back); two theorems assume at least 1.

GREP and files:

* Only the last extent of a file is searched: `GrepFile.cfg` with
  the scenario `TwoExtents` alone. A line that goes on in the next iovec is searched in
  pieces; the result has an empty line after each line; no more than 4096 bytes are
  returned.
* `GrepFits` needs its bound of twice the capacity: one matching line of 8192 bytes
  needs 8193 bytes of a result buffer that is doubled once.
* The extents are packed into 4096 bytes, 254 of them in all, while `MAX_EXTENTS` is
  1024 (`nvme.c:8691`); extents past `MAX_EXTENTS` are dropped; the offset of an
  extent in its file is not sent, so a hole moves the bytes after it. `FilesIntact`
  is violated with `BufWords = 9`, with `MaxExtents = 1`, or with a hole in an input.

Subsystem (the first two with `AsDocumented = FALSE`, `MaxPending = 2`):

* Two pauses that overlap remove a namespace that is not paused; `nvmf.h:1064` asks
  of `spdk_nvmf_subsystem_remove_ns` that "the namespace must be paused". After a
  resume that failed (its reversal pauses no namespace) a hot-remove does the same.
  `RemovedWhenPaused`.
* A hot-remove while the subsystem is INACTIVE fails the assertion of
  `nvmf_subsystem_set_state` (`subsystem.c:582`); a release build goes on and
  activates the stopped subsystem. `TransitionsAccepted`.
* A Connect that a group queued while the subsystem stopped is found by the next
  start, which logs "sgroup->queued not empty when adding subsystem", frees it and
  asserts false (`nvmf.c:1609`). `Subsystem.cfg` with `QueueEmptyWhenAdding`.
* `_nvmf_request_complete` takes Verify on an I/O queue for an asynchronous event
  request (`ctrlr.c:4559`), so `io_outstanding` stays up and a pause of the namespace
  never ends: `Subsystem.cfg` with "verify" in `Classes` violates `IoCounted` and
  `ChangesFinish`.

Transport:

* Data with a bad digest is executed when the R2T's write is acknowledged after the
  digest (`tcp.c:2005`, the check is missing in `nvmf_tcp_r2t_complete`):
  `Tcp.cfg` with `CorruptNotExecuted`.
* The termination timer can find a connection that is QUIESCING rather than in
  ERROR, against the assertions `tcp.c:1054` and `:1689`: `Tcp.cfg` with
  `DisconnectsInError`.
* When a fused command meets a digest error or an abort, its partner can be left in
  READY_TO_EXECUTE (`ReadyIsWaiting` with `Faulty` all of `Fuse`) and a later
  command takes its place (`FusedInOrder`, also with `resource_count = 3`).
* A FIRST without its SECOND keeps its buffer when the queue pair is destroyed
  (`:501-521`, `:557-562`); `LosesOnlyFirst` says it is the only one. A second H2C
  PDU while the digest of the first is computed ends the connection (`:1858`).

By reading only: `fused_failed` stays set on a partner that is freed and reused; a
FIRST can hold the last buffer while its SECOND waits for one; after a failed write
of the ICResp the connection is not read again; a request with a bad SGL blocks the
head of the line for buffers until the connection ends; control messages can run
out; an asynchronous event request refused during authentication is not counted
down.

## Proofs

`BdevIoPoolProofs`, for any threads, any finite set of descriptors, any entries:

* `TypeCorrect`: `Spec => []TypeOK`.
* `WaitersMeanEmptyCacheHolds`: any cache size, by the inductive invariant
  `QueueInv`, which adds that only open channels have waiters (otherwise creating
  a channel could fill the cache beside one).
* `FullCacheHasNoWaitersHolds`: the assertion `bdev.c:2502`, for
  `bdev_io_cache_size >= 1`, from the previous theorem.
* `WaiterHasWakerHolds`: for `bdev_io_cache_size >= 1`, by adding `OwnsAnIo`: an
  open channel always has a descriptor cached or in flight, because creation
  pre-populates the cache and a free feeds the cache before the pool.
* The assumption on the size is needed: with 0, TLC finds a state that violates
  `WaiterHasWaker`, and one in which nothing can happen any more.
* `EachIoInOnePlaceHolds`: any cache size, with `ClosedChannelsEmpty`.

`SubsystemPauseProofs`, for any poll groups, queue pairs, finite set of requests,
namespaces and state changes (overlapping and undocumented ones too), with and
without channel faults. It assumes `TopologyAssumption` (each queue pair has one
group, each request object one queue pair) and `ChangesAssumption` (the types of
the other constants). `Invariance` proves the inductive invariant

    IInv == TypeOK /\ MachineInv /\ NsInv /\ RequestInv /\ QueueInv
              /\ QuietInv /\ DeactivatingIsBusy /\ MgmtCounted

one action at a time. None of the properties is inductive alone:

* `MachineInv` ties the states of the groups to the progress of the iteration: which
  groups a change has visited, and that a group has a stored callback exactly while
  the change waits for it. Without it a completion could continue a change that is
  not waiting.
* `QueueInv` says that a queued request is on a group that is not active, or one that
  a pause or stop has still to visit (a Connect is queued by the subsystem's state,
  before its group is told). `ActiveReleasesQueueHolds` follows when all groups have
  been visited.
* `QuietInv` says that a paused group counts no command; with `MgmtCounted`, that none
  executes, which gives `PausedMeansQuietHolds`.
* `RequestInv` and `NsInv` relate requests to the state of their queue pair, and
  namespace information to the group; `DeactivatingIsBusy` needs the former.

From it follow `MgmtCountedHolds`, `PausedMeansQuietHolds`,
`ActiveReleasesQueueHolds`, `DeactivatingIsBusyHolds` and `OneWaitingGroupHolds`. TLC
checked `IInv` first, on an instance of 960,210 states.

`SubsystemPauseNs` goes on under `DocumentedUse`: a change is asked for when `nvmf.h`
allows it, pauses if it is to add, resize or remove a namespace, and a hot-remove
pauses the namespace it removes. `ChangeInv` (the change at the head of the queue suits
the state the subsystem is in, also during the reversal of a failed resume) is
inductive relative to `IInv` and gives `TransitionsAcceptedHolds`. For hosts that
send no Verify (`NoVerify`), `IoInvariance` proves

    JInv == PauseInv /\ AbsentInv /\ IoInv /\ IoCounted

relative to both. `IoCounted` fails alone, because a namespace whose information is
reset when a group is told of its removal might still have I/O: `AbsentInv` says it has
none and cannot get any, which needs `PauseInv` (a pause has closed its namespace on
each group it visited, and waited for the I/O there) at the moment of removal.
`IoCountedHolds` and `RemovedWhenPausedHolds` follow. Disagreements has what happens
without the documented use (`TransitionsAccepted`, `RemovedWhenPaused`) and with Verify
(`IoCounted`). TLC checked `ChangeInv` and `JInv` first,
on the instance of `subsystem` (75,871 states).

`CtrlrBdevProofs`, for any requests, context addresses, commands, sizes of device, pool
and cache, limits, and every kind of fault. `Invariance` proves `IInv`, which is stated
of the record of all state, like the handlers, so that it can be used in the middle of
a handler: `WInvBut(w, E)` is the invariant for all requests but those of `E`, which
the handler has in hand when a nested resubmission runs. For each request `ReqOK` has

* `LifeOK`: completed exactly when done, and by then not in the wait queue nor, unless
  it is a HEAAN_ADD, at the bdev;
* `RangeOK`: `OnDevice` for each range submitted, FLUSH and PASSTHRU apart;
* `DsmOK`: `unmap_ctx->count` is the number of unmaps in flight, and one more while the
  request waits, and once an unmap has failed the status is an error. Without it the
  callback that finds 0 could complete the request early, or as a success;
* `EchoOK`: the second read only when the first is over, both with a live context of
  the request, and during the second that context holds the copy of the metadata file
  (`CopyHeld`);
* `Performed`: what was submitted and what failed, for `SuccessMeansPerformed`.

`CtxOK` says that a context belongs to a command that is executing and points back to
it; `QueueOK` that nobody waits twice. The lemmas about handlers take two facts as
hypotheses, which `CtrlrBdevProofs` discharges: `CountsIo` (the sizes of sets of a
request's I/Os) and `ServesWaiters` (serving the queue keeps the invariant). TLC checked `IInv` first, on the instances of all
the runs of `CtrlrBdev`. From it follow, with no hypothesis, `StaysOnDevice`,
`OthersUnharmed` and `EchoReadsInOrder`. The last is about the states between callbacks:
inside the first read's callback the code submits the second read (`ctrlr_bdev.c:957`)
before it gives the first descriptor back (`:972`), and the theorem claims no other
order. The others need one or both of

* `DiscardsWithinLimit`, no DSM range is over the discard limit: `CompletesOnce`,
  `ImplementsServiceSafety`, `CompletedIsIdle`;
* `NoHeaan`: `CompletedIsIdle`, `ContextsLive`, `SuccessPerformed`.

Without them TLC finds the properties violated (Disagreements; `CompletedMeansIdle` and
`SuccessMeansPerformed` with `Heaan.cfg`); `OthersUnharmed` is what remains for
the other requests when such commands are sent all the same.
`ImplementsServiceSafety` is the refinement `ImplementsService` without its
fairness: each step maps to a step of `NvmfRequest` or a stutter.

Only model-checked:

* liveness, and the liveness half of `ImplementsService` (fairness and ENABLED are
  outside the prover);
* what HEAAN_ADD keeps when nothing fails (run `ndp`): it needs enough descriptors for
  every I/O of every request;
* `TcpRequest`: its completion and its line for buffers are recursive operators, and a
  destroyed queue pair folds over all its requests; what they compute for every number
  of requests needs induction over data, which the prover cannot do;
* `NdpFiles` and `GrepLines`, for the same reason: the search is a recursive function
  over bytes, and the lengths of files are sums over their extents.

## Not modelled

* In `ctrlr_bdev.c`: fused compare-and-write, zcopy, abort, admin passthru, identify.
  Vendored SPDK code that the added commands do not reach. A range of ECHO or
  GREP that is longer than its buffer: what follows depends on the memory after it.
* The host's encoding of ECHO, and the rest of `nvme-cli`, which the added commands
  do not use.
* What the admin, fabrics, discovery and reservation commands do; the RPCs.
* In the bdev layer: QoS, splitting, reset, modules. An accepted I/O completes,
  successfully or not.
* RDMA and other transports, and poll groups' buffer caches.
* DPDK and the HEaaN library (the latter is not in the repository), and the start-up
  of the HEaaN target, which has no state of its own.

Most of the repository's lines are vendored libraries (SPDK, DPDK, nvme-cli) that a
request of this target does not pass through; the modules cover the path that it
does.

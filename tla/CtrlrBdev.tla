------------------------------ MODULE CtrlrBdev ------------------------------
(***************************************************************************)
(* The command handlers of lib/nvmf/ctrlr_bdev.c on one poll group thread: *)
(* the NVMe I/O commands, and the near-data-processing commands this       *)
(* repository adds (ECHO 0xd0, GREP 0xd1, HEAAN_ADD 0xe0).  A handler runs *)
(* to completion, submits I/O to the bdev layer and returns; the           *)
(* completion callbacks run later, in any order.                           *)
(*                                                                         *)
(* A handler or callback changes several objects and may, through          *)
(* spdk_bdev_free_io, run another request's handler inside itself, so each *)
(* is written as a function from one `world' (the record W of the state    *)
(* variables) to the next, and an action applies it with Step.             *)
(*                                                                         *)
(* Sizes are in blocks; an I/O is named by its request and the index of    *)
(* the range it works on.  A request object is used once.                  *)
(***************************************************************************)
EXTENDS Integers, Sequences, FiniteSets

CONSTANTS
  Reqs,          \* requests of the poll group
  Slots,         \* addresses at which a custom_ctx or heaan_ctx may live
  None,          \* no request, no slot
  Cmds,          \* the commands the host may send, see Cmd below
  MaxIo,         \* bound: ranges per command
  NumBlocks,     \* spdk_bdev_get_num_blocks
  BlockSize,     \* spdk_bdev_get_block_size, in the units of HEAAN_ADD extents
  LbaModulus,    \* 2^w for the w-bit LBA arithmetic (w = 64 in the code)
  PoolSize,      \* spdk_bdev_io descriptors reachable from this thread
  CacheSize,     \* bdev_io_cache_size
  MaxDiscard,    \* max_discard_size_kib in blocks, 0 for no limit
  MaxWriteZeroes,\* max_write_zeroes_size_kib in blocks, 0 for no limit
  Unsupported,   \* opcodes the controller's ONCS bits or options turn off
  IoFaults,      \* may the bdev report failed I/O?
  AllocFaults,   \* may malloc / spdk_zmalloc fail?
  PathErrors     \* may the namespace, ANA or reservation checks refuse?

SimpleOps == {"READ", "WRITE", "COMPARE", "WRITE_ZEROES", "FLUSH", "COPY", "PASSTHRU"}
Ops == SimpleOps \cup {"DSM", "GREP", "ECHO", "HEAAN_ADD"}

(***************************************************************************)
(* op; len, the length of the data buffer; rng, the block ranges named by  *)
(* the command (ECHO: metadata file and target file; HEAAN_ADD: extents of *)
(* both inputs then of the target, in bytes); arg, one more parameter      *)
(* (GREP: keyword length; HEAAN_ADD: number of input extents; DSM: the     *)
(* deallocate bit; WRITE_ZEROES, COPY: 1 for the option the code refuses); *)
(* sdlba, where COPY copies its range to.                                  *)
(***************************************************************************)
BlockRange == [lba : Nat, n : Nat]
Cmd == [op : Ops, len : Nat, rng : Seq(BlockRange), arg : Nat, sdlba : Nat]

ASSUME CmdsAssumption ==
  \A c \in Cmds : c \in Cmd /\ Len(c.rng) \in 1 .. MaxIo
ASSUME PoolAssumption ==
  /\ CacheSize \in Nat \ {0} /\ PoolSize \in Nat /\ CacheSize <= PoolSize
ASSUME FormatAssumption ==
  \A c \in Cmds :
    /\ c.op \in (SimpleOps \ {"COPY"}) \cup {"GREP"} => Len(c.rng) = 1
    /\ c.op = "ECHO" => Len(c.rng) = 2
    /\ c.op = "HEAAN_ADD" => c.arg \in 1 .. Len(c.rng)

(***************************************************************************)
(* Addresses, lengths and the size of the device fit the w bits the range  *)
(* checks compute with.                                                    *)
(***************************************************************************)
Unit(c) == IF c.op = "HEAAN_ADD" THEN BlockSize ELSE 1

ASSUME WidthAssumption ==
  /\ NumBlocks \in Nat /\ BlockSize \in Nat \ {0} /\ LbaModulus \in Nat /\ NumBlocks < LbaModulus
  /\ \A c \in Cmds : c.sdlba < LbaModulus
  /\ \A c \in Cmds : \A i \in DOMAIN c.rng :
       c.rng[i].lba \div Unit(c) < LbaModulus /\ c.rng[i].n \div Unit(c) < LbaModulus
ASSUME TypesAssumption ==
  /\ None \notin Reqs /\ None \notin Slots /\ None \notin Cmds
  /\ MaxIo \in Nat /\ MaxDiscard \in Nat /\ MaxWriteZeroes \in Nat
  /\ IoFaults \in BOOLEAN /\ AllocFaults \in BOOLEAN /\ PathErrors \in BOOLEAN

Statuses == {"NONE", "SUCCESS", "LBA_OUT_OF_RANGE", "DATA_SGL_LENGTH_INVALID",
  "INVALID_FIELD", "INVALID_OPCODE", "INTERNAL_DEVICE_ERROR", "IO_ERROR", "PATH_ERROR",
  "CMD_SIZE_LIMIT_SIZE_EXCEEDED"}

VARIABLES
  req,                     \* the requests, see ReqType
  ctx,                     \* what lives at each slot, see CtxType
  per_thread_cache_count,  \* descriptors in the thread's cache
  bdev_io_pool,            \* descriptors in the global pool
  io_wait_queue,           \* requests waiting for a descriptor
  crashed                  \* the process has died

vars == <<req, ctx, per_thread_cache_count, bdev_io_pool, io_wait_queue, crashed>>

(***************************************************************************)
(* Buffer contents are sequences of blocks: Host is what the host sent,    *)
(* Zero a cleared block, i > 0 a block read from the i-th range.           *)
(***************************************************************************)
Host == -1
Zero == 0

(***************************************************************************)
(* io[j]: "none" not submitted, "busy" at the bdev, "freed" completed and  *)
(* given back, "held" completed and not given back.  keyword: GREP's saved *)
(* keyword is what the host sent (Host) or empty (Zero).  count and        *)
(* range_index: struct nvmf_bdev_ctrlr_unmap.  sent: ranges submitted.     *)
(* failed: some I/O reported failure.  cpl: completions so far.            *)
(***************************************************************************)
IoStates == {"none", "busy", "freed", "held"}
ReqType ==
  [st : {"idle", "exec", "done"}, cmd : Cmds \cup {None}, sc : Statuses, cpl : Nat,
   io : [1 .. MaxIo -> IoStates], slot : Slots \cup {None}, iov : Seq(Int),
   keyword : {Host, Zero}, count : Nat, range_index : Nat,
   sent : SUBSET (1 .. MaxIo), failed : BOOLEAN]

(***************************************************************************)
(* kind: "free", "echo" (struct custom_ctx), "fill" and "write" (heaan_ctx *)
(* while its inputs are read and its result is written).                   *)
(***************************************************************************)
CtxType ==
  [kind : {"free", "echo", "fill", "write"}, req : Reqs \cup {None},
   pending_fills : Int, first_result : Seq(Int)]

TypeOK ==
  /\ req \in [Reqs -> ReqType]
  /\ ctx \in [Slots -> CtxType]
  /\ per_thread_cache_count \in 0 .. CacheSize
  /\ bdev_io_pool \in 0 .. PoolSize
  /\ io_wait_queue \in Seq(Reqs)
  /\ crashed \in BOOLEAN

IdleReq ==
  [st |-> "idle", cmd |-> None, sc |-> "NONE", cpl |-> 0,
   io |-> [j \in 1 .. MaxIo |-> "none"], slot |-> None, iov |-> <<>>,
   keyword |-> Zero, count |-> 0, range_index |-> 0, sent |-> {}, failed |-> FALSE]

FreeCtx == [kind |-> "free", req |-> None, pending_fills |-> 0, first_result |-> <<>>]

Init ==
  /\ req = [r \in Reqs |-> IdleReq]
  /\ ctx = [s \in Slots |-> FreeCtx]
  /\ per_thread_cache_count = CacheSize
  /\ bdev_io_pool = PoolSize - CacheSize
  /\ io_wait_queue = <<>>
  /\ crashed = FALSE

W == [req |-> req, ctx |-> ctx, cache |-> per_thread_cache_count,
      pool |-> bdev_io_pool, wq |-> io_wait_queue]

Step(world) ==
  \E w \in {world} :
    /\ req' = w.req /\ ctx' = w.ctx
    /\ per_thread_cache_count' = w.cache /\ bdev_io_pool' = w.pool
    /\ io_wait_queue' = w.wq
    /\ UNCHANGED crashed

Crash == crashed' = TRUE /\ UNCHANGED <<req, ctx, per_thread_cache_count,
                                        bdev_io_pool, io_wait_queue>>

-----------------------------------------------------------------------------
(***************************************************************************)
(* Range checks: the handlers' own, and those of the bdev layer behind     *)
(* spdk_bdev_readv_blocks_ext, spdk_bdev_read / spdk_bdev_write and        *)
(* spdk_bdev_copy_blocks.                                                  *)
(***************************************************************************)
(* Faulty variant: the sum is not checked for wrap-around. *)
InRangeUnlessWrapped(lba, n) == (lba + n) % LbaModulus <= NumBlocks

nvmf_bdev_ctrlr_lba_in_range(lba, n) ==
  LET end == (lba + n) % LbaModulus IN ~(end > NumBlocks \/ end < lba)

bdev_io_valid_blocks(lba, n) ==
  LET end == (lba + n) % LbaModulus IN end >= lba /\ end <= NumBlocks

spdk_bdev_copy_blocks(dst, src, n) == bdev_io_valid_blocks(dst, n) /\ bdev_io_valid_blocks(src, n)

(* Faulty variant: unaligned offsets and lengths are rounded down. *)
BytesRoundedDown(offset, n) == TRUE

bdev_bytes_to_blocks(offset, n) == offset % BlockSize = 0 /\ n % BlockSize = 0

BytesValid(x) ==
  /\ bdev_bytes_to_blocks(x.lba, x.n)
  /\ bdev_io_valid_blocks(x.lba \div BlockSize, x.n \div BlockSize)

(***************************************************************************)
(* bdev_channel_get_io: how many descriptors one handler can get in a row, *)
(* and the world after n of them.  A caller with waiters before it is not  *)
(* served from the pool.                                                   *)
(***************************************************************************)
Avail(w) == w.cache + IF w.wq = <<>> THEN w.pool ELSE 0

Take(w, n) ==
  [w EXCEPT !.cache = IF n <= @ THEN @ - n ELSE 0,
            !.pool = IF n <= w.cache THEN @ ELSE @ - (n - w.cache)]

(***************************************************************************)
(* I/Os J of request r go to the bdev for the ranges of the same index.    *)
(***************************************************************************)
Submit(w, r, J) ==
  [Take(w, Cardinality(J)) EXCEPT
     !.req[r].io = [j \in 1 .. MaxIo |-> IF j \in J THEN "busy" ELSE @[j]],
     !.req[r].sent = @ \cup J]

Complete(w, r, sc) ==
  [w EXCEPT !.req[r].st = "done", !.req[r].sc = sc, !.req[r].cpl = @ + 1]

(* Faulty variants: the request is forgotten; or completed as well as queued. *)
QueueForgets(w, r) == w
QueueAndComplete(w, r) == Complete([w EXCEPT !.wq = Append(@, r)], r, "INTERNAL_DEVICE_ERROR")

nvmf_bdev_ctrl_queue_io(w, r) == [w EXCEPT !.wq = Append(@, r)]

SubmitOrQueue(w, r) ==
  IF Avail(w) > 0 THEN Submit(w, r, {1}) ELSE nvmf_bdev_ctrl_queue_io(w, r)

SubmitUnless(w, r, refusal) ==
  IF refusal # "NONE" THEN Complete(w, r, refusal) ELSE SubmitOrQueue(w, r)

-----------------------------------------------------------------------------
(***************************************************************************)
(* The commands that become one I/O: the checks that refuse them, in the   *)
(* code's order, then the submission.                                      *)
(***************************************************************************)
RwRefusal(c) ==
  IF ~nvmf_bdev_ctrlr_lba_in_range(c.rng[1].lba, c.rng[1].n) THEN "LBA_OUT_OF_RANGE"
  ELSE IF c.rng[1].n > c.len THEN "DATA_SGL_LENGTH_INVALID"
  ELSE "NONE"

nvmf_bdev_ctrlr_read_cmd(w, r, c) == SubmitUnless(w, r, RwRefusal(c))

nvmf_bdev_ctrlr_write_cmd(w, r, c) == SubmitUnless(w, r, RwRefusal(c))

nvmf_bdev_ctrlr_compare_cmd(w, r, c) == SubmitUnless(w, r, RwRefusal(c))

nvmf_bdev_ctrlr_write_zeroes_cmd(w, r, c) ==
  SubmitUnless(w, r,
    IF MaxWriteZeroes > 0 /\ c.rng[1].n > MaxWriteZeroes THEN "INVALID_FIELD"
    ELSE IF ~nvmf_bdev_ctrlr_lba_in_range(c.rng[1].lba, c.rng[1].n)
    THEN "LBA_OUT_OF_RANGE"
    ELSE IF c.arg = 1 THEN "INVALID_FIELD" ELSE "NONE")

nvmf_bdev_ctrlr_flush_cmd(w, r, c) ==
  IF c.arg = 1 THEN Complete(w, r, "SUCCESS") ELSE SubmitOrQueue(w, r)

nvmf_bdev_ctrlr_copy_cmd(w, r, c) ==
  SubmitUnless(w, r,
    IF c.len # Len(c.rng) THEN "DATA_SGL_LENGTH_INVALID"
    ELSE IF Len(c.rng) > 1 THEN "CMD_SIZE_LIMIT_SIZE_EXCEEDED"
    ELSE IF c.arg = 1 THEN "INVALID_FIELD"
    ELSE IF ~spdk_bdev_copy_blocks(c.sdlba, c.rng[1].lba, c.rng[1].n)
    THEN "INTERNAL_DEVICE_ERROR"
    ELSE "NONE")

nvmf_bdev_ctrlr_nvme_passthru_io(w, r, c) ==
  SubmitUnless(w, r, IF c.arg = 1 THEN "INVALID_OPCODE" ELSE "NONE")

(***************************************************************************)
(* GREP: the data buffer is saved as the keyword and cleared before the    *)
(* range check and the read into it, on every execution of the handler.    *)
(***************************************************************************)
nvmf_bdev_ctrlr_custom_grep_cmd(w, r, c, nomem) ==
  LET saved == [w EXCEPT !.req[r].keyword = w.req[r].iov[1],
                         !.req[r].iov = [i \in DOMAIN @ |-> Zero]]
  IN IF c.arg > c.len \/ c.len = 0 THEN Complete(w, r, "INVALID_FIELD")
     ELSE IF nomem THEN Complete(w, r, "INTERNAL_DEVICE_ERROR")
     ELSE SubmitUnless(saved, r,
            IF nvmf_bdev_ctrlr_lba_in_range(c.rng[1].lba, c.rng[1].n)
            THEN "NONE" ELSE "LBA_OUT_OF_RANGE")

-----------------------------------------------------------------------------
(***************************************************************************)
(* DSM deallocate: one unmap per range.  Each pass of the loop reads the   *)
(* ranges from the start of the buffer (spdk_iov_xfer_init) and counts     *)
(* them from range_index; it stops at a range larger than MaxDiscard, at   *)
(* one the bdev refuses, or when there is no descriptor.                   *)
(***************************************************************************)
TooLarge(c, i) == MaxDiscard > 0 /\ c.rng[i].n > MaxDiscard
Refused(c, i) == ~bdev_io_valid_blocks(c.rng[i].lba, c.rng[i].n)
Passes(c, start) == 1 .. Len(c.rng) - start

(***************************************************************************)
(* What the loop submits, unmap_ctx->count after it, and the world then.   *)
(***************************************************************************)
Unmapped(w, c, start) ==
  {i \in Passes(c, start) :
     \A h \in 1 .. i : ~(TooLarge(c, h) \/ Refused(c, h) \/ h > Avail(w))}
CountAfter(w, r, c, resumed) ==
  w.req[r].count + Cardinality(Unmapped(w, c, w.req[r].range_index)) - IF resumed THEN 1 ELSE 0
UnmapPass(w, r, c, resumed) ==
  LET start == w.req[r].range_index
      done == Unmapped(w, c, start)
  IN [Submit(w, r, {start + i : i \in done}) EXCEPT
        !.req[r].sent = w.req[r].sent \cup done,
        !.req[r].range_index = start + Cardinality(done),
        !.req[r].count = CountAfter(w, r, c, resumed)]

UnmapFails(v, r, resumed, sc) ==
  IF resumed THEN [v EXCEPT !.req[r].sc = sc] ELSE Complete(v, r, sc)

nvmf_bdev_ctrlr_unmap(w, r, c, resumed) ==
  LET start == w.req[r].range_index
      next == Cardinality(Unmapped(w, c, start)) + 1
      count == CountAfter(w, r, c, resumed)
      v == UnmapPass(w, r, c, resumed)
  IN IF Unmapped(w, c, start) = Passes(c, start) THEN v
     ELSE IF TooLarge(c, next) THEN UnmapFails(v, r, resumed, "INVALID_FIELD")
     ELSE IF ~Refused(c, next)
     THEN nvmf_bdev_ctrl_queue_io([v EXCEPT !.req[r].count = count + 1], r)
     ELSE IF count = 0 THEN UnmapFails(v, r, resumed, "INTERNAL_DEVICE_ERROR")
     ELSE [v EXCEPT !.req[r].sc = "INTERNAL_DEVICE_ERROR"]

nvmf_bdev_ctrlr_dsm_cmd(w, r, c, nomem) ==
  IF c.arg = 0 THEN Complete(w, r, "SUCCESS")
  ELSE IF Len(c.rng) > c.len THEN Complete(w, r, "DATA_SGL_LENGTH_INVALID")
  ELSE IF nomem THEN Complete(w, r, "INTERNAL_DEVICE_ERROR")
  ELSE nvmf_bdev_ctrlr_unmap(w, r, c, FALSE)

(***************************************************************************)
(* The dispatch of nvmf_ctrlr_process_io_cmd to the handlers that queue    *)
(* the request when there is no descriptor and run again later.            *)
(***************************************************************************)
Dispatch(w, r, c, nomem) ==
  IF c.op \in Unsupported THEN Complete(w, r, "INVALID_OPCODE")
  ELSE CASE c.op = "READ" -> nvmf_bdev_ctrlr_read_cmd(w, r, c)
         [] c.op = "WRITE" -> nvmf_bdev_ctrlr_write_cmd(w, r, c)
         [] c.op = "COMPARE" -> nvmf_bdev_ctrlr_compare_cmd(w, r, c)
         [] c.op = "WRITE_ZEROES" -> nvmf_bdev_ctrlr_write_zeroes_cmd(w, r, c)
         [] c.op = "FLUSH" -> nvmf_bdev_ctrlr_flush_cmd(w, r, c)
         [] c.op = "COPY" -> nvmf_bdev_ctrlr_copy_cmd(w, r, c)
         [] c.op = "PASSTHRU" -> nvmf_bdev_ctrlr_nvme_passthru_io(w, r, c)
         [] c.op = "GREP" -> nvmf_bdev_ctrlr_custom_grep_cmd(w, r, c, nomem)
         [] c.op = "DSM" -> nvmf_bdev_ctrlr_dsm_cmd(w, r, c, nomem)

(***************************************************************************)
(* spdk_bdev_free_io of I/O j of r.  With room in the cache it calls back  *)
(* waiting requests inside itself: the first k of them fail on the way     *)
(* (GREP for want of memory, any command that runs                         *)
(* nvmf_ctrlr_process_io_cmd again because that now refuses it), the next  *)
(* one takes the descriptor.  k is one of GiveUps.                         *)
(***************************************************************************)
GiveUps ==
  LET MayGiveUp(r) ==
        \/ PathErrors /\ req[r].cmd.op # "DSM"
        \/ AllocFaults /\ req[r].cmd.op = "GREP"
  IN {k \in 0 .. Len(io_wait_queue) : \A i \in 1 .. k : MayGiveUp(io_wait_queue[i])}

nvmf_ctrlr_process_io_cmd_resubmit(w, r) == Dispatch(w, r, req[r].cmd, FALSE)

nvmf_bdev_ctrlr_unmap_resubmit(w, r) == nvmf_bdev_ctrlr_unmap(w, r, req[r].cmd, TRUE)

CallBackWaiters(w, k) ==
  LET q == io_wait_queue
      first == q[k + 1]
      sc == IF PathErrors THEN "PATH_ERROR" ELSE "INTERNAL_DEVICE_ERROR"
      GaveUp(r) == \E i \in 1 .. k : q[i] = r
      v == [w EXCEPT
              !.req = [r \in Reqs |-> IF GaveUp(r) THEN Complete(w, r, sc).req[r] ELSE @[r]],
              !.wq = SubSeq(q, k + 2, Len(q))]
  IN IF k = Len(q) THEN v
     ELSE IF req[first].cmd.op = "DSM" THEN nvmf_bdev_ctrlr_unmap_resubmit(v, first)
     ELSE nvmf_ctrlr_process_io_cmd_resubmit(v, first)

spdk_bdev_free_io(w, r, j, k) ==
  LET v == [w EXCEPT !.req[r].io[j] = "freed"]
  IN IF w.cache < CacheSize THEN CallBackWaiters([v EXCEPT !.cache = @ + 1], k)
     ELSE [v EXCEPT !.pool = @ + 1]

(***************************************************************************)
(* The outcomes an I/O or an allocation can have in this environment.      *)
(***************************************************************************)
Outcomes == IF IoFaults THEN BOOLEAN ELSE {TRUE}
NoMemory == IF AllocFaults THEN BOOLEAN ELSE {FALSE}

Busy(r, j) == ~crashed /\ req[r].io[j] = "busy"
Settled(r, ok) == [W EXCEPT !.req[r].failed = @ \/ ~ok]

Held(w, r, j) == [w EXCEPT !.req[r].io[j] = "held"]

-----------------------------------------------------------------------------
(***************************************************************************)
(* Completion callbacks of the one-I/O commands, of GREP and of DSM.       *)
(***************************************************************************)
nvmf_bdev_ctrlr_complete_cmd(r) ==
  /\ Busy(r, 1) /\ req[r].cmd.op \in SimpleOps
  /\ \E ok \in Outcomes, k \in GiveUps :
       Step(spdk_bdev_free_io(
              Complete(Settled(r, ok), r, IF ok THEN "SUCCESS" ELSE "IO_ERROR"), r, 1, k))

(***************************************************************************)
(* GREP does not look at `success': it searches whatever the buffer holds, *)
(* which after a failed read is whatever part the device has transferred.  *)
(* An empty keyword matches every line; otherwise there may be a match.    *)
(***************************************************************************)
nvmf_bdev_ctrlr_complete_cmd_custom(r) ==
  /\ Busy(r, 1) /\ req[r].cmd.op = "GREP"
  /\ \E ok \in Outcomes, nomem \in NoMemory, match \in BOOLEAN, k \in GiveUps :
       /\ req[r].keyword = Zero => match
       /\ Step(spdk_bdev_free_io(
                 Complete(Settled(r, ok), r,
                          IF match /\ ~nomem THEN "SUCCESS" ELSE "INTERNAL_DEVICE_ERROR"),
                 r, 1, k))

(* Faulty variant: each finished unmap completes the command. *)
UnmapCplDoesNotCount(r, j) ==
  /\ Busy(r, j) /\ req[r].cmd.op = "DSM"
  /\ \E ok \in Outcomes, k \in GiveUps :
       Step(spdk_bdev_free_io(Complete(Settled(r, ok), r, req[r].sc), r, j, k))

(* Faulty variant: the status of each unmap replaces the one before it. *)
UnmapCplForgetsError(r, j) ==
  /\ Busy(r, j) /\ req[r].cmd.op = "DSM"
  /\ \E ok \in Outcomes, k \in GiveUps :
       LET sc == IF ok THEN "SUCCESS" ELSE "IO_ERROR"
           v == [Settled(r, ok) EXCEPT !.req[r].sc = sc, !.req[r].count = @ - 1]
       IN Step(spdk_bdev_free_io(
                 IF v.req[r].count = 0 THEN Complete(v, r, sc) ELSE v, r, j, k))

nvmf_bdev_ctrlr_unmap_cpl(r, j) ==
  /\ Busy(r, j) /\ req[r].cmd.op = "DSM"
  /\ \E ok \in Outcomes, k \in GiveUps :
       LET sc == IF req[r].sc = "SUCCESS" /\ ~ok THEN "IO_ERROR" ELSE req[r].sc
           v == [Settled(r, ok) EXCEPT !.req[r].sc = sc, !.req[r].count = @ - 1]
       IN Step(spdk_bdev_free_io(
                 IF v.req[r].count = 0 THEN Complete(v, r, sc) ELSE v, r, j, k))

-----------------------------------------------------------------------------
(***************************************************************************)
(* ECHO: read the metadata file (I/O 1), keep a copy, read the target file *)
(* (I/O 2) into the same buffer, concatenate the two and return as much of *)
(* the result as fits the buffer.                                          *)
(***************************************************************************)
FreeSlots == {s \in Slots : ctx[s].kind = "free"}

Free(w, s) == [w EXCEPT !.ctx[s] = FreeCtx]

CanRead(w, x) == bdev_io_valid_blocks(x.lba, x.n) /\ Avail(w) > 0

Filled(iov, i, n) == [b \in DOMAIN iov |-> IF b <= n THEN i ELSE iov[b]]

ndp_calculate(first, second) == first \o second

nvmf_bdev_ctrlr_custom_echo_cmd(w, r, c) ==
  \/ AllocFaults /\ Step(Complete(w, r, "INTERNAL_DEVICE_ERROR"))
  \/ \E s \in FreeSlots :
       IF CanRead(w, c.rng[1])
       THEN Step([Submit(w, r, {1}) EXCEPT
                    !.req[r].slot = s,
                    !.ctx[s] = [FreeCtx EXCEPT !.kind = "echo", !.req = r]])
       ELSE Step(Complete(w, r, "INTERNAL_DEVICE_ERROR"))

(* Faulty variants: the context is freed once its first read is over; the   *)
(* second read is never submitted.                                          *)
SecondReadForgotten(w, r, s) == w
SecondReadFreesContext(w, r, s) == Free(Submit(w, r, {2}), s)

SubmitSecondRead(w, r, s) == Submit(w, r, {2})

(***************************************************************************)
(* The second read is submitted before the first descriptor is freed.      *)
(* When that fails the context is freed and the status set, but the call   *)
(* of spdk_nvmf_request_complete is commented out in the code.             *)
(***************************************************************************)
nvmf_bdev_ctrlr_first_read_complete(r) ==
  /\ Busy(r, 1) /\ req[r].cmd.op = "ECHO"
  /\ \E ok \in Outcomes, nomem \in NoMemory, k \in GiveUps :
       LET s == req[r].slot
           c == req[r].cmd
           iov == Filled(req[r].iov, 1, c.rng[1].n)
           w == Settled(r, ok)
           v == [w EXCEPT !.req[r].iov = iov, !.ctx[s].first_result = iov]
           error == [Free(w, s) EXCEPT !.req[r].sc = "INTERNAL_DEVICE_ERROR"]
       IN \/ /\ ~ok \/ nomem
             /\ Step(Complete(spdk_bdev_free_io(error, r, 1, k), r, "INTERNAL_DEVICE_ERROR"))
          \/ /\ ok /\ ~nomem /\ CanRead(W, c.rng[2])
             /\ Step(spdk_bdev_free_io(SubmitSecondRead(v, r, s), r, 1, k))
          \/ /\ ok /\ ~nomem /\ ~CanRead(W, c.rng[2])
             /\ Step(spdk_bdev_free_io(error, r, 1, k))

nvmf_bdev_ctrlr_second_read_complete(r) ==
  /\ Busy(r, 2) /\ req[r].cmd.op = "ECHO"
  /\ \E ok \in Outcomes, nomem \in NoMemory, k \in GiveUps :
       LET s == req[r].slot
           c == req[r].cmd
           result == ndp_calculate(ctx[s].first_result,
                                   Filled(req[r].iov, 2, c.rng[2].n))
           w == Free(Settled(r, ok), s)
           good == [w EXCEPT !.req[r].iov = SubSeq(result, 1, c.len)]
       IN \/ /\ ~ok \/ nomem
             /\ Step(Complete(spdk_bdev_free_io(w, r, 2, k), r, "INTERNAL_DEVICE_ERROR"))
          \/ /\ ok /\ ~nomem
             /\ Step(Complete(spdk_bdev_free_io(good, r, 2, k), r, "SUCCESS"))

-----------------------------------------------------------------------------
(***************************************************************************)
(* HEAAN_ADD: one read per input extent, then ciphertextAdd, then one      *)
(* write per target extent.  The extents are in bytes; the range check     *)
(* rounds them down to blocks, the bdev layer refuses unaligned ones.      *)
(* spdk_zmalloc's result is used without a check.  A command without a     *)
(* data buffer names no extents and is refused.                            *)
(***************************************************************************)
nvmf_bdev_ctrlr_custom_heaan_cipadd_cmd(w, r, c) ==
  \/ AllocFaults /\ Crash
  \/ \E s \in FreeSlots :
       LET inRange == \A i \in DOMAIN c.rng :
                        nvmf_bdev_ctrlr_lba_in_range(c.rng[i].lba \div BlockSize,
                                                     c.rng[i].n \div BlockSize)
           read == {i \in 1 .. c.arg :
                      \A h \in 1 .. i : BytesValid(c.rng[h]) /\ h <= Avail(w)}
           v == [Submit(w, r, read) EXCEPT !.req[r].slot = s]
       IN \/ c.len = 0 /\ Step(Complete(w, r, "INTERNAL_DEVICE_ERROR"))
          \/ c.len > 0 /\ ~inRange /\ Step(Complete(w, r, "LBA_OUT_OF_RANGE"))
          \/ /\ c.len > 0 /\ inRange /\ read # 1 .. c.arg
             /\ Step(Complete(v, r, "INTERNAL_DEVICE_ERROR"))
          \/ /\ c.len > 0 /\ inRange /\ read = 1 .. c.arg
             /\ Step([v EXCEPT !.ctx[s] =
                        [FreeCtx EXCEPT !.kind = "fill", !.req = r,
                                        !.pending_fills = c.arg]])

(***************************************************************************)
(* Both callbacks go by the context at their cb_arg.  If it has been freed *)
(* meanwhile, its req pointer reads as NULL (the external allocator clears *)
(* freed memory); if the slot was given to another HEAAN_ADD, they act on  *)
(* that request (a late read finding it already writing would add from     *)
(* input buffers that are gone, taken as a crash).  A descriptor is freed  *)
(* only by the callback that ends a phase in failure or the whole command. *)
(***************************************************************************)
Dangling(s) == ctx[s].kind \notin {"fill", "write"}

(* Faulty variant: the last fill but one is taken for the last. *)
PendingOneShort(s, ok) ==
  IF ~ok THEN -1 ELSE IF ctx[s].pending_fills = 2 THEN 0 ELSE ctx[s].pending_fills - 1

Pending(s, ok) == IF ok THEN ctx[s].pending_fills - 1 ELSE -1

(* Faulty variant: the context survives the failure. *)
HeaanErrorKeepsContext(w, r, j, k, s) ==
  Complete(spdk_bdev_free_io(w, r, j, k), ctx[s].req, "INTERNAL_DEVICE_ERROR")

HeaanError(w, r, j, k, s) ==
  Complete(spdk_bdev_free_io(Free(w, s), r, j, k), ctx[s].req, "INTERNAL_DEVICE_ERROR")

(***************************************************************************)
(* The result of each spdk_bdev_write is ignored: the writes submitted are *)
(* those the bdev accepts, while descriptors last.                         *)
(***************************************************************************)
WriteTargets(w, o, s) ==
  LET c == req[o].cmd
      targets == {i \in DOMAIN c.rng : i > c.arg}
      valid == {i \in targets : BytesValid(c.rng[i])}
      written == {i \in valid : Cardinality({h \in valid : h <= i}) <= Avail(w)}
  IN [Submit(w, o, written) EXCEPT !.ctx[s].kind = "write",
                                   !.ctx[s].pending_fills = Cardinality(targets)]

nvmf_heaan_buffer_fill_complete(r, j) ==
  /\ Busy(r, j) /\ req[r].cmd.op = "HEAAN_ADD" /\ j <= req[r].cmd.arg
  /\ \E ok \in Outcomes, added \in Outcomes, k \in GiveUps :
       LET s == req[r].slot
           p == Pending(s, ok)
           w == [Settled(r, ok) EXCEPT !.ctx[s].pending_fills = p]
       IN \/ /\ Dangling(s) \/ (p = 0 /\ ctx[s].kind = "write")
             /\ Crash
          \/ ~Dangling(s) /\ p > 0 /\ Step(Held(w, r, j))
          \/ ~Dangling(s) /\ p < 0 /\ Step(HeaanError(w, r, j, k, s))
          \/ /\ ~Dangling(s) /\ p = 0 /\ ctx[s].kind = "fill"
             /\ IF added THEN Step(WriteTargets(Held(w, r, j), ctx[s].req, s))
                ELSE Step(HeaanError(w, r, j, k, s))

nvmf_heaan_cip_write_complete(r, j) ==
  /\ Busy(r, j) /\ req[r].cmd.op = "HEAAN_ADD" /\ j > req[r].cmd.arg
  /\ \E ok \in Outcomes, k \in GiveUps :
       LET s == req[r].slot
           p == Pending(s, ok)
           w == [Settled(r, ok) EXCEPT !.ctx[s].pending_fills = p]
       IN \/ Dangling(s) /\ Crash
          \/ ~Dangling(s) /\ p > 0 /\ Step(Held(w, r, j))
          \/ ~Dangling(s) /\ p < 0 /\ Step(HeaanError(w, r, j, k, s))
          \/ /\ ~Dangling(s) /\ p = 0
             /\ Step(Complete(spdk_bdev_free_io(Free(w, s), r, j, k),
                              ctx[s].req, "SUCCESS"))

-----------------------------------------------------------------------------
(***************************************************************************)
(* A request arrives with command c: the checks every I/O command passes,  *)
(* then its handler.                                                       *)
(***************************************************************************)
Begin(r, c) ==
  [W EXCEPT !.req[r] = [IdleReq EXCEPT !.st = "exec", !.cmd = c, !.sc = "SUCCESS",
                                       !.iov = [b \in 1 .. c.len |-> Host]]]

nvmf_ctrlr_process_io_cmd(r, c) ==
  /\ ~crashed /\ req[r].st = "idle"
  /\ \/ PathErrors /\ Step(Complete(Begin(r, c), r, "PATH_ERROR"))
     \/ /\ c.op = "ECHO"
        /\ nvmf_bdev_ctrlr_custom_echo_cmd(Begin(r, c), r, c)
     \/ /\ c.op = "HEAAN_ADD"
        /\ nvmf_bdev_ctrlr_custom_heaan_cipadd_cmd(Begin(r, c), r, c)
     \/ /\ c.op \notin {"ECHO", "HEAAN_ADD"}
        /\ \E nomem \in NoMemory : Step(Dispatch(Begin(r, c), r, c, nomem))

Callback(r, j) ==
  \/ j = 1 /\ nvmf_bdev_ctrlr_complete_cmd(r)
  \/ j = 1 /\ nvmf_bdev_ctrlr_complete_cmd_custom(r)
  \/ nvmf_bdev_ctrlr_unmap_cpl(r, j)
  \/ j = 1 /\ nvmf_bdev_ctrlr_first_read_complete(r)
  \/ j = 2 /\ nvmf_bdev_ctrlr_second_read_complete(r)
  \/ nvmf_heaan_buffer_fill_complete(r, j)
  \/ nvmf_heaan_cip_write_complete(r, j)

Next ==
  \/ \E r \in Reqs, c \in Cmds : nvmf_ctrlr_process_io_cmd(r, c)
  \/ \E r \in Reqs, j \in 1 .. MaxIo : Callback(r, j)

(***************************************************************************)
(* The bdev completes every I/O it accepted (a request has finitely many,  *)
(* so it is enough that some I/O of it completes as long as one is in      *)
(* flight); nobody owes us new commands.                                   *)
(***************************************************************************)
Fairness == \A r \in Reqs : WF_vars(\E j \in 1 .. MaxIo : Callback(r, j))

Spec == Init /\ [][Next]_vars /\ Fairness

-----------------------------------------------------------------------------
(***************************************************************************)
(* A request waiting for a descriptor has an I/O in flight whose release   *)
(* calls it back ("this thread cannot be starved", bdev.c).  Does not hold *)
(* beside HEAAN_ADD, which keeps descriptors (README, Disagreements).      *)
(***************************************************************************)
WaiterHasWaker ==
  io_wait_queue # <<>> /\ ~crashed =>
    \E r \in Reqs, j \in 1 .. MaxIo : req[r].io[j] = "busy"

(***************************************************************************)
(* No handler completes a request twice; the transport's                   *)
(* nvmf_tcp_req_complete asserts it is still executing.                    *)
(***************************************************************************)
CompletedAtMostOnce == \A r \in Reqs : req[r].cpl <= 1

(***************************************************************************)
(* When a request is completed the transport reuses its buffers, so by     *)
(* then none of its I/O is in flight, it is not waiting for a descriptor,  *)
(* and no context points to it.                                            *)
(***************************************************************************)
CompletedMeansIdle ==
  \A r \in Reqs : req[r].st = "done" =>
    /\ \A j \in 1 .. MaxIo : req[r].io[j] # "busy"
    /\ \A i \in DOMAIN io_wait_queue : io_wait_queue[i] # r
    /\ \A s \in Slots : ctx[s].req # r

(***************************************************************************)
(* Every I/O in flight of a command with a context (ECHO) finds its own    *)
(* live context at its cb_arg when it completes.  Does not hold beside     *)
(* HEAAN_ADD, which frees its context under I/O in flight when one of its  *)
(* reads fails or cannot be submitted (README, Disagreements).             *)
(***************************************************************************)
ContextsAreLive ==
  \A r \in Reqs, j \in 1 .. MaxIo :
    req[r].io[j] = "busy" /\ req[r].slot # None => ctx[req[r].slot].req = r

(***************************************************************************)
(* A command reported successful has had all its I/O submitted and none    *)
(* of it failed; of a DSM's unmaps, which end in any order, the error of   *)
(* one survives to the completion.  (GREP does not look at its read's      *)
(* status, and DSM may fall short after waiting, see RangesUnmapped.)      *)
(***************************************************************************)
Succeeded(r, op) == req[r].st = "done" /\ req[r].cmd.op = op /\ req[r].sc = "SUCCESS"

SuccessMeansPerformed ==
  \A r \in Reqs, op \in Ops \ {"GREP"} :
    Succeeded(r, op) =>
      /\ ~req[r].failed
      /\ \/ op = "DSM"
         \/ op = "FLUSH" /\ req[r].cmd.arg = 1
         \/ DOMAIN req[r].cmd.rng \subseteq req[r].sent

(***************************************************************************)
(* A GREP that succeeds searched for the host's keyword, also when it had  *)
(* to wait for a descriptor (docs: the keyword file is the operation's     *)
(* metadata).                                                              *)
(***************************************************************************)
KeywordKept == \A r \in Reqs : Succeeded(r, "GREP") => req[r].keyword = Host

(***************************************************************************)
(* A DSM that succeeds has unmapped each of its ranges, also when it had   *)
(* to wait (comments of nvmf_bdev_ctrlr_unmap: a range that found no       *)
(* descriptor is submitted when the request is dequeued).                  *)
(***************************************************************************)
RangesUnmapped ==
  \A r \in Reqs :
    Succeeded(r, "DSM") /\ req[r].cmd.arg = 1 => DOMAIN req[r].cmd.rng \subseteq req[r].sent

(***************************************************************************)
(* A command that waited for a descriptor is resumed with what the host    *)
(* sent.                                                                   *)
(***************************************************************************)
ResumedUsesHostData == KeywordKept /\ RangesUnmapped

(***************************************************************************)
(* HEAAN_ADD writes its target only after every input extent has been read *)
(* successfully, and ECHO reads the target file only after the metadata    *)
(* file: the completions may come in any order.                            *)
(***************************************************************************)
InputsBeforeOutputs ==
  \A r \in Reqs :
    LET c == req[r].cmd
        inputs == IF c.op = "HEAAN_ADD" THEN c.arg ELSE 1
    IN req[r].st # "idle" /\ c.op \in {"ECHO", "HEAAN_ADD"} =>
         \A i \in 1 .. inputs, j \in inputs + 1 .. MaxIo :
           req[r].io[j] # "none" => req[r].io[i] \in {"freed", "held"}

(***************************************************************************)
(* No range submitted to the bdev reaches past the end of the device, nor  *)
(* does the destination of a COPY: the range checks of the handlers are    *)
(* exact in w-bit arithmetic (wrap-around included), and where the handler *)
(* has none (ECHO, DSM, COPY) or rounds byte extents down (HEAAN_ADD) the  *)
(* bdev layer refuses what is left.  Of the commands that go to the bdev   *)
(* two name no range for it to check: FLUSH is sent for the whole device,  *)
(* PASSTHRU is forwarded as it came.                                       *)
(***************************************************************************)
OnDevice(c, i) ==
  /\ c.rng[i].lba + c.rng[i].n <= NumBlocks * Unit(c)
  /\ c.op = "COPY" => c.sdlba + c.rng[i].n <= NumBlocks

IoStaysOnDevice ==
  \A r \in Reqs :
    req[r].st # "idle" /\ req[r].cmd.op \notin {"FLUSH", "PASSTHRU"} =>
      \A i \in req[r].sent : OnDevice(req[r].cmd, i)

(***************************************************************************)
(* Refinement: the handlers implement the service the transport relies on, *)
(* a final status and a completion for every request.                      *)
(***************************************************************************)
Service ==
  INSTANCE NvmfRequest WITH st <- [r \in Reqs |-> req[r].st],
                            sc <- [r \in Reqs |-> req[r].sc]

ImplementsService == Service!Spec

(***************************************************************************)
(* Every command that was accepted is answered.                            *)
(***************************************************************************)
EveryCommandAnswered == \A r \in Reqs : (req[r].st = "exec") ~> (req[r].st = "done")
=============================================================================

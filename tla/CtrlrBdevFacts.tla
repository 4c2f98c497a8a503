--------------------------- MODULE CtrlrBdevFacts ---------------------------
(***************************************************************************)
(* What the pieces the handlers of CtrlrBdev are made of do to a request,  *)
(* to a context and to the inductive invariant.                            *)
(***************************************************************************)
EXTENDS CtrlrBdevInv, TLAPS

(* A leaf that names no prover is for SMT, which may take a minute and is tried twice. *)
USE SMTT(60), Z3T(60)

-----------------------------------------------------------------------------
(***************************************************************************)
(* A sum of two w-bit numbers that does not come out smaller than either   *)
(* has not wrapped around: the range checks of the handlers and of the     *)
(* bdev layer are exact.                                                   *)
(***************************************************************************)
LEMMA InRange ==
  ASSUME NEW M \in Nat, NEW N \in Nat, N < M, NEW lba \in Nat, NEW n \in Nat,
         lba < M, n < M, (lba + n) % M >= lba, (lba + n) % M <= N
  PROVE  lba + n <= N
<1>1. CASE lba + n < M
  <2>1. (lba + n) % M = lba + n
    BY <1>1
  <2>2. QED
    BY <2>1, ZenonT(60)
<1>2. CASE lba + n >= M
  <2>1. (lba + n) % M = lba + n - M
    BY <1>2
  <2>2. QED
    BY <2>1
<1>3. QED
  BY <1>1, <1>2

(***************************************************************************)
(* An aligned number of bytes is a whole number of blocks.                 *)
(***************************************************************************)
LEMMA Aligned ==
  ASSUME NEW B \in Nat \ {0}, NEW x \in Nat, x % B = 0
  PROVE  x = B * (x \div B) /\ x \div B \in Nat
  OBVIOUS

(***************************************************************************)
(* A range of blocks that ends on the device does so in bytes.             *)
(***************************************************************************)
LEMMA Scaled ==
  ASSUME NEW B \in Nat \ {0}, NEW a \in Nat, NEW b \in Nat, NEW N \in Nat, a + b <= N
  PROVE  B * a + B * b <= N * B
  OBVIOUS

(***************************************************************************)
(* The fields of a command.                                                *)
(***************************************************************************)
LEMMA CmdFacts ==
  ASSUME NEW c \in Cmds
  PROVE  /\ c.op \in Ops /\ c.len \in Nat /\ c.arg \in Nat /\ c.sdlba \in Nat
         /\ c.rng \in Seq(BlockRange) /\ Len(c.rng) \in 1 .. MaxIo /\ MaxIo \in Nat
         /\ DOMAIN c.rng = 1 .. Len(c.rng)
         /\ \A i \in DOMAIN c.rng : /\ c.rng[i] \in BlockRange
                                    /\ c.rng[i].lba \in Nat /\ c.rng[i].n \in Nat
         /\ c # None
<1>1. c \in Cmd /\ Len(c.rng) \in 1 .. MaxIo
  BY CmdsAssumption, ZenonT(60)
<1>2. /\ c.op \in Ops /\ c.len \in Nat /\ c.arg \in Nat /\ c.sdlba \in Nat
      /\ c.rng \in Seq(BlockRange)
  BY <1>1, ZenonT(60) DEF Cmd
<1>3. \A i \in DOMAIN c.rng : c.rng[i] \in BlockRange
  BY <1>2
<1>4. \A i \in DOMAIN c.rng : c.rng[i].lba \in Nat /\ c.rng[i].n \in Nat
  BY <1>3, ZenonT(60) DEF BlockRange
<1>5. QED
  BY <1>1, <1>2, <1>3, <1>4, TypesAssumption

(***************************************************************************)
(* The range checks keep what is submitted on the device, the destination  *)
(* of a COPY included.                                                     *)
(***************************************************************************)
LEMMA ChecksAreExact ==
  ASSUME NEW c \in Cmds, NEW i \in DOMAIN c.rng
  PROVE  /\ /\ c.op \notin {"HEAAN_ADD", "COPY"}
            /\ nvmf_bdev_ctrlr_lba_in_range(c.rng[i].lba, c.rng[i].n)
            => RangeOK(c, i)
         /\ /\ c.op \notin {"HEAAN_ADD", "COPY"}
            /\ bdev_io_valid_blocks(c.rng[i].lba, c.rng[i].n)
            => RangeOK(c, i)
         /\ c.op = "COPY" /\ spdk_bdev_copy_blocks(c.sdlba, c.rng[i].lba, c.rng[i].n)
              => RangeOK(c, i)
         /\ c.op = "HEAAN_ADD" /\ BytesValid(c.rng[i]) => RangeOK(c, i)
<1> DEFINE lba == c.rng[i].lba
           n == c.rng[i].n
           dst == c.sdlba
<1>1. lba \in Nat /\ n \in Nat /\ dst \in Nat /\ c.rng[i] \in BlockRange
  BY CmdFacts, ZenonT(60)
<1>2. /\ NumBlocks \in Nat /\ LbaModulus \in Nat /\ NumBlocks < LbaModulus
      /\ BlockSize \in Nat \ {0} /\ dst < LbaModulus
      /\ lba \div Unit(c) < LbaModulus /\ n \div Unit(c) < LbaModulus
  BY WidthAssumption, ZenonT(60)
<1> HIDE DEF lba, n, dst
<1>3. ASSUME c.op # "HEAAN_ADD"
      PROVE  Unit(c) = 1 /\ NumBlocks * Unit(c) = NumBlocks /\ lba < LbaModulus /\ n < LbaModulus
  <2>1. Unit(c) = 1 /\ lba \div 1 = lba /\ n \div 1 = n
    BY <1>1, <1>3 DEF Unit
  <2>2. QED
    BY <1>2, <2>1
<1>4. ASSUME c.op \notin {"HEAAN_ADD", "COPY"}, (lba + n) % LbaModulus >= lba,
             (lba + n) % LbaModulus <= NumBlocks
      PROVE  RangeOK(c, i)
  <2>1. lba + n <= NumBlocks
    BY <1>1, <1>2, <1>3, <1>4, InRange, ZenonT(60)
  <2>2. QED
    BY <1>3, <1>4, <2>1, ZenonT(60) DEF RangeOK, OnDevice, lba, n
<1>5. ASSUME c.op = "COPY", spdk_bdev_copy_blocks(dst, lba, n)
      PROVE  RangeOK(c, i)
  <2>1. /\ (lba + n) % LbaModulus >= lba /\ (lba + n) % LbaModulus <= NumBlocks
        /\ (dst + n) % LbaModulus >= dst /\ (dst + n) % LbaModulus <= NumBlocks
    BY <1>5, ZenonT(60) DEF spdk_bdev_copy_blocks, bdev_io_valid_blocks
  <2>2. lba + n <= NumBlocks /\ dst + n <= NumBlocks
    BY <1>1, <1>2, <1>3, <1>5, <2>1, InRange, ZenonT(60)
  <2>3. QED
    BY <1>3, <1>5, <2>2, ZenonT(60) DEF RangeOK, OnDevice, lba, n, dst
<1>6. ASSUME c.op = "HEAAN_ADD", BytesValid(c.rng[i])
      PROVE  RangeOK(c, i)
  <2> DEFINE a == lba \div BlockSize
             b == n \div BlockSize
  <2>1. lba % BlockSize = 0 /\ n % BlockSize = 0
    BY <1>6, ZenonT(60) DEF BytesValid, bdev_bytes_to_blocks, lba, n
  <2>2. lba = BlockSize * a /\ n = BlockSize * b /\ a \in Nat /\ b \in Nat
    BY <1>1, <1>2, <2>1, Aligned, ZenonT(60)
  <2>3. Unit(c) = BlockSize /\ a < LbaModulus /\ b < LbaModulus
    BY <1>2, <1>6, ZenonT(60) DEF Unit
  <2>4. (a + b) % LbaModulus >= a /\ (a + b) % LbaModulus <= NumBlocks
    BY <1>6, ZenonT(60) DEF BytesValid, bdev_io_valid_blocks, lba, n
  <2> HIDE DEF a, b
  <2>5. a + b <= NumBlocks
    BY <1>2, <2>2, <2>3, <2>4, InRange, ZenonT(60)
  <2>6. lba + n <= NumBlocks * BlockSize
    BY <1>2, <2>2, <2>5, Scaled, ZenonT(60)
  <2>7. QED
    BY <1>6, <2>3, <2>6, ZenonT(60) DEF RangeOK, OnDevice, lba, n
<1>7. (lba + n) % LbaModulus \in Nat
  BY <1>1, <1>2
<1>8. /\ c.op \notin {"HEAAN_ADD", "COPY"} /\ nvmf_bdev_ctrlr_lba_in_range(lba, n) => RangeOK(c, i)
      /\ c.op \notin {"HEAAN_ADD", "COPY"} /\ bdev_io_valid_blocks(lba, n) => RangeOK(c, i)
  BY <1>1, <1>2, <1>4, <1>7 DEF nvmf_bdev_ctrlr_lba_in_range, bdev_io_valid_blocks
<1>9. QED
  BY <1>5, <1>6, <1>8, ZenonT(60) DEF lba, n, dst

-----------------------------------------------------------------------------
(***************************************************************************)
(* A world's parts, and a world with one request replaced.                 *)
(***************************************************************************)
LEMMA WorldFacts ==
  ASSUME NEW w \in World
  PROVE  /\ w.req \in [Reqs -> ReqType] /\ w.ctx \in [Slots -> CtxType]
         /\ w.cache \in Int /\ w.pool \in Int /\ w.wq \in Seq(Reqs)
         /\ \A x \in Reqs : w.req[x] \in ReqType
  BY ZenonT(60) DEF World

(***************************************************************************)
(* Replacing one request of a world changes nothing else.                  *)
(***************************************************************************)
LEMMA PutReq ==
  ASSUME NEW w \in World, NEW r \in Reqs, NEW q \in ReqType
  PROVE  /\ Put(w, r, q) \in World
         /\ Put(w, r, q).ctx = w.ctx /\ Put(w, r, q).wq = w.wq
         /\ Put(w, r, q).cache = w.cache /\ Put(w, r, q).pool = w.pool
         /\ \A x \in Reqs \ {r} : Put(w, r, q).req[x] = w.req[x]
         /\ Put(w, r, q).req[r] = q
<1> DEFINE v == Put(w, r, q)
<1>1. [w.req EXCEPT ![r] = q] \in [Reqs -> ReqType]
  BY WorldFacts, ZenonT(60)
<1>2. v \in World
  BY <1>1, ZenonT(60) DEF Put, World
<1>3. /\ v.ctx = w.ctx /\ v.wq = w.wq /\ v.cache = w.cache /\ v.pool = w.pool
      /\ v.req = [w.req EXCEPT ![r] = q]
  BY ZenonT(60) DEF Put, World
<1>4. w.req \in [Reqs -> ReqType]
  BY WorldFacts, ZenonT(60)
<1> HIDE DEF v
<1>5. v.req[r] = q /\ \A x \in Reqs \ {r} : v.req[x] = w.req[x]
  BY <1>3, <1>4, ZenonT(60)
<1>6. QED
  BY <1>2, <1>3, <1>5, ZenonT(60) DEF v

(***************************************************************************)
(* The fields of a request.                                                *)
(***************************************************************************)
LEMMA ReqFields ==
  ASSUME NEW q \in ReqType
  PROVE  /\ q.st \in {"idle", "exec", "done"} /\ q.cmd \in Cmds \cup {None}
         /\ q.sc \in Statuses /\ q.cpl \in Nat /\ q.io \in [1 .. MaxIo -> IoStates]
         /\ q.slot \in Slots \cup {None} /\ q.iov \in Seq(Int)
         /\ q.count \in Nat /\ q.range_index \in Nat
         /\ q.sent \in SUBSET (1 .. MaxIo) /\ q.failed \in BOOLEAN
  BY ZenonT(60) DEF ReqType

(***************************************************************************)
(* spdk_nvmf_request_complete.                                             *)
(***************************************************************************)
LEMMA CompleteFacts ==
  ASSUME NEW w \in World, NEW r \in Reqs, NEW sc \in Statuses
  PROVE  LET v == Complete(w, r, sc)
         IN /\ Elsewhere(w, v, r) /\ Completed(w.req[r], v.req[r], sc)
            /\ v.wq = w.wq /\ v.cache = w.cache /\ v.pool = w.pool
<1> DEFINE v == Complete(w, r, sc)
           p == w.req[r]
           f == [p EXCEPT !.st = "done", !.sc = sc, !.cpl = @ + 1]
<1>1. p \in ReqType /\ p.cpl + 1 \in Nat
  BY WorldFacts, ReqFields
<1>2. f \in ReqType
  BY <1>1, ZenonT(60) DEF ReqType
<1>3. v = Put(w, r, f)
  BY ZenonT(60) DEF Put, Complete, World
<1>4. /\ f.st = "done" /\ f.sc = sc /\ f.cpl = p.cpl + 1
      /\ f.cmd = p.cmd /\ f.io = p.io /\ f.slot = p.slot /\ f.iov = p.iov
      /\ f.count = p.count /\ f.range_index = p.range_index
      /\ f.sent = p.sent /\ f.failed = p.failed
  BY <1>1, ZenonT(60) DEF ReqType
<1> HIDE DEF f
<1>5. /\ v \in World
      /\ v.ctx = w.ctx /\ v.wq = w.wq /\ v.cache = w.cache /\ v.pool = w.pool
      /\ \A x \in Reqs \ {r} : v.req[x] = w.req[x]
      /\ v.req[r] = f
  BY <1>2, <1>3, PutReq
<1> HIDE DEF v
<1>6. Elsewhere(w, v, r) /\ Completed(p, v.req[r], sc)
  BY <1>2, <1>4, <1>5, ZenonT(60) DEF Elsewhere, Completed
<1>7. QED
  BY <1>5, <1>6, ZenonT(60) DEF v

(***************************************************************************)
(* The size of a set of a request's I/Os: of a subset,                     *)
(***************************************************************************)
LEMMA CountSubset ==
  ASSUME CountsIo, NEW J \in SUBSET (1 .. MaxIo), NEW I \in SUBSET J
  PROVE  Cardinality(I) <= Cardinality(J) /\ (Cardinality(I) = Cardinality(J) => I = J)
<1>1. \A H \in SUBSET J : Cardinality(H) <= Cardinality(J)
  BY ZenonT(60) DEF CountsIo
<1>2. \A H \in SUBSET J : Cardinality(H) = Cardinality(J) => H = J
  BY ZenonT(60) DEF CountsIo
<1>3. QED
  BY <1>1, <1>2, ZenonT(60)

(***************************************************************************)
(* ... of a disjoint union.                                                *)
(***************************************************************************)
LEMMA CountUnion ==
  ASSUME CountsIo, NEW I \in SUBSET (1 .. MaxIo), NEW J \in SUBSET (1 .. MaxIo),
         I \cap J = {}
  PROVE  Cardinality(I \cup J) = Cardinality(I) + Cardinality(J)
<1>1. \A H \in SUBSET (1 .. MaxIo) :
         H \cap J = {} => Cardinality(H \cup J) = Cardinality(H) + Cardinality(J)
  BY ZenonT(60) DEF CountsIo
<1>2. QED
  BY <1>1, ZenonT(60)

(***************************************************************************)
(* ... of a set moved up by a.                                             *)
(***************************************************************************)
LEMMA CountShift ==
  ASSUME CountsIo, NEW J \in SUBSET (1 .. MaxIo), NEW a \in Nat,
         {a + i : i \in J} \subseteq 1 .. MaxIo
  PROVE  Cardinality({a + i : i \in J}) = Cardinality(J)
<1>1. \A b \in Nat : {b + i : i \in J} \subseteq 1 .. MaxIo =>
         Cardinality({b + i : i \in J}) = Cardinality(J)
  BY ZenonT(60) DEF CountsIo
<1>2. QED
  BY <1>1, ZenonT(60)

(***************************************************************************)
(* Submitting to the bdev takes descriptors and marks the I/Os busy.       *)
(***************************************************************************)
LEMMA SubmitFacts ==
  ASSUME CountsIo, NEW w \in World, NEW r \in Reqs, NEW J \in SUBSET (1 .. MaxIo)
  PROVE  LET v == Submit(w, r, J)
         IN Elsewhere(w, v, r) /\ Submitted(w.req[r], v.req[r], J) /\ v.wq = w.wq
<1> DEFINE v == Submit(w, r, J)
           p == w.req[r]
           io == [j \in 1 .. MaxIo |-> IF j \in J THEN "busy" ELSE p.io[j]]
           f == [p EXCEPT !.io = io, !.sent = @ \cup J]
           n == Cardinality(J)
           t == Take(w, n)
<1>1. p \in ReqType
  BY WorldFacts, ZenonT(60)
<1>2. io \in [1 .. MaxIo -> IoStates] /\ p.sent \cup J \in SUBSET (1 .. MaxIo)
  BY <1>1, ReqFields, ZenonT(60) DEF IoStates
<1> HIDE DEF io
<1>3. f \in ReqType
  BY <1>1, <1>2, ZenonT(60) DEF ReqType
<1>4. n \in Nat
  BY ZenonT(60) DEF CountsIo
<1> HIDE DEF n
<1>5. t \in World /\ t.req = w.req /\ t.ctx = w.ctx /\ t.wq = w.wq
  <2> DEFINE cache == IF n <= w.cache THEN w.cache - n ELSE 0
             pool == IF n <= w.cache THEN w.pool ELSE w.pool - (n - w.cache)
  <2>1. cache \in Int /\ pool \in Int
    BY <1>4, WorldFacts
  <2> HIDE DEF cache, pool
  <2>2. t = [w EXCEPT !.cache = cache, !.pool = pool]
    BY ZenonT(60) DEF Take, World, cache, pool
  <2>3. QED
    BY <2>1, <2>2, ZenonT(60) DEF World
<1>6. v = Put(t, r, f)
  BY <1>5, ZenonT(60) DEF Put, Submit, World, io, n
<1>7. /\ f.io = io /\ f.sent = p.sent \cup J
      /\ f.st = p.st /\ f.sc = p.sc /\ f.cpl = p.cpl
      /\ f.cmd = p.cmd /\ f.slot = p.slot /\ f.iov = p.iov
      /\ f.count = p.count /\ f.range_index = p.range_index
      /\ f.failed = p.failed
  BY <1>1, ZenonT(60) DEF ReqType
<1> HIDE DEF f, t
<1>8. /\ v \in World
      /\ v.ctx = t.ctx /\ v.wq = t.wq
      /\ \A x \in Reqs \ {r} : v.req[x] = t.req[x]
      /\ v.req[r] = f
  BY <1>3, <1>5, <1>6, PutReq
<1> HIDE DEF v
<1>9. Elsewhere(w, v, r) /\ Submitted(p, v.req[r], J)
  BY <1>3, <1>5, <1>7, <1>8 DEF Elsewhere, Submitted, io
<1>10. QED
  BY <1>5, <1>8, <1>9, ZenonT(60) DEF v

(***************************************************************************)
(* Setting the status changes nothing else.                                *)
(***************************************************************************)
LEMMA SetScFacts ==
  ASSUME NEW w \in World, NEW r \in Reqs, NEW sc \in Statuses
  PROVE  LET v == SetSc(w, r, sc)
         IN /\ Elsewhere(w, v, r) /\ OnlyStatus(w.req[r], v.req[r]) /\ v.req[r].sc = sc
            /\ v.wq = w.wq /\ v.cache = w.cache /\ v.pool = w.pool
<1> DEFINE p == w.req[r]
           f == [p EXCEPT !.sc = sc]
<1>1. p \in ReqType
  BY WorldFacts, ZenonT(60)
<1>2. f \in ReqType
  BY <1>1, ZenonT(60) DEF ReqType
<1>3. SetSc(w, r, sc) = Put(w, r, f)
  BY ZenonT(60) DEF SetSc, Put, World
<1>4. OnlyStatus(p, f) /\ f.sc = sc
  BY <1>1, <1>2, ZenonT(60) DEF OnlyStatus, ReqType
<1> HIDE DEF f, p
<1> DEFINE v == SetSc(w, r, sc)
<1>5. /\ v \in World /\ v.ctx = w.ctx /\ v.wq = w.wq
      /\ v.cache = w.cache /\ v.pool = w.pool
      /\ \A x \in Reqs \ {r} : v.req[x] = w.req[x]
      /\ v.req[r] = f
  BY <1>2, <1>3, PutReq
<1>6. QED
  BY <1>4, <1>5, ZenonT(60) DEF Elsewhere, p

(***************************************************************************)
(* The parts of the inductive invariant, for the world of the state.       *)
(***************************************************************************)
LEMMA StateFacts ==
  ASSUME IInv
  PROVE  /\ W \in World /\ QueueOK(io_wait_queue) /\ io_wait_queue \in Seq(Reqs)
         /\ W.req = req /\ W.ctx = ctx /\ W.wq = io_wait_queue
         /\ \A x \in Reqs : /\ req[x] \in ReqType
                            /\ ReqOK(x, req[x], Waits(io_wait_queue, x), ctx)
                            /\ SlotOK(req[x])
         /\ \A s \in Slots : CtxOK(W, s)
         /\ ctx \in [Slots -> CtxType]
<1>1. /\ W \in World /\ WInvBut(W, {}) /\ \A s \in Slots : CtxOK(W, s)
      /\ \A x \in Reqs : SlotOK(W.req[x])
  BY ZenonT(60) DEF IInv, InOrder, WInvBut
<1>2. W.req = req /\ W.ctx = ctx /\ W.wq = io_wait_queue
  BY ZenonT(60) DEF W
<1> HIDE DEF W
<1>3. QED
  BY <1>1, <1>2, WorldFacts, ZenonT(60) DEF WInvBut

(***************************************************************************)
(* Only an ECHO or HEAAN_ADD command has a context.                        *)
(***************************************************************************)
LEMMA NoContext ==
  ASSUME IInv, NEW r \in Reqs, req[r].cmd.op \notin {"ECHO", "HEAAN_ADD"}, NEW s \in Slots
  PROVE  ctx[s].req # r
<1>1. W.req = req /\ W.ctx = ctx /\ CtxOK(W, s)
  BY StateFacts, ZenonT(60)
<1>2. QED
  BY <1>1, TypesAssumption DEF CtxOK

(***************************************************************************)
(* A request looks at a context only while it is its own.                  *)
(***************************************************************************)
LEMMA CtxFrame ==
  ASSUME NEW x, NEW q, NEW n, NEW cx, NEW cy, ReqOK(x, q, n, cx),
         \A s \in Slots : cx[s].kind = "echo" /\ cx[s].req = x => cy[s] = cx[s]
  PROVE  ReqOK(x, q, n, cy)
<1>1. EchoOK(x, q, cx) => EchoOK(x, q, cy)
  BY ZenonT(60) DEF EchoOK
<1>2. QED
  BY <1>1, ZenonT(60) DEF ReqOK

(***************************************************************************)
(* A step that changes the requests R and contexts of theirs only.         *)
(***************************************************************************)
LEMMA Framed ==
  ASSUME IInv, NEW R \in SUBSET Reqs, NEW u \in World, u.wq = io_wait_queue,
         \A x \in Reqs \ R : u.req[x] = req[x],
         \A x \in R : ReqOK(x, u.req[x], Waits(io_wait_queue, x), u.ctx) /\ SlotOK(u.req[x]),
         \A s \in Slots : \/ u.ctx[s] = ctx[s]
                          \/ ctx[s].kind = "echo" => ctx[s].req \in R,
         \A s \in Slots : u.ctx[s] # ctx[s] \/ ctx[s].req \in R => CtxOK(u, s)
  PROVE  InOrder(u)
<1>1. \A x \in Reqs \ R : ReqOK(x, u.req[x], Waits(u.wq, x), u.ctx)
  <2> SUFFICES ASSUME NEW x \in Reqs \ R
               PROVE  ReqOK(x, u.req[x], Waits(u.wq, x), u.ctx)
    BY ZenonT(60)
  <2>1. ReqOK(x, req[x], Waits(io_wait_queue, x), ctx)
    BY StateFacts, ZenonT(60)
  <2>2. \A s \in Slots : ctx[s].kind = "echo" /\ ctx[s].req = x => u.ctx[s] = ctx[s]
    BY ZenonT(60)
  <2>3. ReqOK(x, req[x], Waits(io_wait_queue, x), u.ctx)
    BY <2>1, <2>2, CtxFrame
  <2>4. QED
    BY <2>3, ZenonT(60)
<1>2. WInvBut(u, {})
  <2>1. QueueOK(io_wait_queue)
    BY StateFacts, ZenonT(60)
  <2>2. QED
    BY <1>1, <2>1, ZenonT(60) DEF WInvBut
<1>3. ASSUME NEW s \in Slots, u.ctx[s] = ctx[s], ctx[s].req \notin R
      PROVE  CtxOK(u, s)
  <2>1. CtxOK(W, s) /\ W.req = req /\ W.ctx = ctx
    BY StateFacts, ZenonT(60)
  <2>2. QED
    BY <1>3, <2>1 DEF CtxOK
<1>4. \A x \in Reqs : SlotOK(u.req[x])
  BY StateFacts, ZenonT(60)
<1>5. QED
  BY <1>2, <1>3, <1>4, ZenonT(60) DEF InOrder

(***************************************************************************)
(* Completing an ECHO or HEAAN_ADD command that has no context any more.   *)
(***************************************************************************)
LEMMA CompleteKeeps ==
  ASSUME NEW w, NEW v, NEW o \in Reqs, NEW sc \in Statuses, InOrder(v), Moves(w, v),
         v.req[o].st = "exec", v.req[o].cmd.op \in {"ECHO", "HEAAN_ADD"},
         w.req[o].st # "done", \A s \in Slots : v.ctx[s].req # o,
         v.req[o].cmd.op = "ECHO" =>
           /\ BusyIo(v.req[o]) = {}
           /\ sc = "SUCCESS" => ~v.req[o].failed /\ DOMAIN v.req[o].cmd.rng \subseteq v.req[o].sent
  PROVE  LET z == Complete(v, o, sc) IN InOrder(z) /\ Moves(w, z)
<1> DEFINE z == Complete(v, o, sc)
           p == v.req[o]
           q == z.req[o]
<1>1. /\ v \in World /\ QueueOK(v.wq)
      /\ \A x \in Reqs : ReqOK(x, v.req[x], Waits(v.wq, x), v.ctx)
      /\ \A s \in Slots : CtxOK(v, s)
      /\ \A x \in Reqs : SlotOK(v.req[x])
  BY ZenonT(60) DEF InOrder, WInvBut
<1>2. Elsewhere(v, z, o) /\ Completed(p, q, sc) /\ z.wq = v.wq
  BY <1>1, CompleteFacts, ZenonT(60)
<1> HIDE DEF z
<1>3. /\ z \in World /\ z.ctx = v.ctx /\ \A x \in Reqs \ {o} : z.req[x] = v.req[x]
  BY <1>2, ZenonT(60) DEF Elsewhere
<1>4. /\ q.st = "done" /\ q.sc = sc /\ q.cpl = p.cpl + 1
      /\ q.cmd = p.cmd /\ q.io = p.io /\ q.slot = p.slot /\ q.iov = p.iov
      /\ q.sent = p.sent /\ q.failed = p.failed
  BY <1>2, ZenonT(60) DEF Completed
<1>5. ReqOK(o, q, Waits(z.wq, o), z.ctx)
  <2> DEFINE n == Waits(v.wq, o)
  <2>1. ReqOK(o, p, n, v.ctx)
    BY <1>1, ZenonT(60)
  <2> HIDE DEF p, q
  <2>2. /\ p.cmd.op \notin OneIo \cup {"DSM"} \cup SimpleOps /\ ~OverLimit(p.cmd)
        /\ BusyIo(q) = BusyIo(p)
    BY <1>4, ZenonT(60) DEF OneIo, SimpleOps, OverLimit, BusyIo, p
  <2>3. n # 1 /\ LifeOK(p, n) /\ (p.cmd.op = "ECHO" => EchoOK(o, p, v.ctx) /\ Performed(p))
    BY <2>1, <2>2, ZenonT(60) DEF ReqOK, p
  <2>4. LifeOK(q, n)
    BY <1>4, <2>2, <2>3 DEF LifeOK, p
  <2>5. p.cmd.op = "ECHO" => EchoOK(o, q, v.ctx)
    BY <1>4, <2>2, <2>3, ZenonT(60) DEF EchoOK
  <2>6. p.cmd.op = "ECHO" => Performed(q)
    BY <1>4, <2>2, <2>3, ZenonT(60) DEF Performed, p
  <2>7. ReqOK(o, q, n, v.ctx)
    BY <1>4, <2>1, <2>2, <2>3, <2>4, <2>5, <2>6, ZenonT(60) DEF ReqOK, p
  <2>8. QED
    BY <1>2, <1>3, <2>7, ZenonT(60) DEF q
<1>6. \A x \in Reqs : ReqOK(x, z.req[x], Waits(z.wq, x), z.ctx)
  BY <1>1, <1>2, <1>3, <1>5, ZenonT(60)
<1>7. ASSUME NEW s \in Slots
      PROVE  CtxOK(z, s)
  <2>1. CtxOK(v, s)
    BY <1>1, ZenonT(60)
  <2>2. QED
    BY <1>3, <2>1, ZenonT(60) DEF CtxOK
<1>8. Moves(w, z)
  BY <1>3, <1>4 DEF Moves
<1>9. \A x \in Reqs : SlotOK(z.req[x])
  BY <1>1, <1>3, <1>4 DEF SlotOK
<1>10. InOrder(z)
  BY <1>1, <1>2, <1>3, <1>6, <1>7, <1>9, ZenonT(60) DEF InOrder, WInvBut
<1>11. QED
  BY <1>8, <1>10, ZenonT(60) DEF z

(***************************************************************************)
(* A step to a world that is in order keeps the inductive invariant.       *)
(***************************************************************************)
LEMMA StepKeeps ==
  ASSUME IInv, NEW STATE v, InOrder(v), Moves(W, v), Step(v)
  PROVE  Kept
<1>1. v \in World /\ crashed' = crashed /\ crashed \in BOOLEAN
  BY ZenonT(60) DEF InOrder, WInvBut, Step, IInv
<1>2. /\ req' = v.req /\ ctx' = v.ctx /\ per_thread_cache_count' = v.cache
      /\ bdev_io_pool' = v.pool /\ io_wait_queue' = v.wq
  BY ZenonT(60) DEF Step
<1>3. W' = v
  BY <1>1, <1>2, ZenonT(60) DEF W, World
<1>4. QED
  BY <1>1, <1>3, ZenonT(60) DEF Kept, IInv

(***************************************************************************)
(* Noting the outcome of an I/O changes nothing else.                      *)
(***************************************************************************)
LEMMA SettledFacts ==
  ASSUME IInv, NEW r \in Reqs, NEW ok \in BOOLEAN
  PROVE  LET v == Settled(r, ok)
         IN Elsewhere(W, v, r) /\ Noted(req[r], v.req[r], ok) /\ v.wq = io_wait_queue
<1> DEFINE p == req[r]
           b == p.failed \/ ~ok
           f == [p EXCEPT !.failed = b]
           v == Settled(r, ok)
<1>1. p \in ReqType /\ W \in World /\ W.req = req /\ W.wq = io_wait_queue
  BY StateFacts, ZenonT(60)
<1>2. b \in BOOLEAN
  BY ZenonT(60)
<1>3. v = Put(W, r, f)
  BY <1>1, ZenonT(60) DEF Settled, Put, World
<1> HIDE DEF b
<1>4. f \in ReqType
  BY <1>1, <1>2, ZenonT(60) DEF ReqType
<1>5. /\ f.failed = b /\ f.st = p.st /\ f.sc = p.sc /\ f.cpl = p.cpl
      /\ f.cmd = p.cmd /\ f.io = p.io /\ f.slot = p.slot /\ f.iov = p.iov
      /\ f.count = p.count /\ f.range_index = p.range_index /\ f.sent = p.sent
  BY <1>1, ZenonT(60) DEF ReqType
<1> HIDE DEF f, v, p
<1>6. /\ v \in World /\ v.ctx = W.ctx /\ v.wq = W.wq
      /\ \A x \in Reqs \ {r} : v.req[x] = W.req[x]
      /\ v.req[r] = f
  BY <1>1, <1>3, <1>4, PutReq
<1>7. Noted(p, f, ok)
  BY <1>4, <1>5, ZenonT(60) DEF Noted, b
<1>8. QED
  BY <1>1, <1>6, <1>7, ZenonT(60) DEF Elsewhere, v, p

(***************************************************************************)
(* A request with an I/O at the bdev.                                      *)
(***************************************************************************)
LEMMA BusyFacts ==
  ASSUME IInv, NEW r \in Reqs, NEW j \in 1 .. MaxIo, req[r].io[j] = "busy"
  PROVE  /\ req[r].st # "idle" /\ req[r].cmd \in Cmds /\ j \in BusyIo(req[r])
         /\ Len(req[r].iov) = req[r].cmd.len
         /\ ~OverLimit(req[r].cmd) => LifeOK(req[r], Waits(io_wait_queue, r))
         /\ ~OverLimit(req[r].cmd) /\ req[r].cmd.op # "HEAAN_ADD" =>
              req[r].st = "exec" /\ req[r].cpl = 0
<1>1. ReqOK(r, req[r], Waits(io_wait_queue, r), ctx)
  BY StateFacts, ZenonT(60)
<1>2. j \in BusyIo(req[r])
  BY ZenonT(60) DEF BusyIo
<1>3. req[r].st # "idle"
  <2>1. req[r].st = "idle" => req[r] = IdleReq
    BY <1>1, ZenonT(60) DEF ReqOK
  <2>2. IdleReq.io[j] = "none"
    BY ZenonT(60) DEF IdleReq
  <2>3. QED
    BY <2>1, <2>2, ZenonT(60)
<1>4. /\ req[r].cmd \in Cmds /\ Len(req[r].iov) = req[r].cmd.len
      /\ ~OverLimit(req[r].cmd) => LifeOK(req[r], Waits(io_wait_queue, r))
  BY <1>1, <1>3, ZenonT(60) DEF ReqOK
<1>5. ~OverLimit(req[r].cmd) /\ req[r].cmd.op # "HEAAN_ADD" =>
        req[r].st = "exec" /\ req[r].cpl = 0
  BY <1>2, <1>4, ZenonT(60) DEF LifeOK
<1>6. QED
  BY <1>2, <1>3, <1>4, <1>5, ZenonT(60)

(***************************************************************************)
(* Calling back waiting requests keeps the rest in order.                  *)
(***************************************************************************)
LEMMA CalledKeeps ==
  ASSUME NEW w, NEW u, NEW v, InOrder(u), Called(u, v), WInvBut(v, {}), Moves(w, u)
  PROVE  InOrder(v) /\ Moves(w, v)
<1>1. /\ v.ctx = u.ctx
      /\ \A x \in Reqs : v.req[x].cmd = u.req[x].cmd /\ v.req[x].slot = u.req[x].slot
      /\ \A x \in Reqs : IF Waits(u.wq, x) = 0 THEN v.req[x] = u.req[x]
                         ELSE v.req[x].st # "idle"
  BY ZenonT(60) DEF Called
<1>2. \A x \in Reqs : ReqOK(x, u.req[x], Waits(u.wq, x), u.ctx)
  BY ZenonT(60) DEF InOrder, WInvBut
<1>3. \A x \in Reqs : Waits(u.wq, x) \in {0, 1}
  BY ZenonT(60) DEF Waits
<1>4. ASSUME NEW x \in Reqs, Waits(u.wq, x) = 1
      PROVE  /\ u.req[x].st # "idle" /\ u.req[x].cmd.op \in OneIo \cup {"DSM"}
             /\ ~OverLimit(u.req[x].cmd) => u.req[x].st = "exec"
  <2>1. ReqOK(x, u.req[x], 1, u.ctx)
    BY <1>2, <1>4, ZenonT(60)
  <2>2. QED
    BY <2>1 DEF ReqOK, LifeOK
<1>5. ASSUME NEW s \in Slots
      PROVE  CtxOK(v, s)
  <2>1. CtxOK(u, s)
    BY ZenonT(60) DEF InOrder
  <2>2. ASSUME NEW o \in Reqs, u.req[o].cmd.op \in {"ECHO", "HEAAN_ADD"}
        PROVE  v.req[o] = u.req[o]
    BY <1>1, <1>3, <1>4, <2>2, ZenonT(60) DEF OneIo, SimpleOps
  <2>3. QED
    BY <1>1, <2>1, <2>2, ZenonT(60) DEF CtxOK
<1>6. Moves(w, v)
  BY <1>1, <1>3, <1>4, ZenonT(60) DEF Moves
<1>7. \A x \in Reqs : SlotOK(v.req[x])
  BY <1>1, ZenonT(60) DEF InOrder, SlotOK
<1>8. QED
  BY <1>5, <1>6, <1>7, ZenonT(60) DEF InOrder

(***************************************************************************)
(* Giving back an I/O changes nothing else.                                *)
(***************************************************************************)
LEMMA FreedFacts ==
  ASSUME NEW w \in World, NEW r \in Reqs, NEW j \in 1 .. MaxIo
  PROVE  LET v == Freed(w, r, j)
         IN Elsewhere(w, v, r) /\ GivenBack(w.req[r], v.req[r], j) /\ v.wq = w.wq
<1> DEFINE p == w.req[r]
           io == [i \in 1 .. MaxIo |-> IF i = j THEN "freed" ELSE p.io[i]]
           f == [p EXCEPT !.io = io]
           v == Freed(w, r, j)
<1>1. p \in ReqType /\ p.io \in [1 .. MaxIo -> IoStates]
  BY WorldFacts, ReqFields, ZenonT(60)
<1>2. io \in [1 .. MaxIo -> IoStates] /\ [p.io EXCEPT ![j] = "freed"] = io
  BY <1>1, ZenonT(60) DEF IoStates
<1> HIDE DEF io
<1>3. f \in ReqType
  BY <1>1, <1>2, ZenonT(60) DEF ReqType
<1>4. v = Put(w, r, f)
  BY <1>2, ZenonT(60) DEF Freed, Put, World
<1>5. GivenBack(p, f, j)
  BY <1>1, <1>3, ZenonT(60) DEF GivenBack, ReqType, io
<1> HIDE DEF f, v, p
<1>6. /\ v \in World /\ v.ctx = w.ctx /\ v.wq = w.wq
      /\ \A x \in Reqs \ {r} : v.req[x] = w.req[x]
      /\ v.req[r] = f
  BY <1>3, <1>4, PutReq, ZenonT(60)
<1>7. QED
  BY <1>5, <1>6, ZenonT(60) DEF Elsewhere, v, p

(***************************************************************************)
(* From a step that changes request r only, and no context, to the         *)
(* callbacks of spdk_bdev_free_io.                                         *)
(***************************************************************************)
LEMMA FreeInOrder ==
  ASSUME IInv, ServesWaiters,
         NEW w \in World, NEW r \in Reqs, NEW j \in 1 .. MaxIo, NEW k \in GiveUps,
         InOrder(Freed(w, r, j)), Moves(W, Freed(w, r, j)), w.wq = io_wait_queue,
         \A x \in Reqs : w.req[x].cmd = req[x].cmd
  PROVE  LET v == spdk_bdev_free_io(w, r, j, k)
         IN Called(Freed(w, r, j), v) /\ InOrder(v) /\ Moves(W, v)
<1> DEFINE u == Freed(w, r, j)
           v == spdk_bdev_free_io(w, r, j, k)
<1>1. Elsewhere(w, u, r) /\ GivenBack(w.req[r], u.req[r], j) /\ u.wq = w.wq
  BY FreedFacts, ZenonT(60)
<1>2. \A x \in Reqs : u.req[x].cmd = req[x].cmd
  BY <1>1 DEF Elsewhere, GivenBack
<1>3. WInvBut(u, {})
  BY ZenonT(60) DEF InOrder
<1>4. Called(u, v) /\ WInvBut(v, {})
  BY <1>1, <1>2, <1>3, ZenonT(60) DEF ServesWaiters
<1> HIDE DEF u, v
<1>5. InOrder(v) /\ Moves(W, v)
  BY <1>4, CalledKeeps, ZenonT(60) DEF u
<1>6. QED
  BY <1>4, <1>5, ZenonT(60) DEF u, v

(***************************************************************************)
(* Replacing one context changes nothing else.                             *)
(***************************************************************************)
LEMMA PutCtxFacts ==
  ASSUME NEW w \in World, NEW s \in Slots, NEW c \in CtxType
  PROVE  CtxPut(w, PutCtx(w, s, c), s, c)
<1> DEFINE v == PutCtx(w, s, c)
<1>1. w.ctx \in [Slots -> CtxType]
  BY WorldFacts, ZenonT(60)
<1>2. [w.ctx EXCEPT ![s] = c] \in [Slots -> CtxType]
  BY <1>1, ZenonT(60)
<1>3. v \in World
  BY <1>2, ZenonT(60) DEF PutCtx, World
<1>4. v.req = w.req /\ v.wq = w.wq /\ v.ctx = [w.ctx EXCEPT ![s] = c]
  BY ZenonT(60) DEF PutCtx, World
<1> HIDE DEF v
<1>5. v.ctx[s] = c /\ \A t \in Slots \ {s} : v.ctx[t] = w.ctx[t]
  BY <1>1, <1>4, ZenonT(60)
<1>6. QED
  BY <1>3, <1>4, <1>5, ZenonT(60) DEF CtxPut, v

(***************************************************************************)
(* Such a request is in order, whether or not it is made to wait.          *)
(***************************************************************************)
LEMMA FreshInOrder ==
  ASSUME CountsIo, NEW x, NEW q, NEW c, NEW cx, Fresh(q, c)
  PROVE  /\ ReqOK(x, q, 0, cx)
         /\ q.st = "exec" /\ c.op \in OneIo => ReqOK(x, q, 1, cx)
         /\ BusyIo(q) = {}
<1>1. BusyIo(q) = {}
  BY ZenonT(60) DEF Fresh, BusyIo
<1>2. Cardinality(BusyIo(q)) = 0
  BY <1>1, ZenonT(60) DEF CountsIo
<1>3. LifeOK(q, 0) /\ (q.st = "exec" => LifeOK(q, 1))
  BY <1>1 DEF LifeOK, Fresh
<1>4. OneIoOK(q, 0) /\ OneIoOK(q, 1)
  BY <1>1, ZenonT(60) DEF OneIoOK, Fresh
<1>5. DsmOK(q, 0)
  BY <1>2 DEF DsmOK, Fresh
<1>6. c.op = "ECHO" => EchoOK(x, q, cx)
  <2> SUFFICES ASSUME c.op = "ECHO" PROVE EchoOK(x, q, cx)
    BY ZenonT(60)
  <2> DEFINE len == Len(c.rng)
  <2>1. len = 2 /\ len \in 1 .. MaxIo /\ MaxIo \in Nat
    BY FormatAssumption, CmdFacts, ZenonT(60) DEF Fresh
  <2> HIDE DEF len
  <2>2. 2 \in 1 .. MaxIo
    BY <2>1, ZenonT(60)
  <2>3. QED
    BY <1>1, <2>2, ZenonT(60) DEF EchoOK, Fresh
<1>7. Performed(q)
  BY ZenonT(60) DEF Performed, Fresh
<1>8. /\ q.st # "idle" /\ q.cmd \in Cmds /\ Len(q.iov) = q.cmd.len /\ q.cmd = c
      /\ \A j \in 1 .. MaxIo : q.io[j] # "held"
      /\ \A j \in q.sent : RangeOK(q.cmd, j)
  BY ZenonT(60) DEF Fresh
<1>9. ReqOK(x, q, 0, cx)
  BY <1>1, <1>3, <1>4, <1>5, <1>6, <1>7, <1>8 DEF ReqOK
<1>10. q.st = "exec" /\ c.op \in OneIo => ReqOK(x, q, 1, cx)
  <2>1. c.op \in OneIo => c.op # "DSM"
    BY ZenonT(60) DEF OneIo, SimpleOps
  <2>2. QED
    BY <1>1, <1>3, <1>4, <1>6, <1>7, <1>8, <2>1, ZenonT(60) DEF ReqOK
<1>11. QED
  BY <1>1, <1>9, <1>10, ZenonT(60)

(***************************************************************************)
(* The request as the handlers get it.                                     *)
(***************************************************************************)
LEMMA BeginFacts ==
  ASSUME IInv, NEW r \in Reqs, NEW c \in Cmds, req[r].st = "idle"
  PROVE  LET v == Begin(r, c)
         IN /\ Elsewhere(W, v, r) /\ Fresh(v.req[r], c) /\ v.req[r].st = "exec"
            /\ v.wq = io_wait_queue /\ Waits(io_wait_queue, r) = 0
            /\ \A s \in Slots : ctx[s].req # r
<1> DEFINE iov == [b \in 1 .. c.len |-> Host]
           f == [IdleReq EXCEPT !.st = "exec", !.cmd = c, !.sc = "SUCCESS", !.iov = iov]
           v == Begin(r, c)
<1>1. /\ W \in World /\ W.req = req /\ W.ctx = ctx /\ W.wq = io_wait_queue
      /\ \A s \in Slots : CtxOK(W, s)
      /\ ReqOK(r, req[r], Waits(io_wait_queue, r), ctx)
  BY StateFacts, ZenonT(60)
<1>2. v = Put(W, r, f)
  BY <1>1, ZenonT(60) DEF Begin, Put, World
<1>3. /\ iov \in Seq(Int) /\ Len(iov) = c.len /\ \A b \in DOMAIN iov : iov[b] = Host
  <2>1. c.len \in Nat /\ Host \in Int
    BY CmdFacts DEF Host
  <2>2. QED
    BY <2>1
<1>4. /\ f.st = "exec" /\ f.cmd = c /\ f.sc = "SUCCESS" /\ f.iov = iov /\ f.cpl = 0
      /\ f.io = [j \in 1 .. MaxIo |-> "none"] /\ f.slot = None /\ f.keyword = Zero
      /\ f.count = 0 /\ f.range_index = 0 /\ f.sent = {} /\ f.failed = FALSE
  BY ZenonT(60) DEF IdleReq
<1>5. f \in ReqType
  <2>1. /\ [j \in 1 .. MaxIo |-> "none"] \in [1 .. MaxIo -> IoStates] /\ "SUCCESS" \in Statuses
        /\ 0 \in Nat
    BY ZenonT(60) DEF IoStates, Statuses
  <2> HIDE DEF iov
  <2>2. QED
    BY <1>3, <2>1, ZenonT(60) DEF ReqType, IdleReq
<1> HIDE DEF f, v, iov
<1>6. /\ v \in World /\ v.ctx = W.ctx /\ v.wq = W.wq
      /\ \A x \in Reqs \ {r} : v.req[x] = W.req[x]
      /\ v.req[r] = f
  BY <1>1, <1>2, <1>5, PutReq
<1>7. Fresh(f, c)
  BY <1>3, <1>4, <1>5, ZenonT(60) DEF Fresh
<1>8. Waits(io_wait_queue, r) = 0
  BY <1>1, ZenonT(60) DEF ReqOK
<1>9. \A s \in Slots : ctx[s].req # r
  BY <1>1, TypesAssumption DEF CtxOK
<1>10. QED
  BY <1>1, <1>4, <1>6, <1>7, <1>8, <1>9, ZenonT(60) DEF Elsewhere, v

(***************************************************************************)
(* A step that changes an idle request and free contexts only.             *)
(***************************************************************************)
LEMMA Arrives ==
  ASSUME IInv, NEW r \in Reqs, req[r].st = "idle", NEW u \in World, u.wq = io_wait_queue,
         \A x \in Reqs \ {r} : u.req[x] = req[x], u.req[r].st # "idle",
         Waits(io_wait_queue, r) = 0, ReqOK(r, u.req[r], 0, u.ctx), SlotOK(u.req[r]),
         \A s \in Slots : ctx[s].req # r,
         \A s \in Slots : u.ctx[s] = ctx[s] \/ (ctx[s].kind = "free" /\ CtxOK(u, s))
  PROVE  InOrder(u) /\ Moves(W, u)
<1> DEFINE R == {r}
<1>1. /\ R \in SUBSET Reqs
      /\ \A x \in R : ReqOK(x, u.req[x], Waits(io_wait_queue, x), u.ctx) /\ SlotOK(u.req[x])
  BY ZenonT(60)
<1>2. /\ \A x \in Reqs \ R : u.req[x] = req[x]
      /\ \A s \in Slots : u.ctx[s] # ctx[s] \/ ctx[s].req \in R => CtxOK(u, s)
      /\ \A s \in Slots : u.ctx[s] = ctx[s] \/ (ctx[s].kind = "echo" => ctx[s].req \in R)
  BY ZenonT(60)
<1> HIDE DEF R
<1>3. InOrder(u)
  BY <1>1, <1>2, Framed, ZenonT(60)
<1>4. W.req = req
  BY StateFacts, ZenonT(60)
<1>5. Moves(W, u)
  BY <1>4, ZenonT(60) DEF Moves
<1>6. QED
  BY <1>3, <1>5, ZenonT(60)

(***************************************************************************)
(* A command refused on arrival.                                           *)
(***************************************************************************)
LEMMA RefusedKeeps ==
  ASSUME IInv, CountsIo, NEW r \in Reqs, NEW c \in Cmds, req[r].st = "idle",
         NEW sc \in Statuses \ {"SUCCESS"}, Step(Complete(Begin(r, c), r, sc))
  PROVE  Kept
<1> DEFINE b == Begin(r, c)
           z == Complete(b, r, sc)
<1>1. /\ Elsewhere(W, b, r) /\ Fresh(b.req[r], c) /\ b.req[r].st = "exec"
      /\ b.wq = io_wait_queue /\ Waits(io_wait_queue, r) = 0
      /\ \A s \in Slots : ctx[s].req # r
  BY BeginFacts, ZenonT(60)
<1> HIDE DEF b
<1>2. Elsewhere(b, z, r) /\ Completed(b.req[r], z.req[r], sc) /\ z.wq = b.wq
  BY <1>1, CompleteFacts DEF Elsewhere
<1>3. Step(z)
  BY ZenonT(60) DEF b
<1> HIDE DEF z
<1>4. Fresh(z.req[r], c)
  BY <1>1, <1>2 DEF Fresh, Completed
<1>5. ReqOK(r, z.req[r], 0, z.ctx) /\ z.req[r].st # "idle" /\ SlotOK(z.req[r])
  BY <1>4, FreshInOrder, ZenonT(60) DEF Fresh, SlotOK
<1>6. z \in World /\ z.ctx = ctx /\ \A x \in Reqs \ {r} : z.req[x] = req[x]
  BY <1>1, <1>2, StateFacts, ZenonT(60) DEF Elsewhere
<1>7. InOrder(z) /\ Moves(W, z)
  BY <1>1, <1>2, <1>5, <1>6, Arrives, ZenonT(60)
<1>8. QED
  BY <1>3, <1>7, StepKeeps, ZenonT(60)

(***************************************************************************)
(* Submitting the first I/Os and noting the slot changes one request.      *)
(***************************************************************************)
LEMMA PlacedFacts ==
  ASSUME IInv, CountsIo, NEW r \in Reqs, NEW c \in Cmds, req[r].st = "idle",
         NEW J \in SUBSET (1 .. MaxIo), NEW s \in Slots
  PROVE  LET v == Placed(Begin(r, c), r, J, s)
         IN Elsewhere(W, v, r) /\ PlacedAt(v.req[r], c, J, s) /\ v.wq = io_wait_queue
<1> DEFINE b == Begin(r, c)
           a == Submit(b, r, J)
           g == a.req[r]
           f == [g EXCEPT !.slot = s]
           v == Placed(b, r, J, s)
<1>1. Elsewhere(W, b, r) /\ Fresh(b.req[r], c) /\ b.req[r].st = "exec" /\ b.wq = io_wait_queue
  BY BeginFacts, ZenonT(60)
<1> HIDE DEF b
<1>2. Elsewhere(b, a, r) /\ Submitted(b.req[r], g, J) /\ a.wq = b.wq
  BY <1>1, SubmitFacts, ZenonT(60) DEF Elsewhere
<1>3. a \in World /\ g \in ReqType
  BY <1>2, ZenonT(60) DEF Elsewhere, Submitted
<1>4. v = Put(a, r, f)
  <2> HIDE DEF a
  <2>1. [a EXCEPT !.req[r].slot = s] = Put(a, r, f)
    BY <1>3, ZenonT(60) DEF Put, World
  <2>2. QED
    BY <2>1, ZenonT(60) DEF Placed, a
<1>5. f \in ReqType
  BY <1>3, ZenonT(60) DEF ReqType
<1>6. /\ f.slot = s /\ f.st = g.st /\ f.cpl = g.cpl /\ f.cmd = g.cmd /\ f.iov = g.iov
      /\ f.sent = g.sent /\ f.failed = g.failed /\ f.io = g.io
  BY <1>3, ZenonT(60) DEF ReqType
<1> HIDE DEF a, f, v
<1>7. /\ v \in World /\ v.ctx = a.ctx /\ v.wq = a.wq
      /\ \A x \in Reqs \ {r} : v.req[x] = a.req[x]
      /\ v.req[r] = f
  BY <1>3, <1>4, <1>5, PutReq
<1>8. PlacedAt(f, c, J, s)
  <2>1. g.io = [j \in 1 .. MaxIo |-> IF j \in J THEN "busy" ELSE "none"]
    BY <1>1, <1>2, ZenonT(60) DEF Fresh, Submitted
  <2>2. g.sent = J /\ ~g.failed /\ g.st = "exec" /\ g.cpl = 0 /\ g.cmd = c /\ Len(g.iov) = c.len
    BY <1>1, <1>2, ZenonT(60) DEF Fresh, Submitted
  <2>3. QED
    BY <1>5, <1>6, <2>1, <2>2, ZenonT(60) DEF PlacedAt
<1>9. QED
  BY <1>1, <1>2, <1>7, <1>8, ZenonT(60) DEF Elsewhere, v, b
=============================================================================

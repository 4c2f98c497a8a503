-------------------------- MODULE CtrlrBdevCustom ---------------------------
(***************************************************************************)
(* The inductive invariant of CtrlrBdev is kept by the arrival of an ECHO  *)
(* or HEAAN_ADD command and by its callbacks.                              *)
(***************************************************************************)
EXTENDS CtrlrBdevFacts

(* A leaf that names no prover is for SMT, which may take a minute and is tried twice. *)
USE SMTT(60), Z3T(60)

(***************************************************************************)
(* Freeing a context changes nothing else.                                 *)
(***************************************************************************)
LEMMA FreeFacts ==
  ASSUME NEW w \in World, NEW s \in Slots
  PROVE  CtxPut(w, Free(w, s), s, FreeCtx)
<1>1. FreeCtx \in CtxType
  BY DEF FreeCtx, CtxType
<1>2. Free(w, s) = PutCtx(w, s, FreeCtx)
  BY ZenonT(60) DEF Free, PutCtx, World
<1> HIDE DEF FreeCtx
<1>3. QED
  BY <1>1, <1>2, PutCtxFacts, ZenonT(60)

(***************************************************************************)
(* A data buffer replaced.                                                 *)
(***************************************************************************)
SetIov(w, r, iov) == [w EXCEPT !.req[r].iov = iov]

OnlyIov(p, q, iov) ==
  /\ q \in ReqType
  /\ q.st = p.st /\ q.cpl = p.cpl /\ q.sc = p.sc
  /\ q.cmd = p.cmd /\ q.io = p.io /\ q.slot = p.slot /\ q.iov = iov
  /\ q.sent = p.sent /\ q.failed = p.failed

(***************************************************************************)
(* Replacing a data buffer changes nothing else.                           *)
(***************************************************************************)
LEMMA SetIovFacts ==
  ASSUME NEW w \in World, NEW r \in Reqs, NEW iov \in Seq(Int)
  PROVE  LET v == SetIov(w, r, iov)
         IN Elsewhere(w, v, r) /\ OnlyIov(w.req[r], v.req[r], iov) /\ v.wq = w.wq
<1> DEFINE p == w.req[r]
           f == [p EXCEPT !.iov = iov]
           v == SetIov(w, r, iov)
<1>1. p \in ReqType
  BY WorldFacts, ZenonT(60)
<1>2. f \in ReqType
  BY <1>1, ZenonT(60) DEF ReqType
<1>3. v = Put(w, r, f)
  BY ZenonT(60) DEF SetIov, Put, World
<1>4. OnlyIov(p, f, iov)
  BY <1>1, <1>2, ZenonT(60) DEF OnlyIov, ReqType
<1> HIDE DEF f, p, v
<1>5. /\ v \in World /\ v.ctx = w.ctx /\ v.wq = w.wq
      /\ \A x \in Reqs \ {r} : v.req[x] = w.req[x]
      /\ v.req[r] = f
  BY <1>2, <1>3, PutReq, ZenonT(60)
<1>6. QED
  BY <1>4, <1>5, ZenonT(60) DEF Elsewhere, p, v

(***************************************************************************)
(* An ECHO command with a read at the bdev.                                *)
(***************************************************************************)
EchoBusy(r, j) ==
  LET p == req[r] IN
  /\ p \in ReqType /\ p.st = "exec" /\ p.cpl = 0 /\ p.cmd \in Cmds /\ p.cmd.op = "ECHO"
  /\ j \in {1, 2} /\ Len(p.iov) = p.cmd.len /\ p.cmd.len \in Nat
  /\ BusyIo(p) = {j} /\ (IF j = 1 THEN p.io[2] = "none" ELSE p.io[1] = "freed")
  /\ \A i \in 1 .. MaxIo : i \in {1, 2} \/ p.io[i] = "none"
  /\ ~p.failed /\ j \in p.sent /\ (j = 2 => 1 \in p.sent)
  /\ \A i \in p.sent : RangeOK(p.cmd, i)
  /\ MaxIo \in Nat /\ MaxIo >= 2 /\ DOMAIN p.cmd.rng = {1, 2}
  /\ Waits(io_wait_queue, r) = 0
  /\ p.slot \in Slots /\ ctx[p.slot].kind = "echo" /\ ctx[p.slot].req = r
  /\ (j = 2 => CopyHeld(ctx[p.slot].first_result, p.cmd))
  /\ \A s \in Slots \ {p.slot} : ctx[s].req # r

(***************************************************************************)
(* What the inductive invariant says of an ECHO command with a read at the *)
(* bdev.                                                                   *)
(***************************************************************************)
LEMMA EchoBusyFacts ==
  ASSUME IInv, NEW r \in Reqs, NEW j \in 1 .. MaxIo, req[r].io[j] = "busy",
         req[r].cmd.op = "ECHO"
  PROVE  EchoBusy(r, j)
<1> DEFINE p == req[r]
           n == Waits(io_wait_queue, r)
           s0 == p.slot
<1>1. ~OverLimit(p.cmd) /\ "ECHO" \notin OneIo \cup {"DSM"}
  BY ZenonT(60) DEF OverLimit, OneIo, SimpleOps
<1>2. /\ p.st = "exec" /\ p.cpl = 0 /\ p.cmd \in Cmds /\ j \in BusyIo(p)
      /\ Len(p.iov) = p.cmd.len
  BY <1>1, BusyFacts, ZenonT(60)
<1>3. /\ ReqOK(r, p, n, ctx) /\ W.req = req /\ W.ctx = ctx /\ \A s \in Slots : CtxOK(W, s)
      /\ p \in ReqType
  BY StateFacts, ZenonT(60)
<1>4. EchoOK(r, p, ctx) /\ Performed(p) /\ n # 1 /\ \A i \in p.sent : RangeOK(p.cmd, i)
  BY <1>1, <1>2, <1>3, ZenonT(60) DEF ReqOK
<1>5. n = 0
  BY <1>4, ZenonT(60) DEF Waits
<1>6. p.cmd.len \in Nat /\ MaxIo \in Nat /\ MaxIo >= 2 /\ DOMAIN p.cmd.rng = {1, 2}
  <2> DEFINE len == Len(p.cmd.rng)
  <2>1. len = 2
    BY <1>2, FormatAssumption, ZenonT(60)
  <2>2. len \in 1 .. MaxIo /\ DOMAIN p.cmd.rng = 1 .. len /\ p.cmd.len \in Nat /\ MaxIo \in Nat
    BY <1>2, CmdFacts, ZenonT(60)
  <2> HIDE DEF len
  <2>3. QED
    BY <2>1, <2>2
<1>7. /\ j \in {1, 2} /\ \A i \in 1 .. MaxIo : i \in {1, 2} \/ p.io[i] = "none"
      /\ (IF j = 1 THEN p.io[2] = "none" ELSE p.io[1] = "freed")
  BY <1>2, <1>4, ZenonT(60) DEF EchoOK
<1>8. BusyIo(p) = {j}
  BY <1>2, <1>7, ZenonT(60) DEF BusyIo
<1>9. ~p.failed /\ j \in p.sent /\ (j = 2 => 1 \in p.sent)
  BY <1>2, <1>4, <1>6, <1>7 DEF Performed
<1>10. /\ s0 \in Slots /\ ctx[s0].kind = "echo" /\ ctx[s0].req = r
       /\ j = 2 => CopyHeld(ctx[s0].first_result, p.cmd)
  BY <1>2, <1>4, ZenonT(60) DEF EchoOK
<1>11. \A s \in Slots \ {s0} : ctx[s].req # r
  BY <1>3, TypesAssumption DEF CtxOK
<1>12. QED
  BY <1>2, <1>3, <1>4, <1>5, <1>6, <1>7, <1>8, <1>9, <1>10, <1>11, ZenonT(60) DEF EchoBusy

(***************************************************************************)
(* b is the world in which ECHO r has given up its context and is about to *)
(* free I/O j: nothing of it is left at the bdev.                          *)
(***************************************************************************)
EchoOver(r, b) ==
  /\ b \in World /\ b.wq = io_wait_queue /\ \A x \in Reqs \ {r} : b.req[x] = req[x]
  /\ b.ctx[req[r].slot] = FreeCtx
  /\ \A s \in Slots \ {req[r].slot} : b.ctx[s] = ctx[s]
  /\ b.req[r].st = "exec" /\ b.req[r].cpl = 0 /\ b.req[r].cmd = req[r].cmd
  /\ b.req[r].io = req[r].io /\ b.req[r].sent = req[r].sent
  /\ Len(b.req[r].iov) = req[r].cmd.len

(***************************************************************************)
(* The read is given back after the context: the command is left with no   *)
(* I/O and no context.                                                     *)
(***************************************************************************)
LEMMA EchoOverFreed ==
  ASSUME IInv, NEW r \in Reqs, NEW j \in 1 .. MaxIo, EchoBusy(r, j), NEW b, EchoOver(r, b)
  PROVE  LET u == Freed(b, r, j)
         IN /\ InOrder(u) /\ Moves(W, u) /\ BusyIo(u.req[r]) = {}
            /\ u.req[r].st = "exec" /\ u.req[r].cmd = req[r].cmd
            /\ u.req[r].sent = req[r].sent /\ u.req[r].failed = b.req[r].failed
            /\ u.wq = io_wait_queue /\ \A s \in Slots : u.ctx[s].req # r
<1> DEFINE p == req[r]
           u == Freed(b, r, j)
           q == u.req[r]
           s0 == p.slot
<1>1. Elsewhere(b, u, r) /\ GivenBack(b.req[r], q, j) /\ u.wq = b.wq
  BY FreedFacts, ZenonT(60) DEF EchoOver
<1> HIDE DEF u
<1>2. /\ q \in ReqType /\ q.st = "exec" /\ q.cpl = 0 /\ q.cmd = p.cmd /\ q.sent = p.sent
      /\ q.failed = b.req[r].failed /\ Len(q.iov) = p.cmd.len
      /\ q.io = [i \in 1 .. MaxIo |-> IF i = j THEN "freed" ELSE p.io[i]]
  BY <1>1, ZenonT(60) DEF GivenBack, EchoOver
<1>3. /\ u \in World /\ u.wq = io_wait_queue /\ \A x \in Reqs \ {r} : u.req[x] = req[x]
      /\ u.ctx[s0] = FreeCtx /\ \A s \in Slots \ {s0} : u.ctx[s] = ctx[s]
  BY <1>1, ZenonT(60) DEF Elsewhere, EchoOver
<1>4. /\ p.cmd \in Cmds /\ p.cmd.op = "ECHO" /\ p.st = "exec" /\ BusyIo(p) = {j}
      /\ j \in {1, 2} /\ j \in p.sent /\ (j = 2 => 1 \in p.sent)
      /\ \A i \in p.sent : RangeOK(p.cmd, i)
      /\ MaxIo \in Nat /\ MaxIo >= 2
      /\ IF j = 1 THEN p.io[2] = "none" ELSE p.io[1] = "freed"
      /\ \A i \in 1 .. MaxIo : i \in {1, 2} \/ p.io[i] = "none"
      /\ Waits(io_wait_queue, r) = 0 /\ s0 \in Slots
      /\ \A s \in Slots \ {s0} : ctx[s].req # r
      /\ ctx[s0].req = r
  BY ZenonT(60) DEF EchoBusy
<1> HIDE DEF p, q, s0
<1>5. BusyIo(q) = {} /\ \A i \in 1 .. MaxIo : q.io[i] # "held"
  BY <1>2, <1>4 DEF BusyIo
<1>6. ReqOK(r, q, 0, u.ctx)
  <2>1. EchoOK(r, q, u.ctx)
    BY <1>2, <1>4, <1>5 DEF EchoOK
  <2>2. Performed(q)
    BY <1>2, <1>4, <1>5 DEF Performed, SimpleOps
  <2>3. LifeOK(q, 0)
    BY <1>2, <1>5, ZenonT(60) DEF LifeOK
  <2>4. q.cmd.op \notin OneIo /\ q.cmd.op # "DSM"
    BY <1>2, <1>4, ZenonT(60) DEF OneIo, SimpleOps
  <2>5. QED
    BY <1>2, <1>4, <1>5, <2>1, <2>2, <2>3, <2>4 DEF ReqOK, OneIo
<1>7. \A s \in Slots : u.ctx[s].req # r
  BY <1>3, <1>4, TypesAssumption DEF FreeCtx
<1>8. InOrder(u)
  <2> DEFINE R == {r}
  <2>1. CtxOK(u, s0)
    BY <1>3 DEF CtxOK, FreeCtx
  <2>2. \A s \in Slots : u.ctx[s] # ctx[s] \/ ctx[s].req \in R => CtxOK(u, s)
    BY <1>3, <1>4, <2>1, ZenonT(60)
  <2>3. \A s \in Slots : u.ctx[s] = ctx[s] \/ (ctx[s].kind = "echo" => ctx[s].req \in R)
    BY <1>3, <1>4, ZenonT(60)
  <2>4. \A x \in R : ReqOK(x, u.req[x], Waits(io_wait_queue, x), u.ctx) /\ SlotOK(u.req[x])
    BY <1>2, <1>4, <1>6 DEF q, SlotOK
  <2>5. R \in SUBSET Reqs /\ \A x \in Reqs \ R : u.req[x] = req[x]
    BY <1>3, ZenonT(60)
  <2> HIDE DEF R
  <2>6. QED
    BY <1>3, <2>2, <2>3, <2>4, <2>5, Framed, ZenonT(60)
<1>9. Moves(W, u)
  <2>1. W.req = req
    BY StateFacts, ZenonT(60)
  <2>2. QED
    BY <1>2, <1>3, <1>4, <2>1 DEF Moves, p, q
<1>10. QED
  BY <1>2, <1>3, <1>5, <1>7, <1>8, <1>9, ZenonT(60) DEF u, p, q

(***************************************************************************)
(* The end of an ECHO command, with the wait queue served in between,      *)
(* keeps the worlds in order.                                              *)
(***************************************************************************)
LEMMA EchoEnds ==
  ASSUME IInv, ServesWaiters,
         NEW r \in Reqs, NEW j \in 1 .. MaxIo, EchoBusy(r, j), NEW k \in GiveUps,
         NEW b, EchoOver(r, b)
  PROVE  LET v == spdk_bdev_free_io(b, r, j, k)
         IN /\ InOrder(v) /\ Moves(W, v)
            /\ \A sc \in Statuses :
                 (sc = "SUCCESS" => j = 2 /\ ~b.req[r].failed) =>
                    InOrder(Complete(v, r, sc)) /\ Moves(W, Complete(v, r, sc))
<1> DEFINE u == Freed(b, r, j)
           v == spdk_bdev_free_io(b, r, j, k)
<1>1. /\ InOrder(u) /\ Moves(W, u) /\ BusyIo(u.req[r]) = {}
      /\ u.req[r].st = "exec" /\ u.req[r].cmd = req[r].cmd
      /\ u.req[r].sent = req[r].sent /\ u.req[r].failed = b.req[r].failed
      /\ u.wq = io_wait_queue /\ \A s \in Slots : u.ctx[s].req # r
  BY EchoOverFreed
<1>2. b \in World /\ b.wq = io_wait_queue /\ \A x \in Reqs : b.req[x].cmd = req[x].cmd
  BY ZenonT(60) DEF EchoOver
<1>3. Called(u, v) /\ InOrder(v) /\ Moves(W, v)
  BY <1>1, <1>2, FreeInOrder, ZenonT(60)
<1> HIDE DEF u, v
<1>4. /\ Waits(io_wait_queue, r) = 0 /\ req[r].st = "exec" /\ req[r].cmd.op = "ECHO"
      /\ DOMAIN req[r].cmd.rng = {1, 2} /\ j \in req[r].sent /\ (j = 2 => 1 \in req[r].sent)
  BY ZenonT(60) DEF EchoBusy
<1>5. v.req[r] = u.req[r] /\ v.ctx = u.ctx
  BY <1>1, <1>3, <1>4, ZenonT(60) DEF Called
<1>6. ASSUME NEW sc \in Statuses, sc = "SUCCESS" => j = 2 /\ ~b.req[r].failed
      PROVE  InOrder(Complete(v, r, sc)) /\ Moves(W, Complete(v, r, sc))
  <2>1. /\ v.req[r].st = "exec" /\ v.req[r].cmd.op = "ECHO" /\ BusyIo(v.req[r]) = {}
        /\ \A s \in Slots : v.ctx[s].req # r
    BY <1>1, <1>4, <1>5, ZenonT(60)
  <2>2. sc = "SUCCESS" => /\ ~v.req[r].failed
                          /\ DOMAIN v.req[r].cmd.rng \subseteq v.req[r].sent
    BY <1>1, <1>4, <1>5, <1>6
  <2>3. W.req[r].st # "done"
    BY <1>4, StateFacts, ZenonT(60)
  <2>4. QED
    BY <1>3, <2>1, <2>2, <2>3, CompleteKeeps, ZenonT(60)
<1>7. QED
  BY <1>3, <1>6, ZenonT(60) DEF v

(***************************************************************************)
(* The ways the callbacks give up the context.                             *)
(***************************************************************************)
LEMMA EchoFreed ==
  ASSUME IInv, NEW r \in Reqs, NEW j \in 1 .. MaxIo, EchoBusy(r, j), NEW ok \in BOOLEAN
  PROVE  LET w == Free(Settled(r, ok), req[r].slot)
         IN /\ EchoOver(r, w) /\ w.req[r].failed = ~ok
            /\ EchoOver(r, SetSc(w, r, "INTERNAL_DEVICE_ERROR"))
            /\ \A iov \in Seq(Int) : Len(iov) = req[r].cmd.len =>
                 /\ EchoOver(r, SetIov(w, r, iov))
                 /\ SetIov(w, r, iov).req[r].failed = ~ok
<1> DEFINE p == req[r]
           s0 == p.slot
           a == Settled(r, ok)
           w == Free(a, s0)
<1>1. /\ p.st = "exec" /\ p.cpl = 0 /\ ~p.failed /\ Len(p.iov) = p.cmd.len /\ s0 \in Slots
  BY ZenonT(60) DEF EchoBusy
<1>2. Elsewhere(W, a, r) /\ Noted(p, a.req[r], ok) /\ a.wq = io_wait_queue
  BY SettledFacts, ZenonT(60)
<1>3. W.req = req /\ W.ctx = ctx
  BY StateFacts, ZenonT(60)
<1>4. CtxPut(a, w, s0, FreeCtx)
  BY <1>1, <1>2, FreeFacts, ZenonT(60) DEF Elsewhere
<1> HIDE DEF a, w
<1>5. /\ w \in World /\ w.wq = io_wait_queue /\ \A x \in Reqs \ {r} : w.req[x] = req[x]
      /\ w.ctx[s0] = FreeCtx /\ \A s \in Slots \ {s0} : w.ctx[s] = ctx[s]
      /\ Noted(p, w.req[r], ok)
  BY <1>2, <1>3, <1>4, ZenonT(60) DEF Elsewhere, CtxPut
<1>6. /\ w.req[r].st = "exec" /\ w.req[r].cpl = 0 /\ w.req[r].cmd = p.cmd
      /\ w.req[r].io = p.io /\ w.req[r].sent = p.sent /\ w.req[r].iov = p.iov
      /\ w.req[r].failed = ~ok
  BY <1>1, <1>5, ZenonT(60) DEF Noted
<1>7. EchoOver(r, w)
  BY <1>1, <1>5, <1>6, ZenonT(60) DEF EchoOver
<1>8. EchoOver(r, SetSc(w, r, "INTERNAL_DEVICE_ERROR"))
  <2> DEFINE v == SetSc(w, r, "INTERNAL_DEVICE_ERROR")
  <2>1. "INTERNAL_DEVICE_ERROR" \in Statuses
    BY ZenonT(60) DEF Statuses
  <2>2. Elsewhere(w, v, r) /\ OnlyStatus(w.req[r], v.req[r]) /\ v.wq = w.wq
    BY <1>5, <2>1, SetScFacts, ZenonT(60)
  <2> HIDE DEF v
  <2>3. EchoOver(r, v)
    BY <1>1, <1>5, <1>6, <2>2, ZenonT(60) DEF EchoOver, Elsewhere, OnlyStatus
  <2>4. QED
    BY <2>3, ZenonT(60) DEF v
<1>9. ASSUME NEW iov \in Seq(Int), Len(iov) = p.cmd.len
      PROVE  EchoOver(r, SetIov(w, r, iov)) /\ SetIov(w, r, iov).req[r].failed = ~ok
  <2> DEFINE v == SetIov(w, r, iov)
  <2>1. Elsewhere(w, v, r) /\ OnlyIov(w.req[r], v.req[r], iov) /\ v.wq = w.wq
    BY <1>5, SetIovFacts, ZenonT(60)
  <2> HIDE DEF v
  <2>2. EchoOver(r, v) /\ v.req[r].failed = ~ok
    BY <1>1, <1>5, <1>6, <1>9, <2>1, ZenonT(60) DEF EchoOver, Elsewhere, OnlyIov
  <2>3. QED
    BY <2>2, ZenonT(60) DEF v
<1>10. QED
  BY <1>6, <1>7, <1>8, <1>9, ZenonT(60) DEF w, a

(***************************************************************************)
(* The result of ECHO, cut from what ndp_calculate makes of the two reads, *)
(* fits the data buffer, whatever part of it the read filled.              *)
(***************************************************************************)
LEMMA EchoResult ==
  ASSUME NEW first \in Seq(Int), NEW iov \in Seq(Int), NEW i \in Int, NEW n,
         NEW len \in Nat, Len(first) = len, Len(iov) = len
  PROVE  LET result == SubSeq(ndp_calculate(first, Filled(iov, i, n)), 1, len)
         IN /\ Filled(iov, i, n) \in Seq(Int) /\ Len(Filled(iov, i, n)) = len
            /\ result \in Seq(Int) /\ Len(result) = len
<1> DEFINE g == Filled(iov, i, n)
           h == first \o g
<1>1. g \in Seq(Int) /\ Len(g) = len
  BY DEF Filled
<1> HIDE DEF g
<1>2. h \in Seq(Int) /\ Len(h) = len + len
  BY <1>1
<1> HIDE DEF h
<1>3. SubSeq(h, 1, len) \in Seq(Int) /\ Len(SubSeq(h, 1, len)) = len
  BY <1>2
<1>4. QED
  BY <1>1, <1>3, ZenonT(60) DEF ndp_calculate, g, h

(***************************************************************************)
(* nvmf_bdev_ctrlr_second_read_complete.                                   *)
(***************************************************************************)
LEMMA EchoSecond ==
  ASSUME IInv, ServesWaiters,
         NEW r \in Reqs, 2 \in 1 .. MaxIo, nvmf_bdev_ctrlr_second_read_complete(r)
  PROVE  Kept
<1> DEFINE p == req[r]
           s0 == p.slot
<1>1. p.io[2] = "busy" /\ p.cmd.op = "ECHO"
  BY ZenonT(60) DEF nvmf_bdev_ctrlr_second_read_complete, Busy
<1>2. EchoBusy(r, 2)
  BY <1>1, EchoBusyFacts, ZenonT(60)
<1> DEFINE W1(ok) == Free(Settled(r, ok), s0)
           result == ndp_calculate(ctx[s0].first_result, Filled(p.iov, 2, p.cmd.rng[2].n))
           iov == SubSeq(result, 1, p.cmd.len)
<1>3. PICK ok \in BOOLEAN, k \in GiveUps :
        \/ Step(Complete(spdk_bdev_free_io(W1(ok), r, 2, k), r, "INTERNAL_DEVICE_ERROR"))
        \/ /\ ok
           /\ Step(Complete(spdk_bdev_free_io(SetIov(W1(ok), r, iov), r, 2, k), r, "SUCCESS"))
  BY ZenonT(60) DEF nvmf_bdev_ctrlr_second_read_complete, SetIov, Outcomes
<1>4. iov \in Seq(Int) /\ Len(iov) = p.cmd.len
  <2>1. /\ p \in ReqType /\ Len(p.iov) = p.cmd.len /\ p.cmd.len \in Nat
        /\ Len(ctx[s0].first_result) = p.cmd.len /\ s0 \in Slots
    BY <1>2, ZenonT(60) DEF EchoBusy, CopyHeld
  <2>2. ctx[s0] \in CtxType /\ p.iov \in Seq(Int)
    BY <2>1, StateFacts, ReqFields, ZenonT(60)
  <2>3. ctx[s0].first_result \in Seq(Int)
    BY <2>2, ZenonT(60) DEF CtxType
  <2>4. 2 \in Int
    OBVIOUS
  <2> DEFINE first == ctx[s0].first_result
             len == p.cmd.len
             second == p.iov
             n == p.cmd.rng[2].n
  <2>5. first \in Seq(Int) /\ second \in Seq(Int) /\ len \in Nat
        /\ Len(first) = len /\ Len(second) = len
    BY <2>1, <2>2, <2>3, ZenonT(60)
  <2> HIDE DEF first, len, second, n
  <2>6. LET t == SubSeq(ndp_calculate(first, Filled(second, 2, n)), 1, len)
        IN t \in Seq(Int) /\ Len(t) = len
    BY <2>4, <2>5, EchoResult
  <2>7. QED
    BY <2>6, ZenonT(60) DEF first, len, second, n
<1> HIDE DEF iov, result
<1>5. /\ EchoOver(r, W1(ok)) /\ EchoOver(r, SetIov(W1(ok), r, iov))
      /\ SetIov(W1(ok), r, iov).req[r].failed = ~ok
  BY <1>2, <1>4, EchoFreed, ZenonT(60)
<1> DEFINE z1 == Complete(spdk_bdev_free_io(W1(ok), r, 2, k), r, "INTERNAL_DEVICE_ERROR")
           z2 == Complete(spdk_bdev_free_io(SetIov(W1(ok), r, iov), r, 2, k), r, "SUCCESS")
<1>6. "SUCCESS" \in Statuses /\ "INTERNAL_DEVICE_ERROR" \in Statuses
  BY ZenonT(60) DEF Statuses
<1>7. InOrder(z1) /\ Moves(W, z1)
  BY <1>2, <1>5, <1>6, EchoEnds, ZenonT(60)
<1>8. ok => InOrder(z2) /\ Moves(W, z2)
  BY <1>2, <1>5, <1>6, EchoEnds, ZenonT(60)
<1> HIDE DEF z1, z2
<1>9. Step(z1) \/ (ok /\ Step(z2))
  BY <1>3, ZenonT(60) DEF z1, z2
<1>10. QED
  BY <1>7, <1>8, <1>9, StepKeeps, ZenonT(60)

(***************************************************************************)
(* The second read: the context keeps the result of the first and belongs  *)
(* to the command until the second is over.                                *)
(***************************************************************************)
EchoKept(r, ok, iov) ==
  [Settled(r, ok) EXCEPT !.req[r].iov = iov, !.ctx[req[r].slot].first_result = iov]

EchoStays(r, ok, iov, v) ==
  LET s == req[r].slot
      q == v.req[r]
  IN /\ v \in World /\ v.wq = io_wait_queue /\ \A x \in Reqs \ {r} : v.req[x] = req[x]
     /\ \A t \in Slots \ {s} : v.ctx[t] = ctx[t]
     /\ v.ctx[s].kind = "echo" /\ v.ctx[s].req = r /\ v.ctx[s].first_result = iov
     /\ q \in ReqType /\ q.st = "exec" /\ q.cpl = 0 /\ q.cmd = req[r].cmd
     /\ q.io = req[r].io /\ q.slot = s /\ q.iov = iov /\ q.sent = req[r].sent
     /\ q.failed = ~ok

(***************************************************************************)
(* The first result goes to the context, and the context stays with the    *)
(* command.                                                                *)
(***************************************************************************)
LEMMA EchoKeptFacts ==
  ASSUME IInv, NEW r \in Reqs, NEW j \in 1 .. MaxIo, EchoBusy(r, j), NEW ok \in BOOLEAN,
         NEW iov \in Seq(Int)
  PROVE  EchoStays(r, ok, iov, EchoKept(r, ok, iov))
<1> DEFINE p == req[r]
           s0 == p.slot
           a == Settled(r, ok)
           b == SetIov(a, r, iov)
           c == [ctx[s0] EXCEPT !.first_result = iov]
           v == EchoKept(r, ok, iov)
<1>1. /\ p.st = "exec" /\ p.cpl = 0 /\ ~p.failed /\ s0 \in Slots
      /\ ctx[s0].kind = "echo" /\ ctx[s0].req = r
  BY ZenonT(60) DEF EchoBusy
<1>2. W.req = req /\ W.ctx = ctx /\ ctx \in [Slots -> CtxType] /\ ctx[s0] \in CtxType
  BY <1>1, StateFacts, ZenonT(60)
<1>3. c \in CtxType /\ c.kind = "echo" /\ c.req = r /\ c.first_result = iov
  BY <1>1, <1>2, ZenonT(60) DEF CtxType
<1>4. Elsewhere(W, a, r) /\ Noted(p, a.req[r], ok) /\ a.wq = io_wait_queue
  BY SettledFacts, ZenonT(60)
<1>5. Elsewhere(a, b, r) /\ OnlyIov(a.req[r], b.req[r], iov) /\ b.wq = a.wq
  BY <1>4, SetIovFacts, ZenonT(60) DEF Elsewhere
<1>6. a \in World /\ b \in World /\ a.ctx = ctx
  BY <1>2, <1>4, <1>5, ZenonT(60) DEF Elsewhere
<1>7. v = PutCtx(b, s0, c)
  <2> HIDE DEF a
  <2>1. [a EXCEPT !.req[r].iov = iov, !.ctx[s0].first_result = iov] = PutCtx(b, s0, c)
    BY <1>2, <1>6, ZenonT(60) DEF PutCtx, SetIov, World
  <2>2. QED
    BY <2>1, ZenonT(60) DEF EchoKept, a
<1> HIDE DEF a, b, c, v
<1>8. CtxPut(b, v, s0, c)
  BY <1>1, <1>3, <1>6, <1>7, PutCtxFacts, ZenonT(60)
<1>9. /\ v \in World /\ v.wq = io_wait_queue /\ \A x \in Reqs \ {r} : v.req[x] = req[x]
      /\ v.ctx[s0] = c /\ \A t \in Slots \ {s0} : v.ctx[t] = ctx[t]
      /\ v.req[r] = b.req[r]
  BY <1>2, <1>4, <1>5, <1>8, ZenonT(60) DEF Elsewhere, CtxPut
<1>10. /\ b.req[r] \in ReqType /\ b.req[r].st = "exec" /\ b.req[r].cpl = 0
       /\ b.req[r].cmd = p.cmd /\ b.req[r].io = p.io /\ b.req[r].slot = s0
       /\ b.req[r].iov = iov /\ b.req[r].sent = p.sent /\ b.req[r].failed = ~ok
  BY <1>1, <1>4, <1>5, ZenonT(60) DEF Noted, OnlyIov
<1>11. QED
  BY <1>3, <1>9, <1>10, ZenonT(60) DEF v, EchoStays

(***************************************************************************)
(* The second read is submitted before the first is given back.            *)
(***************************************************************************)
LEMMA EchoNext ==
  ASSUME IInv, CountsIo, ServesWaiters,
         NEW r \in Reqs, 1 \in 1 .. MaxIo, EchoBusy(r, 1), NEW k \in GiveUps,
         NEW iov \in Seq(Int), Len(iov) = req[r].cmd.len, CopyHeld(iov, req[r].cmd),
         CanRead(W, req[r].cmd.rng[2])
  PROVE  LET v == spdk_bdev_free_io(Submit(EchoKept(r, TRUE, iov), r, {2}), r, 1, k)
         IN InOrder(v) /\ Moves(W, v)
<1> DEFINE p == req[r]
           s0 == p.slot
           a == EchoKept(r, TRUE, iov)
           b == Submit(a, r, {2})
           u == Freed(b, r, 1)
           q == u.req[r]
<1>1. /\ p.cmd \in Cmds /\ p.cmd.op = "ECHO" /\ p.st = "exec" /\ BusyIo(p) = {1}
      /\ 1 \in p.sent /\ MaxIo \in Nat /\ MaxIo >= 2 /\ p.io[2] = "none"
      /\ \A i \in p.sent : RangeOK(p.cmd, i)
      /\ \A i \in 1 .. MaxIo : i \in {1, 2} \/ p.io[i] = "none"
      /\ Waits(io_wait_queue, r) = 0 /\ s0 \in Slots /\ DOMAIN p.cmd.rng = {1, 2}
      /\ \A s \in Slots \ {s0} : ctx[s].req # r
      /\ ctx[s0].req = r
  BY ZenonT(60) DEF EchoBusy
<1>2. /\ a \in World /\ a.wq = io_wait_queue /\ \A x \in Reqs \ {r} : a.req[x] = req[x]
      /\ \A t \in Slots \ {s0} : a.ctx[t] = ctx[t]
      /\ a.ctx[s0].kind = "echo" /\ a.ctx[s0].req = r /\ a.ctx[s0].first_result = iov
      /\ a.req[r] \in ReqType /\ a.req[r].st = "exec" /\ a.req[r].cpl = 0
      /\ a.req[r].cmd = p.cmd /\ a.req[r].io = p.io /\ a.req[r].slot = s0
      /\ a.req[r].iov = iov /\ a.req[r].sent = p.sent /\ ~a.req[r].failed
  <2>1. EchoStays(r, TRUE, iov, a)
    BY EchoKeptFacts, ZenonT(60)
  <2> HIDE DEF a
  <2>2. QED
    BY <2>1, ZenonT(60) DEF EchoStays
<1>3. 2 \in 1 .. MaxIo /\ {2} \in SUBSET (1 .. MaxIo)
  BY <1>1
<1>4. Elsewhere(a, b, r) /\ Submitted(a.req[r], b.req[r], {2}) /\ b.wq = a.wq
  BY <1>2, <1>3, SubmitFacts, ZenonT(60)
<1> HIDE DEF a, b
<1>5. Elsewhere(b, u, r) /\ GivenBack(b.req[r], q, 1) /\ u.wq = b.wq
  BY <1>4, FreedFacts, ZenonT(60) DEF Elsewhere
<1> HIDE DEF u
<1>6. /\ q \in ReqType /\ q.st = "exec" /\ q.cpl = 0 /\ q.cmd = p.cmd /\ q.slot = s0
      /\ q.iov = iov /\ q.sent = p.sent \cup {2} /\ ~q.failed
      /\ q.io = [i \in 1 .. MaxIo |->
                   IF i = 1 THEN "freed" ELSE IF i = 2 THEN "busy" ELSE p.io[i]]
      /\ b.req[r].cmd = p.cmd
  BY <1>2, <1>4, <1>5 DEF Submitted, GivenBack
<1>7. /\ u \in World /\ u.wq = io_wait_queue /\ \A x \in Reqs \ {r} : u.req[x] = req[x]
      /\ \A t \in Slots \ {s0} : u.ctx[t] = ctx[t]
      /\ u.ctx[s0].kind = "echo" /\ u.ctx[s0].req = r /\ u.ctx[s0].first_result = iov
      /\ b \in World /\ b.wq = io_wait_queue /\ \A x \in Reqs : b.req[x].cmd = req[x].cmd
  BY <1>2, <1>4, <1>5, <1>6 DEF Elsewhere
<1>8. RangeOK(p.cmd, 2)
  BY <1>1, ChecksAreExact, ZenonT(60) DEF CanRead
<1> HIDE DEF p, q, s0
<1>9. BusyIo(q) = {2} /\ \A i \in 1 .. MaxIo : q.io[i] # "held"
  BY <1>1, <1>3, <1>6 DEF BusyIo
<1>10. ReqOK(r, q, 0, u.ctx)
  <2>1. EchoOK(r, q, u.ctx)
    BY <1>1, <1>3, <1>6, <1>7, <1>9 DEF EchoOK, p
  <2>2. Performed(q)
    BY <1>1, <1>3, <1>6, <1>9 DEF Performed, SimpleOps
  <2>3. LifeOK(q, 0)
    BY <1>6, ZenonT(60) DEF LifeOK
  <2>4. q.cmd.op \notin OneIo /\ q.cmd.op # "DSM"
    BY <1>1, <1>6, ZenonT(60) DEF OneIo, SimpleOps
  <2>5. QED
    BY <1>1, <1>6, <1>8, <1>9, <2>1, <2>2, <2>3, <2>4 DEF ReqOK, OneIo, p
<1>11. InOrder(u)
  <2> DEFINE R == {r}
  <2>1. CtxOK(u, s0)
    BY <1>1, <1>6, <1>7 DEF CtxOK, q
  <2>2. \A s \in Slots : u.ctx[s] # ctx[s] \/ ctx[s].req \in R => CtxOK(u, s)
    BY <1>1, <1>7, <2>1, ZenonT(60)
  <2>3. \A s \in Slots : u.ctx[s] = ctx[s] \/ (ctx[s].kind = "echo" => ctx[s].req \in R)
    BY <1>1, <1>7, ZenonT(60)
  <2>4. \A x \in R : ReqOK(x, u.req[x], Waits(io_wait_queue, x), u.ctx) /\ SlotOK(u.req[x])
    BY <1>1, <1>6, <1>10 DEF q, SlotOK
  <2>5. R \in SUBSET Reqs /\ \A x \in Reqs \ R : u.req[x] = req[x]
    BY <1>7, ZenonT(60)
  <2> HIDE DEF R
  <2>6. QED
    BY <1>7, <2>2, <2>3, <2>4, <2>5, Framed, ZenonT(60)
<1>12. Moves(W, u)
  <2>1. W.req = req
    BY StateFacts, ZenonT(60)
  <2>2. QED
    BY <1>1, <1>6, <1>7, <2>1, ZenonT(60) DEF Moves, p, q
<1>13. InOrder(spdk_bdev_free_io(b, r, 1, k)) /\ Moves(W, spdk_bdev_free_io(b, r, 1, k))
  BY <1>7, <1>11, <1>12, FreeInOrder, ZenonT(60) DEF u
<1>14. QED
  BY <1>13, ZenonT(60) DEF b, a

(***************************************************************************)
(* nvmf_bdev_ctrlr_first_read_complete.                                    *)
(***************************************************************************)
LEMMA EchoFirst ==
  ASSUME IInv, CountsIo, ServesWaiters,
         NEW r \in Reqs, 1 \in 1 .. MaxIo, nvmf_bdev_ctrlr_first_read_complete(r)
  PROVE  Kept
<1> DEFINE p == req[r]
           s0 == p.slot
<1>1. p.io[1] = "busy" /\ p.cmd.op = "ECHO"
  BY ZenonT(60) DEF nvmf_bdev_ctrlr_first_read_complete, Busy
<1>2. EchoBusy(r, 1)
  BY <1>1, EchoBusyFacts, ZenonT(60)
<1> DEFINE iov == Filled(p.iov, 1, p.cmd.rng[1].n)
           E(ok) == SetSc(Free(Settled(r, ok), s0), r, "INTERNAL_DEVICE_ERROR")
<1>3. PICK ok \in BOOLEAN, k \in GiveUps :
        \/ Step(Complete(spdk_bdev_free_io(E(ok), r, 1, k), r, "INTERNAL_DEVICE_ERROR"))
        \/ Step(spdk_bdev_free_io(E(ok), r, 1, k))
        \/ /\ ok /\ CanRead(W, p.cmd.rng[2])
           /\ Step(spdk_bdev_free_io(Submit(EchoKept(r, ok, iov), r, {2}), r, 1, k))
  BY ZenonT(60) DEF nvmf_bdev_ctrlr_first_read_complete, SetSc, EchoKept, Outcomes, SubmitSecondRead
<1>4. iov \in Seq(Int) /\ Len(iov) = p.cmd.len /\ CopyHeld(iov, p.cmd)
  <2>1. p \in ReqType /\ Len(p.iov) = p.cmd.len /\ p.cmd.len \in Nat
    BY <1>2, ZenonT(60) DEF EchoBusy
  <2> DEFINE len == p.cmd.len
             old == p.iov
             n == p.cmd.rng[1].n
  <2>2. old \in Seq(Int) /\ len \in Nat /\ Len(old) = len /\ 1 \in Int
    BY <2>1, ReqFields
  <2> HIDE DEF len, old, n
  <2>3. Filled(old, 1, n) \in Seq(Int) /\ Len(Filled(old, 1, n)) = len
    BY <2>2, EchoResult
  <2>4. \A b \in 1 .. len : b <= n => Filled(old, 1, n)[b] = 1
    BY <2>2 DEF Filled
  <2>5. QED
    BY <2>3, <2>4, ZenonT(60) DEF CopyHeld, len, old, n
<1> HIDE DEF iov
<1>5. EchoOver(r, E(ok))
  BY <1>2, EchoFreed, ZenonT(60)
<1> DEFINE z1 == Complete(spdk_bdev_free_io(E(ok), r, 1, k), r, "INTERNAL_DEVICE_ERROR")
           z2 == spdk_bdev_free_io(E(ok), r, 1, k)
           z3 == spdk_bdev_free_io(Submit(EchoKept(r, ok, iov), r, {2}), r, 1, k)
<1>6. "INTERNAL_DEVICE_ERROR" \in Statuses
  BY ZenonT(60) DEF Statuses
<1>7. InOrder(z1) /\ Moves(W, z1) /\ InOrder(z2) /\ Moves(W, z2)
  BY <1>2, <1>5, <1>6, EchoEnds, ZenonT(60)
<1>8. ASSUME ok, CanRead(W, p.cmd.rng[2])
      PROVE  InOrder(z3) /\ Moves(W, z3)
  <2>1. ok = TRUE
    BY <1>8, ZenonT(60)
  <2>2. QED
    BY <1>2, <1>4, <1>8, <2>1, EchoNext, ZenonT(60)
<1> HIDE DEF z1, z2, z3
<1>9. Step(z1) \/ Step(z2) \/ (ok /\ CanRead(W, p.cmd.rng[2]) /\ Step(z3))
  BY <1>3, ZenonT(60) DEF z1, z2, z3
<1>10. QED
  BY <1>7, <1>8, <1>9, StepKeeps, ZenonT(60)

(***************************************************************************)
(* nvmf_bdev_ctrlr_custom_echo_cmd.                                        *)
(***************************************************************************)
LEMMA EchoArrives ==
  ASSUME IInv, CountsIo, NEW r \in Reqs, NEW c \in Cmds, req[r].st = "idle", c.op = "ECHO",
         nvmf_bdev_ctrlr_custom_echo_cmd(Begin(r, c), r, c)
  PROVE  Kept
<1> DEFINE b == Begin(r, c)
           d == [FreeCtx EXCEPT !.kind = "echo", !.req = r]
           Z(s) == [Submit(b, r, {1}) EXCEPT !.req[r].slot = s, !.ctx[s] = d]
<1>1. \/ Step(Complete(b, r, "INTERNAL_DEVICE_ERROR"))
      \/ \E s \in FreeSlots : CanRead(b, c.rng[1]) /\ Step(Z(s))
  BY ZenonT(60) DEF nvmf_bdev_ctrlr_custom_echo_cmd
<1>2. CASE Step(Complete(b, r, "INTERNAL_DEVICE_ERROR"))
  <2>1. "INTERNAL_DEVICE_ERROR" \in Statuses \ {"SUCCESS"}
    BY ZenonT(60) DEF Statuses
  <2>2. QED
    BY <1>2, <2>1, RefusedKeeps, ZenonT(60)
<1>3. ASSUME NEW s \in FreeSlots, CanRead(b, c.rng[1]), Step(Z(s))
      PROVE  Kept
  <2> DEFINE v == Placed(b, r, {1}, s)
             z == Z(s)
             q == v.req[r]
  <2>1. s \in Slots /\ ctx[s].kind = "free"
    BY ZenonT(60) DEF FreeSlots
  <2>2. DOMAIN c.rng = {1, 2} /\ MaxIo \in Nat /\ MaxIo >= 2
    <3> DEFINE len == Len(c.rng)
    <3>1. len = 2 /\ len \in 1 .. MaxIo /\ MaxIo \in Nat /\ DOMAIN c.rng = 1 .. len
      BY FormatAssumption, CmdFacts, ZenonT(60)
    <3> HIDE DEF len
    <3>2. QED
      BY <3>1
  <2>3. {1} \in SUBSET (1 .. MaxIo) /\ 1 \in 1 .. MaxIo /\ 2 \in 1 .. MaxIo
    BY <2>2
  <2>4. Elsewhere(W, v, r) /\ PlacedAt(q, c, {1}, s) /\ v.wq = io_wait_queue
    BY <2>1, <2>3, PlacedFacts, ZenonT(60)
  <2>5. d \in CtxType /\ d.kind = "echo" /\ d.req = r
    <3>1. FreeCtx \in CtxType
      BY DEF FreeCtx, CtxType
    <3>2. QED
      BY <3>1, ZenonT(60) DEF CtxType
  <2>6. RangeOK(c, 1)
    BY <1>3, <2>2, ChecksAreExact, ZenonT(60) DEF CanRead
  <2>7. z = PutCtx(v, s, d)
    <3> DEFINE a == Submit(b, r, {1})
    <3>1. a \in World
      <4>1. b \in World
        BY BeginFacts, ZenonT(60) DEF Elsewhere
      <4>2. QED
        BY <2>3, <4>1, SubmitFacts, ZenonT(60) DEF Elsewhere
    <3> HIDE DEF a, d
    <3>2. [a EXCEPT !.req[r].slot = s, !.ctx[s] = d]
            = PutCtx([a EXCEPT !.req[r].slot = s], s, d)
      BY <3>1, ZenonT(60) DEF PutCtx, World
    <3>3. QED
      BY <3>2, ZenonT(60) DEF Placed, a
  <2>8. Step(z) /\ W.ctx = ctx /\ W.req = req
    BY <1>3, StateFacts, ZenonT(60)
  <2>9. /\ Waits(io_wait_queue, r) = 0 /\ \A t \in Slots : ctx[t].req # r
    BY BeginFacts, ZenonT(60)
  <2> HIDE DEF v, d, z, b
  <2>10. CtxPut(v, z, s, d)
    BY <2>1, <2>4, <2>5, <2>7, PutCtxFacts, ZenonT(60) DEF Elsewhere
  <2>11. /\ z \in World /\ z.wq = io_wait_queue /\ \A x \in Reqs \ {r} : z.req[x] = req[x]
         /\ z.ctx[s] = d /\ \A t \in Slots \ {s} : z.ctx[t] = ctx[t]
         /\ z.req[r] = q
    BY <2>4, <2>8, <2>10, ZenonT(60) DEF Elsewhere, CtxPut
  <2> HIDE DEF q
  <2>12. /\ q.st = "exec" /\ q.cpl = 0 /\ q.cmd = c /\ q.slot = s /\ Len(q.iov) = c.len
         /\ q.sent = {1} /\ ~q.failed
         /\ q.io = [j \in 1 .. MaxIo |-> IF j \in {1} THEN "busy" ELSE "none"]
    BY <2>4, ZenonT(60) DEF PlacedAt
  <2>13. BusyIo(q) = {1} /\ \A i \in 1 .. MaxIo : q.io[i] # "held"
    BY <2>3, <2>12 DEF BusyIo
  <2>14. ReqOK(r, q, 0, z.ctx)
    <3>1. EchoOK(r, q, z.ctx)
      BY <2>1, <2>3, <2>5, <2>11, <2>12, <2>13 DEF EchoOK
    <3>2. Performed(q)
      BY <2>12, ZenonT(60) DEF Performed, SimpleOps
    <3>3. LifeOK(q, 0)
      BY <2>12, ZenonT(60) DEF LifeOK
    <3>4. q.cmd.op \notin OneIo /\ q.cmd.op # "DSM" /\ q.cmd.op # "HEAAN_ADD"
      BY <2>12, ZenonT(60) DEF OneIo, SimpleOps
    <3>5. QED
      BY <2>6, <2>12, <2>13, <3>1, <3>2, <3>3, <3>4 DEF ReqOK, OneIo
  <2>15. CtxOK(z, s) /\ SlotOK(q)
    BY <2>5, <2>11, <2>12, ZenonT(60) DEF CtxOK, SlotOK
  <2>16. InOrder(z) /\ Moves(W, z)
    BY <2>1, <2>9, <2>11, <2>12, <2>14, <2>15, Arrives
  <2>17. QED
    BY <2>8, <2>16, StepKeeps, ZenonT(60)
<1>4. QED
  BY <1>1, <1>2, <1>3, ZenonT(60)

-----------------------------------------------------------------------------
(***************************************************************************)
(* What a HEAAN_ADD command needs to be in order.                          *)
(***************************************************************************)
LEMMA HeaanInOrder ==
  ASSUME NEW x, NEW q, NEW n, NEW cx, q.st # "idle", q.cmd \in Cmds, q.cmd.op = "HEAAN_ADD",
         Len(q.iov) = q.cmd.len, \A j \in q.sent : RangeOK(q.cmd, j),
         BusyIo(q) # {} => q.slot \in Slots, n = 0, q.cpl = IF q.st = "done" THEN 1 ELSE 0
  PROVE  ReqOK(x, q, n, cx)
<1>1. LifeOK(q, n)
  BY DEF LifeOK
<1>2. q.cmd.op \notin OneIo /\ q.cmd.op \notin SimpleOps \cup {"DSM", "ECHO"}
  BY ZenonT(60) DEF OneIo, SimpleOps
<1>3. QED
  BY <1>1, <1>2 DEF ReqOK

(***************************************************************************)
(* The state of a HEAAN_ADD command that is not idle.                      *)
(***************************************************************************)
HeaanFacts(p) ==
  /\ p \in ReqType /\ p.cmd \in Cmds /\ p.cmd.op = "HEAAN_ADD" /\ Len(p.iov) = p.cmd.len
  /\ p.st # "idle" /\ (p.cpl = IF p.st = "done" THEN 1 ELSE 0)
  /\ \A j \in p.sent : RangeOK(p.cmd, j)
  /\ BusyIo(p) # {} => p.slot \in Slots

(***************************************************************************)
(* What the inductive invariant says of a HEAAN_ADD command.               *)
(***************************************************************************)
LEMMA HeaanState ==
  ASSUME IInv, NEW x \in Reqs, req[x].st # "idle", req[x].cmd.op = "HEAAN_ADD"
  PROVE  HeaanFacts(req[x]) /\ Waits(io_wait_queue, x) = 0
<1>1. ReqOK(x, req[x], Waits(io_wait_queue, x), ctx) /\ req[x] \in ReqType
  BY StateFacts, ZenonT(60)
<1>2. req[x].cmd.op \notin OneIo \cup {"DSM"} /\ ~OverLimit(req[x].cmd)
  BY ZenonT(60) DEF OneIo, SimpleOps, OverLimit
<1>3. LifeOK(req[x], Waits(io_wait_queue, x)) /\ Waits(io_wait_queue, x) # 1
  BY <1>1, <1>2, ZenonT(60) DEF ReqOK
<1>4. Waits(io_wait_queue, x) = 0
  BY <1>3, ZenonT(60) DEF Waits
<1>5. HeaanFacts(req[x])
  BY <1>1, <1>3, ZenonT(60) DEF ReqOK, LifeOK, HeaanFacts
<1>6. QED
  BY <1>4, <1>5, ZenonT(60)

(***************************************************************************)
(* What a HEAAN_ADD callback may change before it completes a command: the *)
(* I/O of HEAAN_ADD commands, and HEAAN_ADD contexts, which it counts down *)
(* or frees.                                                               *)
(***************************************************************************)
HeaanMoved(p, q) ==
  /\ HeaanFacts(p) /\ q \in ReqType
  /\ q.st = p.st /\ q.sc = p.sc /\ q.cpl = p.cpl
  /\ q.cmd = p.cmd /\ q.slot = p.slot /\ q.iov = p.iov
  /\ p.slot \in Slots /\ \A i \in q.sent : RangeOK(q.cmd, i)

CtxMoved(c, d) ==
  \/ d = c
  \/ /\ c.kind \in {"fill", "write"}
     /\ d = FreeCtx \/ (d.kind \in {"fill", "write"} /\ d.req = c.req)

(***************************************************************************)
(* Such changes keep the worlds in order.                                  *)
(***************************************************************************)
LEMMA HeaanFramed ==
  ASSUME IInv, NEW u \in World, u.wq = io_wait_queue,
         \A x \in Reqs : u.req[x] = req[x] \/ HeaanMoved(req[x], u.req[x]),
         \A s \in Slots : CtxMoved(ctx[s], u.ctx[s])
  PROVE  InOrder(u) /\ Moves(W, u)
<1> DEFINE R == {x \in Reqs : u.req[x] # req[x]}
<1>1. /\ W.req = req /\ W.ctx = ctx /\ \A s \in Slots : CtxOK(W, s)
  BY StateFacts, ZenonT(60)
<1>2. /\ R \in SUBSET Reqs /\ \A x \in Reqs \ R : u.req[x] = req[x]
      /\ \A x \in R : x \in Reqs /\ HeaanMoved(req[x], u.req[x])
  BY ZenonT(60)
<1> HIDE DEF R
<1>3. ASSUME NEW x \in R
      PROVE  ReqOK(x, u.req[x], Waits(io_wait_queue, x), u.ctx) /\ SlotOK(u.req[x])
  <2>1. x \in Reqs /\ HeaanMoved(req[x], u.req[x]) /\ HeaanFacts(req[x])
    BY <1>2, ZenonT(60) DEF HeaanMoved
  <2>2. Waits(io_wait_queue, x) = 0
    BY <2>1, HeaanState, ZenonT(60) DEF HeaanFacts
  <2>3. ReqOK(x, u.req[x], Waits(io_wait_queue, x), u.ctx)
    BY <2>1, <2>2, HeaanInOrder DEF HeaanMoved, HeaanFacts
  <2>4. QED
    BY <2>1, <2>3, ZenonT(60) DEF HeaanMoved, HeaanFacts, SlotOK
<1>4. \A x \in Reqs : /\ u.req[x].st = req[x].st /\ u.req[x].sc = req[x].sc
                      /\ u.req[x].cmd = req[x].cmd /\ u.req[x].slot = req[x].slot
  BY ZenonT(60) DEF HeaanMoved
<1>5. ASSUME NEW s \in Slots
      PROVE  CtxOK(u, s)
  <2>1. CtxOK(W, s) /\ CtxMoved(ctx[s], u.ctx[s])
    BY <1>1, ZenonT(60)
  <2>2. QED
    BY <1>1, <1>4, <2>1 DEF CtxOK, CtxMoved, FreeCtx
<1>6. \A s \in Slots : u.ctx[s] = ctx[s] \/ (ctx[s].kind = "echo" => ctx[s].req \in R)
  BY ZenonT(60) DEF CtxMoved
<1>7. InOrder(u)
  BY <1>2, <1>3, <1>5, <1>6, Framed, ZenonT(60)
<1>8. Moves(W, u)
  BY <1>1, <1>4, ZenonT(60) DEF Moves
<1>9. QED
  BY <1>7, <1>8, ZenonT(60)

(***************************************************************************)
(* The worlds such a callback goes through.                                *)
(***************************************************************************)
HeaanWorld(u) ==
  /\ u \in World /\ u.wq = io_wait_queue
  /\ \A x \in Reqs : u.req[x] = req[x] \/ HeaanMoved(req[x], u.req[x])
  /\ \A s \in Slots : CtxMoved(ctx[s], u.ctx[s])

(***************************************************************************)
(* Changing the I/O of one more HEAAN_ADD command gives such a world.      *)
(***************************************************************************)
LEMMA HeaanPut ==
  ASSUME NEW w, HeaanWorld(w), NEW v, NEW r \in Reqs, Elsewhere(w, v, r), v.wq = w.wq,
         HeaanMoved(req[r], v.req[r])
  PROVE  HeaanWorld(v)
  BY ZenonT(60) DEF HeaanWorld, Elsewhere

(***************************************************************************)
(* Changing one more HEAAN_ADD context gives such a world.                 *)
(***************************************************************************)
LEMMA HeaanPutCtx ==
  ASSUME NEW w, HeaanWorld(w), NEW s \in Slots, NEW c \in CtxType, CtxMoved(ctx[s], c)
  PROVE  HeaanWorld(PutCtx(w, s, c)) /\ CtxPut(w, PutCtx(w, s, c), s, c)
<1>1. CtxPut(w, PutCtx(w, s, c), s, c)
  BY PutCtxFacts, ZenonT(60) DEF HeaanWorld
<1> DEFINE v == PutCtx(w, s, c)
<1> HIDE DEF v
<1>2. HeaanWorld(v)
  <2>1. CtxPut(w, v, s, c)
    BY <1>1, ZenonT(60) DEF v
  <2>2. QED
    BY <2>1, ZenonT(60) DEF HeaanWorld, CtxPut
<1>3. QED
  BY <1>1, <1>2, ZenonT(60) DEF v

(***************************************************************************)
(* An I/O of a HEAAN_ADD command is over: its descriptor is kept.          *)
(***************************************************************************)
KeptBack(p, q, j) ==
  /\ q \in ReqType
  /\ q.io = [i \in 1 .. MaxIo |-> IF i = j THEN "held" ELSE p.io[i]]
  /\ q.st = p.st /\ q.sc = p.sc /\ q.cpl = p.cpl
  /\ q.cmd = p.cmd /\ q.slot = p.slot /\ q.iov = p.iov /\ q.sent = p.sent

(***************************************************************************)
(* Keeping a descriptor changes nothing else.                              *)
(***************************************************************************)
LEMMA HeldFacts ==
  ASSUME NEW w \in World, NEW r \in Reqs, NEW j \in 1 .. MaxIo
  PROVE  LET v == Held(w, r, j)
         IN Elsewhere(w, v, r) /\ KeptBack(w.req[r], v.req[r], j) /\ v.wq = w.wq
<1> DEFINE p == w.req[r]
           io == [i \in 1 .. MaxIo |-> IF i = j THEN "held" ELSE p.io[i]]
           f == [p EXCEPT !.io = io]
           v == Held(w, r, j)
<1>1. p \in ReqType /\ p.io \in [1 .. MaxIo -> IoStates]
  BY WorldFacts, ReqFields, ZenonT(60)
<1>2. io \in [1 .. MaxIo -> IoStates] /\ [p.io EXCEPT ![j] = "held"] = io
  BY <1>1, ZenonT(60) DEF IoStates
<1> HIDE DEF io
<1>3. f \in ReqType
  BY <1>1, <1>2, ZenonT(60) DEF ReqType
<1>4. v = Put(w, r, f)
  BY <1>2, ZenonT(60) DEF Held, Put, World
<1>5. KeptBack(p, f, j)
  BY <1>1, <1>3, ZenonT(60) DEF KeptBack, ReqType, io
<1> HIDE DEF f, v, p
<1>6. /\ v \in World /\ v.ctx = w.ctx /\ v.wq = w.wq
      /\ \A x \in Reqs \ {r} : v.req[x] = w.req[x]
      /\ v.req[r] = f
  BY <1>3, <1>4, PutReq
<1>7. QED
  BY <1>5, <1>6, ZenonT(60) DEF Elsewhere, v, p

(***************************************************************************)
(* Held, freed and submitted I/O.                                          *)
(***************************************************************************)
LEMMA HeaanIo ==
  ASSUME CountsIo, NEW w, HeaanWorld(w), NEW r \in Reqs, HeaanMoved(req[r], w.req[r])
  PROVE  /\ \A j \in 1 .. MaxIo :
              /\ HeaanWorld(Held(w, r, j)) /\ Elsewhere(w, Held(w, r, j), r)
              /\ HeaanMoved(req[r], Held(w, r, j).req[r])
              /\ HeaanWorld(Freed(w, r, j)) /\ Elsewhere(w, Freed(w, r, j), r)
         /\ \A J \in SUBSET (1 .. MaxIo) :
              (\A i \in J : RangeOK(req[r].cmd, i)) =>
                HeaanWorld(Submit(w, r, J)) /\ Elsewhere(w, Submit(w, r, J), r)
<1>1. w \in World
  BY ZenonT(60) DEF HeaanWorld
<1>2. ASSUME NEW j \in 1 .. MaxIo
      PROVE  /\ HeaanWorld(Held(w, r, j)) /\ Elsewhere(w, Held(w, r, j), r)
             /\ HeaanMoved(req[r], Held(w, r, j).req[r])
  <2> DEFINE v == Held(w, r, j)
  <2>1. Elsewhere(w, v, r) /\ KeptBack(w.req[r], v.req[r], j) /\ v.wq = w.wq
    BY <1>1, HeldFacts, ZenonT(60)
  <2> HIDE DEF v
  <2>2. HeaanMoved(req[r], v.req[r])
    BY <2>1, ZenonT(60) DEF HeaanMoved, KeptBack, BusyIo
  <2>3. QED
    BY <2>1, <2>2, HeaanPut, ZenonT(60) DEF v
<1>3. ASSUME NEW j \in 1 .. MaxIo
      PROVE  HeaanWorld(Freed(w, r, j)) /\ Elsewhere(w, Freed(w, r, j), r)
  <2> DEFINE v == Freed(w, r, j)
  <2>1. Elsewhere(w, v, r) /\ GivenBack(w.req[r], v.req[r], j) /\ v.wq = w.wq
    BY <1>1, FreedFacts, ZenonT(60)
  <2> HIDE DEF v
  <2>2. HeaanMoved(req[r], v.req[r])
    BY <2>1, ZenonT(60) DEF HeaanMoved, GivenBack, BusyIo
  <2>3. QED
    BY <2>1, <2>2, HeaanPut, ZenonT(60) DEF v
<1>4. ASSUME NEW J \in SUBSET (1 .. MaxIo), \A i \in J : RangeOK(req[r].cmd, i)
      PROVE  HeaanWorld(Submit(w, r, J)) /\ Elsewhere(w, Submit(w, r, J), r)
  <2> DEFINE v == Submit(w, r, J)
  <2>1. Elsewhere(w, v, r) /\ Submitted(w.req[r], v.req[r], J) /\ v.wq = w.wq
    BY <1>1, SubmitFacts, ZenonT(60)
  <2> HIDE DEF v
  <2>2. HeaanMoved(req[r], v.req[r])
    BY <1>4, <2>1, ZenonT(60) DEF HeaanMoved, Submitted, BusyIo
  <2>3. QED
    BY <2>1, <2>2, HeaanPut, ZenonT(60) DEF v
<1>5. QED
  BY <1>2, <1>3, <1>4, ZenonT(60)

(***************************************************************************)
(* A HEAAN_ADD command with I/O at the bdev, and the owner of its context. *)
(***************************************************************************)
LEMMA HeaanBusy ==
  ASSUME IInv, NEW r \in Reqs, NEW j \in 1 .. MaxIo, req[r].io[j] = "busy",
         req[r].cmd.op = "HEAAN_ADD"
  PROVE  HeaanFacts(req[r]) /\ HeaanMoved(req[r], req[r]) /\ req[r].slot \in Slots
<1>1. req[r].st # "idle" /\ j \in BusyIo(req[r])
  BY BusyFacts, ZenonT(60)
<1>2. HeaanFacts(req[r])
  BY <1>1, HeaanState, ZenonT(60)
<1>3. QED
  BY <1>1, <1>2, ZenonT(60) DEF HeaanFacts, HeaanMoved

(***************************************************************************)
(* A context that is not dangling belongs to a HEAAN_ADD command being     *)
(* executed, which has no other.                                           *)
(***************************************************************************)
LEMMA HeaanOwner ==
  ASSUME IInv, NEW s \in Slots, ~Dangling(s)
  PROVE  LET o == ctx[s].req
         IN /\ o \in Reqs /\ req[o].slot = s /\ req[o].st = "exec"
            /\ req[o].cmd \in Cmds /\ req[o].cmd.op = "HEAAN_ADD"
            /\ HeaanMoved(req[o], req[o]) /\ Waits(io_wait_queue, o) = 0
            /\ \A t \in Slots \ {s} : ctx[t].req # o
<1> DEFINE o == ctx[s].req
<1>1. W.req = req /\ W.ctx = ctx /\ \A t \in Slots : CtxOK(W, t)
  BY StateFacts, ZenonT(60)
<1>2. CtxOK(W, s) /\ ctx[s].kind # "free" /\ ctx[s].kind # "echo"
  BY <1>1, ZenonT(60) DEF Dangling
<1>3. /\ o \in Reqs /\ req[o].slot = s /\ req[o].st = "exec"
      /\ req[o].cmd \in Cmds /\ req[o].cmd.op = "HEAAN_ADD"
  BY <1>1, <1>2, ZenonT(60) DEF CtxOK
<1> HIDE DEF o
<1>4. HeaanFacts(req[o]) /\ Waits(io_wait_queue, o) = 0
  BY <1>3, HeaanState, ZenonT(60)
<1>5. HeaanMoved(req[o], req[o])
  BY <1>3, <1>4, ZenonT(60) DEF HeaanFacts, HeaanMoved
<1>6. \A t \in Slots \ {s} : ctx[t].req # o
  BY <1>1, <1>3, TypesAssumption DEF CtxOK
<1>7. QED
  BY <1>3, <1>4, <1>5, <1>6, ZenonT(60) DEF o

(***************************************************************************)
(* The outcome noted and the context counted down.                         *)
(***************************************************************************)
HeaanCounted(r, ok, n) == [Settled(r, ok) EXCEPT !.ctx[req[r].slot].pending_fills = n]

HeaanCountedBy(r, w) ==
  LET s == req[r].slot
  IN /\ HeaanWorld(w) /\ HeaanMoved(req[r], w.req[r])
     /\ \A x \in Reqs \ {r} : w.req[x] = req[x]
     /\ w.ctx[s] \in CtxType
     /\ w.ctx[s].kind \in {"fill", "write"} /\ w.ctx[s].req = ctx[s].req
     /\ \A t \in Slots \ {s} : w.ctx[t] = ctx[t]

(***************************************************************************)
(* Noting the outcome and counting down changes the request and its        *)
(* context only.                                                           *)
(***************************************************************************)
LEMMA HeaanCountedFacts ==
  ASSUME IInv, NEW r \in Reqs, NEW j \in 1 .. MaxIo, req[r].io[j] = "busy",
         req[r].cmd.op = "HEAAN_ADD", NEW ok \in BOOLEAN, NEW n \in Int,
         ~Dangling(req[r].slot)
  PROVE  HeaanCountedBy(r, HeaanCounted(r, ok, n))
<1> DEFINE s == req[r].slot
           a == Settled(r, ok)
           c == [ctx[s] EXCEPT !.pending_fills = n]
           w == HeaanCounted(r, ok, n)
<1>1. HeaanFacts(req[r]) /\ HeaanMoved(req[r], req[r]) /\ s \in Slots
  BY HeaanBusy, ZenonT(60)
<1>2. /\ W.req = req /\ W.ctx = ctx /\ ctx[s] \in CtxType /\ W \in World
      /\ W.wq = io_wait_queue
  BY <1>1, StateFacts, ZenonT(60)
<1>3. c \in CtxType /\ c.kind = ctx[s].kind /\ c.req = ctx[s].req
  BY <1>2, ZenonT(60) DEF CtxType
<1>4. Elsewhere(W, a, r) /\ Noted(req[r], a.req[r], ok) /\ a.wq = io_wait_queue
  BY SettledFacts, ZenonT(60)
<1>5. a \in World /\ a.ctx = ctx
  BY <1>2, <1>4, ZenonT(60) DEF Elsewhere
<1>6. w = PutCtx(a, s, c)
  <2> HIDE DEF a
  <2>1. [a EXCEPT !.ctx[s].pending_fills = n] = PutCtx(a, s, c)
    BY <1>5, ZenonT(60) DEF PutCtx, World
  <2>2. QED
    BY <2>1, ZenonT(60) DEF HeaanCounted, a
<1> HIDE DEF a, c, w, s
<1>7. HeaanMoved(req[r], a.req[r])
  BY <1>1, <1>4, ZenonT(60) DEF HeaanMoved, Noted, BusyIo
<1>8. HeaanWorld(a)
  BY <1>2, <1>4, <1>5, <1>7, ZenonT(60) DEF HeaanWorld, Elsewhere, CtxMoved
<1>9. c.kind \in {"fill", "write"} /\ CtxMoved(ctx[s], c)
  BY <1>3, ZenonT(60) DEF CtxMoved, Dangling, s
<1>10. HeaanWorld(w) /\ CtxPut(a, w, s, c)
  BY <1>1, <1>3, <1>6, <1>8, <1>9, HeaanPutCtx, ZenonT(60)
<1>11. /\ HeaanMoved(req[r], w.req[r]) /\ \A x \in Reqs \ {r} : w.req[x] = req[x]
       /\ w.ctx[s] = c /\ \A t \in Slots \ {s} : w.ctx[t] = ctx[t]
  BY <1>2, <1>4, <1>5, <1>7, <1>10, ZenonT(60) DEF Elsewhere, CtxPut
<1>12. QED
  BY <1>3, <1>9, <1>10, <1>11, ZenonT(60) DEF HeaanCountedBy, w, s

(***************************************************************************)
(* The ends of a phase: the context is freed, the I/O given back, and the  *)
(* owner of the context, which may be another command than the I/O's, is   *)
(* completed.                                                              *)
(***************************************************************************)
LEMMA HeaanEnds ==
  ASSUME IInv, CountsIo, ServesWaiters,
         NEW r \in Reqs, NEW j \in 1 .. MaxIo, NEW k \in GiveUps, NEW w,
         req[r].slot \in Slots, ~Dangling(req[r].slot), HeaanCountedBy(r, w),
         NEW sc \in Statuses
  PROVE  LET z == Complete(spdk_bdev_free_io(Free(w, req[r].slot), r, j, k),
                           ctx[req[r].slot].req, sc)
         IN InOrder(z) /\ Moves(W, z)
<1> DEFINE s == req[r].slot
           o == ctx[s].req
           b == Free(w, s)
           u == Freed(b, r, j)
           v == spdk_bdev_free_io(b, r, j, k)
<1>1. /\ o \in Reqs /\ req[o].slot = s /\ req[o].st = "exec" /\ req[o].cmd.op = "HEAAN_ADD"
      /\ Waits(io_wait_queue, o) = 0 /\ \A t \in Slots \ {s} : ctx[t].req # o
  BY HeaanOwner, ZenonT(60)
<1>2. /\ HeaanWorld(w) /\ HeaanMoved(req[r], w.req[r]) /\ s \in Slots /\ ~Dangling(s)
      /\ \A t \in Slots \ {s} : w.ctx[t] = ctx[t]
  BY ZenonT(60) DEF HeaanCountedBy
<1> HIDE DEF s, o
<1>3. FreeCtx \in CtxType /\ CtxMoved(ctx[s], FreeCtx)
  BY <1>2 DEF FreeCtx, CtxType, CtxMoved, Dangling
<1>4. HeaanWorld(b) /\ CtxPut(w, b, s, FreeCtx)
  <2>1. b = PutCtx(w, s, FreeCtx)
    BY <1>2, ZenonT(60) DEF Free, PutCtx, World, HeaanWorld
  <2> HIDE DEF FreeCtx
  <2>2. QED
    BY <1>2, <1>3, <2>1, HeaanPutCtx, ZenonT(60)
<1> HIDE DEF b
<1>5. HeaanMoved(req[r], b.req[r])
  BY <1>2, <1>4, ZenonT(60) DEF CtxPut
<1>6. HeaanWorld(u) /\ Elsewhere(b, u, r)
  BY <1>4, <1>5, HeaanIo, ZenonT(60)
<1> HIDE DEF u
<1>7. InOrder(u) /\ Moves(W, u)
  BY <1>6, HeaanFramed, ZenonT(60) DEF HeaanWorld
<1>8. b \in World /\ b.wq = io_wait_queue /\ \A x \in Reqs : b.req[x].cmd = req[x].cmd
  BY <1>4, ZenonT(60) DEF HeaanWorld, HeaanMoved
<1>9. Called(u, v) /\ InOrder(v) /\ Moves(W, v)
  BY <1>7, <1>8, FreeInOrder, ZenonT(60) DEF u
<1> HIDE DEF v
<1>10. /\ u.wq = io_wait_queue /\ u.req[o].st = "exec" /\ u.req[o].cmd.op = "HEAAN_ADD"
  BY <1>1, <1>6, ZenonT(60) DEF HeaanWorld, HeaanMoved
<1>11. v.req[o] = u.req[o] /\ v.ctx = u.ctx
  BY <1>1, <1>9, <1>10, ZenonT(60) DEF Called
<1>12. \A t \in Slots : v.ctx[t].req # o
  <2>1. u.ctx = b.ctx /\ b.ctx[s] = FreeCtx /\ \A t \in Slots \ {s} : b.ctx[t] = w.ctx[t]
    BY <1>4, <1>6, ZenonT(60) DEF Elsewhere, CtxPut
  <2>2. FreeCtx.req = None
    BY ZenonT(60) DEF FreeCtx
  <2>3. QED
    BY <1>1, <1>2, <1>11, <2>1, <2>2, TypesAssumption
<1>13. W.req[o].st # "done"
  BY <1>1, StateFacts, ZenonT(60)
<1>14. v.req[o].st = "exec" /\ v.req[o].cmd.op = "HEAAN_ADD"
  BY <1>10, <1>11, ZenonT(60)
<1>15. InOrder(Complete(v, o, sc)) /\ Moves(W, Complete(v, o, sc))
  BY <1>1, <1>9, <1>12, <1>13, <1>14, CompleteKeeps, ZenonT(60)
<1>16. QED
  BY <1>15, ZenonT(60) DEF o, s, v, b

(***************************************************************************)
(* The last input is there: the target extents the bdev accepts are        *)
(* written.                                                                *)
(***************************************************************************)
LEMMA HeaanWrites ==
  ASSUME IInv, CountsIo, NEW r \in Reqs, NEW j \in 1 .. MaxIo, NEW w,
         req[r].slot \in Slots, ~Dangling(req[r].slot), HeaanCountedBy(r, w)
  PROVE  LET z == WriteTargets(Held(w, r, j), ctx[req[r].slot].req, req[r].slot)
         IN InOrder(z) /\ Moves(W, z)
<1> DEFINE s == req[r].slot
           o == ctx[s].req
           b == Held(w, r, j)
           c == req[o].cmd
           targets == {i \in DOMAIN c.rng : i > c.arg}
           valid == {i \in targets : BytesValid(c.rng[i])}
           written == {i \in valid : Cardinality({h \in valid : h <= i}) <= Avail(b)}
           n == Cardinality(targets)
           v == Submit(b, o, written)
           d == [v.ctx[s] EXCEPT !.kind = "write", !.pending_fills = n]
           z == WriteTargets(b, o, s)
<1>1. /\ o \in Reqs /\ req[o].st = "exec" /\ c \in Cmds /\ c.op = "HEAAN_ADD"
      /\ HeaanMoved(req[o], req[o]) /\ ctx[s].req = o
  BY HeaanOwner, ZenonT(60)
<1>2. /\ HeaanWorld(w) /\ HeaanMoved(req[r], w.req[r]) /\ w.ctx[s] \in CtxType
      /\ \A x \in Reqs \ {r} : w.req[x] = req[x]
      /\ w.ctx[s].kind \in {"fill", "write"} /\ w.ctx[s].req = o
      /\ s \in Slots /\ ~Dangling(s)
  BY ZenonT(60) DEF HeaanCountedBy
<1> HIDE DEF s, o
<1>3. HeaanWorld(b) /\ Elsewhere(w, b, r) /\ HeaanMoved(req[r], b.req[r])
  BY <1>2, HeaanIo, ZenonT(60)
<1> HIDE DEF b
<1>4. HeaanMoved(req[o], b.req[o])
  BY <1>1, <1>2, <1>3, ZenonT(60) DEF Elsewhere
<1>5. targets \subseteq 1 .. MaxIo
  <2> DEFINE len == Len(c.rng)
  <2>1. len \in 1 .. MaxIo /\ DOMAIN c.rng = 1 .. len /\ MaxIo \in Nat
    BY <1>1, CmdFacts, ZenonT(60)
  <2> HIDE DEF len, c
  <2>2. QED
    BY <2>1
<1>6. n \in Int
  BY <1>5 DEF CountsIo
<1>7. written \in SUBSET (1 .. MaxIo) /\ \A i \in written : i \in DOMAIN c.rng /\ BytesValid(c.rng[i])
  BY <1>5, ZenonT(60)
<1>8. \A i \in written : RangeOK(c, i)
  BY <1>1, <1>7, ChecksAreExact, ZenonT(60)
<1>9. z = PutCtx(v, s, d)
  <2>1. v \in World
    BY <1>1, <1>3, <1>7, SubmitFacts, ZenonT(60) DEF HeaanWorld, Elsewhere
  <2>2. z = [v EXCEPT !.ctx[s].kind = "write", !.ctx[s].pending_fills = n]
    BY ZenonT(60) DEF WriteTargets
  <2> HIDE DEF v, n, z
  <2>3. QED
    BY <2>1, <2>2, ZenonT(60) DEF PutCtx, World
<1> HIDE DEF written, n
<1>10. HeaanWorld(v) /\ Elsewhere(b, v, o)
  BY <1>1, <1>3, <1>4, <1>7, <1>8, HeaanIo, ZenonT(60)
<1> HIDE DEF v
<1>11. v.ctx[s] = w.ctx[s]
  BY <1>3, <1>10, ZenonT(60) DEF Elsewhere
<1>12. d \in CtxType /\ d.kind = "write" /\ d.req = o
  BY <1>2, <1>6, <1>11, ZenonT(60) DEF CtxType
<1> HIDE DEF d, z
<1>13. CtxMoved(ctx[s], d)
  BY <1>1, <1>2, <1>12, ZenonT(60) DEF CtxMoved, Dangling
<1>14. HeaanWorld(z)
  BY <1>2, <1>9, <1>10, <1>12, <1>13, HeaanPutCtx, ZenonT(60)
<1>15. InOrder(z) /\ Moves(W, z)
  BY <1>14, HeaanFramed, ZenonT(60) DEF HeaanWorld
<1>16. QED
  BY <1>15, ZenonT(60) DEF z, b, s, o

(***************************************************************************)
(* A crash leaves everything where it is.                                  *)
(***************************************************************************)
LEMMA CrashKeeps ==
  ASSUME IInv, Crash
  PROVE  Kept
<1>1. W' = W /\ crashed' \in BOOLEAN
  BY ZenonT(60) DEF Crash, W
<1>2. Moves(W, W)
  BY ZenonT(60) DEF Moves
<1>3. QED
  BY <1>1, <1>2, ZenonT(60) DEF Kept, IInv

(***************************************************************************)
(* nvmf_heaan_buffer_fill_complete and nvmf_heaan_cip_write_complete.      *)
(***************************************************************************)
LEMMA HeaanSteps ==
  ASSUME IInv, CountsIo, ServesWaiters,
         NEW r \in Reqs, NEW j \in 1 .. MaxIo, req[r].io[j] = "busy",
         req[r].cmd.op = "HEAAN_ADD", NEW ok \in BOOLEAN, NEW k \in GiveUps,
         ~Dangling(req[r].slot)
  PROVE  LET s == req[r].slot
             w == HeaanCounted(r, ok, Pending(s, ok))
             End(sc) == Complete(spdk_bdev_free_io(Free(w, s), r, j, k), ctx[s].req, sc)
         IN /\ Step(Held(w, r, j)) => Kept
            /\ Step(WriteTargets(Held(w, r, j), ctx[s].req, s)) => Kept
            /\ \A sc \in Statuses : Step(End(sc)) => Kept
<1> DEFINE s == req[r].slot
           n == Pending(s, ok)
           w == HeaanCounted(r, ok, n)
           End(sc) == Complete(spdk_bdev_free_io(Free(w, s), r, j, k), ctx[s].req, sc)
<1>1. s \in Slots
  BY HeaanBusy, ZenonT(60)
<1>2. n \in Int
  <2>1. ctx[s] \in CtxType
    BY <1>1, StateFacts, ZenonT(60)
  <2>2. QED
    BY <2>1 DEF Pending, CtxType
<1> HIDE DEF n
<1>3. HeaanCountedBy(r, w)
  BY <1>2, HeaanCountedFacts, ZenonT(60)
<1> HIDE DEF w
<1>4. Step(Held(w, r, j)) => Kept
  <2>1. HeaanWorld(w) /\ HeaanMoved(req[r], w.req[r])
    BY <1>3, ZenonT(60) DEF HeaanCountedBy
  <2>2. HeaanWorld(Held(w, r, j))
    BY <2>1, HeaanIo, ZenonT(60)
  <2> DEFINE z == Held(w, r, j)
  <2> HIDE DEF z
  <2>3. InOrder(z) /\ Moves(W, z)
    BY <2>2, HeaanFramed, ZenonT(60) DEF HeaanWorld, z
  <2>4. Step(z) => Kept
    BY <2>3, StepKeeps, ZenonT(60)
  <2>5. QED
    BY <2>4, ZenonT(60) DEF z
<1>5. Step(WriteTargets(Held(w, r, j), ctx[s].req, s)) => Kept
  <2> DEFINE z == WriteTargets(Held(w, r, j), ctx[s].req, s)
  <2>1. InOrder(z) /\ Moves(W, z)
    BY <1>1, <1>3, HeaanWrites, ZenonT(60)
  <2> HIDE DEF z
  <2>2. Step(z) => Kept
    BY <2>1, StepKeeps, ZenonT(60)
  <2>3. QED
    BY <2>2, ZenonT(60) DEF z
<1>6. ASSUME NEW sc \in Statuses
      PROVE  Step(End(sc)) => Kept
  <2> DEFINE z == End(sc)
  <2>1. InOrder(z) /\ Moves(W, z)
    BY <1>1, <1>3, HeaanEnds, ZenonT(60)
  <2> HIDE DEF z
  <2>2. Step(z) => Kept
    BY <2>1, StepKeeps, ZenonT(60)
  <2>3. QED
    BY <2>2, ZenonT(60) DEF z
<1>7. QED
  BY <1>4, <1>5, <1>6, ZenonT(60) DEF w, n

(***************************************************************************)
(* nvmf_heaan_buffer_fill_complete and nvmf_heaan_cip_write_complete, also *)
(* on a context that was freed or reused.                                  *)
(***************************************************************************)
LEMMA HeaanCallbacks ==
  ASSUME IInv, CountsIo, ServesWaiters,
         NEW r \in Reqs, NEW j \in 1 .. MaxIo,
         nvmf_heaan_buffer_fill_complete(r, j) \/ nvmf_heaan_cip_write_complete(r, j)
  PROVE  Kept
<1> DEFINE s == req[r].slot
           w(ok) == HeaanCounted(r, ok, Pending(s, ok))
           End(ok, k, sc) ==
             Complete(spdk_bdev_free_io(Free(w(ok), s), r, j, k), ctx[s].req, sc)
<1>1. req[r].io[j] = "busy" /\ req[r].cmd.op = "HEAAN_ADD"
  BY ZenonT(60) DEF nvmf_heaan_buffer_fill_complete, nvmf_heaan_cip_write_complete, Busy
<1>2. PICK ok \in BOOLEAN, k \in GiveUps :
        \/ Crash
        \/ /\ ~Dangling(s)
           /\ \/ Step(Held(w(ok), r, j))
              \/ Step(WriteTargets(Held(w(ok), r, j), ctx[s].req, s))
              \/ Step(End(ok, k, "INTERNAL_DEVICE_ERROR"))
              \/ Step(End(ok, k, "SUCCESS"))
  <2>1. CASE nvmf_heaan_buffer_fill_complete(r, j)
    BY <2>1, ZenonT(60) DEF nvmf_heaan_buffer_fill_complete, HeaanCounted, HeaanError, Outcomes
  <2>2. CASE nvmf_heaan_cip_write_complete(r, j)
    BY <2>2, ZenonT(60) DEF nvmf_heaan_cip_write_complete, HeaanCounted, HeaanError, Outcomes
  <2>3. QED
    BY <2>1, <2>2, ZenonT(60)
<1>3. "SUCCESS" \in Statuses /\ "INTERNAL_DEVICE_ERROR" \in Statuses
  BY ZenonT(60) DEF Statuses
<1>4. QED
  BY <1>1, <1>2, <1>3, CrashKeeps, HeaanSteps, ZenonT(60)

(***************************************************************************)
(* nvmf_bdev_ctrlr_custom_heaan_cipadd_cmd.                                *)
(***************************************************************************)
LEMMA HeaanArrives ==
  ASSUME IInv, CountsIo, NEW r \in Reqs, NEW c \in Cmds, req[r].st = "idle", c.op = "HEAAN_ADD",
         nvmf_bdev_ctrlr_custom_heaan_cipadd_cmd(Begin(r, c), r, c)
  PROVE  Kept
<1> DEFINE b == Begin(r, c)
           read == {i \in 1 .. c.arg : \A h \in 1 .. i : BytesValid(c.rng[h]) /\ h <= Avail(b)}
           d == [FreeCtx EXCEPT !.kind = "fill", !.req = r, !.pending_fills = c.arg]
<1>1. \/ Crash
      \/ \E sc \in {"LBA_OUT_OF_RANGE", "INTERNAL_DEVICE_ERROR"} : Step(Complete(b, r, sc))
      \/ \E s \in FreeSlots :
           \/ Step(Complete(Placed(b, r, read, s), r, "INTERNAL_DEVICE_ERROR"))
           \/ Step([Placed(b, r, read, s) EXCEPT !.ctx[s] = d])
  BY ZenonT(60) DEF nvmf_bdev_ctrlr_custom_heaan_cipadd_cmd, Placed
<1>2. CASE Crash
  BY <1>2, CrashKeeps, ZenonT(60)
<1>3. ASSUME NEW sc \in {"LBA_OUT_OF_RANGE", "INTERNAL_DEVICE_ERROR"}, Step(Complete(b, r, sc))
      PROVE  Kept
  <2>1. sc \in Statuses \ {"SUCCESS"}
    BY ZenonT(60) DEF Statuses
  <2>2. QED
    BY <1>3, <2>1, RefusedKeeps, ZenonT(60)
<1>4. /\ c.arg \in Nat /\ read \in SUBSET (1 .. MaxIo)
      /\ \A i \in read : i \in DOMAIN c.rng /\ BytesValid(c.rng[i])
  <2> DEFINE len == Len(c.rng)
  <2>1. len \in 1 .. MaxIo /\ MaxIo \in Nat /\ DOMAIN c.rng = 1 .. len /\ c.arg \in 1 .. len
    BY FormatAssumption, CmdFacts, ZenonT(60)
  <2> HIDE DEF len
  <2>2. c.arg \in Nat /\ 1 .. c.arg \subseteq 1 .. len /\ 1 .. len \subseteq 1 .. MaxIo
    BY <2>1
  <2>3. \A i \in read : BytesValid(c.rng[i])
    OBVIOUS
  <2>4. QED
    BY <2>1, <2>2, <2>3, ZenonT(60)
<1>5. \A i \in read : RangeOK(c, i)
  BY <1>4, ChecksAreExact, ZenonT(60)
<1> HIDE DEF read
<1>6. ASSUME NEW s \in FreeSlots,
             \/ Step(Complete(Placed(b, r, read, s), r, "INTERNAL_DEVICE_ERROR"))
             \/ Step([Placed(b, r, read, s) EXCEPT !.ctx[s] = d])
      PROVE  Kept
  <2> DEFINE v == Placed(b, r, read, s)
             q == v.req[r]
             y == Complete(v, r, "INTERNAL_DEVICE_ERROR")
             z == PutCtx(v, s, d)
  <2>1. s \in Slots /\ ctx[s].kind = "free"
    BY ZenonT(60) DEF FreeSlots
  <2>2. Elsewhere(W, v, r) /\ PlacedAt(q, c, read, s) /\ v.wq = io_wait_queue
    BY <1>4, <2>1, PlacedFacts, ZenonT(60)
  <2>3. /\ Waits(io_wait_queue, r) = 0 /\ \A t \in Slots : ctx[t].req # r
    BY BeginFacts, ZenonT(60)
  <2> HIDE DEF v, b
  <2>4. d \in CtxType /\ d.kind = "fill" /\ d.req = r
    <3>1. FreeCtx \in CtxType
      BY DEF FreeCtx, CtxType
    <3>2. c.arg \in Int
      BY <1>4
    <3>3. QED
      BY <3>1, <3>2, ZenonT(60) DEF CtxType
  <2>5. Step(y) \/ Step(z)
    <3> HIDE DEF d
    <3>1. v \in World
      BY <2>2, ZenonT(60) DEF Elsewhere
    <3>2. [v EXCEPT !.ctx[s] = d] = z
      BY <3>1, ZenonT(60) DEF PutCtx, World
    <3>3. QED
      BY <1>6, <3>2, ZenonT(60) DEF v
  <2> HIDE DEF d
  <2>6. /\ v \in World /\ v.ctx = ctx /\ \A x \in Reqs \ {r} : v.req[x] = req[x]
    BY <2>2, StateFacts, ZenonT(60) DEF Elsewhere
  <2>7. /\ q.st = "exec" /\ q.cpl = 0 /\ q.cmd = c /\ q.slot = s /\ Len(q.iov) = c.len
        /\ q.sent = read
    BY <2>2, ZenonT(60) DEF PlacedAt, BusyIo
  <2>8. InOrder(y) /\ Moves(W, y)
    <3>1. "INTERNAL_DEVICE_ERROR" \in Statuses
      BY ZenonT(60) DEF Statuses
    <3>2. Elsewhere(v, y, r) /\ Completed(q, y.req[r], "INTERNAL_DEVICE_ERROR") /\ y.wq = v.wq
      BY <2>6, <3>1, CompleteFacts, ZenonT(60)
    <3> HIDE DEF y, q
    <3>3. /\ y.req[r].st = "done" /\ y.req[r].cpl = 1 /\ y.req[r].cmd = c
          /\ y.req[r].slot = s /\ Len(y.req[r].iov) = c.len /\ y.req[r].sent = read
      BY <2>7, <3>2 DEF Completed, BusyIo
    <3>4. ReqOK(r, y.req[r], 0, y.ctx) /\ SlotOK(y.req[r])
      BY <1>5, <2>1, <3>3, HeaanInOrder, ZenonT(60) DEF SlotOK
    <3>5. y \in World /\ y.ctx = ctx /\ \A x \in Reqs \ {r} : y.req[x] = req[x]
      BY <2>6, <3>2, ZenonT(60) DEF Elsewhere
    <3>6. QED
      BY <2>2, <2>3, <3>2, <3>3, <3>4, <3>5, Arrives, ZenonT(60)
  <2>9. InOrder(z) /\ Moves(W, z)
    <3>1. CtxPut(v, z, s, d)
      BY <2>1, <2>4, <2>6, PutCtxFacts, ZenonT(60)
    <3> HIDE DEF z
    <3>2. /\ z \in World /\ z.wq = io_wait_queue /\ \A x \in Reqs \ {r} : z.req[x] = req[x]
          /\ z.ctx[s] = d /\ \A t \in Slots \ {s} : z.ctx[t] = ctx[t]
          /\ z.req[r] = q
      BY <2>2, <2>6, <3>1, ZenonT(60) DEF CtxPut
    <3> HIDE DEF q
    <3>3. ReqOK(r, q, 0, z.ctx) /\ SlotOK(q)
      BY <1>5, <2>1, <2>7, HeaanInOrder, ZenonT(60) DEF SlotOK
    <3>4. CtxOK(z, s)
      BY <2>4, <2>7, <3>2, ZenonT(60) DEF CtxOK
    <3>5. QED
      BY <2>1, <2>3, <2>7, <3>2, <3>3, <3>4, Arrives, ZenonT(60)
  <2> HIDE DEF y, z
  <2>10. QED
    BY <2>5, <2>8, <2>9, StepKeeps, ZenonT(60)
<1>7. QED
  BY <1>1, <1>2, <1>3, <1>6, ZenonT(60)
=============================================================================

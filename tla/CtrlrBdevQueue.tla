--------------------------- MODULE CtrlrBdevQueue ---------------------------
(***************************************************************************)
(* The inductive invariant of CtrlrBdev is kept by the handlers that may   *)
(* queue their request, first called or called back, by spdk_bdev_free_io, *)
(* which calls the queued ones back, and by the completion callbacks of    *)
(* these commands.                                                         *)
(***************************************************************************)
EXTENDS CtrlrBdevFacts

(* A leaf that names no prover is for SMT, which may take a minute and is tried twice. *)
USE SMTT(60), Z3T(60)

(***************************************************************************)
(* A one-I/O command that passed the checks of its handler.                *)
(***************************************************************************)
Admitted(c) ==
  RangeOK(c, 1) /\ (c.op \in SimpleOps => DOMAIN c.rng \subseteq {1})

(***************************************************************************)
(* What a handler owes for request r, which is not in the queue of w: it   *)
(* leaves the other requests and all contexts alone, and leaves r in order *)
(* and at most once in the queue.                                          *)
(***************************************************************************)
HandledBy(w, v, r) ==
  /\ Elsewhere(w, v, r)
  /\ v.req[r].cmd = w.req[r].cmd /\ v.req[r].slot = w.req[r].slot
  /\ v.req[r].st # "idle"
  /\ \/ v.wq = w.wq /\ ReqOK(r, v.req[r], 0, v.ctx)
     \/ v.wq = Append(w.wq, r) /\ ReqOK(r, v.req[r], 1, v.ctx)

-----------------------------------------------------------------------------
(***************************************************************************)
(* Each handler that may queue its request leaves it in order (HandledBy), *)
(* whether it runs for the first time or again after a wait.               *)
(***************************************************************************)

(***************************************************************************)
(* What the checks of the one-I/O handlers let through: on the device, and *)
(* with one range.                                                         *)
(***************************************************************************)
LEMMA AdmittedBy ==
  ASSUME NEW c \in Cmds
  PROVE  /\ c.op \in {"READ", "WRITE", "COMPARE"} /\ RwRefusal(c) = "NONE" => Admitted(c)
         /\ c.op \in {"FLUSH", "PASSTHRU"} => Admitted(c)
         /\ /\ c.op = "COPY" /\ ~(Len(c.rng) > 1)
            /\ spdk_bdev_copy_blocks(c.sdlba, c.rng[1].lba, c.rng[1].n)
            => Admitted(c)
         /\ /\ c.op \in {"GREP", "WRITE_ZEROES"}
            /\ nvmf_bdev_ctrlr_lba_in_range(c.rng[1].lba, c.rng[1].n)
            => Admitted(c)
<1> DEFINE len == Len(c.rng)
<1>1. len \in 1 .. MaxIo /\ MaxIo \in Nat /\ DOMAIN c.rng = 1 .. len
  BY CmdFacts, ZenonT(60)
<1> HIDE DEF len
<1>2. len = 1 \/ ~(len > 1) => DOMAIN c.rng \subseteq {1}
  BY <1>1
<1>3. 1 \in DOMAIN c.rng
  BY <1>1
<1>4. c.op \in (SimpleOps \ {"COPY"}) => len = 1
  BY FormatAssumption, ZenonT(60) DEF len
<1>5. /\ /\ c.op \notin {"HEAAN_ADD", "COPY"}
         /\ nvmf_bdev_ctrlr_lba_in_range(c.rng[1].lba, c.rng[1].n)
         => RangeOK(c, 1)
      /\ c.op = "COPY" /\ spdk_bdev_copy_blocks(c.sdlba, c.rng[1].lba, c.rng[1].n)
           => RangeOK(c, 1)
      /\ c.op \in {"FLUSH", "PASSTHRU"} => RangeOK(c, 1)
  BY <1>3, ChecksAreExact, ZenonT(60) DEF RangeOK
<1>6. RwRefusal(c) = "NONE" => nvmf_bdev_ctrlr_lba_in_range(c.rng[1].lba, c.rng[1].n)
  BY ZenonT(60) DEF RwRefusal, nvmf_bdev_ctrlr_lba_in_range
<1>7. QED
  BY <1>2, <1>4, <1>5, <1>6, ZenonT(60) DEF Admitted, SimpleOps, len

(***************************************************************************)
(* A one-I/O command that is refused.                                      *)
(***************************************************************************)
LEMMA OneIoCompleted ==
  ASSUME NEW x \in Reqs, NEW cx, NEW p \in ReqType, NEW q,
         p.st # "idle", p.cmd.op \in OneIo, ReqOK(x, p, 1, cx),
         NEW sc, Completed(p, q, sc),
         sc = "SUCCESS" => p.cmd.op = "GREP" \/ (p.cmd.op = "FLUSH" /\ p.cmd.arg = 1)
  PROVE  ReqOK(x, q, 0, cx)
<1> USE DEF Completed
<1>1. /\ p.cmd.op \notin {"DSM", "ECHO", "HEAAN_ADD"} /\ ~OverLimit(p.cmd)
      /\ q.cmd.op \in OneIo /\ BusyIo(q) = BusyIo(p)
  BY ZenonT(60) DEF OneIo, SimpleOps, OverLimit, BusyIo
<1>2. LifeOK(p, 1) /\ OneIoOK(p, 1) /\ (p.cmd.op # "GREP" => Performed(p))
  BY <1>1, ZenonT(60) DEF ReqOK, OneIo
<1>3. p.st = "exec" /\ p.cpl = 0 /\ BusyIo(q) = {}
  BY <1>1, <1>2, ZenonT(60) DEF LifeOK, OneIoOK
<1>4. LifeOK(q, 0)
  BY <1>3 DEF LifeOK
<1>5. OneIoOK(q, 0)
  BY <1>2, <1>3, ZenonT(60) DEF OneIoOK
<1>6. q.cmd.op # "GREP" => Performed(q)
  BY <1>2, <1>3, ZenonT(60) DEF Performed
<1>7. QED
  BY <1>1, <1>3, <1>4, <1>5, <1>6, ZenonT(60) DEF ReqOK, SimpleOps

(***************************************************************************)
(* A one-I/O command whose I/O is submitted.                               *)
(***************************************************************************)
LEMMA OneIoSubmitted ==
  ASSUME NEW x \in Reqs, NEW cx, NEW p \in ReqType, NEW q,
         p.st # "idle", p.cmd.op \in OneIo, ReqOK(x, p, 1, cx), Admitted(p.cmd),
         Submitted(p, q, {1})
  PROVE  ReqOK(x, q, 0, cx)
<1> USE DEF Submitted
<1>1. /\ p.cmd.op \notin {"DSM", "ECHO", "HEAAN_ADD"} /\ ~OverLimit(p.cmd)
      /\ q.cmd.op \in OneIo
  BY ZenonT(60) DEF OneIo, SimpleOps, OverLimit
<1>2. LifeOK(p, 1) /\ OneIoOK(p, 1) /\ (p.cmd.op # "GREP" => Performed(p))
  BY <1>1, ZenonT(60) DEF ReqOK, OneIo
<1>3. p.st = "exec" /\ p.cpl = 0 /\ BusyIo(p) = {}
  BY <1>1, <1>2, ZenonT(60) DEF LifeOK, OneIoOK
<1>4. BusyIo(q) \subseteq {1}
  BY <1>3 DEF BusyIo
<1>5. LifeOK(q, 0)
  BY <1>3, ZenonT(60) DEF LifeOK
<1>6. OneIoOK(q, 0)
  BY <1>2, <1>4 DEF OneIoOK
<1>7. q.cmd.op # "GREP" => Performed(q)
  BY <1>1, <1>2, <1>3, ZenonT(60) DEF Performed, Admitted, OneIo
<1>8. \A j \in 1 .. MaxIo : q.io[j] # "held"
  BY <1>1 DEF ReqOK
<1>9. QED
  BY <1>1, <1>3, <1>4, <1>5, <1>6, <1>7, <1>8 DEF ReqOK, SimpleOps, Admitted

(***************************************************************************)
(* nvmf_bdev_ctrl_queue_io changes the queue only.                         *)
(***************************************************************************)
LEMMA QueueFacts ==
  ASSUME NEW w \in World, NEW r \in Reqs, NEW v, v = nvmf_bdev_ctrl_queue_io(w, r)
  PROVE  /\ v \in World /\ v.req = w.req /\ v.ctx = w.ctx
         /\ v.cache = w.cache /\ v.pool = w.pool /\ v.wq = Append(w.wq, r)
<1>1. Append(w.wq, r) \in Seq(Reqs)
  BY WorldFacts
<1>2. v \in World
  BY <1>1, ZenonT(60) DEF nvmf_bdev_ctrl_queue_io, World
<1>3. QED
  BY <1>2, ZenonT(60) DEF nvmf_bdev_ctrl_queue_io, World

(***************************************************************************)
(* The three ends of a one-I/O handler.                                    *)
(***************************************************************************)
LEMMA CompleteHandles ==
  ASSUME NEW w \in World, NEW r \in Reqs, NEW sc \in Statuses,
         w.req[r].st # "idle", w.req[r].cmd.op \in OneIo, ReqOK(r, w.req[r], 1, w.ctx),
         sc = "SUCCESS" => \/ w.req[r].cmd.op = "GREP"
                           \/ w.req[r].cmd.op = "FLUSH" /\ w.req[r].cmd.arg = 1
  PROVE  HandledBy(w, Complete(w, r, sc), r)
<1> DEFINE v == Complete(w, r, sc)
           p == w.req[r]
           q == v.req[r]
<1>1. Elsewhere(w, v, r) /\ Completed(p, q, sc) /\ v.wq = w.wq
  BY CompleteFacts, ZenonT(60)
<1>2. p \in ReqType
  BY WorldFacts, ZenonT(60)
<1> HIDE DEF v
<1>3. ReqOK(r, q, 0, w.ctx)
  BY <1>1, <1>2, OneIoCompleted, ZenonT(60)
<1>4. q.cmd = p.cmd /\ q.slot = p.slot /\ q.st = "done" /\ v.ctx = w.ctx
  BY <1>1, ZenonT(60) DEF Completed, Elsewhere
<1>5. QED
  BY <1>1, <1>3, <1>4, ZenonT(60) DEF HandledBy, v

(***************************************************************************)
(* The one I/O of the command is submitted.                                *)
(***************************************************************************)
LEMMA SubmitHandles ==
  ASSUME CountsIo, NEW w \in World, NEW r \in Reqs,
         w.req[r].st # "idle", w.req[r].cmd.op \in OneIo, ReqOK(r, w.req[r], 1, w.ctx),
         Admitted(w.req[r].cmd)
  PROVE  HandledBy(w, Submit(w, r, {1}), r)
<1> DEFINE v == Submit(w, r, {1})
           p == w.req[r]
           q == v.req[r]
<1>1. {1} \in SUBSET (1 .. MaxIo)
  BY CmdFacts DEF ReqOK
<1>2. Elsewhere(w, v, r) /\ Submitted(p, q, {1}) /\ v.wq = w.wq
  BY <1>1, SubmitFacts, ZenonT(60)
<1>3. p \in ReqType
  BY WorldFacts, ZenonT(60)
<1> HIDE DEF v
<1>4. ReqOK(r, q, 0, w.ctx)
  BY <1>2, <1>3, OneIoSubmitted, ZenonT(60)
<1>5. q.cmd = p.cmd /\ q.slot = p.slot /\ q.st = p.st /\ v.ctx = w.ctx
  BY <1>2, ZenonT(60) DEF Submitted, Elsewhere
<1>6. QED
  BY <1>2, <1>4, <1>5, ZenonT(60) DEF HandledBy, v

(***************************************************************************)
(* The command waits for a descriptor (nvmf_bdev_ctrl_queue_io).           *)
(***************************************************************************)
LEMMA QueueHandles ==
  ASSUME NEW w \in World, NEW r \in Reqs,
         w.req[r].st # "idle", ReqOK(r, w.req[r], 1, w.ctx)
  PROVE  HandledBy(w, nvmf_bdev_ctrl_queue_io(w, r), r)
  BY QueueFacts DEF HandledBy, Elsewhere

(***************************************************************************)
(* The command is submitted if a descriptor is left, and waits otherwise.  *)
(***************************************************************************)
LEMMA SubmitOrQueueHandles ==
  ASSUME CountsIo, NEW w \in World, NEW r \in Reqs,
         w.req[r].st # "idle", w.req[r].cmd.op \in OneIo, ReqOK(r, w.req[r], 1, w.ctx),
         Admitted(w.req[r].cmd)
  PROVE  HandledBy(w, SubmitOrQueue(w, r), r)
<1>1. CASE Avail(w) > 0
  BY <1>1, SubmitHandles, ZenonT(60) DEF SubmitOrQueue
<1>2. CASE ~(Avail(w) > 0)
  BY <1>2, QueueHandles, ZenonT(60) DEF SubmitOrQueue
<1>3. QED
  BY <1>1, <1>2, ZenonT(60)

(***************************************************************************)
(* The command is refused, or submitted or made to wait.                   *)
(***************************************************************************)
LEMMA SubmitUnlessHandles ==
  ASSUME CountsIo, NEW w \in World, NEW r \in Reqs, NEW refusal \in Statuses \ {"SUCCESS"},
         w.req[r].st # "idle", w.req[r].cmd.op \in OneIo, ReqOK(r, w.req[r], 1, w.ctx),
         refusal = "NONE" => Admitted(w.req[r].cmd)
  PROVE  HandledBy(w, SubmitUnless(w, r, refusal), r)
<1>1. CASE refusal # "NONE"
  BY <1>1, CompleteHandles, ZenonT(60) DEF SubmitUnless
<1>2. CASE refusal = "NONE"
  BY <1>2, SubmitOrQueueHandles, ZenonT(60) DEF SubmitUnless
<1>3. QED
  BY <1>1, <1>2, ZenonT(60)

(***************************************************************************)
(* GREP's clearing of the data buffer leaves the request in order.         *)
(***************************************************************************)
Saved(w, r) == [w EXCEPT !.req[r].keyword = w.req[r].iov[1],
                         !.req[r].iov = [i \in DOMAIN @ |-> Zero]]

(***************************************************************************)
(* GREP saves its keyword and clears the data buffer: the request stays in *)
(* order.                                                                  *)
(***************************************************************************)
LEMMA GrepSaved ==
  ASSUME NEW w \in World, NEW r \in Reqs, NEW v, v = Saved(w, r),
         w.req[r].st # "idle", w.req[r].cmd.op = "GREP", w.req[r].cmd.len # 0,
         ReqOK(r, w.req[r], 1, w.ctx)
  PROVE  /\ v \in World /\ v.ctx = w.ctx /\ v.wq = w.wq
         /\ v.cache = w.cache /\ v.pool = w.pool
         /\ \A x \in Reqs \ {r} : v.req[x] = w.req[x]
         /\ v.req[r].st = w.req[r].st /\ v.req[r].cmd = w.req[r].cmd
         /\ v.req[r].slot = w.req[r].slot /\ v.req[r].io = w.req[r].io
         /\ ReqOK(r, v.req[r], 1, v.ctx)
<1> DEFINE p == w.req[r]
           iov == [i \in DOMAIN p.iov |-> Zero]
           f == [p EXCEPT !.keyword = p.iov[1], !.iov = iov]
<1>1. p \in ReqType
  BY WorldFacts, ZenonT(60)
<1>2. p.iov \in Seq(Int) /\ Len(p.iov) = p.cmd.len /\ p.cmd.len \in Nat \ {0}
  BY <1>1, ReqFields, CmdFacts, ZenonT(60) DEF ReqOK
<1>3. OneIoOK(p, 1) /\ LifeOK(p, 1)
  BY ZenonT(60) DEF ReqOK, OneIo, OverLimit
<1>4. p.iov[1] \in {Host, Zero}
  BY <1>2, <1>3 DEF OneIoOK
<1>5. iov \in Seq(Int) /\ Len(iov) = Len(p.iov) /\ \A b \in DOMAIN iov : iov[b] = Zero
  BY <1>2 DEF Zero
<1> HIDE DEF iov
<1>6. f \in ReqType
  BY <1>1, <1>4, <1>5, ZenonT(60) DEF ReqType
<1>7. v = Put(w, r, f)
  BY ZenonT(60) DEF Saved, Put, World, iov
<1>8. /\ f.st = p.st /\ f.cmd = p.cmd /\ f.cpl = p.cpl /\ f.io = p.io /\ f.slot = p.slot
      /\ f.iov = iov /\ f.sent = p.sent
  BY <1>1, ZenonT(60) DEF ReqType
<1> HIDE DEF f
<1>9. BusyIo(f) = BusyIo(p)
  BY <1>8, ZenonT(60) DEF BusyIo
<1>10. OneIoOK(f, 1)
  BY <1>3, <1>5, <1>8, <1>9, ZenonT(60) DEF OneIoOK
<1>11. LifeOK(f, 1)
  BY <1>3, <1>8, <1>9, ZenonT(60) DEF LifeOK
<1>12. ReqOK(r, f, 1, w.ctx)
  BY <1>2, <1>5, <1>8, <1>9, <1>10, <1>11, ZenonT(60) DEF ReqOK, SimpleOps
<1>13. /\ v \in World /\ v.ctx = w.ctx /\ v.wq = w.wq
       /\ v.cache = w.cache /\ v.pool = w.pool
       /\ \A x \in Reqs \ {r} : v.req[x] = w.req[x]
       /\ v.req[r] = f
  BY <1>6, <1>7, PutReq
<1>14. QED
  BY <1>8, <1>12, <1>13, ZenonT(60)

(***************************************************************************)
(* nvmf_bdev_ctrlr_custom_grep_cmd, first called or called again from the  *)
(* wait queue.                                                             *)
(***************************************************************************)
LEMMA GrepHandles ==
  ASSUME CountsIo, NEW w \in World, NEW r \in Reqs, NEW nomem \in BOOLEAN,
         w.req[r].st # "idle", w.req[r].cmd.op = "GREP", ReqOK(r, w.req[r], 1, w.ctx)
  PROVE  HandledBy(w, nvmf_bdev_ctrlr_custom_grep_cmd(w, r, w.req[r].cmd, nomem), r)
<1> DEFINE c == w.req[r].cmd
           saved == Saved(w, r)
           refusal == IF nvmf_bdev_ctrlr_lba_in_range(c.rng[1].lba, c.rng[1].n)
                      THEN "NONE" ELSE "LBA_OUT_OF_RANGE"
<1>1. c \in Cmds /\ c.op \in OneIo
  BY ZenonT(60) DEF ReqOK, OneIo
<1>2. \A sc \in Statuses : HandledBy(w, Complete(w, r, sc), r)
  BY <1>1, CompleteHandles, ZenonT(60)
<1>3. ASSUME c.len # 0
      PROVE  HandledBy(w, SubmitUnless(saved, r, refusal), r)
  <2>1. /\ saved \in World /\ saved.ctx = w.ctx /\ saved.wq = w.wq
        /\ \A x \in Reqs \ {r} : saved.req[x] = w.req[x]
        /\ saved.req[r].st = w.req[r].st /\ saved.req[r].cmd = c
        /\ saved.req[r].slot = w.req[r].slot
        /\ ReqOK(r, saved.req[r], 1, saved.ctx)
    BY <1>3, GrepSaved
  <2> HIDE DEF saved
  <2>2. refusal \in Statuses \ {"SUCCESS"}
    BY ZenonT(60) DEF Statuses
  <2>3. refusal = "NONE" => Admitted(c)
    BY <1>1, AdmittedBy, ZenonT(60)
  <2> HIDE DEF refusal
  <2>4. HandledBy(saved, SubmitUnless(saved, r, refusal), r)
    BY <1>1, <2>1, <2>2, <2>3, SubmitUnlessHandles, ZenonT(60)
  <2>5. QED
    BY <2>1, <2>4, ZenonT(60) DEF HandledBy, Elsewhere
<1> HIDE DEF saved
<1>4. QED
  BY <1>2, <1>3, CmdFacts, <1>1, ZenonT(60) DEF nvmf_bdev_ctrlr_custom_grep_cmd, saved, Saved, Statuses

(***************************************************************************)
(* The handlers of the one-I/O commands, and their dispatch.               *)
(***************************************************************************)
LEMMA OneIoHandles ==
  ASSUME CountsIo, NEW w \in World, NEW r \in Reqs, NEW nomem \in BOOLEAN,
         w.req[r].st # "idle", w.req[r].cmd.op \in OneIo, ReqOK(r, w.req[r], 1, w.ctx)
  PROVE  HandledBy(w, Dispatch(w, r, w.req[r].cmd, nomem), r)
<1> DEFINE c == w.req[r].cmd
<1>1. c \in Cmds
  BY ZenonT(60) DEF ReqOK
<1>2. \A s \in Statuses \ {"SUCCESS"} :
        (s = "NONE" => Admitted(c)) => HandledBy(w, SubmitUnless(w, r, s), r)
  BY SubmitUnlessHandles, ZenonT(60)
<1>3. c.op \in {"READ", "WRITE", "COMPARE"} /\ RwRefusal(c) = "NONE" => Admitted(c)
  BY <1>1, AdmittedBy, ZenonT(60)
<1>4. /\ c.op \in {"FLUSH", "PASSTHRU"} => Admitted(c)
      /\ c.op = "WRITE_ZEROES" /\ nvmf_bdev_ctrlr_lba_in_range(c.rng[1].lba, c.rng[1].n)
           => Admitted(c)
  BY <1>1, AdmittedBy, ZenonT(60)
<1>5. RwRefusal(c) \in Statuses \ {"SUCCESS"}
  BY ZenonT(60) DEF RwRefusal, Statuses
<1>6. CASE c.op \in Unsupported
  BY <1>6, CompleteHandles, ZenonT(60) DEF Dispatch, Statuses
<1>7. ASSUME c.op \in {"READ", "WRITE", "COMPARE"}
      PROVE  HandledBy(w, SubmitUnless(w, r, RwRefusal(c)), r)
  BY <1>2, <1>3, <1>5, <1>7, ZenonT(60)
<1>8. ASSUME c.op = "WRITE_ZEROES"
      PROVE  HandledBy(w, nvmf_bdev_ctrlr_write_zeroes_cmd(w, r, c), r)
  BY <1>2, <1>4, <1>8, ZenonT(60) DEF nvmf_bdev_ctrlr_write_zeroes_cmd, Statuses
<1>9. ASSUME c.op = "FLUSH"
      PROVE  HandledBy(w, nvmf_bdev_ctrlr_flush_cmd(w, r, c), r)
  BY <1>4, <1>9, CompleteHandles, SubmitOrQueueHandles, ZenonT(60) DEF nvmf_bdev_ctrlr_flush_cmd, Statuses
<1>10. ASSUME c.op = "COPY"
       PROVE  HandledBy(w, nvmf_bdev_ctrlr_copy_cmd(w, r, c), r)
  <2>1. ~(Len(c.rng) > 1) /\ spdk_bdev_copy_blocks(c.sdlba, c.rng[1].lba, c.rng[1].n)
          => Admitted(c)
    BY <1>1, <1>10, AdmittedBy, ZenonT(60)
  <2>2. QED
    BY <1>2, <2>1, ZenonT(60) DEF nvmf_bdev_ctrlr_copy_cmd, Statuses
<1>11. ASSUME c.op = "PASSTHRU"
       PROVE  HandledBy(w, nvmf_bdev_ctrlr_nvme_passthru_io(w, r, c), r)
  BY <1>2, <1>4, <1>11, ZenonT(60) DEF nvmf_bdev_ctrlr_nvme_passthru_io, Statuses
<1>12. ASSUME c.op = "GREP"
       PROVE  HandledBy(w, nvmf_bdev_ctrlr_custom_grep_cmd(w, r, c, nomem), r)
  BY <1>12, GrepHandles, ZenonT(60)
<1>13. c.op \in {"READ", "WRITE", "COMPARE", "WRITE_ZEROES", "FLUSH", "COPY", "PASSTHRU", "GREP"}
  BY ZenonT(60) DEF OneIo, SimpleOps
<1> HIDE DEF c
<1>14. CASE c.op = "READ" /\ c.op \notin Unsupported
  BY <1>7, <1>14, ZenonT(60) DEF Dispatch, nvmf_bdev_ctrlr_read_cmd, c
<1>15. CASE c.op = "WRITE" /\ c.op \notin Unsupported
  BY <1>7, <1>15, ZenonT(60) DEF Dispatch, nvmf_bdev_ctrlr_write_cmd, c
<1>16. CASE c.op = "COMPARE" /\ c.op \notin Unsupported
  BY <1>7, <1>16, ZenonT(60) DEF Dispatch, nvmf_bdev_ctrlr_compare_cmd, c
<1>17. CASE c.op = "WRITE_ZEROES" /\ c.op \notin Unsupported
  BY <1>8, <1>17, ZenonT(60) DEF Dispatch, c
<1>18. CASE c.op = "FLUSH" /\ c.op \notin Unsupported
  BY <1>9, <1>18, ZenonT(60) DEF Dispatch, c
<1>19. CASE c.op = "COPY" /\ c.op \notin Unsupported
  BY <1>10, <1>19, ZenonT(60) DEF Dispatch, c
<1>20. CASE c.op = "PASSTHRU" /\ c.op \notin Unsupported
  BY <1>11, <1>20, ZenonT(60) DEF Dispatch, c
<1>21. CASE c.op = "GREP" /\ c.op \notin Unsupported
  BY <1>12, <1>21, ZenonT(60) DEF Dispatch, c
<1>22. QED
  BY <1>6, <1>13, <1>14, <1>15, <1>16, <1>17, <1>18, <1>19, <1>20, <1>21, ZenonT(60) DEF c

-----------------------------------------------------------------------------
(***************************************************************************)
(* The DSM handler, first called or resumed after a wait, leaves its       *)
(* request in order.                                                       *)
(***************************************************************************)

(***************************************************************************)
(* The ranges a pass submits are numbered from 1, lie in the command, and  *)
(* leave a next one when the pass stops early.                             *)
(***************************************************************************)
LEMMA UnmappedFacts ==
  ASSUME CountsIo, NEW w, NEW c \in Cmds, NEW start \in Nat,
         NEW done, done = Unmapped(w, c, start), NEW n, n = Cardinality(done)
  PROVE  /\ done \subseteq 1 .. MaxIo /\ n \in Nat
         /\ \A i \in done : i \in Nat /\ start + i \in 1 .. MaxIo /\ i <= n
         /\ done # Passes(c, start) => n + 1 \in DOMAIN c.rng
<1> DEFINE len == Len(c.rng)
           last == len - start
<1>1. len \in 1 .. MaxIo /\ MaxIo \in Nat /\ DOMAIN c.rng = 1 .. len /\ last \in Int
      /\ last <= len
  BY CmdFacts
<1>2. done \subseteq 1 .. last /\ Passes(c, start) = 1 .. last
  BY ZenonT(60) DEF Unmapped, Passes
<1>3. \A i \in done : 1 .. i \subseteq done
  <2> SUFFICES ASSUME NEW i \in done, NEW h \in 1 .. i
               PROVE  h \in done
    BY ZenonT(60)
  <2>1. h \in 1 .. last /\ 1 .. h \subseteq 1 .. i
    BY <1>1, <1>2
  <2>2. QED
    BY <1>2, <2>1, ZenonT(60) DEF Unmapped
<1> HIDE DEF len, last
<1>4. done \in SUBSET (1 .. MaxIo)
  BY <1>1, <1>2
<1>5. n \in Nat
  BY <1>4, ZenonT(60) DEF CountsIo
<1>6. \A i \in done : i <= n
  <2> SUFFICES ASSUME NEW i \in done
               PROVE  i <= n
    BY ZenonT(60)
  <2>1. i \in 0 .. MaxIo
    BY <1>1, <1>2
  <2>2. Cardinality(1 .. i) = i
    BY <2>1, ZenonT(60) DEF CountsIo
  <2>3. 1 .. i \in SUBSET done
    BY <1>3, ZenonT(60)
  <2>4. Cardinality(1 .. i) <= n
    BY <1>4, <2>3, CountSubset, ZenonT(60)
  <2>5. QED
    BY <2>2, <2>4, ZenonT(60)
<1>7. \A i \in done : i \in Nat /\ start + i \in 1 .. MaxIo
  BY <1>1, <1>2 DEF last
<1>8. ASSUME done # 1 .. last
      PROVE  n + 1 \in 1 .. len
  <2>1. 1 .. last # {}
    BY <1>2, <1>8, ZenonT(60)
  <2>2. last \in 0 .. MaxIo /\ 1 .. last \in SUBSET (1 .. MaxIo)
    BY <1>1, <2>1
  <2>3. Cardinality(1 .. last) = last
    BY <2>2, ZenonT(60) DEF CountsIo
  <2>4. n <= last /\ n # last
    BY <1>2, <1>8, <2>2, <2>3, CountSubset, ZenonT(60)
  <2>5. QED
    BY <1>1, <1>5, <2>4
<1>9. QED
  BY <1>1, <1>2, <1>4, <1>5, <1>6, <1>7, <1>8, ZenonT(60)

(***************************************************************************)
(* The bdev layer accepts only ranges on the device.                       *)
(***************************************************************************)
LEMMA UnmappedOnDevice ==
  ASSUME NEW w, NEW c \in Cmds, c.op = "DSM", NEW start \in Nat
  PROVE  \A i \in Unmapped(w, c, start) : RangeOK(c, i)
<1> SUFFICES ASSUME NEW i \in Unmapped(w, c, start)
             PROVE  RangeOK(c, i)
  BY ZenonT(60)
<1>1. i \in Passes(c, start) /\ \A h \in 1 .. i : ~Refused(c, h)
  BY ZenonT(60) DEF Unmapped
<1> DEFINE len == Len(c.rng)
<1>2. len \in 1 .. MaxIo /\ MaxIo \in Nat /\ DOMAIN c.rng = 1 .. len
  BY CmdFacts
<1>3. i \in 1 .. len - start
  BY <1>1, ZenonT(60) DEF Passes
<1> HIDE DEF len
<1>4. i \in DOMAIN c.rng /\ i \in 1 .. i
  BY <1>2, <1>3
<1>5. bdev_io_valid_blocks(c.rng[i].lba, c.rng[i].n)
  BY <1>1, <1>4, ZenonT(60) DEF Refused
<1>6. QED
  BY <1>4, <1>5, ChecksAreExact, ZenonT(60)

(***************************************************************************)
(* The world after the submissions of a pass: count is the number of       *)
(* unmaps in flight.                                                       *)
(***************************************************************************)
WasWaiting(resumed) == IF resumed THEN 1 ELSE 0

Passed(w, v, r, count) ==
  /\ Elsewhere(w, v, r) /\ v.wq = w.wq
  /\ v.req[r].st = w.req[r].st /\ v.req[r].cpl = w.req[r].cpl
  /\ v.req[r].cmd = w.req[r].cmd /\ v.req[r].slot = w.req[r].slot
  /\ v.req[r].iov = w.req[r].iov
  /\ v.req[r].count = count /\ DsmOK(v.req[r], 0)
  /\ \A j \in 1 .. MaxIo : v.req[r].io[j] # "held"
  /\ \A j \in v.req[r].sent : RangeOK(v.req[r].cmd, j)

(***************************************************************************)
(* A pass over the ranges leaves count equal to the unmaps in flight.      *)
(***************************************************************************)
LEMMA UnmapPassFacts ==
  ASSUME CountsIo, NEW w \in World, NEW r \in Reqs, NEW resumed \in BOOLEAN,
         w.req[r].cmd \in Cmds, w.req[r].cmd.op = "DSM",
         DsmOK(w.req[r], WasWaiting(resumed)),
         \A j \in 1 .. MaxIo : w.req[r].io[j] # "held",
         \A j \in w.req[r].sent : RangeOK(w.req[r].cmd, j)
  PROVE  Passed(w, UnmapPass(w, r, w.req[r].cmd, resumed), r,
                CountAfter(w, r, w.req[r].cmd, resumed))
<1> DEFINE p == w.req[r]
           start == p.range_index
           done == Unmapped(w, p.cmd, start)
           n == Cardinality(done)
           J == {start + i : i \in done}
           s == Submit(w, r, J)
           count == CountAfter(w, r, p.cmd, resumed)
           v == UnmapPass(w, r, p.cmd, resumed)
           f == [s.req[r] EXCEPT !.sent = p.sent \cup done, !.range_index = start + n,
                                 !.count = count]
<1>1. p \in ReqType /\ start \in Nat /\ p.count \in Nat /\ p.sent \in SUBSET (1 .. MaxIo)
  BY WorldFacts, ReqFields, ZenonT(60)
<1>2. /\ done \subseteq 1 .. MaxIo /\ n \in Nat
      /\ \A i \in done : i \in Nat /\ start + i \in 1 .. MaxIo /\ i <= n
  BY <1>1, UnmappedFacts, ZenonT(60)
<1>2a. \A i \in done : RangeOK(p.cmd, i)
  BY <1>1, UnmappedOnDevice, ZenonT(60)
<1> HIDE DEF done, start
<1>3. \A j \in 1 .. MaxIo : p.io[j] # "none" => j <= start
  BY ZenonT(60) DEF DsmOK, start
<1>4. J \in SUBSET (1 .. MaxIo)
  BY <1>2, ZenonT(60)
<1> HIDE DEF J
<1>5. Elsewhere(w, s, r) /\ Submitted(p, s.req[r], J) /\ s.wq = w.wq
  BY <1>4, SubmitFacts, ZenonT(60)
<1>6. Cardinality(BusyIo(s.req[r])) = Cardinality(BusyIo(p)) + n
  <2> DEFINE B == BusyIo(p)
  <2>1. Cardinality(J) = n
    BY <1>1, <1>2, <1>4, CountShift, ZenonT(60) DEF J
  <2>2. BusyIo(s.req[r]) = B \cup J
    BY <1>4, <1>5, ZenonT(60) DEF BusyIo, Submitted
  <2>3. B \in SUBSET (1 .. MaxIo) /\ B \cap J = {}
    BY <1>1, <1>2, <1>3 DEF BusyIo, J
  <2> HIDE DEF B, s
  <2>4. Cardinality(B \cup J) = Cardinality(B) + Cardinality(J)
    BY <1>4, <2>3, CountUnion, ZenonT(60)
  <2>5. QED
    BY <2>1, <2>2, <2>4, ZenonT(60) DEF B
<1>7. count = Cardinality(BusyIo(s.req[r])) /\ count \in Nat
  <2> DEFINE m == WasWaiting(resumed)
  <2>1. p.count = Cardinality(BusyIo(p)) + m /\ m \in {0, 1}
    BY ZenonT(60) DEF DsmOK, WasWaiting
  <2>2. Cardinality(BusyIo(p)) \in Nat
    BY ZenonT(60) DEF BusyIo, CountsIo
  <2>3. count = p.count + n - m
    BY ZenonT(60) DEF CountAfter, WasWaiting, done, start
  <2>4. QED
    BY <1>2, <1>6, <2>1, <2>2, <2>3
<1> HIDE DEF s, count, n
<1>8. v = Put(s, r, f)
  BY <1>5, ZenonT(60) DEF Elsewhere, UnmapPass, Put, World, s, count, J, n, done, start
<1>9. /\ s.req[r] \in ReqType
      /\ s.req[r].io = [j \in 1 .. MaxIo |-> IF j \in J THEN "busy" ELSE p.io[j]]
      /\ s.req[r].st = p.st /\ s.req[r].cpl = p.cpl
      /\ s.req[r].cmd = p.cmd /\ s.req[r].slot = p.slot /\ s.req[r].iov = p.iov
      /\ s.req[r].sc = p.sc /\ s.req[r].failed = p.failed
      /\ s \in World /\ s.ctx = w.ctx /\ \A x \in Reqs \ {r} : s.req[x] = w.req[x]
  BY <1>5, ZenonT(60) DEF Submitted, Elsewhere
<1>10. f \in ReqType
  <2>1. p.sent \cup done \in SUBSET (1 .. MaxIo)
    BY <1>1, <1>2, ZenonT(60)
  <2>2. start + n \in Nat
    BY <1>1, <1>2
  <2>3. QED
    BY <1>7, <1>9, <2>1, <2>2, ZenonT(60) DEF ReqType
<1>11. /\ f.st = s.req[r].st /\ f.cpl = s.req[r].cpl /\ f.cmd = s.req[r].cmd
       /\ f.slot = s.req[r].slot /\ f.iov = s.req[r].iov /\ f.io = s.req[r].io
       /\ f.count = count /\ f.range_index = start + n /\ f.sent = p.sent \cup done
       /\ f.sc = s.req[r].sc /\ f.failed = s.req[r].failed
  BY <1>9, ZenonT(60) DEF ReqType
<1> HIDE DEF f
<1>12. /\ v \in World /\ v.ctx = s.ctx /\ v.wq = s.wq
       /\ \A x \in Reqs \ {r} : v.req[x] = s.req[x]
       /\ v.req[r] = f
  BY <1>8, <1>9, <1>10, PutReq
<1>13. DsmOK(f, 0)
  <2>1. BusyIo(f) = BusyIo(s.req[r])
    BY <1>11, ZenonT(60) DEF BusyIo
  <2>2. \A j \in 1 .. MaxIo : f.io[j] # "none" => j <= f.range_index
    BY <1>1, <1>2, <1>3, <1>9, <1>11 DEF J
  <2>3. f.count = Cardinality(BusyIo(f)) + 0
    BY <1>7, <1>11, <2>1
  <2>4. f.failed => f.sc # "SUCCESS"
    BY <1>9, <1>11, ZenonT(60) DEF DsmOK
  <2>5. QED
    BY <2>2, <2>3, <2>4, ZenonT(60) DEF DsmOK
<1>14. \A j \in 1 .. MaxIo : f.io[j] # "held"
  BY <1>9, <1>11
<1>14a. \A j \in f.sent : RangeOK(f.cmd, j)
  BY <1>2a, <1>9, <1>11, ZenonT(60)
<1> HIDE DEF p, v
<1>15. Elsewhere(w, v, r) /\ v.wq = w.wq
  BY <1>5, <1>9, <1>12, ZenonT(60) DEF Elsewhere
<1>16. Passed(w, v, r, count)
  BY <1>9, <1>11, <1>12, <1>13, <1>14, <1>14a, <1>15, ZenonT(60) DEF Passed, p
<1>17. QED
  BY <1>16, ZenonT(60) DEF v, count, p

(***************************************************************************)
(* A DSM request is in order, waiting (m = 1) or not, as long as a command *)
(* within the limit is not completed with unmaps in flight.                *)
(***************************************************************************)
LEMMA DsmInOrder ==
  ASSUME CountsIo, NEW x \in Reqs, NEW cx, NEW q \in ReqType, NEW m \in {0, 1},
         q.st # "idle", q.cmd \in Cmds, q.cmd.op = "DSM", Len(q.iov) = q.cmd.len,
         \A j \in 1 .. MaxIo : q.io[j] # "held", DsmOK(q, m),
         \A j \in q.sent : RangeOK(q.cmd, j),
         ~OverLimit(q.cmd) => \/ q.st = "exec" /\ q.cpl = 0
                              \/ q.st = "done" /\ q.cpl = 1 /\ q.count = 0
  PROVE  ReqOK(x, q, m, cx)
<1>1. ASSUME q.count = 0
      PROVE  BusyIo(q) = {} /\ m = 0
  <2>1. BusyIo(q) \in SUBSET (1 .. MaxIo) /\ Cardinality(BusyIo(q)) \in Nat
    BY ZenonT(60) DEF BusyIo, CountsIo
  <2>2. Cardinality(BusyIo(q)) = 0 /\ m = 0
    BY <1>1, <2>1 DEF DsmOK
  <2>3. QED
    BY <2>1, <2>2, ZenonT(60) DEF CountsIo
<1>2. ~OverLimit(q.cmd) => LifeOK(q, m)
  BY <1>1 DEF LifeOK
<1>3. QED
  BY <1>2, ZenonT(60) DEF ReqOK, OneIo, SimpleOps

OnlyCount(p, q, n) ==
  /\ q \in ReqType
  /\ q.st = p.st /\ q.cpl = p.cpl /\ q.sc = p.sc
  /\ q.cmd = p.cmd /\ q.io = p.io /\ q.slot = p.slot /\ q.iov = p.iov
  /\ q.count = n /\ q.range_index = p.range_index
  /\ q.sent = p.sent /\ q.failed = p.failed

SetCount(w, r, n) == [w EXCEPT !.req[r].count = n]

(***************************************************************************)
(* Setting unmap_count changes nothing else.                               *)
(***************************************************************************)
LEMMA SetCountFacts ==
  ASSUME NEW w \in World, NEW r \in Reqs, NEW n \in Nat
  PROVE  LET v == SetCount(w, r, n)
         IN /\ Elsewhere(w, v, r) /\ OnlyCount(w.req[r], v.req[r], n)
            /\ v.wq = w.wq /\ v.cache = w.cache /\ v.pool = w.pool
<1> DEFINE p == w.req[r]
           f == [p EXCEPT !.count = n]
<1>1. p \in ReqType
  BY WorldFacts, ZenonT(60)
<1>2. f \in ReqType
  BY <1>1, ZenonT(60) DEF ReqType
<1>3. SetCount(w, r, n) = Put(w, r, f)
  BY ZenonT(60) DEF SetCount, Put, World
<1>4. OnlyCount(p, f, n)
  BY <1>1, <1>2, ZenonT(60) DEF OnlyCount, ReqType
<1> HIDE DEF f, p
<1> DEFINE v == SetCount(w, r, n)
<1>5. /\ v \in World /\ v.ctx = w.ctx /\ v.wq = w.wq
      /\ v.cache = w.cache /\ v.pool = w.pool
      /\ \A x \in Reqs \ {r} : v.req[x] = w.req[x]
      /\ v.req[r] = f
  BY <1>2, <1>3, PutReq
<1>6. QED
  BY <1>4, <1>5, ZenonT(60) DEF Elsewhere, p

(***************************************************************************)
(* The ways a pass ends: all ranges submitted, a status set for the unmaps *)
(* in flight to report, the command completed, or the request queued.      *)
(***************************************************************************)
LEMMA DsmEnds ==
  ASSUME CountsIo, NEW w \in World, NEW r \in Reqs, NEW v \in World, NEW count \in Nat,
         NEW p, p = w.req[r], NEW q, q = v.req[r], q \in ReqType,
         Passed(w, v, r, count), NEW u, Elsewhere(v, u, r), NEW f, f = u.req[r],
         f \in ReqType, f.cmd = q.cmd, f.slot = q.slot, f.iov = q.iov, f.io = q.io,
         f.range_index = q.range_index, f.st # "idle", f.sent = q.sent,
         f.failed = q.failed, f.sc = q.sc \/ f.sc # "SUCCESS",
         p.cmd \in Cmds, p.cmd.op = "DSM", Len(p.iov) = p.cmd.len,
         \/ u.wq = w.wq /\ f.count = count
         \/ u.wq = Append(w.wq, r) /\ f.count = count + 1,
         ~OverLimit(p.cmd) => \/ f.st = "exec" /\ f.cpl = 0
                              \/ f.st = "done" /\ f.cpl = 1 /\ f.count = 0
  PROVE  HandledBy(w, u, r)
<1>1. /\ q.st = p.st /\ q.cmd = p.cmd /\ q.slot = p.slot
      /\ q.iov = p.iov /\ q.count = count /\ DsmOK(q, 0)
      /\ \A j \in 1 .. MaxIo : q.io[j] # "held"
      /\ \A j \in q.sent : RangeOK(q.cmd, j)
  BY ZenonT(60) DEF Passed
<1>2. Elsewhere(w, u, r)
  BY ZenonT(60) DEF Passed, Elsewhere
<1>3. BusyIo(f) = BusyIo(q) /\ Cardinality(BusyIo(q)) \in Nat
  BY DEF BusyIo, CountsIo
<1>4. q.count = Cardinality(BusyIo(q))
  BY <1>1, <1>3 DEF DsmOK
<1>5. f.count = count + 0 => DsmOK(f, 0)
  BY <1>1, <1>3, <1>4, ZenonT(60) DEF DsmOK
<1>6. f.count = count + 1 => DsmOK(f, 1)
  BY <1>1, <1>3, <1>4, ZenonT(60) DEF DsmOK
<1>7. /\ f.cmd = p.cmd /\ f.cmd \in Cmds /\ f.cmd.op = "DSM" /\ Len(f.iov) = f.cmd.len
      /\ \A j \in 1 .. MaxIo : f.io[j] # "held"
      /\ \A j \in f.sent : RangeOK(f.cmd, j)
  BY <1>1, ZenonT(60)
<1>8. CASE u.wq = w.wq /\ f.count = count
  <2>1. DsmOK(f, 0)
    BY <1>5, <1>8
  <2>2. ReqOK(r, f, 0, u.ctx)
    BY <1>7, <2>1, DsmInOrder, ZenonT(60)
  <2>3. QED
    BY <1>1, <1>2, <1>8, <2>2, ZenonT(60) DEF HandledBy
<1>9. CASE u.wq = Append(w.wq, r) /\ f.count = count + 1
  <2>1. DsmOK(f, 1)
    BY <1>6, <1>9, ZenonT(60)
  <2>2. ReqOK(r, f, 1, u.ctx)
    BY <1>7, <2>1, DsmInOrder, ZenonT(60)
  <2>3. QED
    BY <1>1, <1>2, <1>9, <2>2, ZenonT(60) DEF HandledBy
<1>10. QED
  BY <1>8, <1>9, ZenonT(60)

(***************************************************************************)
(* The ways nvmf_bdev_ctrlr_unmap ends after a pass: the unmaps are in     *)
(* flight, or the command fails, is completed, or waits for a descriptor   *)
(* with the count of one more.                                             *)
(***************************************************************************)
LEMMA PassHandles ==
  ASSUME CountsIo, NEW w \in World, NEW r \in Reqs, NEW v, NEW count, Passed(w, v, r, count),
         w.req[r].cmd \in Cmds, w.req[r].cmd.op = "DSM",
         Len(w.req[r].iov) = w.req[r].cmd.len, w.req[r].st # "idle",
         ~OverLimit(w.req[r].cmd) => w.req[r].st = "exec" /\ w.req[r].cpl = 0
  PROVE  /\ HandledBy(w, v, r)
         /\ \A sc \in Statuses \ {"SUCCESS"} : HandledBy(w, SetSc(v, r, sc), r)
         /\ OverLimit(w.req[r].cmd) \/ count = 0 =>
              \A sc \in Statuses \ {"SUCCESS"} : HandledBy(w, Complete(v, r, sc), r)
         /\ HandledBy(w, nvmf_bdev_ctrl_queue_io(SetCount(v, r, count + 1), r), r)
<1> DEFINE p == w.req[r]
           q == v.req[r]
<1>1. /\ q.st = p.st /\ q.cpl = p.cpl /\ q.cmd = p.cmd /\ q.slot = p.slot
      /\ q.iov = p.iov /\ q.count = count /\ v.wq = w.wq /\ v \in World
  BY ZenonT(60) DEF Passed, Elsewhere
<1>2. q \in ReqType
  BY <1>1, WorldFacts, ZenonT(60)
<1>3. count \in Nat /\ count = count + 0
  BY <1>1, <1>2, ReqFields
<1>4. HandledBy(w, v, r)
  <2>1. Elsewhere(v, v, r)
    BY <1>1, ZenonT(60) DEF Elsewhere
  <2>2. QED
    BY <1>1, <1>2, <1>3, <2>1, DsmEnds
<1>5. \A sc \in Statuses \ {"SUCCESS"} : HandledBy(w, SetSc(v, r, sc), r)
  <2> TAKE sc \in Statuses \ {"SUCCESS"}
  <2> DEFINE u == SetSc(v, r, sc)
             f == u.req[r]
  <2>1. Elsewhere(v, u, r) /\ OnlyStatus(q, f) /\ f.sc = sc /\ u.wq = v.wq
    BY <1>1, SetScFacts, ZenonT(60)
  <2> HIDE DEF u
  <2>2. /\ f.cmd = q.cmd /\ f.slot = q.slot /\ f.iov = q.iov
        /\ f.io = q.io /\ f.count = q.count
        /\ f.range_index = q.range_index /\ f.st = q.st
        /\ f.cpl = q.cpl /\ f \in ReqType /\ f.sent = q.sent /\ f.failed = q.failed
        /\ f.sc # "SUCCESS"
    BY <2>1, ZenonT(60) DEF OnlyStatus
  <2>3. HandledBy(w, u, r)
    BY <1>1, <1>2, <1>3, <2>1, <2>2, DsmEnds
  <2>4. QED
    BY <2>3, ZenonT(60) DEF u
<1>6. ASSUME OverLimit(p.cmd) \/ count = 0
      PROVE  \A sc \in Statuses \ {"SUCCESS"} : HandledBy(w, Complete(v, r, sc), r)
  <2> TAKE sc \in Statuses \ {"SUCCESS"}
  <2> DEFINE u == Complete(v, r, sc)
             f == u.req[r]
  <2>1. Elsewhere(v, u, r) /\ Completed(q, f, sc) /\ u.wq = v.wq
    BY <1>1, CompleteFacts, ZenonT(60)
  <2> HIDE DEF u
  <2>2. /\ f.cmd = q.cmd /\ f.slot = q.slot /\ f.iov = q.iov
        /\ f.io = q.io /\ f.count = q.count /\ f \in ReqType
        /\ f.range_index = q.range_index /\ f.st = "done"
        /\ f.cpl = q.cpl + 1 /\ f.sent = q.sent /\ f.failed = q.failed /\ f.sc # "SUCCESS"
    BY <2>1, ZenonT(60) DEF Completed
  <2>3. HandledBy(w, u, r)
    BY <1>1, <1>2, <1>3, <1>6, <2>1, <2>2, DsmEnds
  <2>4. QED
    BY <2>3, ZenonT(60) DEF u
<1>7. HandledBy(w, nvmf_bdev_ctrl_queue_io(SetCount(v, r, count + 1), r), r)
  <2> DEFINE t == SetCount(v, r, count + 1)
             u == nvmf_bdev_ctrl_queue_io(t, r)
             f == u.req[r]
  <2> DEFINE g == t.req[r]
  <2>1. Elsewhere(v, t, r) /\ OnlyCount(q, g, count + 1) /\ t.wq = v.wq
    BY <1>1, <1>3, SetCountFacts
  <2> HIDE DEF t
  <2>2. /\ g.cmd = q.cmd /\ g.slot = q.slot /\ g.iov = q.iov
        /\ g.io = q.io /\ g.count = count + 1
        /\ g.range_index = q.range_index /\ g.st = q.st
        /\ g.cpl = q.cpl /\ g \in ReqType /\ g.sent = q.sent /\ g.failed = q.failed
        /\ g.sc = q.sc
    BY <2>1, ZenonT(60) DEF OnlyCount
  <2>3. u \in World /\ u.req = t.req /\ u.ctx = t.ctx /\ u.wq = Append(t.wq, r)
    BY <2>1, QueueFacts, ZenonT(60) DEF Elsewhere
  <2> HIDE DEF u
  <2>4. /\ f.cmd = q.cmd /\ f.slot = q.slot /\ f.iov = q.iov
        /\ f.io = q.io /\ f.count = count + 1
        /\ f.range_index = q.range_index /\ f.st = q.st
        /\ f.cpl = q.cpl /\ f \in ReqType /\ f.sent = q.sent /\ f.failed = q.failed
        /\ f.sc = q.sc
    BY <2>1, <2>3, <2>2, ZenonT(60)
  <2>5. Elsewhere(v, u, r)
    BY <2>1, <2>3, ZenonT(60) DEF Elsewhere
  <2> HIDE DEF f, q, p
  <2>6. u.wq = Append(w.wq, r) /\ f.count = count + 1
    BY <1>1, <2>1, <2>3, <2>4, ZenonT(60)
  <2>7. HandledBy(w, u, r)
    BY <1>1, <1>2, <1>3, <2>4, <2>5, <2>6, DsmEnds DEF f, q, p
  <2>8. QED
    BY <2>7, ZenonT(60) DEF u, t
<1>8. QED
  BY <1>4, <1>5, <1>6, <1>7, ZenonT(60)

(***************************************************************************)
(* nvmf_bdev_ctrlr_unmap, first called or resumed, leaves count at the     *)
(* unmaps in flight plus one if it waits.  Within the discard limit it     *)
(* completes the command only with none in flight.                         *)
(***************************************************************************)
LEMMA UnmapHandles ==
  ASSUME CountsIo, NEW w \in World, NEW r \in Reqs, NEW resumed \in BOOLEAN,
         w.req[r].st # "idle", w.req[r].cmd.op = "DSM",
         ReqOK(r, w.req[r], WasWaiting(resumed), w.ctx),
         ~resumed => w.req[r].st = "exec"
  PROVE  HandledBy(w, nvmf_bdev_ctrlr_unmap(w, r, w.req[r].cmd, resumed), r)
<1> DEFINE p == w.req[r]
           c == p.cmd
           start == p.range_index
           done == Unmapped(w, c, start)
           n == Cardinality(done)
           count == CountAfter(w, r, c, resumed)
           v == UnmapPass(w, r, c, resumed)
           Return(sc) == IF resumed THEN SetSc(v, r, sc) ELSE Complete(v, r, sc)
<1>1. /\ c \in Cmds /\ DsmOK(p, WasWaiting(resumed)) /\ Len(p.iov) = c.len
      /\ \A j \in 1 .. MaxIo : p.io[j] # "held"
      /\ \A j \in p.sent : RangeOK(c, j)
      /\ (~OverLimit(c) => LifeOK(p, WasWaiting(resumed)))
  BY ZenonT(60) DEF ReqOK
<1>2. ~OverLimit(c) => p.st = "exec" /\ p.cpl = 0
  BY <1>1, ZenonT(60) DEF LifeOK, WasWaiting
<1>3. Passed(w, v, r, count)
  BY <1>1, UnmapPassFacts, ZenonT(60)
<1>4. start \in Nat
  BY WorldFacts, ReqFields, ZenonT(60)
<1>5. done # Passes(c, start) => n + 1 \in DOMAIN c.rng
  BY <1>1, <1>4, UnmappedFacts, ZenonT(60)
<1>6. done # Passes(c, start) /\ TooLarge(c, n + 1) => OverLimit(c)
  BY <1>5, ZenonT(60) DEF OverLimit, TooLarge
<1>7. nvmf_bdev_ctrlr_unmap(w, r, c, resumed) =
        IF done = Passes(c, start) THEN v
        ELSE IF TooLarge(c, n + 1) THEN Return("INVALID_FIELD")
        ELSE IF ~Refused(c, n + 1)
        THEN nvmf_bdev_ctrl_queue_io(SetCount(v, r, count + 1), r)
        ELSE IF count = 0 THEN Return("INTERNAL_DEVICE_ERROR")
        ELSE SetSc(v, r, "INTERNAL_DEVICE_ERROR")
  BY ZenonT(60) DEF nvmf_bdev_ctrlr_unmap, UnmapFails, SetSc, SetCount
<1>8. {"INVALID_FIELD", "INTERNAL_DEVICE_ERROR"} \subseteq Statuses \ {"SUCCESS"}
  BY ZenonT(60) DEF Statuses
<1> HIDE DEF v, count
<1>9. /\ HandledBy(w, v, r)
      /\ \A sc \in Statuses \ {"SUCCESS"} : HandledBy(w, SetSc(v, r, sc), r)
      /\ OverLimit(c) \/ count = 0 => \A sc \in Statuses \ {"SUCCESS"} : HandledBy(w, Complete(v, r, sc), r)
      /\ HandledBy(w, nvmf_bdev_ctrl_queue_io(SetCount(v, r, count + 1), r), r)
  BY <1>1, <1>2, <1>3, PassHandles, ZenonT(60)
<1> HIDE DEF done, n, start, c
<1>10. QED
  BY <1>6, <1>7, <1>8, <1>9, ZenonT(60) DEF c

(***************************************************************************)
(* The dispatch of a DSM command that has just arrived.                    *)
(***************************************************************************)
LEMMA DsmHandles ==
  ASSUME CountsIo, NEW w \in World, NEW r \in Reqs, NEW nomem \in BOOLEAN,
         w.req[r].st = "exec", w.req[r].cmd.op = "DSM", BusyIo(w.req[r]) = {},
         ~w.req[r].failed,
         ReqOK(r, w.req[r], 0, w.ctx)
  PROVE  HandledBy(w, Dispatch(w, r, w.req[r].cmd, nomem), r)
<1> DEFINE p == w.req[r]
           c == p.cmd
<1>1. /\ c \in Cmds /\ Len(p.iov) = c.len /\ DsmOK(p, 0)
      /\ \A j \in 1 .. MaxIo : p.io[j] # "held"
      /\ \A j \in p.sent : RangeOK(c, j)
      /\ ~OverLimit(c) => LifeOK(p, 0)
  BY ZenonT(60) DEF ReqOK
<1>2. p.count = 0 /\ (~OverLimit(c) => p.cpl = 0)
  <2>1. Cardinality(BusyIo(p)) = 0
    BY ZenonT(60) DEF CountsIo
  <2>2. QED
    BY <1>1, <2>1 DEF DsmOK, LifeOK
<1>3. \A sc \in Statuses : HandledBy(w, Complete(w, r, sc), r)
  <2> TAKE sc \in Statuses
  <2> DEFINE v == Complete(w, r, sc)
             q == v.req[r]
  <2>1. Elsewhere(w, v, r) /\ Completed(p, q, sc) /\ v.wq = w.wq
    BY CompleteFacts, ZenonT(60)
  <2> HIDE DEF v
  <2>2. /\ q \in ReqType /\ q.st = "done" /\ q.cpl = p.cpl + 1 /\ q.cmd = c /\ q.io = p.io
        /\ q.slot = p.slot /\ q.iov = p.iov /\ q.count = p.count
        /\ q.range_index = p.range_index /\ q.sent = p.sent /\ ~q.failed
    BY <2>1, ZenonT(60) DEF Completed
  <2>3. DsmOK(q, 0)
    BY <1>1, <2>2, ZenonT(60) DEF DsmOK, BusyIo
  <2> HIDE DEF q
  <2>4. ReqOK(r, q, 0, v.ctx)
    BY <1>1, <1>2, <2>2, <2>3, DsmInOrder
  <2>5. HandledBy(w, v, r)
    BY <2>1, <2>2, <2>4, ZenonT(60) DEF HandledBy, q
  <2>6. QED
    BY <2>5, ZenonT(60) DEF v
<1>4. HandledBy(w, nvmf_bdev_ctrlr_unmap(w, r, c, FALSE), r)
  BY UnmapHandles, ZenonT(60) DEF WasWaiting
<1>5. {"SUCCESS", "DATA_SGL_LENGTH_INVALID", "INTERNAL_DEVICE_ERROR", "INVALID_OPCODE"}
        \subseteq Statuses
  BY ZenonT(60) DEF Statuses
<1>6. HandledBy(w, nvmf_bdev_ctrlr_dsm_cmd(w, r, c, nomem), r)
  BY <1>3, <1>4, <1>5, ZenonT(60) DEF nvmf_bdev_ctrlr_dsm_cmd
<1> HIDE DEF c
<1>7. CASE c.op \in Unsupported
  BY <1>3, <1>5, <1>7, ZenonT(60) DEF Dispatch, c
<1>8. CASE c.op \notin Unsupported
  BY <1>6, <1>8, ZenonT(60) DEF Dispatch, c
<1>9. QED
  BY <1>7, <1>8, ZenonT(60)

-----------------------------------------------------------------------------
(***************************************************************************)
(* The queue of requests that wait for a descriptor, and what              *)
(* spdk_bdev_free_io, which calls them back, does to the world.            *)
(***************************************************************************)

(***************************************************************************)
(* A request appended to the queue.                                        *)
(***************************************************************************)
LEMMA QueueAppend ==
  ASSUME NEW q \in Seq(Reqs), NEW r \in Reqs, QueueOK(q), Waits(q, r) = 0
  PROVE  /\ QueueOK(Append(q, r)) /\ Waits(Append(q, r), r) = 1
         /\ \A x \in Reqs \ {r} : Waits(Append(q, r), x) = Waits(q, x)
<1> DEFINE t == Append(q, r)
           n == Len(q)
<1>1. /\ n \in Nat /\ Len(t) = n + 1 /\ t[n + 1] = r
      /\ \A i \in 1 .. n : t[i] = q[i] /\ q[i] \in Reqs
  OBVIOUS
<1>2. \A i \in 1 .. n : q[i] # r
  BY DEF Waits
<1> HIDE DEF t, n
<1>3. QueueOK(t)
  BY <1>1, <1>2 DEF QueueOK, n
<1>4. Waits(t, r) = 1
  BY <1>1 DEF Waits
<1>5. ASSUME NEW x \in Reqs \ {r}
      PROVE  Waits(t, x) = Waits(q, x)
  <2>1. (\E i \in 1 .. Len(t) : t[i] = x) <=> (\E i \in 1 .. n : q[i] = x)
    BY <1>1
  <2>2. QED
    BY <2>1, ZenonT(60) DEF Waits, n
<1>6. QED
  BY <1>3, <1>4, <1>5, ZenonT(60) DEF t

(***************************************************************************)
(* The queue without its first k + 1 requests.                             *)
(***************************************************************************)
GivesUp(q, k, x) == \E i \in 1 .. k : q[i] = x

RestOf(q, k, t) ==
  /\ t \in Seq(Reqs) /\ QueueOK(t)
  /\ \A x \in Reqs : GivesUp(q, k, x) => Waits(t, x) = 0 /\ Waits(q, x) = 1
  /\ k # Len(q) => /\ q[k + 1] \in Reqs /\ ~GivesUp(q, k, q[k + 1])
                   /\ Waits(t, q[k + 1]) = 0 /\ Waits(q, q[k + 1]) = 1
  /\ \A x \in Reqs :
       ~GivesUp(q, k, x) /\ (k # Len(q) => x # q[k + 1]) => Waits(t, x) = Waits(q, x)

(***************************************************************************)
(* Taking requests from the head of the wait queue leaves the others       *)
(* waiting.                                                                *)
(***************************************************************************)
LEMMA QueuePop ==
  ASSUME NEW q \in Seq(Reqs), QueueOK(q), NEW k \in 0 .. Len(q),
         NEW t, t = SubSeq(q, k + 2, Len(q))
  PROVE  RestOf(q, k, t)
<1> DEFINE n == Len(q)
<1>1. n \in Nat /\ k \in Nat /\ k <= n
  OBVIOUS
<1>2. /\ t \in Seq(Reqs)
      /\ Len(t) = IF k + 2 <= n THEN n - k - 1 ELSE 0
      /\ \A i \in 1 .. Len(t) : t[i] = q[k + 1 + i]
  OBVIOUS
<1>3. \A i, j \in 1 .. n : q[i] = q[j] => i = j
  BY ZenonT(60) DEF QueueOK
<1>4. \A i \in 1 .. n : q[i] \in Reqs
  OBVIOUS
<1> HIDE DEF n
<1>5. QueueOK(t)
  BY <1>1, <1>2, <1>3 DEF QueueOK
<1>6. \A i \in 1 .. n : i <= k + 1 => Waits(t, q[i]) = 0
  BY <1>1, <1>2, <1>3 DEF Waits
<1>7. \A i \in 1 .. n : Waits(q, q[i]) = 1
  BY ZenonT(60) DEF Waits, n
<1>8. k # n => /\ k + 1 \in 1 .. n /\ ~GivesUp(q, k, q[k + 1])
  BY <1>1, <1>3 DEF GivesUp
<1>9. ASSUME NEW x \in Reqs, ~GivesUp(q, k, x), k # n => x # q[k + 1]
      PROVE  Waits(t, x) = Waits(q, x)
  <2>1. ASSUME NEW i \in 1 .. n, q[i] = x
        PROVE  i - k - 1 \in 1 .. Len(t) /\ t[i - k - 1] = x
    BY <1>1, <1>2, <1>9, <2>1 DEF GivesUp
  <2>2. ASSUME NEW i \in 1 .. Len(t), t[i] = x
        PROVE  k + 1 + i \in 1 .. n /\ q[k + 1 + i] = x
    BY <1>1, <1>2, <2>2
  <2>3. QED
    BY <2>1, <2>2, ZenonT(60) DEF Waits, n
<1>10. \A x \in Reqs : GivesUp(q, k, x) => Waits(t, x) = 0 /\ Waits(q, x) = 1
  BY <1>1, <1>6, <1>7 DEF GivesUp
<1>11. QED
  BY <1>1, <1>2, <1>4, <1>5, <1>6, <1>7, <1>8, <1>9, <1>10 DEF n, RestOf

(***************************************************************************)
(* A handler that keeps its promise restores the invariant.                *)
(***************************************************************************)
LEMMA HandledKeeps ==
  ASSUME NEW w, NEW v, NEW r \in Reqs, WInvBut(w, {r}), HandledBy(w, v, r),
         Waits(w.wq, r) = 0
  PROVE  /\ WInvBut(v, {})
         /\ \A x \in Reqs \ {r} : Waits(v.wq, x) = Waits(w.wq, x)
<1>1. /\ w \in World /\ QueueOK(w.wq) /\ w.wq \in Seq(Reqs)
      /\ \A x \in Reqs \ {r} : ReqOK(x, w.req[x], Waits(w.wq, x), w.ctx)
  BY WorldFacts, ZenonT(60) DEF WInvBut
<1>2. v \in World /\ v.ctx = w.ctx /\ \A x \in Reqs \ {r} : v.req[x] = w.req[x]
  BY ZenonT(60) DEF HandledBy, Elsewhere
<1>3. /\ QueueOK(v.wq) /\ ReqOK(r, v.req[r], Waits(v.wq, r), v.ctx)
      /\ \A x \in Reqs \ {r} : Waits(v.wq, x) = Waits(w.wq, x)
  <2>1. CASE v.wq = w.wq /\ ReqOK(r, v.req[r], 0, v.ctx)
    BY <1>1, <2>1, ZenonT(60)
  <2>2. CASE v.wq = Append(w.wq, r) /\ ReqOK(r, v.req[r], 1, v.ctx)
    BY <1>1, <2>2, QueueAppend
  <2>3. QED
    BY <2>1, <2>2, ZenonT(60) DEF HandledBy
<1>4. \A x \in Reqs : ReqOK(x, v.req[x], Waits(v.wq, x), v.ctx)
  BY <1>1, <1>2, <1>3, ZenonT(60)
<1>5. QED
  BY <1>2, <1>3, <1>4, ZenonT(60) DEF WInvBut

GiveUpStatus == IF PathErrors THEN "PATH_ERROR" ELSE "INTERNAL_DEVICE_ERROR"

(***************************************************************************)
(* The world when the first k waiting requests have given up and the next  *)
(* one is about to run.                                                    *)
(***************************************************************************)
Popped(w, q, k) ==
  [w EXCEPT !.req = [r \in Reqs |-> IF GivesUp(q, k, r)
                                    THEN Complete(w, r, GiveUpStatus).req[r] ELSE @[r]],
            !.wq = SubSeq(q, k + 2, Len(q))]

(***************************************************************************)
(* The requests that give up are completed, and the others are left alone. *)
(***************************************************************************)
LEMMA PoppedFacts ==
  ASSUME NEW w \in World, NEW q \in Seq(Reqs), NEW k \in 0 .. Len(q), QueueOK(q),
         NEW v, v = Popped(w, q, k)
  PROVE  /\ v \in World /\ v.ctx = w.ctx /\ v.wq = SubSeq(q, k + 2, Len(q))
         /\ \A x \in Reqs :
              IF GivesUp(q, k, x) THEN Completed(w.req[x], v.req[x], GiveUpStatus)
              ELSE v.req[x] = w.req[x]
<1> DEFINE Done(x) == Complete(w, x, GiveUpStatus).req[x]
           f == [x \in Reqs |-> IF GivesUp(q, k, x) THEN Done(x) ELSE w.req[x]]
           t == SubSeq(q, k + 2, Len(q))
<1>1. GiveUpStatus \in Statuses
  BY ZenonT(60) DEF GiveUpStatus, Statuses
<1>2. \A x \in Reqs : Completed(w.req[x], Done(x), GiveUpStatus)
  BY <1>1, CompleteFacts, ZenonT(60)
<1>3. \A x \in Reqs : Done(x) \in ReqType /\ w.req[x] \in ReqType
  BY <1>2, WorldFacts, ZenonT(60) DEF Completed
<1>4. t \in Seq(Reqs)
  BY QueuePop, ZenonT(60) DEF RestOf
<1> HIDE DEF t, Done
<1>5. f \in [Reqs -> ReqType]
  BY <1>3, ZenonT(60)
<1>6. v = [w EXCEPT !.req = f, !.wq = t]
  BY ZenonT(60) DEF Popped, World, Done, t
<1>7. v \in World
  BY <1>4, <1>5, <1>6, ZenonT(60) DEF World
<1>8. v.ctx = w.ctx /\ v.wq = t /\ v.req = f
  BY <1>6, ZenonT(60) DEF World
<1>9. \A x \in Reqs :
        IF GivesUp(q, k, x) THEN Completed(w.req[x], v.req[x], GiveUpStatus)
        ELSE v.req[x] = w.req[x]
  BY <1>2, <1>8, ZenonT(60)
<1>10. QED
  BY <1>7, <1>8, <1>9, ZenonT(60) DEF t

(***************************************************************************)
(* The requests that gave up are completed, and all but the one about to   *)
(* run are in order.                                                       *)
(***************************************************************************)
MayGiveUp(c) == (PathErrors /\ c.op # "DSM") \/ (AllocFaults /\ c.op = "GREP")

NextToRun(w, v, q, k) ==
  /\ Called(w, v)
  /\ k = Len(q) => WInvBut(v, {})
  /\ k # Len(q) => /\ q[k + 1] \in Reqs /\ Waits(q, q[k + 1]) = 1
                   /\ Waits(v.wq, q[k + 1]) = 0 /\ WInvBut(v, {q[k + 1]})
                   /\ v.req[q[k + 1]] = w.req[q[k + 1]]

(***************************************************************************)
(* When the wait queue is served, the requests that give up end in order,  *)
(* and one request is left to run.                                         *)
(***************************************************************************)
LEMMA PoppedKeeps ==
  ASSUME NEW w, NEW q, q = w.wq, WInvBut(w, {}), NEW k \in 0 .. Len(q),
         \A x \in Reqs : GivesUp(q, k, x) => MayGiveUp(w.req[x].cmd),
         NEW v, v = Popped(w, q, k)
  PROVE  NextToRun(w, v, q, k)
<1>1. /\ w \in World /\ QueueOK(q) /\ q \in Seq(Reqs)
      /\ \A x \in Reqs : ReqOK(x, w.req[x], Waits(q, x), w.ctx)
  BY WorldFacts, ZenonT(60) DEF WInvBut
<1> DEFINE n == Len(q)
           first == q[k + 1]
<1>2. /\ v.wq \in Seq(Reqs) /\ QueueOK(v.wq)
      /\ \A x \in Reqs : GivesUp(q, k, x) => Waits(v.wq, x) = 0 /\ Waits(q, x) = 1
      /\ k # n => /\ first \in Reqs /\ ~GivesUp(q, k, first)
                  /\ Waits(v.wq, first) = 0 /\ Waits(q, first) = 1
      /\ \A x \in Reqs :
           ~GivesUp(q, k, x) /\ (k # n => x # first) => Waits(v.wq, x) = Waits(q, x)
  <2>1. v.wq = SubSeq(q, k + 2, Len(q))
    BY <1>1, PoppedFacts
  <2>2. RestOf(q, k, v.wq)
    BY <1>1, <2>1, QueuePop, ZenonT(60)
  <2>3. QED
    BY <2>2, ZenonT(60) DEF RestOf
<1>3. /\ v \in World /\ v.ctx = w.ctx
      /\ \A x \in Reqs :
           IF GivesUp(q, k, x) THEN Completed(w.req[x], v.req[x], GiveUpStatus)
           ELSE v.req[x] = w.req[x]
  BY <1>1, PoppedFacts
<1> HIDE DEF n, first
<1>4. ASSUME NEW x \in Reqs, GivesUp(q, k, x)
      PROVE  /\ ReqOK(x, v.req[x], Waits(v.wq, x), v.ctx) /\ v.req[x].st = "done"
             /\ v.req[x].cmd = w.req[x].cmd /\ v.req[x].slot = w.req[x].slot
  <2> DEFINE p == w.req[x]
  <2>1. Waits(v.wq, x) = 0 /\ ReqOK(x, p, 1, w.ctx) /\ Completed(p, v.req[x], GiveUpStatus)
    BY <1>1, <1>2, <1>3, <1>4, ZenonT(60)
  <2>2. p.st # "idle" /\ p.cmd.op \in OneIo \cup {"DSM"}
    BY <2>1 DEF ReqOK
  <2>3. p.cmd.op # "DSM" /\ p \in ReqType
    BY <1>1, <1>4, WorldFacts, ZenonT(60) DEF MayGiveUp
  <2>4. GiveUpStatus # "SUCCESS"
    BY ZenonT(60) DEF GiveUpStatus
  <2>5. ReqOK(x, v.req[x], 0, w.ctx)
    BY <2>1, <2>2, <2>3, <2>4, OneIoCompleted, ZenonT(60)
  <2>6. QED
    BY <1>3, <2>1, <2>5, ZenonT(60) DEF Completed
<1>5. ASSUME NEW x \in Reqs, ~GivesUp(q, k, x), k # n => x # first
      PROVE  ReqOK(x, v.req[x], Waits(v.wq, x), v.ctx)
  BY <1>1, <1>2, <1>3, <1>5, ZenonT(60)
<1>6. k = n => WInvBut(v, {})
  BY <1>2, <1>3, <1>4, <1>5, ZenonT(60) DEF WInvBut
<1>7. k # n => WInvBut(v, {first})
  BY <1>2, <1>3, <1>4, <1>5, ZenonT(60) DEF WInvBut
<1>8. Called(w, v)
  <2>1. ASSUME NEW x \in Reqs, ~GivesUp(q, k, x)
        PROVE  IF Waits(q, x) = 0 THEN v.req[x] = w.req[x] /\ Waits(v.wq, x) = 0
               ELSE v.req[x].st # "idle"
    <3>1. v.req[x] = w.req[x]
      BY <1>3, <2>1, ZenonT(60)
    <3>2. Waits(q, x) = 0 => Waits(v.wq, x) = 0
      BY <1>2, <2>1, ZenonT(60)
    <3>3. Waits(q, x) # 0 => w.req[x].st # "idle"
      BY <1>1, ZenonT(60) DEF ReqOK
    <3>4. QED
      BY <3>1, <3>2, <3>3, ZenonT(60)
  <2>2. ASSUME NEW x \in Reqs, GivesUp(q, k, x)
        PROVE  Waits(q, x) # 0 /\ v.req[x].st # "idle"
    BY <1>2, <1>4, <2>2
  <2>3. QED
    BY <1>3, <1>4, <2>1, <2>2, ZenonT(60) DEF Called
<1>9. QED
  BY <1>2, <1>3, <1>6, <1>7, <1>8, ZenonT(60) DEF n, first, NextToRun

(***************************************************************************)
(* The callbacks of the waiting requests keep the invariant.               *)
(***************************************************************************)
LEMMA CallBackKeeps ==
  ASSUME CountsIo, NEW w, WInvBut(w, {}), w.wq = io_wait_queue, NEW k \in GiveUps,
         \A x \in Reqs : w.req[x].cmd = req[x].cmd
  PROVE  LET v == CallBackWaiters(w, k)
         IN Called(w, v) /\ WInvBut(v, {})
<1> DEFINE q == io_wait_queue
           u == Popped(w, q, k)
           first == q[k + 1]
           v == CallBackWaiters(w, k)
<1>1. w \in World /\ q \in Seq(Reqs)
  BY WorldFacts, ZenonT(60) DEF WInvBut
<1>2. k \in 0 .. Len(q) /\ \A i \in 1 .. k : MayGiveUp(req[q[i]].cmd)
  BY ZenonT(60) DEF GiveUps, MayGiveUp
<1>3. \A x \in Reqs : GivesUp(q, k, x) => MayGiveUp(w.req[x].cmd)
  BY <1>2, ZenonT(60) DEF GivesUp
<1>4. /\ Called(w, u)
      /\ k = Len(q) => WInvBut(u, {})
      /\ k # Len(q) => /\ first \in Reqs /\ Waits(q, first) = 1
                       /\ Waits(u.wq, first) = 0 /\ WInvBut(u, {first})
                       /\ u.req[first] = w.req[first]
  <2>1. NextToRun(w, u, q, k)
    BY <1>2, <1>3, PoppedKeeps, ZenonT(60)
  <2>2. QED
    BY <2>1, ZenonT(60) DEF NextToRun
<1>5. v = IF k = Len(q) THEN u
          ELSE IF req[first].cmd.op = "DSM" THEN nvmf_bdev_ctrlr_unmap(u, first, req[first].cmd, TRUE)
          ELSE Dispatch(u, first, req[first].cmd, FALSE)
  BY ZenonT(60) DEF CallBackWaiters, Popped, GivesUp, GiveUpStatus,
               nvmf_bdev_ctrlr_unmap_resubmit, nvmf_ctrlr_process_io_cmd_resubmit
<1> HIDE DEF u, v, q
<1>6. CASE k = Len(q)
  BY <1>4, <1>5, <1>6, ZenonT(60) DEF v
<1>7. CASE k # Len(q)
  <2>1. /\ u \in World /\ first \in Reqs /\ u.req[first] = w.req[first] /\ u.ctx = w.ctx
        /\ Waits(q, first) = 1 /\ Waits(u.wq, first) = 0 /\ WInvBut(u, {first})
    BY <1>4, <1>7, ZenonT(60) DEF Called
  <2> HIDE DEF first
  <2>2. ReqOK(first, u.req[first], 1, u.ctx)
    BY <2>1, ZenonT(60) DEF WInvBut, q
  <2>3. /\ u.req[first].st # "idle" /\ u.req[first].cmd = req[first].cmd
        /\ u.req[first].cmd.op \in OneIo \cup {"DSM"}
    BY <2>1, <2>2 DEF ReqOK
  <2>4. HandledBy(u, v, first)
    <3>1. CASE req[first].cmd.op = "DSM"
      <4>1. ReqOK(first, u.req[first], WasWaiting(TRUE), u.ctx)
        BY <2>2, ZenonT(60) DEF WasWaiting
      <4>2. HandledBy(u, nvmf_bdev_ctrlr_unmap(u, first, u.req[first].cmd, TRUE), first)
        BY <2>1, <2>3, <3>1, <4>1, UnmapHandles, ZenonT(60)
      <4>3. QED
        BY <1>5, <1>7, <2>3, <3>1, <4>2, ZenonT(60) DEF first
    <3>2. CASE req[first].cmd.op # "DSM"
      <4>1. HandledBy(u, Dispatch(u, first, u.req[first].cmd, FALSE), first)
        BY <2>1, <2>2, <2>3, <3>2, OneIoHandles, ZenonT(60)
      <4>2. QED
        BY <1>5, <1>7, <2>3, <3>2, <4>1, ZenonT(60) DEF first
    <3>3. QED
      BY <3>1, <3>2, ZenonT(60)
  <2>5. WInvBut(v, {}) /\ \A x \in Reqs \ {first} : Waits(v.wq, x) = Waits(u.wq, x)
    BY <2>1, <2>4, HandledKeeps, ZenonT(60)
  <2>6. Called(w, v)
    BY <1>4, <2>1, <2>4, <2>5 DEF Called, HandledBy, Elsewhere, q
  <2>7. QED
    BY <2>5, <2>6, ZenonT(60) DEF v
<1>8. QED
  BY <1>6, <1>7, ZenonT(60)

Cached(w) == [w EXCEPT !.cache = @ + 1]

Pooled(w) == [w EXCEPT !.pool = @ + 1]

(***************************************************************************)
(* spdk_bdev_free_io keeps the invariant, if giving back the I/O does.     *)
(***************************************************************************)
LEMMA FreeKeeps ==
  ASSUME CountsIo, NEW w \in World, NEW r \in Reqs, NEW j \in 1 .. MaxIo, NEW k \in GiveUps,
         WInvBut(Freed(w, r, j), {}), Freed(w, r, j).wq = io_wait_queue,
         \A x \in Reqs : Freed(w, r, j).req[x].cmd = req[x].cmd
  PROVE  LET v == spdk_bdev_free_io(w, r, j, k)
         IN Called(Freed(w, r, j), v) /\ WInvBut(v, {})
<1> DEFINE v == spdk_bdev_free_io(w, r, j, k)
           u == Freed(w, r, j)
           c == Cached(u)
           d == Pooled(u)
<1>1. u \in World /\ u.cache + 1 \in Int /\ u.pool + 1 \in Int
  BY WorldFacts DEF WInvBut
<1>2. c \in World /\ c.req = u.req /\ c.ctx = u.ctx /\ c.wq = u.wq
  BY <1>1, ZenonT(60) DEF World, Cached
<1>3. d \in World /\ d.req = u.req /\ d.ctx = u.ctx /\ d.wq = u.wq
  BY <1>1, ZenonT(60) DEF World, Pooled
<1>4. v = IF w.cache < CacheSize THEN CallBackWaiters(c, k) ELSE d
  BY ZenonT(60) DEF spdk_bdev_free_io, Freed, Cached, Pooled
<1> HIDE DEF c, d, v, u
<1>5. WInvBut(c, {}) /\ WInvBut(d, {})
  <2>1. QueueOK(u.wq) /\ \A x \in Reqs : ReqOK(x, u.req[x], Waits(u.wq, x), u.ctx)
    BY ZenonT(60) DEF WInvBut, u
  <2>2. WInvBut(c, {})
    BY <1>2, <2>1, ZenonT(60) DEF WInvBut
  <2>3. WInvBut(d, {})
    BY <1>3, <2>1, ZenonT(60) DEF WInvBut
  <2>4. QED
    BY <2>2, <2>3, ZenonT(60)
<1>6. Called(u, d)
  <2>1. \A x \in Reqs : Waits(u.wq, x) # 0 => u.req[x].st # "idle"
    BY ZenonT(60) DEF WInvBut, ReqOK, u
  <2>2. QED
    BY <1>3, <2>1, ZenonT(60) DEF Called
<1>7. Called(c, CallBackWaiters(c, k)) /\ WInvBut(CallBackWaiters(c, k), {})
  BY <1>2, <1>5, CallBackKeeps, ZenonT(60) DEF u
<1>8. Called(u, CallBackWaiters(c, k))
  BY <1>2, <1>7, ZenonT(60) DEF Called
<1>9. QED
  BY <1>4, <1>5, <1>6, <1>7, <1>8, ZenonT(60) DEF v, u

(***************************************************************************)
(* spdk_bdev_free_io serves the waiting requests as promised.              *)
(***************************************************************************)
LEMMA WaitersServed == ASSUME CountsIo PROVE ServesWaiters
  BY FreeKeeps, ZenonT(60) DEF ServesWaiters

(***************************************************************************)
(* A step that changes one request, and no context, keeps the worlds in    *)
(* order when that request stays in order.                                 *)
(***************************************************************************)
LEMMA FramedOne ==
  ASSUME IInv, NEW r \in Reqs, NEW u \in World, u.wq = io_wait_queue, u.ctx = ctx,
         \A x \in Reqs \ {r} : u.req[x] = req[x],
         ReqOK(r, u.req[r], Waits(io_wait_queue, r), ctx), SlotOK(u.req[r]),
         \A s \in Slots : ctx[s].req = r => CtxOK(u, s)
  PROVE  InOrder(u)
<1> DEFINE R == {r}
<1>1. /\ R \in SUBSET Reqs
      /\ \A x \in R : ReqOK(x, u.req[x], Waits(io_wait_queue, x), u.ctx) /\ SlotOK(u.req[x])
  BY ZenonT(60)
<1>2. /\ \A x \in Reqs \ R : u.req[x] = req[x]
      /\ \A s \in Slots : u.ctx[s] # ctx[s] \/ ctx[s].req \in R => CtxOK(u, s)
  BY ZenonT(60)
<1> HIDE DEF R
<1>3. QED
  BY <1>1, <1>2, Framed, ZenonT(60)

(***************************************************************************)
(* nvmf_bdev_ctrlr_complete_cmd and nvmf_bdev_ctrlr_complete_cmd_custom.   *)
(***************************************************************************)
LEMMA OneIoDone ==
  ASSUME IInv, CountsIo, NEW r \in Reqs, 1 \in 1 .. MaxIo, req[r].io[1] = "busy",
         req[r].cmd.op \in OneIo, NEW ok \in BOOLEAN, NEW sc \in Statuses, NEW k \in GiveUps,
         req[r].cmd.op # "GREP" => (sc = "SUCCESS" => ok)
  PROVE  LET v == spdk_bdev_free_io(Complete(Settled(r, ok), r, sc), r, 1, k)
         IN InOrder(v) /\ Moves(W, v)
<1> DEFINE p == req[r]
           n == Waits(io_wait_queue, r)
           a == Settled(r, ok)
           b == Complete(a, r, sc)
           u == Freed(b, r, 1)
           q == u.req[r]
<1>1. /\ p.st # "idle" /\ p.cmd \in Cmds /\ 1 \in BusyIo(p) /\ Len(p.iov) = p.cmd.len
      /\ ~OverLimit(p.cmd) => p.st = "exec" /\ p.cpl = 0
  BY BusyFacts, ZenonT(60) DEF OneIo, SimpleOps
<1>2. /\ ReqOK(r, p, n, ctx) /\ W.req = req /\ W.ctx = ctx /\ \A s \in Slots : CtxOK(W, s)
      /\ SlotOK(p)
  BY StateFacts, ZenonT(60)
<1>3. ~OverLimit(p.cmd) /\ p.cmd.op \notin {"DSM", "ECHO", "HEAAN_ADD"}
  BY ZenonT(60) DEF OverLimit, OneIo, SimpleOps
<1>4. Elsewhere(W, a, r) /\ Noted(p, a.req[r], ok) /\ a.wq = io_wait_queue
  BY SettledFacts, ZenonT(60)
<1>5. Elsewhere(a, b, r) /\ Completed(a.req[r], b.req[r], sc) /\ b.wq = a.wq
  BY <1>4, CompleteFacts, ZenonT(60) DEF Elsewhere
<1>6. Elsewhere(b, u, r) /\ GivenBack(b.req[r], q, 1) /\ u.wq = b.wq
  BY <1>5, FreedFacts, ZenonT(60) DEF Elsewhere
<1> HIDE DEF a, b, u
<1>7. /\ q.st = "done" /\ q.sc = sc /\ q.cpl = p.cpl + 1 /\ q.cmd = p.cmd /\ q.iov = p.iov
      /\ q.sent = p.sent /\ q.failed = (p.failed \/ ~ok)
      /\ q.io = [i \in 1 .. MaxIo |-> IF i = 1 THEN "freed" ELSE p.io[i]]
      /\ b.req[r].cmd = p.cmd /\ q.slot = p.slot
  <2>1. /\ a.req[r].cpl = p.cpl /\ a.req[r].cmd = p.cmd /\ a.req[r].iov = p.iov
        /\ a.req[r].sent = p.sent /\ a.req[r].failed = (p.failed \/ ~ok)
        /\ a.req[r].io = p.io /\ a.req[r].slot = p.slot
    BY <1>4, ZenonT(60) DEF Noted
  <2>2. /\ b.req[r].st = "done" /\ b.req[r].sc = sc /\ b.req[r].cpl = p.cpl + 1
        /\ b.req[r].cmd = p.cmd /\ b.req[r].iov = p.iov
        /\ b.req[r].sent = p.sent /\ b.req[r].failed = (p.failed \/ ~ok)
        /\ b.req[r].io = p.io /\ b.req[r].slot = p.slot
    BY <1>5, <2>1, ZenonT(60) DEF Completed
  <2>3. QED
    BY <1>6, <2>2, ZenonT(60) DEF GivenBack
<1>8. /\ u \in World /\ u.ctx = ctx /\ \A x \in Reqs \ {r} : u.req[x] = req[x]
      /\ b \in World /\ b.wq = io_wait_queue /\ u.wq = io_wait_queue
      /\ \A x \in Reqs : b.req[x].cmd = req[x].cmd
  BY <1>2, <1>4, <1>5, <1>6, <1>7 DEF Elsewhere
<1> HIDE DEF p, q
<1>9. /\ OneIoOK(p, n) /\ (p.cmd.op # "GREP" => Performed(p)) /\ n \in {0, 1}
      /\ \A i \in 1 .. MaxIo : p.io[i] # "held"
      /\ \A i \in p.sent : RangeOK(p.cmd, i)
  BY <1>1, <1>2, <1>3, ZenonT(60) DEF ReqOK, OneIo, Waits, p
<1>10. n = 0 /\ BusyIo(q) = {}
  BY <1>1, <1>7, <1>9 DEF OneIoOK, BusyIo
<1>11. ReqOK(r, q, 0, ctx)
  <2>1. LifeOK(q, 0) /\ OneIoOK(q, 0)
    BY <1>1, <1>3, <1>7, <1>9, <1>10 DEF LifeOK, OneIoOK
  <2>2. q.cmd.op # "GREP" => Performed(q)
    <3>1. ASSUME q.cmd.op # "GREP"
          PROVE  ~p.failed /\ q.cmd.op \in SimpleOps /\ 1 \in p.sent /\ (sc = "SUCCESS" => ok)
      BY <1>1, <1>3, <1>7, <1>9, <3>1, ZenonT(60) DEF Performed, OneIo, BusyIo, p
    <3>2. QED
      BY <1>7, <1>9, <3>1, ZenonT(60) DEF Performed
  <2>3. QED
    BY <1>1, <1>3, <1>7, <1>9, <1>10, <2>1, <2>2 DEF ReqOK, SimpleOps
<1>12. InOrder(u)
  <2>1. \A s \in Slots : ctx[s].req # r
    BY <1>3, NoContext, ZenonT(60) DEF p
  <2>2. SlotOK(q)
    BY <1>2, <1>7, ZenonT(60) DEF SlotOK
  <2>3. QED
    BY <1>8, <1>10, <1>11, <2>1, <2>2, FramedOne, ZenonT(60) DEF q, n
<1>13. Moves(W, u)
  BY <1>1, <1>2, <1>3, <1>7, <1>8, ZenonT(60) DEF Moves, p, q
<1>14. InOrder(spdk_bdev_free_io(b, r, 1, k)) /\ Moves(W, spdk_bdev_free_io(b, r, 1, k))
  BY <1>8, <1>12, <1>13, FreeInOrder, WaitersServed, ZenonT(60) DEF u
<1>15. QED
  BY <1>14, ZenonT(60) DEF b, a

(***************************************************************************)
(* nvmf_bdev_ctrlr_unmap_cpl: the count goes down with the unmap, and the  *)
(* command is completed at zero.                                           *)
(***************************************************************************)
UnmapSettled(r, ok, sc) ==
  [Settled(r, ok) EXCEPT !.req[r].sc = sc, !.req[r].count = @ - 1]

UnmapAnswered(r, ok, sc) ==
  IF UnmapSettled(r, ok, sc).req[r].count = 0
  THEN Complete(UnmapSettled(r, ok, sc), r, sc) ELSE UnmapSettled(r, ok, sc)

Counted(p, q, ok, sc) ==
  /\ q \in ReqType /\ q.cmd = p.cmd /\ q.slot = p.slot /\ q.iov = p.iov
  /\ q.range_index = p.range_index /\ q.count = p.count - 1 /\ q.io = p.io
  /\ q.sent = p.sent /\ q.failed = (p.failed \/ ~ok) /\ q.sc = sc
  /\ IF q.count = 0 THEN q.st = "done" /\ q.cpl = p.cpl + 1
     ELSE q.st = p.st /\ q.cpl = p.cpl

(***************************************************************************)
(* An unmap that is over takes one from the count, and the last one        *)
(* completes the command.                                                  *)
(***************************************************************************)
LEMMA UnmapAnsweredFacts ==
  ASSUME IInv, NEW r \in Reqs, NEW ok \in BOOLEAN, NEW sc \in Statuses,
         req[r].count - 1 \in Nat
  PROVE  LET v == UnmapAnswered(r, ok, sc)
         IN Elsewhere(W, v, r) /\ Counted(req[r], v.req[r], ok, sc) /\ v.wq = io_wait_queue
<1> DEFINE p == req[r]
           a == Settled(r, ok)
           g == a.req[r]
           m == p.count - 1
           f == [g EXCEPT !.sc = sc, !.count = m]
           b == UnmapSettled(r, ok, sc)
           v == UnmapAnswered(r, ok, sc)
<1>1. Elsewhere(W, a, r) /\ Noted(p, g, ok) /\ a.wq = io_wait_queue
  BY SettledFacts, ZenonT(60)
<1> HIDE DEF a
<1>2. g \in ReqType /\ g.count = p.count /\ a \in World
  BY <1>1, ZenonT(60) DEF Noted, Elsewhere
<1>3. b = Put(a, r, f)
  BY <1>2, ZenonT(60) DEF UnmapSettled, Put, World, a
<1> HIDE DEF m
<1>4. f \in ReqType
  BY <1>2, ZenonT(60) DEF ReqType, m
<1>5. /\ f.count = m /\ f.st = g.st /\ f.cpl = g.cpl /\ f.cmd = g.cmd /\ f.io = g.io
      /\ f.slot = g.slot /\ f.iov = g.iov /\ f.range_index = g.range_index
      /\ f.sent = g.sent /\ f.failed = g.failed /\ f.sc = sc
  BY <1>2, ZenonT(60) DEF ReqType
<1> HIDE DEF f, b
<1>6. /\ b \in World /\ b.ctx = a.ctx /\ b.wq = a.wq
      /\ \A x \in Reqs \ {r} : b.req[x] = a.req[x]
      /\ b.req[r] = f
  BY <1>2, <1>3, <1>4, PutReq, ZenonT(60)
<1>7. CASE m # 0
  <2>1. v = b
    BY <1>5, <1>6, <1>7, ZenonT(60) DEF UnmapAnswered, b
  <2>2. QED
    BY <1>1, <1>4, <1>5, <1>6, <1>7, <2>1, ZenonT(60) DEF Counted, Noted, Elsewhere, m
<1>8. CASE m = 0
  <2>1. v = Complete(b, r, sc)
    BY <1>5, <1>6, <1>8, ZenonT(60) DEF UnmapAnswered, b
  <2>2. Elsewhere(b, v, r) /\ Completed(f, v.req[r], sc) /\ v.wq = b.wq
    BY <1>6, <2>1, CompleteFacts, ZenonT(60)
  <2> HIDE DEF v
  <2>3. Counted(p, v.req[r], ok, sc)
    BY <1>1, <1>5, <1>8, <2>2, ZenonT(60) DEF Counted, Noted, Completed, m
  <2>4. QED
    BY <1>1, <1>6, <2>2, <2>3, ZenonT(60) DEF Elsewhere, v
<1>9. QED
  BY <1>7, <1>8, ZenonT(60)

(***************************************************************************)
(* An unmap is over: the command stays in order, also when it exceeded the *)
(* limit of the bdev and was completed before.                             *)
(***************************************************************************)
LEMMA UnmapDone ==
  ASSUME IInv, CountsIo, NEW r \in Reqs, NEW j \in 1 .. MaxIo, req[r].io[j] = "busy",
         req[r].cmd.op = "DSM", NEW ok \in BOOLEAN, NEW sc \in Statuses, NEW k \in GiveUps,
         sc = "SUCCESS" => ok /\ req[r].sc = "SUCCESS"
  PROVE  LET v == spdk_bdev_free_io(UnmapAnswered(r, ok, sc), r, j, k)
         IN InOrder(v) /\ Moves(W, v)
<1> DEFINE p == req[r]
           n == Waits(io_wait_queue, r)
           b == UnmapAnswered(r, ok, sc)
           u == Freed(b, r, j)
           q == u.req[r]
<1>1. /\ p.st # "idle" /\ p.cmd \in Cmds /\ j \in BusyIo(p) /\ Len(p.iov) = p.cmd.len
      /\ ~OverLimit(p.cmd) => p.st = "exec" /\ p.cpl = 0
  BY BusyFacts, ZenonT(60)
<1>2. /\ ReqOK(r, p, n, ctx) /\ W.req = req /\ W.ctx = ctx /\ \A s \in Slots : CtxOK(W, s)
      /\ p \in ReqType /\ SlotOK(p)
  BY StateFacts, ZenonT(60)
<1>3. /\ DsmOK(p, n) /\ \A i \in 1 .. MaxIo : p.io[i] # "held"
      /\ \A i \in p.sent : RangeOK(p.cmd, i)
  BY <1>1, <1>2, ZenonT(60) DEF ReqOK
<1>4. /\ BusyIo(p) \in SUBSET (1 .. MaxIo) /\ Cardinality(BusyIo(p)) \in Nat
      /\ n \in {0, 1}
  BY ZenonT(60) DEF BusyIo, CountsIo, Waits
<1>5. /\ Cardinality(BusyIo(p) \ {j}) = Cardinality(BusyIo(p)) - 1
      /\ Cardinality(BusyIo(p)) - 1 \in Nat
  <2>1. Cardinality(BusyIo(p) \ {j}) = Cardinality(BusyIo(p)) - 1
    BY <1>1, <1>4 DEF CountsIo
  <2>2. Cardinality(BusyIo(p)) # 0
    BY <1>1, <1>4, ZenonT(60) DEF CountsIo
  <2>3. QED
    BY <1>4, <2>1, <2>2
<1>6. p.count - 1 \in Nat /\ p.count - 1 = Cardinality(BusyIo(p) \ {j}) + n
  BY <1>3, <1>4, <1>5 DEF DsmOK
<1>7. Elsewhere(W, b, r) /\ Counted(p, b.req[r], ok, sc) /\ b.wq = io_wait_queue
  BY <1>6, UnmapAnsweredFacts, ZenonT(60)
<1>8. Elsewhere(b, u, r) /\ GivenBack(b.req[r], q, j) /\ u.wq = b.wq
  BY <1>7, FreedFacts, ZenonT(60) DEF Elsewhere
<1> HIDE DEF b, u
<1>9. /\ q \in ReqType /\ q.cmd = p.cmd /\ q.slot = p.slot /\ q.iov = p.iov
      /\ q.range_index = p.range_index /\ q.count = p.count - 1
      /\ q.io = [i \in 1 .. MaxIo |-> IF i = j THEN "freed" ELSE p.io[i]]
      /\ b.req[r].cmd = p.cmd
      /\ q.sent = p.sent /\ q.failed = (p.failed \/ ~ok) /\ q.sc = sc
      /\ IF q.count = 0 THEN q.st = "done" /\ q.cpl = p.cpl + 1
         ELSE q.st = p.st /\ q.cpl = p.cpl
  BY <1>7, <1>8, ZenonT(60) DEF Counted, GivenBack
<1>10. /\ u \in World /\ u.ctx = ctx /\ \A x \in Reqs \ {r} : u.req[x] = req[x]
       /\ b \in World /\ b.wq = io_wait_queue /\ u.wq = io_wait_queue
       /\ \A x \in Reqs : b.req[x].cmd = req[x].cmd
  BY <1>2, <1>7, <1>8, <1>9, ZenonT(60) DEF Elsewhere
<1>10a. q.failed => q.sc # "SUCCESS"
  BY <1>3, <1>9, ZenonT(60) DEF DsmOK
<1> HIDE DEF p, q, n
<1>11. ReqOK(r, q, n, ctx)
  <2>1. BusyIo(q) = BusyIo(p) \ {j}
    BY <1>9, ZenonT(60) DEF BusyIo
  <2>2. \A i \in 1 .. MaxIo : q.io[i] # "none" => i <= q.range_index
    BY <1>1, <1>3, <1>9, ZenonT(60) DEF DsmOK, BusyIo
  <2>3. DsmOK(q, n)
    BY <1>6, <1>9, <1>10a, <2>1, <2>2, ZenonT(60) DEF DsmOK
  <2>4. \A i \in 1 .. MaxIo : q.io[i] # "held"
    BY <1>3, <1>9, ZenonT(60)
  <2>5. /\ q.st # "idle"
        /\ ~OverLimit(q.cmd) => \/ q.st = "exec" /\ q.cpl = 0
                                \/ q.st = "done" /\ q.cpl = 1 /\ q.count = 0
    BY <1>1, <1>9
  <2>6. /\ q.cmd \in Cmds /\ q.cmd.op = "DSM" /\ Len(q.iov) = q.cmd.len
        /\ \A i \in q.sent : RangeOK(q.cmd, i)
    BY <1>1, <1>3, <1>9, ZenonT(60) DEF p
  <2>7. QED
    BY <1>4, <1>9, <2>3, <2>4, <2>5, <2>6, DsmInOrder, ZenonT(60)
<1>12. InOrder(u)
  <2>1. \A s \in Slots : ctx[s].req = r => CtxOK(u, s)
    BY <1>2, TypesAssumption DEF CtxOK
  <2>2. SlotOK(q)
    BY <1>2, <1>9, ZenonT(60) DEF SlotOK
  <2>3. QED
    BY <1>10, <1>11, <2>1, <2>2, FramedOne, ZenonT(60) DEF q, n
<1>13. Moves(W, u)
  BY <1>1, <1>2, <1>9, <1>10, ZenonT(60) DEF Moves, p, q
<1>14. InOrder(spdk_bdev_free_io(b, r, j, k)) /\ Moves(W, spdk_bdev_free_io(b, r, j, k))
  BY <1>10, <1>12, <1>13, FreeInOrder, WaitersServed, ZenonT(60) DEF u
<1>15. QED
  BY <1>14, ZenonT(60) DEF b

(***************************************************************************)
(* The commands whose handler queues them when there is no descriptor.     *)
(***************************************************************************)
LEMMA DispatchArrives ==
  ASSUME IInv, CountsIo, NEW r \in Reqs, NEW c \in Cmds, req[r].st = "idle",
         c.op \notin {"ECHO", "HEAAN_ADD"}, NEW nomem \in BOOLEAN,
         Step(Dispatch(Begin(r, c), r, c, nomem))
  PROVE  Kept
<1> DEFINE b == Begin(r, c)
           z == Dispatch(b, r, c, nomem)
<1>1. /\ Elsewhere(W, b, r) /\ Fresh(b.req[r], c) /\ b.req[r].st = "exec"
      /\ b.wq = io_wait_queue /\ Waits(io_wait_queue, r) = 0
      /\ \A s \in Slots : ctx[s].req # r
  BY BeginFacts, ZenonT(60)
<1> HIDE DEF b
<1>2. /\ W.req = req /\ W.ctx = ctx /\ QueueOK(io_wait_queue)
      /\ \A s \in Slots : CtxOK(W, s)
      /\ \A x \in Reqs : ReqOK(x, req[x], Waits(io_wait_queue, x), ctx) /\ SlotOK(req[x])
  BY StateFacts, ZenonT(60)
<1>3. b \in World /\ b.ctx = ctx /\ \A x \in Reqs \ {r} : b.req[x] = req[x]
  BY <1>1, <1>2, ZenonT(60) DEF Elsewhere
<1>4. b.req[r].cmd = c
  BY <1>1, ZenonT(60) DEF Fresh
<1>5. HandledBy(b, z, r)
  <2>1. /\ ReqOK(r, b.req[r], 0, b.ctx) /\ BusyIo(b.req[r]) = {}
        /\ c.op \in OneIo => ReqOK(r, b.req[r], 1, b.ctx)
        /\ ~b.req[r].failed
    BY <1>1, FreshInOrder, ZenonT(60) DEF Fresh
  <2>2. c.op \in OneIo \/ c.op = "DSM"
    BY CmdFacts, ZenonT(60) DEF Ops, OneIo
  <2>3. CASE c.op \in OneIo
    BY <1>1, <1>3, <1>4, <2>1, <2>3, OneIoHandles, ZenonT(60)
  <2>4. CASE c.op = "DSM"
    BY <1>1, <1>3, <1>4, <2>1, <2>4, DsmHandles, ZenonT(60)
  <2>5. QED
    BY <2>2, <2>3, <2>4, ZenonT(60)
<1>6. Step(z)
  BY ZenonT(60) DEF b
<1> HIDE DEF z
<1>7. WInvBut(b, {r})
  BY <1>1, <1>2, <1>3, ZenonT(60) DEF WInvBut
<1>8. WInvBut(z, {})
  BY <1>1, <1>5, <1>7, HandledKeeps, ZenonT(60)
<1>9. /\ z.ctx = ctx /\ \A x \in Reqs \ {r} : z.req[x] = req[x]
      /\ z.req[r].st # "idle"
  BY <1>3, <1>5, ZenonT(60) DEF HandledBy, Elsewhere
<1>10. ASSUME NEW s \in Slots
       PROVE  CtxOK(z, s)
  <2>1. CtxOK(W, s) /\ ctx[s].req # r
    BY <1>1, <1>2, ZenonT(60)
  <2>2. QED
    BY <1>2, <1>9, <2>1 DEF CtxOK
<1>11. InOrder(z)
  <2>1. SlotOK(z.req[r])
    BY <1>1, <1>5, ZenonT(60) DEF HandledBy, Fresh, SlotOK
  <2>2. QED
    BY <1>2, <1>8, <1>9, <1>10, <2>1, ZenonT(60) DEF InOrder
<1>12. Moves(W, z)
  BY <1>2, <1>9, ZenonT(60) DEF Moves
<1>13. QED
  BY <1>6, <1>11, <1>12, StepKeeps, ZenonT(60)
=============================================================================

--------------------------- MODULE CtrlrBdevProofs ---------------------------
(***************************************************************************)
(* Theorems about CtrlrBdev, for any requests, commands, device, pool and  *)
(* faults the assumptions allow.                                           *)
(***************************************************************************)
EXTENDS CtrlrBdevQueue, CtrlrBdevCustom, FiniteSetTheorems

(* A leaf that names no prover is for SMT, which may take a minute and is tried twice. *)
USE SMTT(60), Z3T(60)

(***************************************************************************)
(* nvmf_ctrlr_process_io_cmd.                                              *)
(***************************************************************************)
LEMMA ProcessKeeps ==
  ASSUME IInv, CountsIo, NEW r \in Reqs, NEW c \in Cmds, nvmf_ctrlr_process_io_cmd(r, c)
  PROVE  Kept
<1>1. req[r].st = "idle"
  BY ZenonT(60) DEF nvmf_ctrlr_process_io_cmd
<1>2. CASE Step(Complete(Begin(r, c), r, "PATH_ERROR"))
  <2>1. "PATH_ERROR" \in Statuses \ {"SUCCESS"}
    BY ZenonT(60) DEF Statuses
  <2>2. QED
    BY <1>1, <1>2, <2>1, RefusedKeeps, ZenonT(60)
<1>3. CASE c.op = "ECHO" /\ nvmf_bdev_ctrlr_custom_echo_cmd(Begin(r, c), r, c)
  BY <1>1, <1>3, EchoArrives, ZenonT(60)
<1>4. CASE c.op = "HEAAN_ADD" /\ nvmf_bdev_ctrlr_custom_heaan_cipadd_cmd(Begin(r, c), r, c)
  BY <1>1, <1>4, HeaanArrives, ZenonT(60)
<1>5. CASE /\ c.op \notin {"ECHO", "HEAAN_ADD"}
           /\ \E nomem \in NoMemory : Step(Dispatch(Begin(r, c), r, c, nomem))
  <2>1. NoMemory \subseteq BOOLEAN
    BY ZenonT(60) DEF NoMemory
  <2>2. QED
    BY <1>1, <1>5, <2>1, DispatchArrives, ZenonT(60)
<1>6. QED
  BY <1>2, <1>3, <1>4, <1>5, ZenonT(60) DEF nvmf_ctrlr_process_io_cmd

(***************************************************************************)
(* The completion callbacks.                                               *)
(***************************************************************************)
LEMMA CallbackKeeps ==
  ASSUME IInv, CountsIo, NEW r \in Reqs, NEW j \in 1 .. MaxIo, Callback(r, j)
  PROVE  Kept
<1>1. Outcomes \subseteq BOOLEAN
  BY ZenonT(60) DEF Outcomes
<1>2. CASE j = 1 /\ nvmf_bdev_ctrlr_complete_cmd(r)
  <2> DEFINE S(ok) == IF ok THEN "SUCCESS" ELSE "IO_ERROR"
             Z(ok, k) == spdk_bdev_free_io(Complete(Settled(r, ok), r, S(ok)), r, 1, k)
  <2>1. /\ req[r].io[1] = "busy" /\ req[r].cmd.op \in SimpleOps
        /\ \E ok \in Outcomes, k \in GiveUps : Step(Z(ok, k))
    BY <1>2, ZenonT(60) DEF nvmf_bdev_ctrlr_complete_cmd, Busy
  <2>2. PICK ok \in BOOLEAN, k \in GiveUps : Step(Z(ok, k))
    BY <1>1, <2>1, ZenonT(60)
  <2> DEFINE z == Z(ok, k)
             sc == S(ok)
  <2>3. sc \in Statuses /\ (sc = "SUCCESS" => ok) /\ req[r].cmd.op \in OneIo
    BY <2>1, ZenonT(60) DEF Statuses, OneIo
  <2>4. InOrder(z) /\ Moves(W, z)
    BY <1>2, <2>1, <2>3, OneIoDone, ZenonT(60)
  <2>5. Step(z)
    BY <2>2, ZenonT(60)
  <2> HIDE DEF z
  <2>6. QED
    BY <2>4, <2>5, StepKeeps, ZenonT(60)
<1>3. CASE j = 1 /\ nvmf_bdev_ctrlr_complete_cmd_custom(r)
  <2> DEFINE Z(ok, sc, k) == spdk_bdev_free_io(Complete(Settled(r, ok), r, sc), r, 1, k)
  <2>1. /\ req[r].io[1] = "busy" /\ req[r].cmd.op = "GREP"
        /\ \E ok \in Outcomes, sc \in {"SUCCESS", "INTERNAL_DEVICE_ERROR"}, k \in GiveUps :
             Step(Z(ok, sc, k))
    BY <1>3, ZenonT(60) DEF nvmf_bdev_ctrlr_complete_cmd_custom, Busy
  <2>2. PICK ok \in BOOLEAN, sc \in {"SUCCESS", "INTERNAL_DEVICE_ERROR"}, k \in GiveUps :
          Step(Z(ok, sc, k))
    BY <1>1, <2>1, ZenonT(60)
  <2> DEFINE z == Z(ok, sc, k)
  <2>3. sc \in Statuses /\ req[r].cmd.op \in OneIo
    BY <2>1, ZenonT(60) DEF Statuses, OneIo
  <2>4. InOrder(z) /\ Moves(W, z)
    BY <1>3, <2>1, <2>3, OneIoDone, ZenonT(60)
  <2>5. Step(z)
    BY <2>2, ZenonT(60)
  <2> HIDE DEF z
  <2>6. QED
    BY <2>4, <2>5, StepKeeps, ZenonT(60)
<1>4. CASE nvmf_bdev_ctrlr_unmap_cpl(r, j)
  <2> DEFINE S(ok) == IF req[r].sc = "SUCCESS" /\ ~ok THEN "IO_ERROR" ELSE req[r].sc
             Z(ok, k) == spdk_bdev_free_io(UnmapAnswered(r, ok, S(ok)), r, j, k)
  <2>1. /\ req[r].io[j] = "busy" /\ req[r].cmd.op = "DSM"
        /\ \E ok \in Outcomes, k \in GiveUps : Step(Z(ok, k))
    BY <1>4, ZenonT(60) DEF nvmf_bdev_ctrlr_unmap_cpl, Busy, UnmapAnswered, UnmapSettled
  <2>2. PICK ok \in BOOLEAN, k \in GiveUps : Step(Z(ok, k))
    BY <1>1, <2>1, ZenonT(60)
  <2> DEFINE z == Z(ok, k)
             sc == S(ok)
  <2>3. sc \in Statuses
    <3>1. req[r].sc \in Statuses
      BY StateFacts, ReqFields, ZenonT(60)
    <3>2. "IO_ERROR" \in Statuses
      BY ZenonT(60) DEF Statuses
    <3>3. QED
      BY <3>1, <3>2, ZenonT(60)
  <2>4. InOrder(z) /\ Moves(W, z)
    <3>1. sc = "SUCCESS" => ok /\ req[r].sc = "SUCCESS"
      BY ZenonT(60)
    <3> HIDE DEF sc
    <3>2. LET v == spdk_bdev_free_io(UnmapAnswered(r, ok, sc), r, j, k)
          IN InOrder(v) /\ Moves(W, v)
      BY <2>1, <2>3, <3>1, UnmapDone, ZenonT(60)
    <3>3. QED
      BY <3>2, ZenonT(60) DEF sc
  <2>5. Step(z)
    BY <2>2, ZenonT(60)
  <2> HIDE DEF z
  <2>6. QED
    BY <2>4, <2>5, StepKeeps, ZenonT(60)
<1>5. CASE j = 1 /\ nvmf_bdev_ctrlr_first_read_complete(r)
  BY <1>5, EchoFirst, WaitersServed, ZenonT(60)
<1>6. CASE j = 2 /\ nvmf_bdev_ctrlr_second_read_complete(r)
  BY <1>6, EchoSecond, WaitersServed, ZenonT(60)
<1>7. CASE nvmf_heaan_buffer_fill_complete(r, j) \/ nvmf_heaan_cip_write_complete(r, j)
  BY <1>7, HeaanCallbacks, WaitersServed, ZenonT(60)
<1>8. QED
  BY <1>2, <1>3, <1>4, <1>5, <1>6, <1>7, ZenonT(60) DEF Callback

(***************************************************************************)
(* The invariant holds at first: all requests are idle, all contexts free, *)
(* nobody waits.                                                           *)
(***************************************************************************)
LEMMA InitInv == Init => IInv
<1> SUFFICES ASSUME Init PROVE IInv
  BY ZenonT(60)
<1>1. /\ req = [r \in Reqs |-> IdleReq] /\ ctx = [s \in Slots |-> FreeCtx]
      /\ per_thread_cache_count = CacheSize /\ bdev_io_pool = PoolSize - CacheSize
      /\ io_wait_queue = <<>> /\ crashed = FALSE
  BY ZenonT(60) DEF Init
<1>2. IdleReq \in ReqType /\ IdleReq.st = "idle" /\ IdleReq.slot = None
  <2>1. /\ [j \in 1 .. MaxIo |-> "none"] \in [1 .. MaxIo -> IoStates] /\ "NONE" \in Statuses
        /\ <<>> \in Seq(Int) /\ 0 \in Nat
    BY DEF IoStates, Statuses
  <2>2. QED
    BY <2>1, ZenonT(60) DEF IdleReq, ReqType
<1>3. FreeCtx \in CtxType /\ FreeCtx.kind = "free" /\ FreeCtx.req = None
  BY DEF FreeCtx, CtxType
<1> HIDE DEF IdleReq, FreeCtx
<1>4. /\ req \in [Reqs -> ReqType] /\ ctx \in [Slots -> CtxType] /\ io_wait_queue \in Seq(Reqs)
      /\ per_thread_cache_count \in Int /\ bdev_io_pool \in Int
  BY <1>1, <1>2, <1>3, PoolAssumption
<1>5. W \in World
  BY <1>4, ZenonT(60) DEF W, World
<1>6. W.req = req /\ W.ctx = ctx /\ W.wq = io_wait_queue
  BY ZenonT(60) DEF W
<1> HIDE DEF W
<1>7. QueueOK(W.wq) /\ \A x \in Reqs : Waits(W.wq, x) = 0
  BY <1>1, <1>6 DEF QueueOK, Waits
<1>8. \A x \in Reqs : ReqOK(x, W.req[x], Waits(W.wq, x), W.ctx) /\ SlotOK(W.req[x])
  BY <1>1, <1>2, <1>6, <1>7, ZenonT(60) DEF ReqOK, SlotOK
<1>9. \A s \in Slots : CtxOK(W, s)
  BY <1>1, <1>3, <1>6, ZenonT(60) DEF CtxOK
<1>10. QED
  BY <1>1, <1>5, <1>7, <1>8, <1>9, ZenonT(60) DEF IInv, InOrder, WInvBut

(***************************************************************************)
(* The sizes of sets of a request's I/Os, from the library's theorems on   *)
(* finite sets.                                                            *)
(***************************************************************************)
LEMMA IoCounts == CountsIo
<1> DEFINE Io == SUBSET (1 .. MaxIo)
<1>1. MaxIo \in Nat /\ MaxIo \in Int
  BY TypesAssumption
<1>2. \A n \in 0 .. MaxIo : Cardinality(1 .. n) = n
  <2> SUFFICES ASSUME NEW n \in 0 .. MaxIo PROVE Cardinality(1 .. n) = n
    BY ZenonT(60)
  <2>1. n \in Int /\ n \in Nat
    BY <1>1
  <2>2. QED
    BY <2>1, FS_Interval
<1>3. ASSUME NEW J \in Io
      PROVE  IsFiniteSet(J) /\ Cardinality(J) \in Nat /\ Cardinality(J) <= MaxIo
  <2>1. IsFiniteSet(1 .. MaxIo) /\ Cardinality(1 .. MaxIo) = MaxIo
    BY <1>1, FS_Interval
  <2>2. IsFiniteSet(J) /\ Cardinality(J) <= Cardinality(1 .. MaxIo)
    BY <2>1, FS_Subset, ZenonT(60)
  <2>3. QED
    BY <2>1, <2>2, FS_CardinalityType, ZenonT(60)
<1>4. \A J \in Io : /\ \A I \in SUBSET J : Cardinality(I) <= Cardinality(J)
                    /\ \A I \in SUBSET J : Cardinality(I) = Cardinality(J) => I = J
  BY <1>3, FS_Subset, ZenonT(60)
<1>5. ASSUME NEW J \in Io
      PROVE  /\ Cardinality(J) = 0 => J = {}
             /\ \A j \in J : Cardinality(J \ {j}) = Cardinality(J) - 1
  BY <1>3, FS_EmptySet, FS_RemoveElement, ZenonT(60)
<1>6. ASSUME NEW I \in Io, NEW J \in Io, I \cap J = {}
      PROVE  Cardinality(I \cup J) = Cardinality(I) + Cardinality(J)
  <2>1. IsFiniteSet(I) /\ IsFiniteSet(J) /\ Cardinality(I) \in Nat /\ Cardinality(J) \in Nat
    BY <1>3, ZenonT(60)
  <2>2. Cardinality(I \cup J) = Cardinality(I) + Cardinality(J) - Cardinality(I \cap J)
    BY <2>1, FS_Union, ZenonT(60)
  <2>3. Cardinality(I \cap J) = 0
    BY <1>6, FS_EmptySet, ZenonT(60)
  <2>4. QED
    BY <2>1, <2>2, <2>3
<1>7. ASSUME NEW J \in Io, NEW a \in Nat
      PROVE  Cardinality({a + i : i \in J}) = Cardinality(J)
  <2> DEFINE K == {a + i : i \in J}
             g == [i \in J |-> a + i]
  <2>1. g \in [J -> K] /\ \A k \in K : \E i \in J : g[i] = k
    BY ZenonT(60)
  <2>2. \A h, i \in J : g[h] = g[i] => h = i
    OBVIOUS
  <2> HIDE DEF g, K
  <2>3. g \in Bijection(J, K)
    BY <2>1, <2>2, ZenonT(60) DEF Bijection, Injection, Surjection, IsInjective
  <2>4. ExistsBijection(J, K)
    BY <2>3, ZenonT(60) DEF ExistsBijection
  <2>5. QED
    BY <1>3, <2>4, FS_Bijection, ZenonT(60) DEF K
<1>8. Cardinality({}) = 0
  BY FS_EmptySet, ZenonT(60)
<1>9. QED
  <2> SUFFICES ASSUME NEW J \in Io
               PROVE  /\ Cardinality(J) \in Nat /\ Cardinality(J) <= MaxIo
                      /\ Cardinality(J) = 0 => J = {}
                      /\ \A j \in J : Cardinality(J \ {j}) = Cardinality(J) - 1
                      /\ \A I \in SUBSET J : Cardinality(I) <= Cardinality(J)
                      /\ \A I \in SUBSET J : Cardinality(I) = Cardinality(J) => I = J
                      /\ \A I \in SUBSET (1 .. MaxIo) : I \cap J = {} =>
                           Cardinality(I \cup J) = Cardinality(I) + Cardinality(J)
                      /\ \A a \in Nat : {a + i : i \in J} \subseteq 1 .. MaxIo =>
                           Cardinality({a + i : i \in J}) = Cardinality(J)
    BY <1>2, <1>8, ZenonT(60) DEF CountsIo
  <2>1. \A I \in Io : I \cap J = {} => Cardinality(I \cup J) = Cardinality(I) + Cardinality(J)
    BY <1>6, ZenonT(60)
  <2>2. \A a \in Nat : Cardinality({a + i : i \in J}) = Cardinality(J)
    BY <1>7, ZenonT(60)
  <2>3. Cardinality(J) \in Nat /\ Cardinality(J) <= MaxIo
    BY <1>3, ZenonT(60)
  <2>4. /\ \A I \in SUBSET J : Cardinality(I) <= Cardinality(J)
        /\ \A I \in SUBSET J : Cardinality(I) = Cardinality(J) => I = J
    BY <1>4, ZenonT(60)
  <2>5. /\ Cardinality(J) = 0 => J = {}
        /\ \A j \in J : Cardinality(J \ {j}) = Cardinality(J) - 1
    BY <1>5, ZenonT(60)
  <2>6. QED
    BY <2>1, <2>2, <2>3, <2>4, <2>5, ZenonT(60)

(***************************************************************************)
(* Every step keeps the invariant, and moves the requests as the transport *)
(* expects.                                                                *)
(***************************************************************************)
LEMMA NextKeeps == IInv /\ [Next]_vars => Kept
<1> SUFFICES ASSUME IInv, [Next]_vars PROVE Kept
  BY ZenonT(60)
<1>1. ASSUME NEW r \in Reqs, NEW c \in Cmds, nvmf_ctrlr_process_io_cmd(r, c)
      PROVE  Kept
  BY <1>1, ProcessKeeps, IoCounts, ZenonT(60)
<1>2. ASSUME NEW r \in Reqs, NEW j \in 1 .. MaxIo, Callback(r, j)
      PROVE  Kept
  BY <1>2, CallbackKeeps, IoCounts, ZenonT(60)
<1>3. CASE UNCHANGED vars
  <2>1. W' = W /\ crashed' = crashed
    BY <1>3, ZenonT(60) DEF W, vars
  <2>2. Moves(W, W)
    BY ZenonT(60) DEF Moves
  <2>3. QED
    BY <2>1, <2>2, ZenonT(60) DEF Kept, IInv
<1>4. QED
  BY <1>1, <1>2, <1>3, ZenonT(60) DEF Next

(***************************************************************************)
(* The inductive invariant holds always.                                   *)
(***************************************************************************)
THEOREM Invariance == Spec => []IInv
<1>1. IInv /\ [Next]_vars => IInv'
  BY NextKeeps, ZenonT(60) DEF Kept
<1>2. QED
  BY <1>1, InitInv, PTL DEF Spec

(***************************************************************************)
(* What the invariant says of the state, without worlds.                   *)
(***************************************************************************)
LEMMA Reached ==
  ASSUME IInv, NEW x \in Reqs, req[x].st # "idle"
  PROVE  /\ req[x] \in ReqType /\ req[x].cmd \in Cmds
         /\ \A j \in req[x].sent : RangeOK(req[x].cmd, j)
         /\ req[x].cmd.op # "HEAAN_ADD" => \A j \in 1 .. MaxIo : req[x].io[j] # "held"
         /\ ~OverLimit(req[x].cmd) => LifeOK(req[x], Waits(io_wait_queue, x))
         /\ req[x].cmd.op = "DSM" => DsmOK(req[x], Waits(io_wait_queue, x))
         /\ req[x].cmd.op = "ECHO" => EchoOK(x, req[x], ctx)
         /\ req[x].cmd.op \in SimpleOps \cup {"ECHO"} => Performed(req[x])
         /\ SlotOK(req[x])
<1>1. req[x] \in ReqType /\ SlotOK(req[x]) /\ ReqOK(x, req[x], Waits(io_wait_queue, x), ctx)
  BY StateFacts, ZenonT(60)
<1>2. QED
  BY <1>1, ZenonT(60) DEF ReqOK

(***************************************************************************)
(* A request the transport has not handed over has no I/O and waits for    *)
(* nothing.                                                                *)
(***************************************************************************)
LEMMA AtRest ==
  ASSUME IInv, NEW x \in Reqs, req[x].st = "idle"
  PROVE  /\ req[x] = IdleReq /\ BusyIo(req[x]) = {} /\ req[x].cpl = 0
         /\ \A j \in 1 .. MaxIo : req[x].io[j] = "none"
<1>1. ReqOK(x, req[x], Waits(io_wait_queue, x), ctx)
  BY StateFacts, ZenonT(60)
<1>2. req[x] = IdleReq
  BY <1>1, ZenonT(60) DEF ReqOK
<1>3. IdleReq.cpl = 0 /\ \A j \in 1 .. MaxIo : IdleReq.io[j] = "none"
  BY ZenonT(60) DEF IdleReq
<1>4. QED
  BY <1>2, <1>3, ZenonT(60) DEF BusyIo

(***************************************************************************)
(* The hosts never send a DSM range longer than max_discard_size: the      *)
(* handler completes such a command while other ranges of it are in        *)
(* flight, and again when they are done (README, Disagreements).           *)
(***************************************************************************)
DiscardsWithinLimit == \A c \in Cmds : ~OverLimit(c)

(***************************************************************************)
(* The hosts never send HEAAN_ADD, whose handler gives its context back    *)
(* while I/O is in flight when it runs out of descriptors (README,         *)
(* Disagreements).                                                         *)
(***************************************************************************)
NoHeaan == \A c \in Cmds : c.op # "HEAAN_ADD"

(***************************************************************************)
(* Whatever the hosts send: every range submitted, HEAAN_ADD's extents and *)
(* the destination of a COPY included, ends on the device, because         *)
(* nvmf_bdev_ctrlr_lba_in_range and bdev_io_valid_blocks are exact in      *)
(* arithmetic modulo 2^w.  FLUSH names no range of its own, and PASSTHRU   *)
(* is forwarded without a check.                                           *)
(***************************************************************************)
THEOREM StaysOnDevice == Spec => []IoStaysOnDevice
<1>1. ASSUME IInv PROVE IoStaysOnDevice
  <2> SUFFICES ASSUME NEW r \in Reqs, req[r].st # "idle",
                      req[r].cmd.op \notin {"FLUSH", "PASSTHRU"}, NEW i \in req[r].sent
               PROVE  OnDevice(req[r].cmd, i)
    BY ZenonT(60) DEF IoStaysOnDevice
  <2>1. RangeOK(req[r].cmd, i)
    BY <1>1, Reached, ZenonT(60)
  <2>2. QED
    BY <2>1, ZenonT(60) DEF RangeOK
<1>2. QED
  BY <1>1, Invariance, PTL

(***************************************************************************)
(* No handler completes a request twice, whatever the order of I/O         *)
(* completions and whatever fails, but for a DSM over the discard limit.   *)
(***************************************************************************)
THEOREM CompletesOnce ==
  ASSUME DiscardsWithinLimit
  PROVE  Spec => []CompletedAtMostOnce
<1>1. ASSUME IInv PROVE CompletedAtMostOnce
  <2> SUFFICES ASSUME NEW r \in Reqs PROVE req[r].cpl <= 1
    BY ZenonT(60) DEF CompletedAtMostOnce
  <2>1. CASE req[r].st = "idle"
    BY <1>1, <2>1, AtRest
  <2>2. CASE req[r].st # "idle"
    <3>1. LifeOK(req[r], Waits(io_wait_queue, r))
      BY <1>1, <2>2, Reached, ZenonT(60) DEF DiscardsWithinLimit
    <3>2. QED
      BY <3>1 DEF LifeOK
  <2>3. QED
    BY <2>1, <2>2, ZenonT(60)
<1>2. QED
  BY <1>1, Invariance, PTL

(***************************************************************************)
(* Beside any traffic, HEAAN_ADD and over-limit DSM of other requests      *)
(* included: once a request of another kind is completed, none of its I/O  *)
(* is in flight, it is not waiting for a descriptor, and no context points *)
(* to it.                                                                  *)
(***************************************************************************)
LetGo(r) ==
  /\ \A j \in 1 .. MaxIo : req[r].io[j] # "busy"
  /\ \A i \in DOMAIN io_wait_queue : io_wait_queue[i] # r
  /\ \A s \in Slots : ctx[s].req # r

Bystander(r) == req[r].cmd.op # "HEAAN_ADD" /\ ~OverLimit(req[r].cmd)

BystandersLetGo ==
  \A r \in Reqs : req[r].st = "done" /\ Bystander(r) => req[r].cpl = 1 /\ LetGo(r)

(***************************************************************************)
(* BystandersLetGo follows from the inductive invariant.                   *)
(***************************************************************************)
LEMMA DoneMeansIdle ==
  ASSUME IInv
  PROVE  BystandersLetGo
<1> SUFFICES ASSUME NEW r \in Reqs, req[r].st = "done", Bystander(r)
             PROVE  req[r].cpl = 1 /\ LetGo(r)
  BY ZenonT(60) DEF BystandersLetGo
<1>1. LifeOK(req[r], Waits(io_wait_queue, r)) /\ req[r].cmd.op # "HEAAN_ADD"
  BY Reached, ZenonT(60) DEF Bystander
<1>2. req[r].cpl = 1 /\ BusyIo(req[r]) = {} /\ Waits(io_wait_queue, r) # 1
  BY <1>1, ZenonT(60) DEF LifeOK
<1>3. \A j \in 1 .. MaxIo : req[r].io[j] # "busy"
  BY <1>2, ZenonT(60) DEF BusyIo
<1>4. \A i \in DOMAIN io_wait_queue : io_wait_queue[i] # r
  <2>1. DOMAIN io_wait_queue = 1 .. Len(io_wait_queue)
    BY StateFacts
  <2>2. QED
    BY <1>2, <2>1, ZenonT(60) DEF Waits
<1>5. ASSUME NEW s \in Slots PROVE ctx[s].req # r
  <2>1. CtxOK(W, s) /\ W.ctx = ctx /\ W.req = req
    BY StateFacts, ZenonT(60)
  <2>2. CASE ctx[s].kind = "free"
    BY <2>1, <2>2, TypesAssumption, ZenonT(60) DEF CtxOK
  <2>3. CASE ctx[s].kind # "free"
    BY <2>1, <2>3, ZenonT(60) DEF CtxOK
  <2>4. QED
    BY <2>2, <2>3, ZenonT(60)
<1>6. QED
  BY <1>2, <1>3, <1>4, <1>5, ZenonT(60) DEF LetGo

(***************************************************************************)
(* Whatever the hosts send, a completed request that is neither HEAAN_ADD  *)
(* nor an over-limit DSM has been completed once and is let go of.         *)
(***************************************************************************)
THEOREM OthersUnharmed == Spec => []BystandersLetGo
<1>1. IInv => BystandersLetGo
  BY DoneMeansIdle, ZenonT(60)
<1>2. QED
  BY <1>1, Invariance, PTL

(***************************************************************************)
(* When a request is completed nothing of it is in flight, waits or points *)
(* to it, so the transport may reuse its buffers.                          *)
(***************************************************************************)
THEOREM CompletedIsIdle ==
  ASSUME DiscardsWithinLimit, NoHeaan
  PROVE  Spec => []CompletedMeansIdle
<1>1. ASSUME IInv PROVE CompletedMeansIdle
  <2>1. ASSUME NEW r \in Reqs, req[r].st = "done" PROVE LetGo(r)
    <3>1. req[r].cmd \in Cmds
      BY <1>1, <2>1, Reached, ZenonT(60)
    <3>2. Bystander(r)
      BY <3>1, ZenonT(60) DEF Bystander, DiscardsWithinLimit, NoHeaan
    <3>3. QED
      BY <1>1, <2>1, <3>2, DoneMeansIdle, ZenonT(60) DEF BystandersLetGo
  <2>2. QED
    BY <2>1, ZenonT(60) DEF CompletedMeansIdle, LetGo
<1>2. QED
  BY <1>1, Invariance, PTL

(***************************************************************************)
(* Both reads of an ECHO find their own context when they complete.        *)
(***************************************************************************)
THEOREM ContextsLive ==
  ASSUME NoHeaan
  PROVE  Spec => []ContextsAreLive
<1>1. ASSUME IInv PROVE ContextsAreLive
  <2> SUFFICES ASSUME NEW r \in Reqs, NEW j \in 1 .. MaxIo,
                      req[r].io[j] = "busy", req[r].slot # None
               PROVE  ctx[req[r].slot].req = r
    BY ZenonT(60) DEF ContextsAreLive
  <2>1. req[r].st # "idle"
    BY <1>1, AtRest, ZenonT(60)
  <2>2. BusyIo(req[r]) # {}
    BY ZenonT(60) DEF BusyIo
  <2>3. req[r].cmd.op = "ECHO"
    BY <1>1, <2>1, Reached, ZenonT(60) DEF SlotOK, NoHeaan
  <2>4. EchoOK(r, req[r], ctx)
    BY <1>1, <2>1, <2>3, Reached, ZenonT(60)
  <2>5. QED
    BY <2>2, <2>4, ZenonT(60) DEF EchoOK
<1>2. QED
  BY <1>1, Invariance, PTL

(***************************************************************************)
(* A READ, WRITE, COMPARE, WRITE_ZEROES, FLUSH, COPY, PASSTHRU or ECHO     *)
(* reported successful has had all its I/O submitted and none of it        *)
(* failed, and a DSM reported successful has had no unmap fail, in         *)
(* whatever order the unmaps completed.                                    *)
(***************************************************************************)
THEOREM SuccessPerformed ==
  ASSUME NoHeaan
  PROVE  Spec => []SuccessMeansPerformed
<1>1. ASSUME IInv PROVE SuccessMeansPerformed
  <2> SUFFICES ASSUME NEW r \in Reqs, NEW op \in Ops \ {"GREP"}, Succeeded(r, op)
               PROVE  /\ ~req[r].failed
                      /\ \/ op = "DSM"
                         \/ op = "FLUSH" /\ req[r].cmd.arg = 1
                         \/ DOMAIN req[r].cmd.rng \subseteq req[r].sent
    BY ZenonT(60) DEF SuccessMeansPerformed
  <2>1. req[r].st = "done" /\ req[r].cmd.op = op /\ req[r].sc = "SUCCESS"
    BY ZenonT(60) DEF Succeeded
  <2>2. req[r].cmd \in Cmds
    BY <1>1, <2>1, Reached, ZenonT(60)
  <2>3. op \in SimpleOps \cup {"ECHO"} \/ op = "DSM"
    BY <2>1, <2>2, ZenonT(60) DEF NoHeaan, Ops, SimpleOps
  <2>4. CASE op \in SimpleOps \cup {"ECHO"}
    <3>1. Performed(req[r])
      BY <1>1, <2>1, <2>4, Reached, ZenonT(60)
    <3>2. QED
      BY <2>1, <3>1, ZenonT(60) DEF Performed
  <2>5. CASE op = "DSM"
    <3>1. DsmOK(req[r], Waits(io_wait_queue, r))
      BY <1>1, <2>1, <2>5, Reached, ZenonT(60)
    <3>2. QED
      BY <2>1, <2>5, <3>1, ZenonT(60) DEF DsmOK
  <2>6. QED
    BY <2>3, <2>4, <2>5, ZenonT(60)
<1>2. QED
  BY <1>1, Invariance, PTL

(***************************************************************************)
(* The two reads of an ECHO share its data buffer, so the second may be at *)
(* the bdev only after nvmf_bdev_ctrlr_first_read_complete has copied the  *)
(* metadata file out of it.  In every state between two callbacks: if a    *)
(* second read has been submitted then the first is over; while a read is  *)
(* in flight nothing of the command has failed and its own context is in   *)
(* place for its callback; and during the second read that context holds   *)
(* the metadata file.  (Within the callback the second read is submitted   *)
(* before the first descriptor is given back.)                             *)
(***************************************************************************)
EchoInOrder ==
  \A r \in Reqs : req[r].st # "idle" /\ req[r].cmd.op = "ECHO" =>
    /\ \A j \in 2 .. MaxIo : req[r].io[j] # "none" => req[r].io[1] = "freed"
    /\ \A j \in 1 .. MaxIo : req[r].io[j] = "busy" =>
         ~req[r].failed /\ ctx[req[r].slot].kind = "echo" /\ ctx[req[r].slot].req = r
    /\ \A j \in 2 .. MaxIo : req[r].io[j] = "busy" =>
         CopyHeld(ctx[req[r].slot].first_result, req[r].cmd)

(***************************************************************************)
(* Beside any traffic and under any faults, an ECHO overwrites its data    *)
(* buffer with the target file only when its own context holds a copy of   *)
(* the metadata file.                                                      *)
(***************************************************************************)
THEOREM EchoReadsInOrder == Spec => []EchoInOrder
<1>1. ASSUME IInv PROVE EchoInOrder
  <2> SUFFICES ASSUME NEW r \in Reqs, req[r].st # "idle", req[r].cmd.op = "ECHO"
               PROVE  /\ \A j \in 2 .. MaxIo : req[r].io[j] # "none" => req[r].io[1] = "freed"
                      /\ \A j \in 1 .. MaxIo : req[r].io[j] = "busy" =>
                           /\ ~req[r].failed
                           /\ ctx[req[r].slot].kind = "echo" /\ ctx[req[r].slot].req = r
                      /\ \A j \in 2 .. MaxIo : req[r].io[j] = "busy" =>
                           CopyHeld(ctx[req[r].slot].first_result, req[r].cmd)
    BY ZenonT(60) DEF EchoInOrder
  <2>1. /\ EchoOK(r, req[r], ctx) /\ Performed(req[r])
        /\ LifeOK(req[r], Waits(io_wait_queue, r))
    BY <1>1, Reached, ZenonT(60) DEF OverLimit
  <2>2. ASSUME NEW j \in 2 .. MaxIo, req[r].io[j] # "none"
        PROVE  j = 2 /\ j \in 1 .. MaxIo /\ req[r].io[1] = "freed"
    <3>1. j \in 1 .. MaxIo
      BY TypesAssumption
    <3>2. j = 2
      BY <2>1, <2>2, <3>1 DEF EchoOK
    <3>3. QED
      BY <2>1, <2>2, <3>1, <3>2, ZenonT(60) DEF EchoOK
  <2>3. ASSUME NEW j \in 1 .. MaxIo, req[r].io[j] = "busy"
        PROVE  /\ ~req[r].failed
               /\ ctx[req[r].slot].kind = "echo" /\ ctx[req[r].slot].req = r
    <3>1. BusyIo(req[r]) # {}
      BY <2>3, ZenonT(60) DEF BusyIo
    <3>2. ~req[r].failed
      BY <2>1, <3>1, ZenonT(60) DEF LifeOK, Performed
    <3>3. QED
      BY <2>1, <3>1, <3>2, ZenonT(60) DEF EchoOK
  <2>4. ASSUME NEW j \in 2 .. MaxIo, req[r].io[j] = "busy"
        PROVE  CopyHeld(ctx[req[r].slot].first_result, req[r].cmd)
    <3>1. 2 \in BusyIo(req[r])
      BY <2>2, <2>4, ZenonT(60) DEF BusyIo
    <3>2. QED
      BY <2>1, <3>1, ZenonT(60) DEF EchoOK
  <2>5. QED
    BY <2>2, <2>3, <2>4, ZenonT(60)
<1>2. QED
  BY <1>1, Invariance, PTL

(***************************************************************************)
(* The handlers implement the safety part of NvmfRequest, the service the  *)
(* transport relies on: a request is handed over once, completed once, and *)
(* its status does not change after that.                                  *)
(***************************************************************************)
ServiceSafety == Service!Init /\ [][Service!Next]_(Service!vars)

(***************************************************************************)
(* An initial state of the handlers is one of the service.                 *)
(***************************************************************************)
LEMMA ServiceInit == Init => Service!Init
<1> SUFFICES ASSUME Init PROVE Service!Init
  BY ZenonT(60)
<1>1. req = [r \in Reqs |-> IdleReq]
  BY ZenonT(60) DEF Init
<1>2. IdleReq.st = "idle" /\ IdleReq.sc \in Statuses
  BY ZenonT(60) DEF IdleReq, Statuses
<1> HIDE DEF IdleReq
<1>3. [r \in Reqs |-> req[r].st] = [r \in Reqs |-> "idle"]
  BY <1>1, <1>2, ZenonT(60)
<1>4. [r \in Reqs |-> req[r].sc] \in [Reqs -> Statuses]
  BY <1>1, <1>2, ZenonT(60)
<1>5. QED
  BY <1>3, <1>4, ZenonT(60) DEF Service!Init

(***************************************************************************)
(* Every step of the handlers is a step of the service.                    *)
(***************************************************************************)
LEMMA ServiceStep ==
  ASSUME DiscardsWithinLimit, IInv, [Next]_vars
  PROVE  Service!Next
<1>1. IInv' /\ Moves(W, W')
  BY NextKeeps, ZenonT(60) DEF Kept
<1>2. W.req = req /\ \A x \in Reqs : req[x] \in ReqType
  BY StateFacts, ZenonT(60)
<1>3. W'.req = req' /\ \A x \in Reqs : req'[x] \in ReqType
  <2>1. W'.req = req'
    BY ZenonT(60) DEF W
  <2>2. W' \in World
    BY <1>1, ZenonT(60) DEF IInv, InOrder, WInvBut
  <2>3. QED
    BY <2>1, <2>2, ZenonT(60) DEF World
<1>4. ASSUME NEW x \in Reqs
      PROVE  \/ req'[x].st = req[x].st /\ req'[x].sc = req[x].sc
             \/ req[x].st # "done" /\ req'[x].st # "idle"
  <2>1. req'[x].st # "idle" => ~OverLimit(req'[x].cmd)
    <3>1. req'[x].st # "idle" => req'[x].cmd \in Cmds
      <4>1. ReqOK(x, req'[x], Waits(W'.wq, x), W'.ctx)
        BY <1>1, <1>3, ZenonT(60) DEF IInv, InOrder, WInvBut
      <4>2. QED
        BY <4>1, ZenonT(60) DEF ReqOK
    <3>2. QED
      BY <3>1, ZenonT(60) DEF DiscardsWithinLimit
  <2>2. QED
    BY <1>1, <1>2, <1>3, <2>1, ZenonT(60) DEF Moves
<1>5. \A x \in Reqs : /\ req[x].st \in {"idle", "exec", "done"}
                     /\ req'[x].st \in {"idle", "exec", "done"}
                     /\ req'[x].sc \in Statuses
  BY <1>2, <1>3, ZenonT(60) DEF ReqType
<1> DEFINE st == [r \in Reqs |-> req[r].st]
           sc == [r \in Reqs |-> req[r].sc]
<1>6. /\ st' = [r \in Reqs |-> req'[r].st] /\ sc' = [r \in Reqs |-> req'[r].sc]
      /\ DOMAIN st' = Reqs /\ DOMAIN sc' = Reqs
  BY ZenonT(60)
<1>7. ASSUME NEW x \in Reqs
      PROVE  \/ Service!spdk_nvmf_request_exec(x)
             \/ Service!spdk_nvmf_request_complete(x)
             \/ Service!Executing(x)
             \/ Service!Untouched(x)
  BY <1>4, <1>5, ZenonT(60) DEF Service!spdk_nvmf_request_exec, Service!spdk_nvmf_request_complete,
       Service!Executing, Service!Untouched
<1>8. QED
  BY <1>6, <1>7, ZenonT(60) DEF Service!Next

(***************************************************************************)
(* The refinement, but for the liveness of the service.                    *)
(***************************************************************************)
THEOREM ImplementsServiceSafety ==
  ASSUME DiscardsWithinLimit
  PROVE  Spec => ServiceSafety
<1>1. IInv /\ [Next]_vars => [Service!Next]_(Service!vars)
  BY ServiceStep, ZenonT(60)
<1>2. QED
  BY <1>1, Invariance, ServiceInit, PTL DEF Spec, ServiceSafety
=============================================================================

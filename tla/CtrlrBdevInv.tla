---------------------------- MODULE CtrlrBdevInv ----------------------------
(***************************************************************************)
(* The inductive invariant of CtrlrBdev for any requests, commands, sizes  *)
(* and faults.  The handlers are functions on worlds, and so is the        *)
(* invariant; beside it, what the pieces the handlers are made of do to a  *)
(* request, to a context and to a world.                                   *)
(***************************************************************************)
EXTENDS CtrlrBdev

World ==
  [req : [Reqs -> ReqType], ctx : [Slots -> CtxType], cache : Int, pool : Int,
   wq : Seq(Reqs)]

Waits(wq, x) == IF \E i \in 1 .. Len(wq) : wq[i] = x THEN 1 ELSE 0

BusyIo(q) == {j \in 1 .. MaxIo : q.io[j] = "busy"}

OneIo == SimpleOps \cup {"GREP"}

(***************************************************************************)
(* DSM commands with a range over the discard limit, which the handler     *)
(* completes while the unmaps of the ranges before it are in flight.       *)
(***************************************************************************)
OverLimit(c) ==
  c.op = "DSM" /\ MaxDiscard > 0 /\ \E i \in DOMAIN c.rng : c.rng[i].n > MaxDiscard

(***************************************************************************)
(* FLUSH is for the whole device, and PASSTHRU is forwarded as it came.    *)
(***************************************************************************)
RangeOK(c, j) == c.op \notin {"FLUSH", "PASSTHRU"} => OnDevice(c, j)

(***************************************************************************)
(* Completed exactly when done, and by then neither at the bdev nor        *)
(* waiting; HEAAN_ADD may leave I/O behind.                                *)
(***************************************************************************)
LifeOK(q, n) ==
  /\ q.cpl = IF q.st = "done" THEN 1 ELSE 0
  /\ n = 1 => q.st = "exec"
  /\ q.cmd.op # "HEAAN_ADD" /\ BusyIo(q) # {} => q.st = "exec"

OneIoOK(q, n) ==
  /\ BusyIo(q) \subseteq {1}
  /\ n = 1 => BusyIo(q) = {}
  /\ q.cmd.op = "GREP" => \A b \in DOMAIN q.iov : q.iov[b] \in {Host, Zero}

(***************************************************************************)
(* unmap_ctx->count: the unmaps in flight, and one more while the request  *)
(* waits for a descriptor.  The error of an unmap stays in the status.     *)
(***************************************************************************)
DsmOK(q, n) ==
  /\ q.count = Cardinality(BusyIo(q)) + n
  /\ \A j \in 1 .. MaxIo : q.io[j] # "none" => j <= q.range_index
  /\ q.failed => q.sc # "SUCCESS"

(***************************************************************************)
(* The metadata file as ECHO copies it out of its data buffer.             *)
(***************************************************************************)
CopyHeld(first, c) ==
  /\ Len(first) = c.len
  /\ \A b \in 1 .. c.len : b <= c.rng[1].n => first[b] = 1

(***************************************************************************)
(* ECHO reads one file after the other, with its own context, which holds  *)
(* the first one during the second read.                                   *)
(***************************************************************************)
EchoOK(x, q, cx) ==
  /\ \A j \in 1 .. MaxIo : q.io[j] # "none" => j \in {1, 2}
  /\ q.io[2] # "none" => q.io[1] = "freed"
  /\ BusyIo(q) # {} => /\ q.slot \in Slots
                       /\ cx[q.slot].kind = "echo" /\ cx[q.slot].req = x
  /\ 2 \in BusyIo(q) => CopyHeld(cx[q.slot].first_result, q.cmd)

Performed(q) ==
  /\ q.st = "exec" /\ q.failed => q.cmd.op = "ECHO" /\ BusyIo(q) = {}
  /\ \A j \in 1 .. MaxIo : q.io[j] # "none" => j \in q.sent
  /\ q.cmd.op \in SimpleOps /\ 1 \in q.sent => DOMAIN q.cmd.rng \subseteq q.sent
  /\ q.st = "done" /\ q.sc = "SUCCESS" =>
       /\ ~q.failed
       /\ (q.cmd.op = "FLUSH" /\ q.cmd.arg = 1) \/ DOMAIN q.cmd.rng \subseteq q.sent

ReqOK(x, q, n, cx) ==
  IF q.st = "idle" THEN q = IdleReq /\ n = 0
  ELSE /\ q.cmd \in Cmds /\ Len(q.iov) = q.cmd.len
       /\ \A j \in q.sent : RangeOK(q.cmd, j)
       /\ n = 1 => q.cmd.op \in OneIo \cup {"DSM"}
       /\ q.cmd.op # "HEAAN_ADD" => \A j \in 1 .. MaxIo : q.io[j] # "held"
       /\ q.cmd.op = "HEAAN_ADD" /\ BusyIo(q) # {} => q.slot \in Slots
       /\ ~OverLimit(q.cmd) => LifeOK(q, n)
       /\ q.cmd.op \in OneIo => OneIoOK(q, n)
       /\ q.cmd.op = "DSM" => DsmOK(q, n)
       /\ q.cmd.op = "ECHO" => EchoOK(x, q, cx)
       /\ q.cmd.op \in SimpleOps \cup {"ECHO"} => Performed(q)

(***************************************************************************)
(* A context belongs to a command that is executing and points back to it. *)
(***************************************************************************)
CtxOK(w, s) ==
  IF w.ctx[s].kind = "free" THEN w.ctx[s].req = None
  ELSE LET o == w.ctx[s].req
       IN /\ o \in Reqs /\ w.req[o].slot = s /\ w.req[o].st = "exec"
          /\ w.req[o].cmd \in Cmds
          /\ w.req[o].cmd.op = IF w.ctx[s].kind = "echo" THEN "ECHO" ELSE "HEAAN_ADD"

(***************************************************************************)
(* Only ECHO and HEAAN_ADD have contexts.                                  *)
(***************************************************************************)
SlotOK(q) == q.slot = None \/ q.cmd.op \in {"ECHO", "HEAAN_ADD"}

QueueOK(wq) == \A i, j \in 1 .. Len(wq) : wq[i] = wq[j] => i = j

(***************************************************************************)
(* The invariant for all requests but those of E, which a handler is in    *)
(* the middle of.                                                          *)
(***************************************************************************)
WInvBut(w, E) ==
  /\ w \in World /\ QueueOK(w.wq)
  /\ \A x \in Reqs \ E : ReqOK(x, w.req[x], Waits(w.wq, x), w.ctx)

InOrder(w) ==
  /\ WInvBut(w, {})
  /\ \A s \in Slots : CtxOK(w, s)
  /\ \A x \in Reqs : SlotOK(w.req[x])

IInv == InOrder(W) /\ crashed \in BOOLEAN

(***************************************************************************)
(* What the steps of a handler do to its request.                          *)
(***************************************************************************)
Elsewhere(w, v, r) ==
  v \in World /\ v.ctx = w.ctx /\ \A x \in Reqs \ {r} : v.req[x] = w.req[x]

Completed(p, q, sc) ==
  /\ q \in ReqType
  /\ q.st = "done" /\ q.sc = sc /\ q.cpl = p.cpl + 1
  /\ q.cmd = p.cmd /\ q.io = p.io /\ q.slot = p.slot /\ q.iov = p.iov
  /\ q.count = p.count /\ q.range_index = p.range_index
  /\ q.sent = p.sent /\ q.failed = p.failed

Submitted(p, q, J) ==
  /\ q \in ReqType
  /\ q.io = [j \in 1 .. MaxIo |-> IF j \in J THEN "busy" ELSE p.io[j]]
  /\ q.sent = p.sent \cup J
  /\ q.st = p.st /\ q.sc = p.sc /\ q.cpl = p.cpl
  /\ q.cmd = p.cmd /\ q.slot = p.slot /\ q.iov = p.iov
  /\ q.count = p.count /\ q.range_index = p.range_index
  /\ q.failed = p.failed

Put(w, r, q) == [w EXCEPT !.req = [w.req EXCEPT ![r] = q]]

(***************************************************************************)
(* Changes of the status and of the count.                                 *)
(***************************************************************************)
OnlyStatus(p, q) ==
  /\ q \in ReqType
  /\ q.st = p.st /\ q.cpl = p.cpl
  /\ q.cmd = p.cmd /\ q.io = p.io /\ q.slot = p.slot /\ q.iov = p.iov
  /\ q.count = p.count /\ q.range_index = p.range_index
  /\ q.sent = p.sent /\ q.failed = p.failed

SetSc(w, r, sc) == [w EXCEPT !.req[r].sc = sc]

(***************************************************************************)
(* What the transport sees of a step: a request is left alone, or one that *)
(* was not completed is executing or completed now.                        *)
(***************************************************************************)
Moves(w, v) ==
  \A x \in Reqs :
    \/ OverLimit(v.req[x].cmd) /\ v.req[x].st # "idle"
    \/ v.req[x].st = w.req[x].st /\ v.req[x].sc = w.req[x].sc
    \/ w.req[x].st # "done" /\ v.req[x].st # "idle"

(***************************************************************************)
(* From worlds to states.                                                  *)
(***************************************************************************)
Kept == IInv' /\ Moves(W, W')

-----------------------------------------------------------------------------
(***************************************************************************)
(* The outcome of an I/O noted in its request.                             *)
(***************************************************************************)
Noted(p, q, ok) ==
  /\ q \in ReqType
  /\ q.failed = (p.failed \/ ~ok)
  /\ q.st = p.st /\ q.sc = p.sc /\ q.cpl = p.cpl
  /\ q.cmd = p.cmd /\ q.io = p.io /\ q.slot = p.slot /\ q.iov = p.iov
  /\ q.count = p.count /\ q.range_index = p.range_index /\ q.sent = p.sent

(***************************************************************************)
(* What calling back waiting requests may change: the queue, and requests  *)
(* that were in it.                                                        *)
(***************************************************************************)
Called(w, v) ==
  /\ v \in World /\ v.ctx = w.ctx
  /\ \A x \in Reqs : v.req[x].cmd = w.req[x].cmd /\ v.req[x].slot = w.req[x].slot
  /\ \A x \in Reqs : IF Waits(w.wq, x) = 0
                     THEN v.req[x] = w.req[x] /\ Waits(v.wq, x) = 0
                     ELSE v.req[x].st # "idle"

(***************************************************************************)
(* An I/O given back, and its descriptor back in the cache or the pool.    *)
(***************************************************************************)
Freed(w, r, j) == [w EXCEPT !.req[r].io[j] = "freed"]

GivenBack(p, q, j) ==
  /\ q \in ReqType
  /\ q.io = [i \in 1 .. MaxIo |-> IF i = j THEN "freed" ELSE p.io[i]]
  /\ q.st = p.st /\ q.sc = p.sc /\ q.cpl = p.cpl
  /\ q.cmd = p.cmd /\ q.slot = p.slot /\ q.iov = p.iov
  /\ q.count = p.count /\ q.range_index = p.range_index
  /\ q.sent = p.sent /\ q.failed = p.failed

(***************************************************************************)
(* What the lemmas need of the sizes of sets of a request's I/Os.          *)
(***************************************************************************)
CountsIo ==
  /\ Cardinality({}) = 0
  /\ \A n \in 0 .. MaxIo : Cardinality(1 .. n) = n
  /\ \A J \in SUBSET (1 .. MaxIo) :
       /\ Cardinality(J) \in Nat /\ Cardinality(J) <= MaxIo
       /\ Cardinality(J) = 0 => J = {}
       /\ \A j \in J : Cardinality(J \ {j}) = Cardinality(J) - 1
       /\ \A I \in SUBSET J : Cardinality(I) <= Cardinality(J)
       /\ \A I \in SUBSET J : Cardinality(I) = Cardinality(J) => I = J
       /\ \A I \in SUBSET (1 .. MaxIo) :
            I \cap J = {} => Cardinality(I \cup J) = Cardinality(I) + Cardinality(J)
       /\ \A a \in Nat : {a + i : i \in J} \subseteq 1 .. MaxIo =>
            Cardinality({a + i : i \in J}) = Cardinality(J)

(***************************************************************************)
(* What serving the waiting requests promises: spdk_bdev_free_io keeps the *)
(* invariant, if giving back the I/O does.                                 *)
(***************************************************************************)
ServesWaiters ==
  \A w \in World, r \in Reqs, j \in 1 .. MaxIo, k \in GiveUps :
    LET u == Freed(w, r, j)
        v == spdk_bdev_free_io(w, r, j, k)
    IN /\ WInvBut(u, {}) /\ u.wq = io_wait_queue
       /\ \A x \in Reqs : u.req[x].cmd = req[x].cmd
       => Called(u, v) /\ WInvBut(v, {})

(***************************************************************************)
(* A world with one context replaced.                                      *)
(***************************************************************************)
PutCtx(w, s, c) == [w EXCEPT !.ctx = [w.ctx EXCEPT ![s] = c]]

CtxPut(w, v, s, c) ==
  /\ v \in World /\ v.req = w.req /\ v.wq = w.wq /\ v.ctx[s] = c
  /\ \A t \in Slots \ {s} : v.ctx[t] = w.ctx[t]

(***************************************************************************)
(* A request no I/O of which has been submitted: just arrived, or refused. *)
(***************************************************************************)
Fresh(q, c) ==
  /\ q \in ReqType /\ q.cmd = c /\ c \in Cmds
  /\ \A j \in 1 .. MaxIo : q.io[j] = "none"
  /\ q.slot = None /\ Len(q.iov) = c.len /\ \A b \in DOMAIN q.iov : q.iov[b] = Host
  /\ q.count = 0 /\ q.range_index = 0 /\ q.sent = {} /\ ~q.failed
  /\ \/ q.st = "exec" /\ q.cpl = 0
     \/ q.st = "done" /\ q.cpl = 1 /\ q.sc # "SUCCESS"

(***************************************************************************)
(* The first I/Os of a command that has a context at slot s.               *)
(***************************************************************************)
Placed(w, r, J, s) == [Submit(w, r, J) EXCEPT !.req[r].slot = s]

PlacedAt(q, c, J, s) ==
  /\ q \in ReqType /\ q.st = "exec" /\ q.cpl = 0 /\ q.cmd = c /\ q.slot = s
  /\ Len(q.iov) = c.len /\ q.sent = J /\ ~q.failed
  /\ q.io = [j \in 1 .. MaxIo |-> IF j \in J THEN "busy" ELSE "none"]
=============================================================================

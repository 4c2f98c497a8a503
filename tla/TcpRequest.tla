----------------------------- MODULE TcpRequest -----------------------------
(***************************************************************************)
(* One NVMe/TCP I/O connection of the target, lib/nvmf/tcp.c: the request  *)
(* state machine nvmf_tcp_req_process, the receive state machine           *)
(* nvmf_tcp_sock_process, the asynchronous writes and digests, fused       *)
(* commands, aborts, and the disconnection and destruction of the queue    *)
(* pair.  The connection is bound to one thread, and every action is what  *)
(* that thread does in one callback; the order of the callbacks is free.   *)
(*                                                                         *)
(* A callback is a function of the world, the record of all variables:     *)
(* handlers call each other and change the request, the connection and the *)
(* shared buffers in one step.                                             *)
(***************************************************************************)
EXTENDS Integers, Sequences, FiniteSets, SequencesExt

CONSTANTS
  resource_count,  \* request objects, and receive PDUs, of the connection
  NumBufs,         \* data buffers in the pool of the poll group
  Cmds,            \* the commands the host sends, see Cmd
  DataLen,         \* length of a write's data, in units an H2C PDU can carry
  Digests,         \* the values of host_ddgst_enable an ICReq may ask for
  Faulty,          \* the fuse values of the commands that meet a data digest
                   \* error or are aborted while they wait for a buffer
  BadPdus          \* may a PDU header be malformed or fail its digest?

Reqs == 1 .. resource_count
None == 0                  \* NULL, for a pointer to a request
ReqOrNone == Reqs \cup {None}

(***************************************************************************)
(* A command moves no data, reads, writes data the target asks for with an *)
(* R2T, writes data it carries in its capsule, or has an SGL the target    *)
(* does not accept ("bad").                                                *)
(***************************************************************************)
Xfer == {"none", "c2h", "h2c", "icd", "bad"}
Fuse == {"none", "first", "second"}
Cmd == [xfer : Xfer, fuse : Fuse]

ASSUME TcpAssumption ==
  /\ resource_count \in Nat \ {0} /\ NumBufs \in Nat \ {0} /\ DataLen \in Nat \ {0}
  /\ Cmds \subseteq Cmd /\ Digests \subseteq BOOLEAN /\ Faulty \subseteq Fuse

VARIABLES
  reqs,     \* tqpair->reqs
  q,        \* the queue pair
  free,     \* tqpair->tcp_req_free_queue
  pending,  \* group->pending_buf_queue
  pool,     \* buffers left in the pool
  lost,     \* buffers still held by request objects that were freed
  execd     \* the fused requests the last step gave to spdk_nvmf_request_exec

vars == <<reqs, q, free, pending, pool, lost, execd>>

W == [reqs |-> reqs, q |-> q, free |-> free, pending |-> pending, pool |-> pool,
      lost |-> lost, execd |-> <<>>]
Step(world) ==
  \E w \in {world} :
    /\ reqs' = w.reqs /\ q' = w.q /\ free' = w.free /\ pending' = w.pending
    /\ pool' = w.pool /\ lost' = w.lost /\ execd' = w.execd

ReqState ==
  {"FREE", "NEED_BUFFER", "AWAITING_R2T_ACK", "TRANSFERRING_H2C", "READY_TO_EXECUTE",
   "EXECUTING", "TRANSFERRING_C2H"}

(***************************************************************************)
(* pdu is the write of tcp_req->pdu in flight (pdu_in_use), crc the units  *)
(* of received data whose digest is being computed, got the data received, *)
(* buf whether a pool buffer is held (data_from_pool).  rsp is the status: *)
(* "ok" has nothing in cdw0 and cdw1, "result" has, "transient" is the     *)
(* transient transport error of a data digest.  `before' is not in the     *)
(* code: the FIRST that came directly before this SECOND, as long as that  *)
(* object still holds that command.                                        *)
(***************************************************************************)
ReqType ==
  [st : ReqState, xfer : Xfer, fuse : Fuse, failed : BOOLEAN, pair : ReqOrNone,
   got : 0 .. DataLen, crc : 0 .. DataLen, buf : BOOLEAN,
   pdu : {"none", "r2t", "data", "data_success", "resp"},
   rsp : {"ok", "result", "error", "transient"}, before : ReqOrNone]
FreshReq ==
  [st |-> "FREE", xfer |-> "none", fuse |-> "none", failed |-> FALSE, pair |-> None,
   got |-> 0, crc |-> 0, buf |-> FALSE, pdu |-> "none", rsp |-> "ok", before |-> None]

(***************************************************************************)
(* state is tqpair->state ("GONE" once it is freed), active whether        *)
(* spdk_nvmf_qpair_disconnect has not been called, recv tqpair->recv_state,*)
(* working the receive PDUs in use, on and n the request and the size of   *)
(* the payload being received, term wait_terminate, timer the timeout      *)
(* poller, first fused_first; last, not in the code, is the request of the *)
(* last command received, if that was a FIRST.                             *)
(***************************************************************************)
QpairType ==
  [state : {"INVALID", "INITIALIZING", "RUNNING", "EXITING", "EXITED", "GONE"},
   active : BOOLEAN, connected : BOOLEAN,
   recv : {"READY", "CH", "PSH", "AWAIT_REQ", "PAYLOAD", "QUIESCING", "ERROR"},
   cmd : Cmd, working : 0 .. resource_count, on : ReqOrNone, n : 0 .. DataLen,
   ddgst : BOOLEAN, term : BOOLEAN, timer : BOOLEAN, first : ReqOrNone, last : ReqOrNone]
NoCmd == [xfer |-> "none", fuse |-> "none"]
FreshQpair ==
  [state |-> "INVALID", active |-> TRUE, connected |-> TRUE, recv |-> "CH", cmd |-> NoCmd,
   working |-> 1, on |-> None, n |-> 0, ddgst |-> TRUE, term |-> FALSE, timer |-> FALSE,
   first |-> None, last |-> None]

Init ==
  /\ reqs = [r \in Reqs |-> FreshReq]
  /\ q = FreshQpair
  /\ free = [i \in Reqs |-> i]
  /\ pending = <<>> /\ pool = NumBufs /\ lost = 0 /\ execd = <<>>

-----------------------------------------------------------------------------
(***************************************************************************)
(* The receive state: entering QUIESCING returns the PDU in progress, but  *)
(* only from AWAIT_PDU_CH.                                                 *)
(***************************************************************************)
\* Faulty variant: every state returns a PDU.
AlwaysReturnsPdu(w) == TRUE
ReturnsPdu(w) == w.q.recv = "CH"
nvmf_tcp_qpair_set_recv_state(w, s) ==
  IF w.q.recv = s THEN w
  ELSE [w EXCEPT !.q.recv = s,
                 !.q.working = IF s = "QUIESCING" /\ ReturnsPdu(w) THEN @ - 1 ELSE @]

nvmf_tcp_send_c2h_term_req(w) ==
  [nvmf_tcp_qpair_set_recv_state(w, "QUIESCING") EXCEPT
     !.q.term = TRUE, !.q.timer = @ \/ w.q.connected]

(***************************************************************************)
(* Disconnection.  _nvmf_qpair_destroy runs once no request is outstanding *)
(* in the target layer; it takes the socket out of its group.              *)
(***************************************************************************)
Outstanding(w) == {r \in Reqs : w.reqs[r].st = "EXECUTING"}
\* Faulty variant: a queue pair on the await_req list is not removed.
DestroyUnlessAwaiting(w) ==
  IF Outstanding(w) # {} \/ w.q.active \/ w.q.recv = "AWAIT_REQ" THEN w
  ELSE [w EXCEPT !.q.state = "EXITED"]
_nvmf_qpair_destroy(w) ==
  IF Outstanding(w) # {} \/ w.q.active \/ w.q.state \in {"EXITED", "GONE"} THEN w
  ELSE [w EXCEPT !.q.state = "EXITED",
                 !.q.recv = IF @ = "AWAIT_REQ" THEN "QUIESCING" ELSE @]
spdk_nvmf_qpair_disconnect(w) == _nvmf_qpair_destroy([w EXCEPT !.q.active = FALSE])
nvmf_tcp_qpair_disconnect(w) ==
  IF w.q.state \in {"EXITING", "EXITED"} THEN w
  ELSE spdk_nvmf_qpair_disconnect([w EXCEPT !.q.state = "EXITING", !.q.timer = FALSE])

(***************************************************************************)
(* How the loop of nvmf_tcp_sock_process ends when a handler has set       *)
(* QUIESCING, and what nvmf_tcp_sock_cb does with its result.              *)
(***************************************************************************)
Quiesce(w) ==
  IF w.q.recv = "QUIESCING" /\ w.q.working = 0
  THEN nvmf_tcp_qpair_set_recv_state(w, "ERROR") ELSE w
Fatal(w) == w.q.recv = "ERROR" /\ ~(w.q.connected /\ w.q.term)
SockCb(world) ==
  LET w == Quiesce(world) IN IF Fatal(w) THEN nvmf_tcp_qpair_disconnect(w) ELSE w

(***************************************************************************)
(* The next PDU: the one in progress again, or one of the free queue.      *)
(***************************************************************************)
SamePdu(w) == IF w.q.recv = "READY" THEN [w EXCEPT !.q.recv = "CH"] ELSE w
FreePdu(w) ==
  IF w.q.recv = "READY" /\ w.q.working < resource_count
  THEN [w EXCEPT !.q.recv = "CH", !.q.working = @ + 1] ELSE w

-----------------------------------------------------------------------------
(***************************************************************************)
(* Sending: the data of a successful read, with the SUCCESS flag that      *)
(* stands for the response when there is nothing in cdw0 and cdw1;         *)
(* otherwise the response.                                                 *)
(***************************************************************************)
OutPdu(req) ==
  CASE req.xfer = "c2h" /\ req.rsp = "ok" -> "data_success"
    [] req.xfer = "c2h" /\ req.rsp = "result" -> "data"
    [] OTHER -> "resp"
\* Faulty variant: the state is not set.
TransferOutSameState(w, r) == [w EXCEPT !.reqs[r].pdu = OutPdu(w.reqs[r])]
request_transfer_out(w, r) ==
  [w EXCEPT !.reqs[r].st = "TRANSFERRING_C2H", !.reqs[r].pdu = OutPdu(w.reqs[r])]

(***************************************************************************)
(* The end of a request: its buffer returns to the pool, a partner that is *)
(* still in flight fails, and the object goes to the tail of the free      *)
(* queue.  A partner that was only waiting for this request is processed.  *)
(* A free object keeps its command, but only the fuse value of fused_first *)
(* is ever read again: the fields the next command overwrites before they  *)
(* are read are cleared.                                                   *)
(***************************************************************************)
Cleared(w, r) ==
  [FreshReq EXCEPT !.fuse = IF w.q.first = r THEN w.reqs[r].fuse ELSE @,
                   !.pair = w.reqs[r].pair, !.pdu = w.reqs[r].pdu, !.crc = w.reqs[r].crc]
RECURSIVE Complete(_, _)
Complete(w, r) ==
  LET pair == w.reqs[r].pair
      released == [w EXCEPT !.reqs[r] = Cleared(w, r), !.q.last = IF @ = r THEN None ELSE @,
                            !.pool = @ + (IF w.reqs[r].buf THEN 1 ELSE 0),
                            !.pending = SelectSeq(@, LAMBDA x : x # r)]
      failing == [released EXCEPT !.reqs[pair].failed = TRUE]
      kicked == CASE pair = None -> released
                  [] pair # None /\ failing.reqs[pair].st # "READY_TO_EXECUTE" -> failing
                  [] OTHER -> IF w.q.active
                              THEN request_transfer_out(
                                     [failing EXCEPT !.reqs[pair].rsp = "error"], pair)
                              ELSE Complete(failing, pair)
  IN [kicked EXCEPT !.reqs[r].pair = None, !.free = Append(@, r)]

(***************************************************************************)
(* READY_TO_EXECUTE: a fused request waits for its partner, and the two    *)
(* are executed together, the FIRST before the SECOND.                     *)
(***************************************************************************)
\* Faulty variant: in the order in which they became ready.
FusedAsReady(w, r) == <<w.reqs[r].pair, r>>
FusedOrder(w, r) ==
  IF w.reqs[r].fuse = "second" THEN <<w.reqs[r].pair, r>> ELSE <<r, w.reqs[r].pair>>
ExecuteFused(w, rs) ==
  [w EXCEPT !.reqs = [r \in Reqs |-> IF r \in ToSet(rs)
                                     THEN [w.reqs[r] EXCEPT !.st = "EXECUTING", !.pair = None]
                                     ELSE w.reqs[r]],
            !.execd = rs]
PartnerReady(w, r) ==
  w.reqs[r].pair # None /\ w.reqs[w.reqs[r].pair].st = "READY_TO_EXECUTE"
ReadyToExecute(world, r) ==
  LET w == [world EXCEPT !.reqs[r].st = "READY_TO_EXECUTE"]
  IN CASE ~w.q.active -> Complete(w, r)
       [] w.q.active /\ w.reqs[r].fuse = "none" -> [w EXCEPT !.reqs[r].st = "EXECUTING"]
       [] w.q.active /\ w.reqs[r].fuse # "none" /\ w.reqs[r].failed ->
            request_transfer_out([w EXCEPT !.reqs[r].rsp = "error"], r)
       [] OTHER -> IF PartnerReady(w, r) THEN ExecuteFused(w, FusedOrder(w, r)) ELSE w
ReadyToComplete(w, r) == IF w.q.active THEN request_transfer_out(w, r) ELSE Complete(w, r)

(***************************************************************************)
(* NEED_BUFFER: data in the capsule goes to the buffer of the request      *)
(* object itself, everything else waits in line for one of the pool.  An   *)
(* SGL that is not accepted terminates the connection and leaves the       *)
(* request in line.                                                        *)
(***************************************************************************)
\* Faulty variant: no one waits in line.
NoLine(w, r) == TRUE
FirstInLine(w, r) == Head(w.pending) = r
NeedBuffer(w, r) ==
  LET taken == [w EXCEPT !.pending = Tail(@), !.pool = @ - 1, !.reqs[r].buf = TRUE]
  IN CASE w.reqs[r].xfer = "icd" ->
            [w EXCEPT !.pending = SelectSeq(@, LAMBDA x : x # r),
                      !.reqs[r].st = "TRANSFERRING_H2C", !.q.recv = "PAYLOAD",
                      !.q.on = r, !.q.n = DataLen]
       [] w.reqs[r].xfer # "icd" /\ ~FirstInLine(w, r) -> w
       [] w.reqs[r].xfer = "bad" /\ FirstInLine(w, r) -> nvmf_tcp_send_c2h_term_req(w)
       [] OTHER -> CASE w.pool = 0 -> w
                     [] w.pool > 0 /\ w.reqs[r].xfer = "h2c" ->
                          [taken EXCEPT !.reqs[r].st = "AWAITING_R2T_ACK",
                                        !.reqs[r].pdu = "r2t"]
                     [] OTHER -> ReadyToExecute(taken, r)

(***************************************************************************)
(* A new command: its place in a fused pair, then its data.                *)
(***************************************************************************)
FuseOf(w, r) == IF r = None THEN "none" ELSE w.reqs[r].fuse
PairUp(w, r) ==
  [w EXCEPT !.reqs[w.q.first].pair = r, !.reqs[r].pair = w.q.first, !.q.first = None]
\* Faulty variant: a FIRST that is ready is not processed.
UnfollowedNotKicked(w) == [w EXCEPT !.reqs[w.q.first].failed = TRUE, !.q.first = None]
Unfollowed(w) ==
  LET failing == [w EXCEPT !.reqs[w.q.first].failed = TRUE, !.q.first = None]
  IN IF w.reqs[w.q.first].st = "READY_TO_EXECUTE"
     THEN ReadyToExecute(failing, w.q.first) ELSE failing
nvmf_tcp_check_fused_ordering(w, r) ==
  LET next == w.reqs[r].fuse
      before == IF FuseOf(w, w.q.first) = "first" THEN Unfollowed(w) ELSE w
  IN IF FuseOf(w, w.q.first) = "first" /\ next = "second" THEN PairUp(w, r)
     ELSE CASE next = "first" -> [before EXCEPT !.q.first = r]
            [] next = "second" -> [before EXCEPT !.reqs[r].failed = TRUE]
            [] OTHER -> before

NewReq(w, r, c) ==
  [x \in Reqs |->
     IF x = r
     THEN [w.reqs[r] EXCEPT !.xfer = c.xfer, !.fuse = c.fuse, !.got = 0, !.rsp = "ok",
                            !.before = IF c.fuse = "second" THEN w.q.last ELSE None]
     ELSE [w.reqs[x] EXCEPT !.before = IF @ = r THEN None ELSE @]]
New(world, r, c) ==
  LET copied == [world EXCEPT !.reqs = NewReq(world, r, c), !.q.last = IF c.fuse = "first" THEN r ELSE None]
      w == nvmf_tcp_check_fused_ordering(copied, r)
      ready == nvmf_tcp_qpair_set_recv_state(w, "READY")
      queued(x) == [x EXCEPT !.reqs[r].st = "NEED_BUFFER", !.pending = Append(@, r)]
  IN CASE ~world.q.active -> Complete(world, r)
       [] world.q.active /\ c.xfer = "none" -> ReadyToExecute(ready, r)
       [] world.q.active /\ c.xfer = "icd" -> NeedBuffer(queued(w), r)
       [] OTHER -> NeedBuffer(queued(ready), r)

(***************************************************************************)
(* A capsule takes the request at the head of the free queue.  Without one *)
(* the connection waits, if a response is still being written; otherwise   *)
(* the host has exceeded its queue.                                        *)
(***************************************************************************)
WritingResponse(w) == \E r \in Reqs : w.reqs[r].st = "TRANSFERRING_C2H"
nvmf_tcp_capsule_cmd_hdr_handle(w) ==
  CASE w.free # <<>> ->
         [New([w EXCEPT !.free = Tail(@)], Head(w.free), w.q.cmd) EXCEPT !.q.cmd = NoCmd]
    [] w.free = <<>> /\ WritingResponse(w) -> w
    [] OTHER -> nvmf_tcp_qpair_set_recv_state(w, "QUIESCING")

(***************************************************************************)
(* Received data, once its digest, if any, is known.                       *)
(***************************************************************************)
AllReceived(w, r) == w.reqs[r].got = DataLen
Received(w, r) ==
  IF w.reqs[r].rsp = "transient" THEN ReadyToComplete(w, r) ELSE ReadyToExecute(w, r)
\* Faulty variant: the data does not wait for the R2T to be acknowledged.
PayloadBeforeAck(world, r, n) ==
  LET w == [world EXCEPT !.reqs[r].got = @ + n, !.q.working = @ - 1]
  IN IF AllReceived(w, r) THEN Received(w, r) ELSE w
_nvmf_tcp_pdu_payload_handle(world, r, n) ==
  LET w == [world EXCEPT !.reqs[r].got = @ + n, !.q.working = @ - 1]
  IN IF AllReceived(w, r) /\ w.reqs[r].st = "TRANSFERRING_H2C" THEN Received(w, r) ELSE w

-----------------------------------------------------------------------------
(***************************************************************************)
(* The receive actions.  The socket is polled until the queue pair is      *)
(* taken out of the group; the host sends PDUs in any order the protocol   *)
(* allows, and no more commands than its queue holds.                      *)
(***************************************************************************)
Polled == q.state \notin {"EXITED", "GONE"}
Reading(recv) == Polled /\ q.connected /\ q.recv = recv

\* A response that is being written may have reached the host.
Answered(r) == reqs[r].st = "FREE" \/ reqs[r].pdu \in {"data_success", "resp"}
HostMaySend == Cardinality({r \in Reqs : ~Answered(r)}) < resource_count

nvmf_tcp_pdu_ch_handle ==
  /\ Polled /\ q.connected /\ q.recv \in {"READY", "CH"} /\ FreePdu(W).q.recv = "CH"
  /\ q.state # "INITIALIZING"
  /\ Step(nvmf_tcp_qpair_set_recv_state(FreePdu(W), "PSH"))

\* The flush of the ICResp may fail; the state is then left at INITIALIZING.
nvmf_tcp_icreq_handle(ddgst, sent) ==
  /\ Reading("PSH") /\ q.state = "INVALID"
  /\ Step([W EXCEPT !.q.state = IF sent THEN "RUNNING" ELSE "INITIALIZING",
                    !.q.connected = sent, !.q.ddgst = ddgst, !.q.recv = "CH"])

CapsuleCmd(c) ==
  /\ Reading("PSH") /\ q.state = "RUNNING" /\ HostMaySend
  /\ Step(SockCb(SamePdu(nvmf_tcp_capsule_cmd_hdr_handle(
            [W EXCEPT !.q.recv = "AWAIT_REQ", !.q.cmd = c]))))

\* The poller's retry for a connection in AWAIT_REQ.
\* Faulty variant: the poller does not visit the await_req list.
AwaitReqUnpolled == FALSE /\ UNCHANGED vars
AwaitReq ==
  /\ Polled /\ q.recv = "AWAIT_REQ"
  /\ Step(SockCb(SamePdu(nvmf_tcp_capsule_cmd_hdr_handle(W))))

\* The host sends data once the R2T may have reached it.  The offset it sends
\* is what it has sent before, which the target may not have counted yet.
HostOwesData(r) ==
  reqs[r].xfer = "h2c" /\ reqs[r].st \in {"AWAITING_R2T_ACK", "TRANSFERRING_H2C"}
Sent(r) == reqs[r].got + reqs[r].crc
nvmf_tcp_h2c_data_hdr_handle(r, n) ==
  /\ Reading("PSH") /\ q.state = "RUNNING"
  /\ HostOwesData(r) /\ Sent(r) + n <= DataLen
  /\ Step(IF Sent(r) = reqs[r].got
          THEN [W EXCEPT !.q.recv = "PAYLOAD", !.q.on = r, !.q.n = n]
          ELSE SockCb(nvmf_tcp_send_c2h_term_req(W)))

\* With data digests the payload is handled when the digest is computed.
nvmf_tcp_pdu_payload_handle ==
  /\ Reading("PAYLOAD")
  /\ Step(LET w == [W EXCEPT !.q.recv = "READY", !.q.on = None, !.q.n = 0]
          IN FreePdu(IF q.ddgst THEN [w EXCEPT !.reqs[q.on].crc = q.n]
                     ELSE _nvmf_tcp_pdu_payload_handle(w, q.on, q.n)))

data_crc32_calc_done(r, ok) ==
  /\ q.state # "GONE" /\ reqs[r].crc > 0 /\ (ok \/ reqs[r].fuse \in Faulty)
  /\ Step(_nvmf_tcp_pdu_payload_handle(
            [W EXCEPT !.reqs[r].crc = 0, !.reqs[r].rsp = IF ok THEN @ ELSE "transient"],
            r, reqs[r].crc))

\* The host asks to terminate: the PDU is handled, then the connection quiesces.
nvmf_tcp_h2c_term_req_payload_handle ==
  /\ Reading("PSH") /\ q.state = "RUNNING"
  /\ Step(SockCb([W EXCEPT !.q.recv = "QUIESCING", !.q.working = @ - 1]))

\* A header that is malformed, out of sequence or fails its digest.
BadHeader ==
  /\ BadPdus /\ Polled /\ q.connected /\ q.recv \in {"CH", "PSH"} /\ q.state # "INITIALIZING"
  /\ Step(SockCb(nvmf_tcp_send_c2h_term_req(W)))

\* The host closes the connection, or it breaks.
SocketCloses ==
  /\ Polled /\ q.connected
  /\ q' = [q EXCEPT !.connected = FALSE] /\ execd' = <<>>
  /\ UNCHANGED <<reqs, free, pending, pool, lost>>

\* The poll of a closed socket: a read fails, or QUIESCING and ERROR go on.
ClosedSocketPoll ==
  /\ Polled /\ ~q.connected
  /\ \/ q.recv \in {"CH", "PSH", "PAYLOAD", "READY"} /\ FreePdu(W).q.recv # "READY"
        /\ q.state # "INITIALIZING"
        /\ Step(SockCb(nvmf_tcp_qpair_set_recv_state(FreePdu(W), "QUIESCING")))
     \/ q.recv \in {"QUIESCING", "ERROR"} /\ SockCb(W) # W
        /\ Step(SockCb(W))

-----------------------------------------------------------------------------
(***************************************************************************)
(* Writes: _req_pdu_write_done with the callback of the PDU written.       *)
(***************************************************************************)
\* Faulty variants: the R2T acknowledgement does not look at the data received, or waits
\* for the data handler to go on.
R2tExecutes(world, r) == ReadyToExecute(world, r)
R2tOnlyAcks(world, r) == [world EXCEPT !.reqs[r].st = "TRANSFERRING_H2C"]
nvmf_tcp_r2t_complete(world, r) ==
  LET w == [world EXCEPT !.reqs[r].st = "TRANSFERRING_H2C"]
  IN IF AllReceived(w, r) THEN ReadyToExecute(w, r) ELSE w
\* Faulty variant: data without the SUCCESS flag ends the request.
WrittenNoResponse(w, r, pdu) ==
  IF pdu = "r2t" THEN nvmf_tcp_r2t_complete(w, r) ELSE Complete(w, r)
Written(w, r, pdu) ==
  CASE pdu = "r2t" -> nvmf_tcp_r2t_complete(w, r)
    [] pdu = "data" -> [w EXCEPT !.reqs[r].pdu = "resp"]
    [] OTHER -> Complete(w, r)
_req_pdu_write_done(r, ok) ==
  /\ q.state # "GONE" /\ reqs[r].pdu # "none" /\ (ok \/ ~q.connected)
  /\ Step(LET w == [W EXCEPT !.reqs[r].pdu = "none"]
          IN IF ok THEN Written(w, r, reqs[r].pdu)
             ELSE nvmf_tcp_qpair_set_recv_state(w, "QUIESCING"))

(***************************************************************************)
(* The target layer completes a request.  The last completion of a queue   *)
(* pair that is being disconnected closes it.  The status decides what is  *)
(* sent for a read only.  "found": GREP, sent as a write, turns its        *)
(* request into a read to return the lines it found (ctrlr_bdev.c).        *)
(***************************************************************************)
Statuses(req) ==
  CASE req.xfer = "c2h" -> {"ok", "result", "error"}
    [] req.xfer \in {"h2c", "icd"} /\ req.fuse = "none" -> {"ok", "found"}
    [] OTHER -> {"ok"}
AnswerWith(req, rsp) ==
  IF rsp = "found" THEN [req EXCEPT !.xfer = "c2h", !.rsp = "ok"] ELSE [req EXCEPT !.rsp = rsp]
nvmf_tcp_req_complete(r, rsp) ==
  /\ reqs[r].st = "EXECUTING" /\ rsp \in Statuses(reqs[r])
  /\ Step(_nvmf_qpair_destroy(ReadyToComplete([W EXCEPT !.reqs[r] = AnswerWith(@, rsp)], r)))

(***************************************************************************)
(* The poller serves the requests in line until one makes no progress.     *)
(***************************************************************************)
RECURSIVE ServeLine(_, _)
ServeLine(w, line) ==
  IF line = <<>> THEN w
  ELSE LET served == IF w.q.active THEN NeedBuffer(w, Head(line)) ELSE Complete(w, Head(line))
       IN IF served.reqs[Head(line)].st = "NEED_BUFFER" THEN served
          ELSE ServeLine(served, Tail(line))
nvmf_tcp_poll_group_poll ==
  /\ Polled /\ pending # <<>> /\ ServeLine(W, pending) # W
  /\ Step(ServeLine(W, pending))

(***************************************************************************)
(* An abort finds the request waiting for a buffer; the abort of an        *)
(* executing request is the target layer's.                                *)
(***************************************************************************)
nvmf_tcp_qpair_abort_request(r) ==
  /\ Polled /\ reqs[r].st = "NEED_BUFFER" /\ reqs[r].fuse \in Faulty
  /\ Step(ReadyToComplete([W EXCEPT !.pending = SelectSeq(@, LAMBDA x : x # r),
                                    !.reqs[r].rsp = "error"], r))

(***************************************************************************)
(* Teardown.  Terminate: no answer to the C2H termination request came     *)
(* within SPDK_NVME_TCP_QPAIR_EXIT_TIMEOUT.  Dropped: the target drops the *)
(* queue pair by itself, for one when the keep-alive timer of the          *)
(* controller expires.                                                     *)
(***************************************************************************)
Terminate == Polled /\ q.timer /\ Step(nvmf_tcp_qpair_disconnect(W))
Dropped == Polled /\ q.active /\ Step(spdk_nvmf_qpair_disconnect(W))

\* Faulty variant: requests in the middle of a data transfer are not drained.
DrainsNoTransfer == {"TRANSFERRING_C2H", "NEED_BUFFER", "EXECUTING", "AWAITING_R2T_ACK"}
Drains ==
  {"TRANSFERRING_C2H", "NEED_BUFFER", "EXECUTING", "TRANSFERRING_H2C", "AWAITING_R2T_ACK"}
nvmf_tcp_cleanup_all_states(w) ==
  FoldLeft(LAMBDA x, r : IF x.reqs[r].st \in Drains THEN Complete(x, r) ELSE x,
           [w EXCEPT !.reqs = [r \in Reqs |-> [w.reqs[r] EXCEPT !.pdu = "none"]]],
           [i \in Reqs |-> i])
_nvmf_tcp_qpair_destroy ==
  /\ q.state = "EXITED"
  /\ Step(LET w == nvmf_tcp_cleanup_all_states(W)
          IN [w EXCEPT !.q = [FreshQpair EXCEPT !.state = "GONE", !.active = FALSE],
                       !.reqs = [r \in Reqs |-> FreshReq], !.free = [i \in Reqs |-> i],
                       !.lost = @ + Cardinality({r \in Reqs : w.reqs[r].buf})])
nvmf_tcp_poll_group_add ==
  q.state = "GONE" /\ Step([W EXCEPT !.q = FreshQpair])

-----------------------------------------------------------------------------
SockStep ==
  \/ nvmf_tcp_pdu_ch_handle \/ nvmf_tcp_pdu_payload_handle \/ AwaitReq \/ ClosedSocketPoll
HostStep ==
  \/ \E d \in Digests, sent \in BOOLEAN : nvmf_tcp_icreq_handle(d, sent)
  \/ \E c \in Cmds : CapsuleCmd(c)
  \/ \E r \in Reqs, n \in 1 .. DataLen : nvmf_tcp_h2c_data_hdr_handle(r, n)
  \/ nvmf_tcp_h2c_term_req_payload_handle \/ BadHeader \/ SocketCloses
Callback(r) ==
  \/ \E ok \in BOOLEAN : data_crc32_calc_done(r, ok)
  \/ \E ok \in BOOLEAN : _req_pdu_write_done(r, ok)
  \/ \E rsp \in {"ok", "result", "error", "found"} : nvmf_tcp_req_complete(r, rsp)
Next ==
  \/ SockStep \/ HostStep \/ nvmf_tcp_poll_group_poll
  \/ \E r \in Reqs : Callback(r) \/ nvmf_tcp_qpair_abort_request(r)
  \/ Terminate \/ Dropped \/ _nvmf_tcp_qpair_destroy \/ nvmf_tcp_poll_group_add
Spec == Init /\ [][Next]_vars

(***************************************************************************)
(* Fairness.  The poll group polls its sockets and the buffer queue, the   *)
(* socket, accel and target layers call back, a host that was sent an R2T  *)
(* sends the data or goes away, and the message that destroys a closed     *)
(* queue pair is delivered.  HostCloses: after a termination request of    *)
(* either side the host closes the connection.  KeepAlive: the controller  *)
(* drops a queue pair whose connection is broken.                          *)
(***************************************************************************)
HostCloses == q.recv \in {"QUIESCING", "ERROR"} /\ SocketCloses
KeepAlive == ~q.connected /\ Dropped
CallbackFairness ==
  \A r \in Reqs :
    /\ WF_vars(Callback(r))
    /\ SF_vars(\E n \in 1 .. DataLen : nvmf_tcp_h2c_data_hdr_handle(r, n))
Fairness ==
  /\ WF_vars(SockStep) /\ WF_vars(nvmf_tcp_poll_group_poll) /\ CallbackFairness
  /\ WF_vars(_nvmf_tcp_qpair_destroy) /\ WF_vars(Terminate) /\ WF_vars(HostCloses)
FairSpec == Spec /\ Fairness /\ WF_vars(KeepAlive)

-----------------------------------------------------------------------------
\* Type correctness.
TypeOK ==
  /\ reqs \in [Reqs -> ReqType] /\ q \in QpairType
  /\ free \in Seq(Reqs) /\ pending \in Seq(Reqs) /\ execd \in Seq(Reqs)
  /\ pool \in 0 .. NumBufs /\ lost \in 0 .. NumBufs

\* A command reaches the target layer only with all of its data received and
\* with the pool buffer its transfer needs (nvmf_tcp_h2c_data_payload_handle,
\* nvmf_tcp_r2t_complete and the NEED_BUFFER state).
DataBeforeExec ==
  \A r \in Reqs :
    reqs[r].st = "EXECUTING" =>
      /\ reqs[r].xfer \in {"h2c", "icd"} => reqs[r].got = DataLen
      /\ reqs[r].buf = (reqs[r].xfer \in {"h2c", "c2h"})

\* Pool buffers are neither lost nor returned twice, an object is on the free
\* queue exactly while it is FREE and in line for a buffer exactly while it is
\* in NEED_BUFFER, also across the disconnections and aborts that take it out.
Conserved ==
  /\ pool + Cardinality({r \in Reqs : reqs[r].buf}) + lost = NumBufs
  /\ IsInjective(free) /\ ToSet(free) = {r \in Reqs : reqs[r].st = "FREE"}
  /\ IsInjective(pending) /\ ToSet(pending) = {r \in Reqs : reqs[r].st = "NEED_BUFFER"}

\* The one PDU of a request is written by one state at a time, as the
\* assertions in nvmf_tcp_qpair_write_req_pdu and nvmf_tcp_req_put require.
PduOwned ==
  \A r \in Reqs :
    /\ reqs[r].pdu = "r2t" => reqs[r].st = "AWAITING_R2T_ACK"
    /\ reqs[r].pdu \in {"data", "data_success", "resp"} => reqs[r].st = "TRANSFERRING_C2H"

\* tcp_pdu_working_count counts the receive PDU in progress and those whose
\* digest is being computed, so that QUIESCING waits for the digests.
ReceivePdusCounted ==
  LET digests == Cardinality({r \in Reqs : reqs[r].crc > 0})
  IN CASE q.recv \in {"CH", "PSH", "AWAIT_REQ", "PAYLOAD"} -> q.working = digests + 1
       [] q.recv = "READY" -> q.working = digests
       [] q.recv = "ERROR" -> digests = 0 /\ q.working = 0
       [] OTHER -> q.working >= digests

\* A host that keeps to its queue depth never finds the connection without a
\* request object and without a response being written, which is what
\* nvmf_tcp_capsule_cmd_hdr_handle takes for more commands than the queue holds.
DepthKept ==
  HostMaySend /\ free = <<>> => \E r \in Reqs : reqs[r].st = "TRANSFERRING_C2H"

\* Fused commands are executed in pairs, the FIRST and then the SECOND that
\* followed it directly on the wire (nvmf_tcp_check_fused_ordering).
FusedInOrder ==
  execd # <<>> =>
    /\ reqs[execd[1]].fuse = "first" /\ reqs[execd[2]].fuse = "second"
    /\ reqs[execd[2]].before = execd[1]

\* A request that is left in READY_TO_EXECUTE is the last FIRST received, or
\* one of a pair whose other request still waits for its data: the event that
\* moves it on is still to come (nvmf_tcp_req_process).
ReadyIsWaiting ==
  \A r \in Reqs :
    reqs[r].st = "READY_TO_EXECUTE" =>
      \/ reqs[r].pair = None /\ q.first = r
      \/ /\ reqs[r].pair # None /\ reqs[reqs[r].pair].pair = r
         /\ reqs[reqs[r].pair].st \in {"NEED_BUFFER", "AWAITING_R2T_ACK", "TRANSFERRING_H2C"}

\* Data that failed its digest is not executed (the check at the end of
\* nvmf_tcp_h2c_data_payload_handle).  Does not hold: nvmf_tcp_r2t_complete
\* does not make that check (README, Disagreements).
CorruptNotExecuted ==
  \A r \in Reqs : reqs[r].st = "EXECUTING" => reqs[r].rsp # "transient"

\* While the queue pair is active a request is freed only when its response,
\* or its data with the SUCCESS flag, has been written.
FreedMeansAnswered ==
  [][\A r \in Reqs :
       reqs[r].st # "FREE" /\ reqs'[r].st = "FREE" /\ q.active =>
         reqs[r].pdu \in {"data_success", "resp"}]_vars

\* Destroying a queue pair gives all buffers back but that of a FIRST still
\* waiting for its SECOND (nvmf_tcp_cleanup_all_states).
LosesOnlyFirst ==
  [][lost' # lost => q.first # None /\ reqs[q.first].st = "READY_TO_EXECUTE"
                     /\ reqs[q.first].buf /\ lost' = lost + 1]_vars

\* Every command that is not fused is answered or ends with its connection,
\* unless buffers were lost.
CommandsEnd ==
  \A r \in Reqs :
    (reqs[r].st # "FREE" /\ reqs[r].fuse = "none") ~> (reqs[r].st = "FREE" \/ lost > 0)

\* A connection does not stay without a request for the command it received.
AwaitReqLeaves == q.recv = "AWAIT_REQ" ~> q.recv # "AWAIT_REQ"

\* A disconnected queue pair is destroyed.
DisconnectEnds == ~q.active ~> q.state = "GONE"

\* nvmf_tcp_qpair_disconnect is called only once the receive PDUs have drained:
\* the assertion that the receive state is ERROR.  Does not hold when the
\* termination timer expires first (README, Disagreements).
DisconnectsInError ==
  [][q.state \in {"INVALID", "INITIALIZING", "RUNNING"} /\ q'.state = "EXITING"
       => q'.recv = "ERROR"]_vars
=============================================================================

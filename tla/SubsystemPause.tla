--------------------------- MODULE SubsystemPause ---------------------------
(***************************************************************************)
(* Pausing, resuming, stopping and starting one NVMe-oF subsystem while    *)
(* its requests run: lib/nvmf/subsystem.c (the state machine and the       *)
(* namespace hot-remove and resize events), lib/nvmf/nvmf.c (what a state  *)
(* change does on each poll group, and the disconnection of queue pairs)   *)
(* and lib/nvmf/ctrlr.c (the admission of a request to the subsystem, its  *)
(* accounting and its completion).                                         *)
(*                                                                         *)
(* A poll group is a thread, and the state changes are driven from one     *)
(* more thread which visits the groups one after the other with messages.  *)
(* Every action is what one thread does between two returns to its reactor.*)
(***************************************************************************)
EXTENDS Integers, Sequences, FiniteSets

CONSTANTS
  Groups,         \* poll groups
  Qpairs,         \* queue pairs
  Requests,       \* request objects of the transport
  GroupOf,        \* the poll group of a queue pair
  QpairOf,        \* the queue pair a request object belongs to
  AdminQpairs,    \* the queue pairs with qid 0
  None,           \* no poll group
  MaxNsid,        \* subsystem->max_nsid
  Classes,        \* the classes of request the hosts send, see Kind
  Changes,        \* the state changes that may be asked for, see Change
  MaxPending,     \* bound: state changes waiting when another is asked for
  AsDocumented,   \* are state changes asked for as include/spdk/nvmf.h says?
  ChannelFaults   \* may spdk_bdev_get_io_channel fail?

Nsids == 1 .. MaxNsid

(***************************************************************************)
(* A request is an admin or fabrics command ("mgmt"), an asynchronous      *)
(* event request ("aer"), a Connect, an I/O command, or the one I/O        *)
(* command, Verify, whose opcode equals that of the asynchronous event     *)
(* request (0x0c).  Only I/O has a namespace; 0 is one that never exists.  *)
(***************************************************************************)
MgmtClasses == {"mgmt", "aer", "connect"}
IoClasses == {"io", "verify"}
Kind ==
  [cls : MgmtClasses \cap Classes, nsid : {0}]
    \cup [cls : IoClasses \cap Classes, nsid : 0 .. MaxNsid]

(***************************************************************************)
(* op is what the completion callback of the state change does: "remove",  *)
(* "add" and "resize" pause, work on the namespace `on' and resume.        *)
(***************************************************************************)
PausingOps == {"remove", "add", "resize"}
Change ==
  {c \in [op : PausingOps \cup {"start", "stop", "resume"}, on : 0 .. MaxNsid,
          requested : {"INACTIVE", "ACTIVE", "PAUSED"}, nsid : 0 .. MaxNsid] :
     c.op \in PausingOps => c.on \in Nsids}
Resume == [op |-> "resume", on |-> 0, requested |-> "ACTIVE", nsid |-> 0]

ASSUME TopologyAssumption ==
  /\ IsFiniteSet(Requests) /\ None \notin Groups
  /\ GroupOf \in [Qpairs -> Groups] /\ QpairOf \in [Requests -> Qpairs]
  /\ AdminQpairs \subseteq Qpairs
ASSUME ChangesAssumption ==
  /\ MaxNsid \in Nat /\ MaxPending \in Nat /\ Changes \subseteq Change
  /\ ChannelFaults \in BOOLEAN /\ AsDocumented \in BOOLEAN

VARIABLES
  state,          \* subsystem->state
  ns,             \* the nsids for which subsystem->ns holds a namespace
  state_changes,  \* subsystem->state_changes
  iter,           \* the state change in progress: context and channel iterator
  sgroup,         \* the subsystem's part of each poll group
  ns_info,        \* sgroup->ns_info
  qpair,          \* the queue pairs
  req             \* the requests

vars == <<state, ns, state_changes, iter, sgroup, ns_info, qpair, req>>

SubsystemStates == {"INACTIVE", "ACTIVATING", "ACTIVE", "PAUSING", "PAUSED",
                    "RESUMING", "DEACTIVATING"}

(***************************************************************************)
(* phase: "idle"; "visit", a message is on its way to a group of todo or,  *)
(* when none is left, back; "wait", group `at' has stored the callback;    *)
(* "remove", group `at' is disconnecting its queue pairs; "failed", a      *)
(* group has reported an error.                                            *)
(***************************************************************************)
IterType ==
  [phase : {"idle", "visit", "wait", "remove", "failed"}, todo : SUBSET Groups,
   at : Groups \cup {None}, requested : {"INACTIVE", "ACTIVE", "PAUSED"},
   original : SubsystemStates, nsid : 0 .. MaxNsid, revert : BOOLEAN]
SgroupType ==
  [state : {"INACTIVE", "ACTIVE", "PAUSING", "PAUSED"}, num_ns : {0, MaxNsid},
   mgmt_io_outstanding : Int, cb_fn : BOOLEAN]
NsInfoType ==
  [state : {"INACTIVE", "ACTIVE", "PAUSING"}, channel : BOOLEAN, io_outstanding : Int]
QpairType ==
  [state : {"CONNECTING", "ENABLED", "DEACTIVATING", "GONE"}, ctrlr : BOOLEAN]
ReqType ==
  [st : {"free", "queued", "outstanding"}, cls : MgmtClasses \cup IoClasses,
   nsid : 0 .. MaxNsid]

TypeOK ==
  /\ state \in SubsystemStates
  /\ ns \in SUBSET Nsids
  /\ state_changes \in Seq(Change)
  /\ iter \in IterType
  /\ sgroup \in [Groups -> SgroupType]
  /\ ns_info \in [Groups -> [Nsids -> NsInfoType]]
  /\ qpair \in [Qpairs -> QpairType]
  /\ req \in [Requests -> ReqType]

NoNsInfo == [state |-> "INACTIVE", channel |-> FALSE, io_outstanding |-> 0]
FreeReq == [st |-> "free", cls |-> "mgmt", nsid |-> 0]
NoIter == [phase |-> "idle", todo |-> {}, at |-> None, requested |-> "ACTIVE",
           original |-> "ACTIVE", nsid |-> 0, revert |-> FALSE]

(***************************************************************************)
(* A subsystem that has been started with all its namespaces, and hosts    *)
(* connected to it.                                                        *)
(***************************************************************************)
Init ==
  /\ state = "ACTIVE"
  /\ ns = Nsids
  /\ state_changes = <<>>
  /\ iter = NoIter
  /\ sgroup = [g \in Groups |-> [state |-> "ACTIVE", num_ns |-> MaxNsid,
                                 mgmt_io_outstanding |-> 0, cb_fn |-> FALSE]]
  /\ ns_info = [g \in Groups |-> [n \in Nsids |->
                  [state |-> "ACTIVE", channel |-> TRUE, io_outstanding |-> 0]]]
  /\ qpair = [q \in Qpairs |-> [state |-> "ENABLED", ctrlr |-> TRUE]]
  /\ req = [r \in Requests |-> FreeReq]
-----------------------------------------------------------------------------
(***************************************************************************)
(* Requests: admission, accounting, completion.                            *)
(***************************************************************************)
Active(q) == qpair[q].state \in {"CONNECTING", "ENABLED"}
OnQpair(q) == {r \in Requests : QpairOf[r] = q}
OnGroup(g) == {r \in Requests : GroupOf[QpairOf[r]] = g}
Outstanding(q) == {r \in OnQpair(q) : req[r].st = "outstanding"}

(* Faulty variant: a Connect is also queued while the groups are resumed. *)
NotReadyYet == {"INACTIVE", "PAUSING", "PAUSED", "DEACTIVATING", "RESUMING"}

NotReady == {"INACTIVE", "PAUSING", "PAUSED", "DEACTIVATING"}

(***************************************************************************)
(* What spdk_nvmf_request_exec does with request k of queue pair q, given  *)
(* the group's sgroup sg and its ns_info nsi: it starts the command        *)
(* ("outstanding"), queues it, or completes it with an error ("refused").  *)
(***************************************************************************)
ExecMgmt(q, k, sg) ==
  CASE sg.state # "ACTIVE" -> "queued"
    [] sg.state = "ACTIVE" /\ ~Active(q) -> "refused"
    [] sg.state = "ACTIVE" /\ Active(q) /\ k.cls = "connect" /\ state \in NotReady -> "queued"
    [] OTHER -> "outstanding"

ExecIo(q, k, sg, nsi) ==
  CASE k.nsid \notin 1 .. sg.num_ns -> "refused"
    [] k.nsid \in 1 .. sg.num_ns /\ ~nsi[k.nsid].channel -> "refused"
    [] k.nsid \in 1 .. sg.num_ns /\ nsi[k.nsid].channel /\ nsi[k.nsid].state # "ACTIVE" -> "queued"
    [] OTHER -> IF Active(q) THEN "outstanding" ELSE "refused"

Exec(q, k, sg, nsi) ==
  IF k.cls \in MgmtClasses THEN ExecMgmt(q, k, sg) ELSE ExecIo(q, k, sg, nsi)

(* Faulty variants: an asynchronous event request stays counted; an I/O    *)
(* refused for want of a channel is not counted down.                      *)
CountsAer(k, outcome) == outcome = "outstanding" /\ k.cls \in MgmtClasses
CountsRefusedIo(k, outcome, num_ns) ==
  k.cls \in IoClasses /\ outcome # "queued" /\ k.nsid \in 1 .. num_ns

(***************************************************************************)
(* What stays in the counters once a command with the given outcome has    *)
(* been admitted.  Admission counts the command; an asynchronous event     *)
(* request is taken out again when it starts; a refused command is         *)
(* completed at once, and completion does not count down a command whose   *)
(* opcode is that of the asynchronous event request.                       *)
(***************************************************************************)
CountsMgmt(k, outcome) ==
  \/ outcome = "outstanding" /\ k.cls \in {"mgmt", "connect"}
  \/ outcome = "refused" /\ k.cls = "aer"
CountsIo(k, outcome, num_ns) ==
  \/ outcome = "outstanding" /\ k.cls \in IoClasses
  \/ outcome = "refused" /\ k.cls = "verify" /\ k.nsid \in 1 .. num_ns

(* Faulty variants: the last I/O, or the last admin command, is enough. *)
DrainedOfIo(sg, nsi) ==
  /\ sg.state = "PAUSING"
  /\ \A n \in 1 .. sg.num_ns : nsi[n].state = "PAUSING" => nsi[n].io_outstanding = 0
DrainedOfMgmt(sg, nsi) == sg.state = "PAUSING" /\ sg.mgmt_io_outstanding = 0

(***************************************************************************)
(* The end of _nvmf_request_complete: the last request a pausing group     *)
(* waits for makes it paused and continues the iteration.                  *)
(***************************************************************************)
Drained(sg, nsi) ==
  /\ sg.state = "PAUSING" /\ sg.mgmt_io_outstanding = 0
  /\ \A n \in 1 .. sg.num_ns : nsi[n].state = "PAUSING" => nsi[n].io_outstanding = 0

Continue == iter' = [iter EXCEPT !.phase = "visit", !.at = None]

CheckPaused(g, sg, nsi) ==
  IF Drained(sg, nsi)
  THEN /\ sgroup' = [sgroup EXCEPT ![g] = [sg EXCEPT !.state = "PAUSED", !.cb_fn = FALSE]]
       /\ Continue
  ELSE sgroup' = [sgroup EXCEPT ![g] = sg] /\ UNCHANGED iter

(***************************************************************************)
(* The transport hands a command of an active queue pair to                *)
(* spdk_nvmf_request_exec.  A host sends Connect on a new queue pair and   *)
(* nothing else before it has the answer.                                  *)
(***************************************************************************)
MaySend(q, k) ==
  \/ /\ qpair[q].state = "ENABLED"
     /\ \/ k.cls = "mgmt"
        \/ k.cls = "aer" /\ q \in AdminQpairs
        \/ k.cls \in IoClasses /\ q \notin AdminQpairs
  \/ /\ qpair[q].state = "CONNECTING" /\ k.cls = "connect"
     /\ \A r \in OnQpair(q) : req[r].st = "free"

spdk_nvmf_request_exec(r, k) ==
  LET q == QpairOf[r]
      g == GroupOf[q]
      outcome == Exec(q, k, sgroup[g], ns_info[g])
      nsi == IF CountsIo(k, outcome, sgroup[g].num_ns)
             THEN [ns_info[g] EXCEPT ![k.nsid].io_outstanding = @ + 1]
             ELSE ns_info[g]
      sg == IF CountsMgmt(k, outcome)
            THEN [sgroup[g] EXCEPT !.mgmt_io_outstanding = @ + 1]
            ELSE sgroup[g]
  IN /\ req[r].st = "free" /\ MaySend(q, k)
     /\ req' = [req EXCEPT ![r] = IF outcome = "refused" THEN FreeReq
                                  ELSE [st |-> outcome, cls |-> k.cls, nsid |-> k.nsid]]
     /\ ns_info' = [ns_info EXCEPT ![g] = nsi]
     /\ IF outcome = "refused" /\ k.cls \notin {"aer", "verify"}
        THEN CheckPaused(g, sg, nsi)
        ELSE sgroup' = [sgroup EXCEPT ![g] = sg] /\ UNCHANGED iter
     /\ UNCHANGED <<state, ns, state_changes, qpair>>

(***************************************************************************)
(* A Connect is on its way through the subsystem's and the controller's    *)
(* threads: nvmf_ctrlr_add_qpair gives the queue pair its controller.      *)
(***************************************************************************)
nvmf_ctrlr_add_qpair(r) ==
  /\ req[r].st = "outstanding" /\ req[r].cls = "connect"
  /\ ~qpair[QpairOf[r]].ctrlr
  /\ qpair' = [qpair EXCEPT ![QpairOf[r]].ctrlr = TRUE]
  /\ UNCHANGED <<state, ns, state_changes, iter, sgroup, ns_info, req>>

(***************************************************************************)
(* _nvmf_request_complete.  A Connect that got its controller enables the  *)
(* queue pair; the last outstanding request of a deactivating queue pair   *)
(* destroys it, and frees the requests it still has queued.                *)
(***************************************************************************)
nvmf_request_complete(r) ==
  LET q == QpairOf[r]
      g == GroupOf[q]
      k == req[r]
      nsi == IF k.cls = "io" /\ k.nsid \in 1 .. sgroup[g].num_ns
             THEN [ns_info[g] EXCEPT ![k.nsid].io_outstanding = @ - 1]
             ELSE ns_info[g]
      sg == IF k.cls \in {"mgmt", "connect"}
            THEN [sgroup[g] EXCEPT !.mgmt_io_outstanding = @ - 1]
            ELSE sgroup[g]
      last == qpair[q].state = "DEACTIVATING" /\ Outstanding(q) = {r}
  IN /\ k.st = "outstanding"
     /\ ns_info' = [ns_info EXCEPT ![g] = nsi]
     /\ IF k.cls \in {"aer", "verify"} THEN UNCHANGED <<sgroup, iter>>
                                       ELSE CheckPaused(g, sg, nsi)
     /\ req' = [x \in Requests |->
                  IF x = r \/ (last /\ QpairOf[x] = q) THEN FreeReq ELSE req[x]]
     /\ qpair' = [qpair EXCEPT ![q].state =
                    IF last THEN "GONE"
                    ELSE IF k.cls = "connect" /\ qpair[q].ctrlr /\ @ = "CONNECTING"
                         THEN "ENABLED" ELSE @]
     /\ UNCHANGED <<state, ns, state_changes>>

(* Faulty variant: asynchronous event requests are waited for. *)
BusyWithAer(q) == Outstanding(q) # {}

(***************************************************************************)
(* spdk_nvmf_qpair_disconnect on the queue pairs of D.  Asynchronous event *)
(* requests are freed; a queue pair with nothing else outstanding is       *)
(* destroyed at once, and its queued requests are freed with it.           *)
(***************************************************************************)
Busy(q) == \E r \in Outstanding(q) : req[r].cls # "aer"

DisconnectAll(D) ==
  /\ qpair' = [q \in Qpairs |->
       IF q \in D THEN [qpair[q] EXCEPT !.state = IF Busy(q) THEN "DEACTIVATING" ELSE "GONE"]
                  ELSE qpair[q]]
  /\ req' = [r \in Requests |->
       IF /\ QpairOf[r] \in D
          /\ ~Busy(QpairOf[r]) \/ (req[r].st = "outstanding" /\ req[r].cls = "aer")
       THEN FreeReq ELSE req[r]]

spdk_nvmf_qpair_disconnect(q) ==
  /\ Active(q)
  /\ DisconnectAll({q})
  /\ UNCHANGED <<state, ns, state_changes, iter, sgroup, ns_info>>

(***************************************************************************)
(* A new connection reuses the queue pair's place.                         *)
(***************************************************************************)
NewQpair(q) ==
  /\ qpair[q].state = "GONE"
  /\ qpair' = [qpair EXCEPT ![q] = [state |-> "CONNECTING", ctrlr |-> FALSE]]
  /\ UNCHANGED <<state, ns, state_changes, iter, sgroup, ns_info, req>>
-----------------------------------------------------------------------------
(***************************************************************************)
(* The subsystem's state machine.                                          *)
(***************************************************************************)
nvmf_subsystem_get_intermediate_state(current, requested) ==
  CASE requested = "INACTIVE" -> "DEACTIVATING"
    [] requested = "ACTIVE" -> IF current = "PAUSED" THEN "RESUMING" ELSE "ACTIVATING"
    [] requested = "PAUSED" -> "PAUSING"

(* Faulty variant: a failed resume cannot be undone. *)
ExpectedOldNoRevert(new) ==
  CASE new = "INACTIVE" -> {"DEACTIVATING"}
    [] new = "ACTIVATING" -> {"INACTIVE"}
    [] new = "ACTIVE" -> {"ACTIVATING", "RESUMING"}
    [] new = "PAUSING" -> {"ACTIVE"}
    [] new = "PAUSED" -> {"PAUSING"}
    [] new = "RESUMING" -> {"PAUSED"}
    [] new = "DEACTIVATING" -> {"ACTIVE", "ACTIVATING", "PAUSED"}

(***************************************************************************)
(* The states from which nvmf_subsystem_set_state accepts each new state.  *)
(***************************************************************************)
ExpectedOld(new) ==
  CASE new = "INACTIVE" -> {"DEACTIVATING"}
    [] new = "ACTIVATING" -> {"INACTIVE"}
    [] new = "ACTIVE" -> {"ACTIVATING", "RESUMING"}
    [] new = "PAUSING" -> {"ACTIVE", "RESUMING"}
    [] new = "PAUSED" -> {"PAUSING"}
    [] new = "RESUMING" -> {"PAUSED"}
    [] new = "DEACTIVATING" -> {"ACTIVE", "ACTIVATING", "PAUSED"}

SetStateAllowed(new) == state \in ExpectedOld(new)

(***************************************************************************)
(* The state a change starts from in the comments of nvmf.h; a change      *)
(* asked for as documented also waits for the one before it.               *)
(***************************************************************************)
DocumentedFrom(c) ==
  CASE c.op \in PausingOps \cup {"stop"} -> "ACTIVE"
    [] c.op = "start" -> "INACTIVE"
    [] c.op = "resume" -> "PAUSED"

(***************************************************************************)
(* A namespace of the subsystem is removed or resized under it, a          *)
(* management command adds one, or the subsystem is stopped, started or    *)
(* resumed.  A bdev reports its removal once.                              *)
(***************************************************************************)
nvmf_subsystem_state_change(c) ==
  /\ Len(state_changes) < MaxPending
  /\ AsDocumented => state_changes = <<>> /\ state = DocumentedFrom(c)
  /\ c.op \in {"remove", "resize"} => c.on \in ns
  /\ c.op = "remove" => \A i \in DOMAIN state_changes : state_changes[i] # c
  /\ state_changes' = Append(state_changes, c)
  /\ UNCHANGED <<state, ns, iter, sgroup, ns_info, qpair, req>>

(***************************************************************************)
(* _nvmf_subsystem_state_change_complete: the change leaves the queue and  *)
(* its callback, which does not look at the status, runs in state new.     *)
(***************************************************************************)
Finish(c, new) ==
  /\ iter' = NoIter
  /\ state_changes' = Tail(state_changes)
                        \o (IF c.op \in PausingOps THEN <<Resume>> ELSE <<>>)
  /\ ns' = IF new \in {"INACTIVE", "PAUSED"}
           THEN CASE c.op = "remove" -> ns \ {c.on}
                  [] c.op = "add" -> ns \cup {c.on}
                  [] OTHER -> ns
           ELSE ns

VisitAll(requested, original, nsid, revert) ==
  iter' = [phase |-> "visit", todo |-> Groups, at |-> None, requested |-> requested,
           original |-> original, nsid |-> nsid, revert |-> revert]

nvmf_subsystem_do_state_change ==
  /\ iter.phase = "idle" /\ state_changes # <<>>
  /\ LET c == Head(state_changes)
         new == nvmf_subsystem_get_intermediate_state(state, c.requested)
     IN IF state = c.requested \/ ~SetStateAllowed(new)
        THEN Finish(c, state) /\ UNCHANGED state
        ELSE /\ state' = new
             /\ VisitAll(c.requested, state, c.nsid, FALSE)
             /\ UNCHANGED <<ns, state_changes>>
  /\ UNCHANGED <<sgroup, ns_info, qpair, req>>

(***************************************************************************)
(* All groups have been visited: subsystem_state_change_done, or           *)
(* subsystem_state_change_revert_done.                                     *)
(***************************************************************************)
subsystem_state_change_done ==
  /\ iter.phase = "visit" /\ iter.todo = {} /\ SetStateAllowed(iter.requested)
  /\ state' = iter.requested
  /\ Finish(Head(state_changes), iter.requested)
  /\ UNCHANGED <<sgroup, ns_info, qpair, req>>

(***************************************************************************)
(* A group failed: the change is undone on all groups.                     *)
(***************************************************************************)
ChangeFailed ==
  LET back == nvmf_subsystem_get_intermediate_state(iter.requested, iter.original)
  IN /\ iter.phase = "failed" /\ ~iter.revert /\ SetStateAllowed(back)
     /\ state' = back
     /\ VisitAll(iter.original, iter.original, iter.nsid, TRUE)
     /\ UNCHANGED <<ns, state_changes, sgroup, ns_info, qpair, req>>

-----------------------------------------------------------------------------
(***************************************************************************)
(* What a state change does on one poll group.                             *)
(***************************************************************************)
Visiting(g, requested) ==
  iter.phase = "visit" /\ g \in iter.todo /\ iter.requested = requested
Visited(g, phase) ==
  iter' = [iter EXCEPT !.phase = phase, !.todo = @ \ {g},
                       !.at = IF phase \in {"wait", "remove"} THEN g ELSE None]

(***************************************************************************)
(* nvmf_poll_group_pause_subsystem.                                        *)
(***************************************************************************)
nvmf_poll_group_pause_subsystem(g) ==
  LET pausing == Nsids \cap 1 .. sgroup[g].num_ns \cap {iter.nsid}
      wait == \/ sgroup[g].mgmt_io_outstanding > 0
              \/ \E n \in pausing : ns_info[g][n].io_outstanding # 0
  IN /\ Visiting(g, "PAUSED")
     /\ IF sgroup[g].state = "PAUSED"
        THEN UNCHANGED <<sgroup, ns_info>> /\ Visited(g, "visit")
        ELSE /\ sgroup' = [sgroup EXCEPT ![g].state = IF wait THEN "PAUSING" ELSE "PAUSED",
                                         ![g].cb_fn = wait]
             /\ ns_info' = [ns_info EXCEPT ![g] = [n \in Nsids |->
                  IF n \in pausing THEN [@[n] EXCEPT !.state = "PAUSING"] ELSE @[n]]]
             /\ Visited(g, IF wait THEN "wait" ELSE "visit")
     /\ UNCHANGED <<state, ns, state_changes, qpair, req>>

(***************************************************************************)
(* poll_group_update_subsystem: ns_info follows subsystem->ns.  `upto'     *)
(* namespaces have been handled when a channel cannot be had.              *)
(***************************************************************************)
poll_group_update_subsystem(nsi, upto) ==
  [n \in Nsids |->
     IF n > upto THEN nsi[n]
     ELSE IF n \in ns THEN [nsi[n] EXCEPT !.channel = TRUE] ELSE NoNsInfo]
NeedsChannel(g, n) == n \in ns /\ ~ns_info[g][n].channel

(***************************************************************************)
(* nvmf_poll_group_resume_subsystem: the queued requests are executed      *)
(* again, in one go.                                                       *)
(***************************************************************************)
Queued(g) == {r \in OnGroup(g) : req[r].st = "queued"}

nvmf_poll_group_resume_subsystem(g) ==
  LET sg == [sgroup[g] EXCEPT !.state = "ACTIVE"]
      nsi == [n \in Nsids |->
                [poll_group_update_subsystem(ns_info[g], MaxNsid)[n] EXCEPT !.state = "ACTIVE"]]
      Outcome(r) == Exec(QpairOf[r], req[r], sg, nsi)
      mgmt == {r \in Queued(g) : CountsMgmt(req[r], Outcome(r))}
      io(n) == {r \in Queued(g) : req[r].nsid = n /\ CountsIo(req[r], Outcome(r), sg.num_ns)}
  IN /\ Visiting(g, "ACTIVE") /\ state = "RESUMING"
     /\ IF sgroup[g].state = "ACTIVE"
        THEN UNCHANGED <<sgroup, ns_info, req>>
        ELSE /\ sgroup' = [sgroup EXCEPT ![g] =
                  [sg EXCEPT !.mgmt_io_outstanding = @ + Cardinality(mgmt)]]
             /\ ns_info' = [ns_info EXCEPT ![g] = [n \in Nsids |->
                  [nsi[n] EXCEPT !.io_outstanding = @ + Cardinality(io(n))]]]
             /\ req' = [r \in Requests |->
                  IF r \notin Queued(g) THEN req[r]
                  ELSE IF Outcome(r) = "refused" THEN FreeReq
                  ELSE [req[r] EXCEPT !.st = Outcome(r)]]
     /\ Visited(g, "visit")
     /\ UNCHANGED <<state, ns, state_changes, qpair>>

ResumeGroupFails(g, n) ==
  /\ ChannelFaults /\ Visiting(g, "ACTIVE") /\ state = "RESUMING"
  /\ sgroup[g].state # "ACTIVE" /\ NeedsChannel(g, n)
  /\ \A m \in 1 .. n - 1 : ~NeedsChannel(g, m)
  /\ ns_info' = [ns_info EXCEPT ![g] = poll_group_update_subsystem(@, n - 1)]
  /\ Visited(g, "failed")
  /\ UNCHANGED <<state, ns, state_changes, sgroup, qpair, req>>

(***************************************************************************)
(* nvmf_poll_group_add_subsystem.  Requests found in the queue are freed   *)
(* without an answer.                                                      *)
(***************************************************************************)
nvmf_poll_group_add_subsystem(g) ==
  /\ Visiting(g, "ACTIVE") /\ state = "ACTIVATING"
  /\ req' = [r \in Requests |-> IF r \in Queued(g) THEN FreeReq ELSE req[r]]
  /\ sgroup' = [sgroup EXCEPT ![g].state = "ACTIVE", ![g].num_ns = MaxNsid]
  /\ ns_info' = [ns_info EXCEPT ![g] = [n \in Nsids |->
                   [poll_group_update_subsystem(@, MaxNsid)[n] EXCEPT !.state = "ACTIVE"]]]
  /\ Visited(g, "visit")
  /\ UNCHANGED <<state, ns, state_changes, qpair>>

(***************************************************************************)
(* nvmf_poll_group_remove_subsystem, and the message it sends itself until *)
(* all queue pairs of the subsystem are gone.                              *)
(***************************************************************************)
nvmf_poll_group_remove_subsystem(g) ==
  LET found == {q \in Qpairs : GroupOf[q] = g /\ qpair[q].ctrlr /\ qpair[q].state # "GONE"}
      first == Visiting(g, "INACTIVE")
      stop(nsi) == [n \in Nsids |->
                      IF found = {} THEN NoNsInfo ELSE [nsi[n] EXCEPT !.state = "INACTIVE"]]
  IN /\ first \/ (iter.phase = "remove" /\ iter.at = g)
     /\ sgroup' = [sgroup EXCEPT ![g].state = "INACTIVE",
                                 ![g].num_ns = IF found = {} THEN 0 ELSE @]
     /\ ns_info' = [ns_info EXCEPT ![g] = stop(@)]
     /\ DisconnectAll({q \in found : Active(q)})
     /\ IF found = {} THEN Visited(g, "visit") ELSE Visited(g, "remove")
     /\ UNCHANGED <<state, ns, state_changes>>

-----------------------------------------------------------------------------
GroupStep(g) ==
  \/ nvmf_poll_group_pause_subsystem(g) \/ nvmf_poll_group_resume_subsystem(g)
  \/ nvmf_poll_group_add_subsystem(g) \/ nvmf_poll_group_remove_subsystem(g)
  \/ \E n \in Nsids : ResumeGroupFails(g, n)

Next ==
  \/ \E r \in Requests :
       \/ \E k \in Kind : spdk_nvmf_request_exec(r, k)
       \/ nvmf_ctrlr_add_qpair(r) \/ nvmf_request_complete(r)
  \/ \E q \in Qpairs : spdk_nvmf_qpair_disconnect(q) \/ NewQpair(q)
  \/ \E c \in Changes : nvmf_subsystem_state_change(c)
  \/ nvmf_subsystem_do_state_change \/ subsystem_state_change_done \/ ChangeFailed
  \/ \E g \in Groups : GroupStep(g)

Spec == Init /\ [][Next]_vars

(***************************************************************************)
(* The threads keep polling, so messages are delivered, and every command  *)
(* that has been started, except an asynchronous event request, ends.      *)
(***************************************************************************)
Fairness ==
  /\ WF_vars(nvmf_subsystem_do_state_change)
  /\ WF_vars(subsystem_state_change_done) /\ WF_vars(ChangeFailed)
  /\ \A g \in Groups : WF_vars(GroupStep(g))
  /\ \A r \in Requests : WF_vars(req[r].cls # "aer" /\ nvmf_request_complete(r))

FairSpec == Spec /\ Fairness
-----------------------------------------------------------------------------
(***************************************************************************)
(* Correctness.                                                            *)
(***************************************************************************)
MgmtOutstanding(g) ==
  {r \in OnGroup(g) : req[r].st = "outstanding" /\ req[r].cls \in {"mgmt", "connect"}}
IoOutstanding(g, n) ==
  {r \in OnGroup(g) : req[r].st = "outstanding" /\ req[r].cls \in IoClasses /\ req[r].nsid = n}

(***************************************************************************)
(* mgmt_io_outstanding, which a pause waits for, is the number of admin    *)
(* and fabrics commands being executed: queueing, the requeueing of        *)
(* Connect, asynchronous event requests, disconnection and the release of  *)
(* the queue on resume never make it drift.                                *)
(***************************************************************************)
MgmtCounted ==
  \A g \in Groups : sgroup[g].mgmt_io_outstanding = Cardinality(MgmtOutstanding(g))

(***************************************************************************)
(* io_outstanding is the number of I/O commands being executed on the      *)
(* namespace, across the removal and the addition of namespaces.           *)
(***************************************************************************)
IoCounted ==
  \A g \in Groups : \A n \in Nsids :
    ns_info[g][n].io_outstanding = Cardinality(IoOutstanding(g, n))

(***************************************************************************)
(* While the subsystem is paused every group is paused and no admin or     *)
(* fabrics command is executing anywhere: code run by the pause callback   *)
(* has the subsystem's configuration to itself.                            *)
(***************************************************************************)
PausedMeansQuiet ==
  state = "PAUSED" =>
    \A g \in Groups : sgroup[g].state = "PAUSED" /\ MgmtOutstanding(g) = {}

(***************************************************************************)
(* Once the subsystem is active again no request is left in a queue that   *)
(* only the next resume would release.                                     *)
(***************************************************************************)
ActiveReleasesQueue ==
  state = "ACTIVE" => \A r \in Requests : req[r].st # "queued"

(***************************************************************************)
(* A queue pair being disconnected has a request whose completion will     *)
(* destroy it.  This is also why releasing a queue never destroys a queue  *)
(* pair, and with it requests the loop still has to visit.                 *)
(***************************************************************************)
DeactivatingIsBusy ==
  \A q \in Qpairs : qpair[q].state = "DEACTIVATING" =>
    \E r \in Outstanding(q) : req[r].cls # "aer"

(***************************************************************************)
(* A pausing group has stored the callback the completion of its last      *)
(* request calls, and it is the group the state change waits for, so that  *)
(* no other pause can find a callback stored.                              *)
(***************************************************************************)
OneWaitingGroup ==
  \A g \in Groups :
    /\ sgroup[g].cb_fn <=> sgroup[g].state = "PAUSING"
    /\ sgroup[g].cb_fn <=> (iter.phase = "wait" /\ iter.at = g)

(***************************************************************************)
(* A namespace is taken away only when it is paused: no I/O on it is being *)
(* executed and none can start.                                            *)
(***************************************************************************)
RemovedWhenPaused ==
  [][\A n \in ns \ ns' : \A g \in Groups :
       IoOutstanding(g, n) = {} /\ ns_info[g][n].state # "ACTIVE"]_vars

(***************************************************************************)
(* nvmf_subsystem_set_state is only asked for transitions it accepts.      *)
(***************************************************************************)
TransitionsAccepted ==
  /\ iter.phase = "idle" /\ state_changes # <<>> =>
       LET new == Head(state_changes).requested
       IN state = new \/ SetStateAllowed(nvmf_subsystem_get_intermediate_state(state, new))
  /\ iter.phase = "visit" /\ iter.todo = {} => SetStateAllowed(iter.requested)
  /\ iter.phase = "failed" =>
       SetStateAllowed(nvmf_subsystem_get_intermediate_state(iter.requested, iter.original))

(***************************************************************************)
(* When a group takes the subsystem up again its queue is empty, so no     *)
(* request is dropped without an answer.  Does not hold: a Connect may be  *)
(* queued while the subsystem stops (README, Disagreements).               *)
(***************************************************************************)
QueueEmptyWhenAdding ==
  \A g \in Groups : ENABLED nvmf_poll_group_add_subsystem(g) => Queued(g) = {}

(***************************************************************************)
(* A state change comes to its end: the requests a group waits for finish  *)
(* or are freed, the group then always continues the iteration, and a      *)
(* stopping subsystem gets rid of its queue pairs although hosts reconnect.*)
(***************************************************************************)
ChangesFinish == (iter.phase # "idle") ~> (iter.phase = "idle")
=============================================================================

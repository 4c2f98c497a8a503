------------------------- MODULE SubsystemPauseNs ---------------------------
(***************************************************************************)
(* Theorems about SubsystemPause when its state changes are asked for as   *)
(* include/spdk/nvmf.h documents: every transition is accepted and, as     *)
(* long as no Verify is sent, the I/O counters of the namespaces are exact *)
(* and a namespace is only removed while it is paused.                     *)
(***************************************************************************)
EXTENDS SubsystemPauseProofs

(* A leaf that names no prover is for SMT, which may take a minute and is tried twice. *)
USE SMTT(60), Z3T(60)

(***************************************************************************)
(* What the callers of nvmf_subsystem_state_change ask for: hot remove,    *)
(* resize and addition pause, and hot remove pauses the namespace it       *)
(* removes.                                                                *)
(***************************************************************************)
Proper(c) ==
  /\ c.op \in PausingOps => c.requested = "PAUSED"
  /\ c.op = "remove" => c.nsid = c.on
  /\ c.op = "stop" => c.requested = "INACTIVE"
  /\ c.op \in {"start", "resume"} => c.requested = "ACTIVE"

DocumentedUse == AsDocumented /\ \A c \in Changes : Proper(c)

(***************************************************************************)
(* The change in progress, or about to be, is one for the state the        *)
(* subsystem is in.                                                        *)
(***************************************************************************)
Suits(c) ==
  /\ Proper(c)
  /\ iter.phase = "idle" => state = DocumentedFrom(c)
  /\ state = "PAUSING" => IF iter.revert THEN c.op = "resume"
                          ELSE c.op \in PausingOps /\ iter.nsid = c.nsid
  /\ state = "RESUMING" => c.op = "resume"
  /\ state = "ACTIVATING" => c.op = "start"
  /\ state = "DEACTIVATING" => c.op = "stop"

ChangeInv ==
  Len(state_changes) <= 1 /\ (state_changes # <<>> => Suits(Head(state_changes)))

-----------------------------------------------------------------------------
(***************************************************************************)
(* Requests, queue pairs and poll groups move the iteration on, and leave  *)
(* the rest of the state change alone.                                     *)
(***************************************************************************)
ChangeFrame ==
  /\ UNCHANGED <<state, ns, state_changes>>
  /\ iter'.revert = iter.revert /\ iter'.nsid = iter.nsid

RequestStep(r) ==
  \/ \E k \in Kind : spdk_nvmf_request_exec(r, k)
  \/ nvmf_ctrlr_add_qpair(r) \/ nvmf_request_complete(r)

QpairStep(q) == spdk_nvmf_qpair_disconnect(q) \/ NewQpair(q)

(***************************************************************************)
(* A request leaves the iteration alone, or continues it.                  *)
(***************************************************************************)
LEMMA RequestChangeFrame ==
  ASSUME IInv, NEW r \in Requests, RequestStep(r)
  PROVE  ChangeFrame /\ iter'.todo = iter.todo
  <1>1. UNCHANGED <<state, ns, state_changes>> /\ (UNCHANGED iter \/ Continue)
    <2>1. ASSUME NEW k \in Kind, spdk_nvmf_request_exec(r, k)
          PROVE  UNCHANGED <<state, ns, state_changes>> /\ (UNCHANGED iter \/ Continue)
      BY <2>1, ZenonT(60) DEF spdk_nvmf_request_exec, CheckPaused
    <2>2. ASSUME nvmf_request_complete(r)
          PROVE  UNCHANGED <<state, ns, state_changes>> /\ (UNCHANGED iter \/ Continue)
      BY <2>2, ZenonT(60) DEF nvmf_request_complete, CheckPaused
    <2>3. ASSUME nvmf_ctrlr_add_qpair(r)
          PROVE  UNCHANGED <<state, ns, state_changes>> /\ (UNCHANGED iter \/ Continue)
      BY <2>3, ZenonT(60) DEF nvmf_ctrlr_add_qpair
    <2> QED
      BY <2>1, <2>2, <2>3, ZenonT(60) DEF RequestStep
  <1>2. iter \in IterType
    BY ZenonT(60) DEF IInv, TypeOK
  <1>3. Continue => /\ iter'.revert = iter.revert /\ iter'.nsid = iter.nsid
                    /\ iter'.todo = iter.todo
    BY <1>2, ZenonT(60) DEF Continue, IterType
  <1> QED
    BY <1>1, <1>3, ZenonT(60) DEF ChangeFrame

(***************************************************************************)
(* So do the groups, each when it is visited.                              *)
(***************************************************************************)
LEMMA GroupChangeFrame ==
  ASSUME IInv, NEW g \in Groups, GroupStep(g)
  PROVE  ChangeFrame /\ iter'.todo = iter.todo \ {g}
  <1>1. /\ UNCHANGED <<state, ns, state_changes>>
        /\ \E phase \in {"visit", "wait", "remove", "failed"} : Visited(g, phase)
    <2>1. ASSUME nvmf_poll_group_pause_subsystem(g)
          PROVE  /\ UNCHANGED <<state, ns, state_changes>>
                 /\ \E phase \in {"visit", "wait", "remove", "failed"} : Visited(g, phase)
      <3> DEFINE wait == \/ sgroup[g].mgmt_io_outstanding > 0
                         \/ \E n \in Nsids \cap 1 .. sgroup[g].num_ns \cap {iter.nsid} :
                              ns_info[g][n].io_outstanding # 0
      <3>1. /\ UNCHANGED <<state, ns, state_changes>>
            /\ Visited(g, "visit") \/ Visited(g, IF wait THEN "wait" ELSE "visit")
        BY <2>1, ZenonT(60) DEF nvmf_poll_group_pause_subsystem
      <3> HIDE DEF wait
      <3> QED
        BY <3>1, ZenonT(60)
    <2>2. ASSUME \/ nvmf_poll_group_resume_subsystem(g) \/ nvmf_poll_group_add_subsystem(g)
                 \/ \E n \in Nsids : ResumeGroupFails(g, n)
          PROVE  /\ UNCHANGED <<state, ns, state_changes>>
                 /\ Visited(g, "visit") \/ Visited(g, "failed")
      BY <2>2, ZenonT(60) DEF nvmf_poll_group_resume_subsystem, nvmf_poll_group_add_subsystem,
                         ResumeGroupFails
    <2>3. ASSUME nvmf_poll_group_remove_subsystem(g)
          PROVE  /\ UNCHANGED <<state, ns, state_changes>>
                 /\ Visited(g, "visit") \/ Visited(g, "remove")
      BY <2>3, ZenonT(60) DEF nvmf_poll_group_remove_subsystem
    <2> QED
      BY <2>1, <2>2, <2>3, ZenonT(60) DEF GroupStep
  <1>2. PICK phase \in {"visit", "wait", "remove", "failed"} : Visited(g, phase)
    BY <1>1, ZenonT(60)
  <1>3. TypeOK
    BY ZenonT(60) DEF IInv
  <1>4. iter'.revert = iter.revert /\ iter'.nsid = iter.nsid /\ iter'.todo = iter.todo \ {g}
    BY <1>2, <1>3, VisitedFacts, ZenonT(60)
  <1> QED
    BY <1>1, <1>4, ZenonT(60) DEF ChangeFrame

(***************************************************************************)
(* A state change is in progress unless the subsystem is in a state where  *)
(* it may rest.                                                            *)
(***************************************************************************)
LEMMA IdleAtRest ==
  ASSUME IInv
  PROVE  iter.phase = "idle" <=> state \in {"ACTIVE", "PAUSED", "INACTIVE"}
  BY ZenonT(60) DEF IInv, MachineInv, IterMatches, TypeOK, SubsystemStates

(***************************************************************************)
(* Steps other than the driver's keep ChangeInv.                           *)
(***************************************************************************)
LEMMA ChangeKept ==
  ASSUME IInv, IInv', ChangeInv, ChangeFrame
  PROVE  ChangeInv'
  <1>1. iter'.phase = "idle" <=> iter.phase = "idle"
    <2>1. iter.phase = "idle" <=> state \in {"ACTIVE", "PAUSED", "INACTIVE"}
      BY IdleAtRest, ZenonT(60)
    <2>2. iter'.phase = "idle" <=> state' \in {"ACTIVE", "PAUSED", "INACTIVE"}
      BY ZenonT(60) DEF IInv, MachineInv, IterMatches, TypeOK, SubsystemStates
    <2> QED
      BY <2>1, <2>2, ZenonT(60) DEF ChangeFrame
  <1> QED
    BY <1>1, ZenonT(60) DEF ChangeInv, ChangeFrame, Suits

(***************************************************************************)
(* A change asked for as documented waits for no other, and for the state  *)
(* it starts from.                                                         *)
(***************************************************************************)
LEMMA AskedSuits ==
  ASSUME IInv, DocumentedUse, NEW c \in Changes, nvmf_subsystem_state_change(c)
  PROVE  ChangeInv'
  <1>1. /\ state_changes = <<>> /\ state = DocumentedFrom(c) /\ Proper(c)
        /\ state_changes' = Append(state_changes, c) /\ UNCHANGED <<state, iter>>
    BY ZenonT(60) DEF nvmf_subsystem_state_change, DocumentedUse
  <1>2. c \in Change
    BY ChangesAssumption, ZenonT(60)
  <1>3. Len(state_changes') = 1 /\ Head(state_changes') = c
    BY <1>1, <1>2
  <1>4. state \in {"ACTIVE", "PAUSED", "INACTIVE"}
    BY <1>1, <1>2, ZenonT(60) DEF DocumentedFrom, Change, PausingOps
  <1>5. Suits(c)'
    BY <1>1, <1>4, ZenonT(60) DEF Suits, Proper, DocumentedFrom
  <1> QED
    BY <1>3, <1>5 DEF ChangeInv

(***************************************************************************)
(* What is left of the queue when its only change ends.                    *)
(***************************************************************************)
LEMMA FinishQueue ==
  ASSUME TypeOK, state_changes # <<>>, Len(state_changes) <= 1, NEW new,
         Finish(Head(state_changes), new)
  PROVE  /\ iter' = NoIter
         /\ state_changes' = IF Head(state_changes).op \in PausingOps THEN <<Resume>> ELSE <<>>
  <1> DEFINE more == IF Head(state_changes).op \in PausingOps THEN <<Resume>> ELSE <<>>
  <1>1. state_changes \in Seq(Change)
    BY ZenonT(60) DEF TypeOK
  <1>2. Tail(state_changes) = <<>>
    BY <1>1
  <1>3. Resume \in Change
    BY ChangesAssumption DEF Resume, Change, PausingOps
  <1>4. more \in Seq(Change)
    BY <1>3
  <1>5. iter' = NoIter /\ state_changes' = <<>> \o more
    BY <1>2, ZenonT(60) DEF Finish
  <1> HIDE DEF more
  <1>6. <<>> \o more = more
    BY <1>4
  <1> QED
    BY <1>5, <1>6, ZenonT(60) DEF more

(***************************************************************************)
(* nvmf_subsystem_set_state accepts what is about to be asked of it.       *)
(***************************************************************************)
LEMMA Accepted ==
  ASSUME IInv, ChangeInv
  PROVE  TransitionsAccepted
  <1>1. ASSUME iter.phase = "idle", state_changes # <<>>
        PROVE  LET c == Head(state_changes)
               IN /\ state # c.requested
                  /\ SetStateAllowed(nvmf_subsystem_get_intermediate_state(state, c.requested))
    <2> DEFINE c == Head(state_changes)
    <2>1. Proper(c) /\ state = DocumentedFrom(c)
      BY <1>1, ZenonT(60) DEF ChangeInv, Suits
    <2>2. c.op \in PausingOps \cup {"start", "stop", "resume"}
      BY <1>1 DEF IInv, TypeOK, Change
    <2> HIDE DEF c
    <2>3. \/ state = "ACTIVE" /\ c.requested \in {"PAUSED", "INACTIVE"}
          \/ state \in {"INACTIVE", "PAUSED"} /\ c.requested = "ACTIVE"
      BY <2>1, <2>2, ZenonT(60) DEF Proper, DocumentedFrom, PausingOps
    <2>4. /\ state # c.requested
          /\ SetStateAllowed(nvmf_subsystem_get_intermediate_state(state, c.requested))
      BY <2>3, ZenonT(60) DEF SetStateAllowed, ExpectedOld, nvmf_subsystem_get_intermediate_state
    <2> QED
      BY <2>4, ZenonT(60) DEF c
  <1>2. iter.phase = "visit" => SetStateAllowed(iter.requested)
    BY ZenonT(60) DEF IInv, MachineInv, IterMatches, TypeOK, SubsystemStates, SetStateAllowed, ExpectedOld
  <1>3. iter.phase = "failed" =>
          SetStateAllowed(nvmf_subsystem_get_intermediate_state(iter.requested, iter.original))
    BY ZenonT(60) DEF IInv, MachineInv, IterMatches, TypeOK, SubsystemStates, SetStateAllowed, ExpectedOld,
           nvmf_subsystem_get_intermediate_state
  <1> QED
    BY <1>1, <1>2, <1>3, ZenonT(60) DEF TransitionsAccepted

(***************************************************************************)
(* A change is started: as documented, it never ends at once.              *)
(***************************************************************************)
LEMMA StartSuits ==
  ASSUME IInv, ChangeInv, nvmf_subsystem_do_state_change
  PROVE  /\ ChangeInv' /\ UNCHANGED <<ns, state_changes>>
         /\ iter'.todo = Groups /\ ~iter'.revert /\ state # "PAUSING"
         /\ state' = "PAUSING" => state = "ACTIVE"
  <1> DEFINE c == Head(state_changes)
             new == nvmf_subsystem_get_intermediate_state(state, c.requested)
  <1>1. iter.phase = "idle" /\ state_changes # <<>>
    BY ZenonT(60) DEF nvmf_subsystem_do_state_change
  <1>2. Proper(c) /\ state = DocumentedFrom(c) /\ Len(state_changes) <= 1
    BY <1>1, ZenonT(60) DEF ChangeInv, Suits
  <1>3. c.op \in PausingOps \cup {"start", "stop", "resume"}
    BY <1>1 DEF IInv, TypeOK, Change
  <1> HIDE DEF c
  <1>4. \/ state = "ACTIVE" /\ c.requested = "PAUSED" /\ c.op \in PausingOps
        \/ state = "ACTIVE" /\ c.requested = "INACTIVE" /\ c.op = "stop"
        \/ state = "INACTIVE" /\ c.requested = "ACTIVE" /\ c.op = "start"
        \/ state = "PAUSED" /\ c.requested = "ACTIVE" /\ c.op = "resume"
    BY <1>2, <1>3, ZenonT(60) DEF Proper, DocumentedFrom, PausingOps
  <1>5. state # c.requested /\ SetStateAllowed(new)
    BY <1>4, ZenonT(60) DEF SetStateAllowed, ExpectedOld, nvmf_subsystem_get_intermediate_state
  <1>6. /\ state' = new /\ VisitAll(c.requested, state, c.nsid, FALSE)
        /\ UNCHANGED <<ns, state_changes>>
    BY <1>5, ZenonT(60) DEF nvmf_subsystem_do_state_change, c
  <1>7. \/ new = "PAUSING" /\ c.op \in PausingOps /\ state = "ACTIVE"
        \/ new = "DEACTIVATING" /\ c.op = "stop" /\ state = "ACTIVE"
        \/ new = "ACTIVATING" /\ c.op = "start" /\ state = "INACTIVE"
        \/ new = "RESUMING" /\ c.op = "resume" /\ state = "PAUSED"
    BY <1>4, ZenonT(60) DEF nvmf_subsystem_get_intermediate_state
  <1> HIDE DEF new
  <1>8. /\ iter'.phase = "visit" /\ iter'.todo = Groups /\ iter'.nsid = c.nsid
        /\ iter'.revert = FALSE
    BY <1>6, ZenonT(60) DEF VisitAll
  <1>9. c' = c
    BY <1>6, ZenonT(60) DEF c
  <1>10. Suits(c)'
    BY <1>2, <1>6, <1>7, <1>8, <1>9, ZenonT(60) DEF Suits, Proper
  <1> QED
    BY <1>2, <1>6, <1>7, <1>8, <1>9, <1>10, ZenonT(60) DEF ChangeInv, c

(***************************************************************************)
(* A change ends.  What it leaves in the queue is the resume that follows  *)
(* a pause, and a namespace only goes when a pause of it ends.             *)
(***************************************************************************)
LEMMA DoneSuits ==
  ASSUME IInv, ChangeInv, subsystem_state_change_done
  PROVE  /\ ChangeInv' /\ state' # "PAUSING"
         /\ \A n \in ns \ ns' :
              state = "PAUSING" /\ ~iter.revert /\ iter.nsid = n /\ iter.todo = {}
                /\ iter.phase = "visit"
  <1> DEFINE c == Head(state_changes)
  <1>1. /\ iter.phase = "visit" /\ iter.todo = {} /\ state' = iter.requested
        /\ Finish(c, iter.requested) /\ TypeOK /\ state_changes # <<>>
        /\ state \in {"PAUSING", "RESUMING", "ACTIVATING", "DEACTIVATING"}
    BY ZenonT(60) DEF subsystem_state_change_done, IInv, MachineInv, IterMatches, TypeOK, SubsystemStates
  <1>2. Suits(c) /\ Len(state_changes) <= 1
    BY <1>1, ZenonT(60) DEF ChangeInv
  <1>3. /\ iter' = NoIter
        /\ state_changes' = IF c.op \in PausingOps THEN <<Resume>> ELSE <<>>
    BY <1>1, <1>2, FinishQueue, ZenonT(60)
  <1>4. /\ state = "PAUSING" => state' = "PAUSED"
        /\ state \in {"RESUMING", "ACTIVATING"} => state' = "ACTIVE"
        /\ state = "DEACTIVATING" => state' = "INACTIVE"
    BY <1>1, ZenonT(60) DEF IInv, MachineInv, IterMatches
  <1>5. /\ ns' = IF iter.requested \in {"INACTIVE", "PAUSED"}
                 THEN CASE c.op = "remove" -> ns \ {c.on}
                        [] c.op = "add" -> ns \cup {c.on}
                        [] OTHER -> ns
                 ELSE ns
    BY <1>1, ZenonT(60) DEF Finish
  <1> HIDE DEF c
  <1>6. c.op \in PausingOps => state = "PAUSING" /\ ~iter.revert /\ iter.nsid = c.nsid
    BY <1>1, <1>2, ZenonT(60) DEF Suits, PausingOps
  <1>7. ChangeInv'
    <2>1. CASE c.op \in PausingOps
      <3>1. state' = "PAUSED" /\ state_changes' = <<Resume>> /\ iter'.phase = "idle"
        BY <1>3, <1>4, <1>6, <2>1, ZenonT(60) DEF NoIter
      <3>2. Len(state_changes') = 1 /\ Head(state_changes') = Resume
        BY <3>1
      <3>3. Suits(Resume)'
        BY <3>1, ZenonT(60) DEF Suits, Proper, Resume, DocumentedFrom, PausingOps
      <3> QED
        BY <3>2, <3>3 DEF ChangeInv
    <2>2. CASE c.op \notin PausingOps
      BY <1>3, <2>2 DEF ChangeInv
    <2> QED
      BY <2>1, <2>2, ZenonT(60)
  <1>8. ASSUME NEW n \in ns \ ns'
        PROVE  state = "PAUSING" /\ ~iter.revert /\ iter.nsid = n
    <2>1. c.op = "remove" /\ n = c.on
      BY <1>5, <1>8, ZenonT(60)
    <2> QED
      BY <1>2, <1>6, <2>1, ZenonT(60) DEF Suits, Proper, PausingOps
  <1> QED
    BY <1>1, <1>4, <1>7, <1>8, ZenonT(60)

(***************************************************************************)
(* A change is undone.                                                     *)
(***************************************************************************)
LEMMA FailedSuits ==
  ASSUME IInv, ChangeInv, ChangeFailed
  PROVE  ChangeInv' /\ UNCHANGED ns /\ iter'.revert /\ iter'.todo = Groups
  <1>1. /\ iter.phase = "failed" /\ UNCHANGED <<ns, state_changes>>
        /\ state' = nvmf_subsystem_get_intermediate_state(iter.requested, iter.original)
        /\ VisitAll(iter.original, iter.original, iter.nsid, TRUE)
    BY ZenonT(60) DEF ChangeFailed
  <1>2. state = "RESUMING" /\ iter.original = "PAUSED"
    BY <1>1, ZenonT(60) DEF IInv, MachineInv, IterMatches, TypeOK, SubsystemStates
  <1>3. state' = "PAUSING"
    BY <1>1, <1>2, ZenonT(60) DEF nvmf_subsystem_get_intermediate_state
  <1>4. iter'.phase = "visit" /\ iter'.revert /\ iter'.todo = Groups
    BY <1>1, ZenonT(60) DEF VisitAll
  <1> QED
    BY <1>1, <1>2, <1>3, <1>4, ZenonT(60) DEF ChangeInv, Suits

(***************************************************************************)
(* Under the documented use every step keeps ChangeInv.                    *)
(***************************************************************************)
LEMMA NextChangeInv ==
  ASSUME DocumentedUse, IInv, IInv', ChangeInv, [Next]_vars
  PROVE  ChangeInv'
  <1>1. ASSUME NEW r \in Requests, RequestStep(r) PROVE ChangeInv'
    BY <1>1, RequestChangeFrame, ChangeKept, ZenonT(60)
  <1>2. ASSUME NEW q \in Qpairs, QpairStep(q) PROVE ChangeInv'
    <2>1. ChangeFrame
      BY <1>2, ZenonT(60) DEF QpairStep, spdk_nvmf_qpair_disconnect, NewQpair, ChangeFrame
    <2> QED
      BY <2>1, ChangeKept, ZenonT(60)
  <1>3. ASSUME NEW g \in Groups, GroupStep(g) PROVE ChangeInv'
    BY <1>3, GroupChangeFrame, ChangeKept, ZenonT(60)
  <1>4. ASSUME UNCHANGED vars PROVE ChangeInv'
    <2>1. ChangeFrame
      BY <1>4, ZenonT(60) DEF vars, ChangeFrame
    <2> QED
      BY <2>1, ChangeKept, ZenonT(60)
  <1> QED
    BY <1>1, <1>2, <1>3, <1>4, AskedSuits, StartSuits, DoneSuits, FailedSuits, ZenonT(60)
       DEF Next, RequestStep, QpairStep

(***************************************************************************)
(* Under the documented use the change at the head of the queue always     *)
(* suits the state of the subsystem.                                       *)
(***************************************************************************)
THEOREM ChangeInvariance ==
  ASSUME DocumentedUse
  PROVE  Spec => []ChangeInv
  <1>1. Init => ChangeInv
    BY DEF Init, ChangeInv
  <1>2. IInv /\ IInv' /\ ChangeInv /\ [Next]_vars => ChangeInv'
    BY NextChangeInv, ZenonT(60)
  <1> QED
    BY <1>1, <1>2, Invariance, PTL DEF Spec

(***************************************************************************)
(* Under the documented use nvmf_subsystem_set_state accepts every         *)
(* transition it is asked for, that of a failed resume back included.      *)
(***************************************************************************)
THEOREM TransitionsAcceptedHolds ==
  ASSUME DocumentedUse
  PROVE  Spec => []TransitionsAccepted
  <1>1. IInv /\ ChangeInv => TransitionsAccepted
    BY Accepted, ZenonT(60)
  <1> QED
    BY <1>1, Invariance, ChangeInvariance, PTL

-----------------------------------------------------------------------------
(***************************************************************************)
(* I/O.  A pause for a namespace has closed it on every group visited, and *)
(* has waited for its I/O on those that are paused.                        *)
(***************************************************************************)
PauseInv ==
  state = "PAUSING" /\ ~iter.revert =>
    \A g \in Groups :
      IF g \in iter.todo THEN sgroup[g].state = "ACTIVE"
      ELSE \A n \in Nsids \cap {iter.nsid} :
             /\ ns_info[g][n].state = "PAUSING"
             /\ sgroup[g].state = "PAUSED" => ns_info[g][n].io_outstanding = 0

(***************************************************************************)
(* No I/O runs, or can start, on a namespace that has been removed.        *)
(***************************************************************************)
AbsentInv ==
  \A g \in Groups : \A n \in Nsids \ ns :
    /\ IoOutstanding(g, n) = {}
    /\ ns_info[g][n].state # "ACTIVE" \/ ~ns_info[g][n].channel

(***************************************************************************)
(* I/O belongs to a queue pair with a controller, which a stopping group   *)
(* disconnects, and to a namespace of its group.                           *)
(***************************************************************************)
IoInv ==
  /\ \A q \in Qpairs : qpair[q].state = "ENABLED" => qpair[q].ctrlr
  /\ \A r \in Requests :
       /\ req[r].cls # "verify"
       /\ req[r].cls = "io" /\ req[r].st # "free" => qpair[QpairOf[r]].ctrlr
       /\ req[r].cls = "io" /\ req[r].st = "outstanding" =>
            req[r].nsid \in 1 .. sgroup[GroupOf[QpairOf[r]]].num_ns

JInv == PauseInv /\ AbsentInv /\ IoInv /\ IoCounted

(***************************************************************************)
(* The hosts never send Verify, whose completion is not counted (README,   *)
(* Disagreements).                                                         *)
(***************************************************************************)
NoVerify == "verify" \notin Classes

(***************************************************************************)
(* The requests on a namespace are finitely many.                          *)
(***************************************************************************)
LEMMA IoFinite ==
  \A g, n : IsFiniteSet(IoOutstanding(g, n)) /\ IsFiniteSet(IoOutstanding(g, n)')
  <1> TAKE g, n
  <1>1. IoOutstanding(g, n) \subseteq Requests /\ IoOutstanding(g, n)' \subseteq Requests
    BY ZenonT(60) DEF IoOutstanding, OnGroup
  <1> QED
    BY <1>1, FS_Subset, TopologyAssumption, ZenonT(60)

(***************************************************************************)
(* Initially no request is there and every namespace is.                   *)
(***************************************************************************)
LEMMA InitJInv == Init => JInv
  <1> SUFFICES ASSUME Init PROVE JInv
    BY ZenonT(60)
  <1>1. PauseInv /\ AbsentInv
    BY ZenonT(60) DEF Init, PauseInv, AbsentInv
  <1>2. IoInv
    BY TopologyAssumption, ZenonT(60) DEF Init, IoInv, FreeReq
  <1>3. IoCounted
    <2> SUFFICES ASSUME NEW g \in Groups, NEW n \in Nsids
                 PROVE  ns_info[g][n].io_outstanding = Cardinality(IoOutstanding(g, n))
      BY ZenonT(60) DEF IoCounted
    <2>1. IoOutstanding(g, n) = {}
      BY ZenonT(60) DEF Init, FreeReq, IoOutstanding, OnGroup
    <2>2. ns_info[g][n].io_outstanding = 0
      BY ZenonT(60) DEF Init
    <2> QED
      BY <2>1, <2>2, FS_EmptySet, ZenonT(60)
  <1> QED
    BY <1>1, <1>2, <1>3, ZenonT(60) DEF JInv

(***************************************************************************)
(* A step of the thread that drives the state changes.                     *)
(***************************************************************************)
LEMMA DriverIo ==
  ASSUME JInv, UNCHANGED <<sgroup, ns_info, qpair, req>>
  PROVE  IoInv' /\ IoCounted' /\ (ns \subseteq ns' => AbsentInv')
  <1>1. \A g, n : IoOutstanding(g, n)' = IoOutstanding(g, n)
    BY ZenonT(60) DEF IoOutstanding, OnGroup
  <1>2. IoInv' /\ IoCounted'
    BY <1>1, ZenonT(60) DEF JInv, IoInv, IoCounted
  <1>3. ASSUME ns \subseteq ns' PROVE AbsentInv'
    BY <1>1, <1>3, ZenonT(60) DEF JInv, AbsentInv
  <1> QED
    BY <1>2, <1>3, ZenonT(60)

(***************************************************************************)
(* The end of a change: a namespace that is removed has been paused.       *)
(***************************************************************************)
LEMMA RemovedPaused ==
  ASSUME IInv, ChangeInv, JInv, subsystem_state_change_done,
         NEW n \in ns \ ns', NEW g \in Groups
  PROVE  IoOutstanding(g, n) = {} /\ ns_info[g][n].state # "ACTIVE"
  <1>1. state = "PAUSING" /\ ~iter.revert /\ iter.nsid = n /\ iter.todo = {} /\ iter.phase = "visit"
    BY DoneSuits, ZenonT(60)
  <1>2. n \in Nsids
    BY ZenonT(60) DEF IInv, TypeOK
  <1>3. sgroup[g].state = "PAUSED"
    BY <1>1, ZenonT(60) DEF IInv, MachineInv, GroupMatches
  <1>4. ns_info[g][n].state = "PAUSING" /\ ns_info[g][n].io_outstanding = 0
    BY <1>1, <1>2, <1>3, ZenonT(60) DEF JInv, PauseInv
  <1>5. Cardinality(IoOutstanding(g, n)) = 0
    BY <1>2, <1>4, ZenonT(60) DEF JInv, IoCounted
  <1> QED
    BY <1>4, <1>5, IoFinite, FS_EmptySet, ZenonT(60)

(***************************************************************************)
(* The steps of the driving thread keep the invariant.                     *)
(***************************************************************************)
LEMMA DriverJInv ==
  ASSUME IInv, ChangeInv, JInv,
         \/ \E c \in Changes : nvmf_subsystem_state_change(c)
         \/ nvmf_subsystem_do_state_change
         \/ subsystem_state_change_done
         \/ ChangeFailed
  PROVE  JInv'
  <1>1. ASSUME NEW c \in Changes, nvmf_subsystem_state_change(c) PROVE JInv'
    <2>1. UNCHANGED <<state, ns, iter, sgroup, ns_info, qpair, req>>
      BY <1>1, ZenonT(60) DEF nvmf_subsystem_state_change
    <2>2. PauseInv'
      BY <2>1, ZenonT(60) DEF JInv, PauseInv
    <2> QED
      BY <2>1, <2>2, DriverIo, ZenonT(60) DEF JInv
  <1>2. ASSUME nvmf_subsystem_do_state_change PROVE JInv'
    <2>1. UNCHANGED <<sgroup, ns_info, qpair, req>>
      BY <1>2, ZenonT(60) DEF nvmf_subsystem_do_state_change
    <2>2. /\ UNCHANGED ns /\ iter'.todo = Groups
          /\ state' = "PAUSING" => state = "ACTIVE"
      BY <1>2, StartSuits, ZenonT(60)
    <2>3. PauseInv'
      BY <2>1, <2>2, ZenonT(60) DEF PauseInv, IInv, MachineInv, GroupMatches
    <2> QED
      BY <2>1, <2>2, <2>3, DriverIo, ZenonT(60) DEF JInv
  <1>3. ASSUME subsystem_state_change_done PROVE JInv'
    <2>1. UNCHANGED <<sgroup, ns_info, qpair, req>>
      BY <1>3, ZenonT(60) DEF subsystem_state_change_done
    <2>2. PauseInv'
      BY <1>3, DoneSuits, ZenonT(60) DEF PauseInv
    <2>3. \A g, n : IoOutstanding(g, n)' = IoOutstanding(g, n)
      BY <2>1, ZenonT(60) DEF IoOutstanding, OnGroup
    <2>4. AbsentInv'
      BY <1>3, <2>1, <2>3, RemovedPaused, ZenonT(60) DEF JInv, AbsentInv
    <2> QED
      BY <2>1, <2>2, <2>4, DriverIo, ZenonT(60) DEF JInv
  <1>4. ASSUME ChangeFailed PROVE JInv'
    <2>1. UNCHANGED <<ns, sgroup, ns_info, qpair, req>>
      BY <1>4, ZenonT(60) DEF ChangeFailed
    <2>2. PauseInv'
      BY <1>4, FailedSuits, ZenonT(60) DEF PauseInv
    <2> QED
      BY <2>1, <2>2, DriverIo, ZenonT(60) DEF JInv
  <1> QED
    BY <1>1, <1>2, <1>3, <1>4, ZenonT(60)

(***************************************************************************)
(* Nothing happens on the groups, and the I/O in progress stays the same.  *)
(***************************************************************************)
LEMMA IoKept ==
  ASSUME JInv, UNCHANGED <<state, ns, iter, sgroup, ns_info>>,
         \A g, n : IoOutstanding(g, n)' = IoOutstanding(g, n)
  PROVE  PauseInv' /\ AbsentInv' /\ IoCounted'
  <1>1. PauseInv'
    BY ZenonT(60) DEF JInv, PauseInv
  <1>2. AbsentInv' /\ IoCounted'
    BY ZenonT(60) DEF JInv, AbsentInv, IoCounted
  <1> QED
    BY <1>1, <1>2, ZenonT(60)

(***************************************************************************)
(* Disconnecting queue pairs leaves the I/O in progress alone, and the     *)
(* queue pairs their controllers.                                          *)
(***************************************************************************)
LEMMA DisconnectIo ==
  ASSUME IInv, NEW D \in SUBSET Qpairs, DisconnectAll(D)
  PROVE  /\ \A g, n : IoOutstanding(g, n)' = IoOutstanding(g, n)
         /\ \A q \in Qpairs : /\ qpair'[q].ctrlr = qpair[q].ctrlr
                              /\ qpair'[q].state = "ENABLED" => qpair[q].state = "ENABLED"
         /\ \A r \in Requests : req'[r] = req[r] \/ req'[r] = FreeReq
  <1> USE TopologyAssumption
  <1>1. /\ qpair \in [Qpairs -> QpairType] /\ req \in [Requests -> ReqType]
    BY ZenonT(60) DEF IInv, TypeOK
  <1>2. \A r \in Requests :
          IF /\ QpairOf[r] \in D
             /\ ~Busy(QpairOf[r]) \/ (req[r].st = "outstanding" /\ req[r].cls = "aer")
          THEN req'[r] = FreeReq ELSE req'[r] = req[r]
    BY ZenonT(60) DEF DisconnectAll
  <1>3. FreeReq.st = "free"
    BY ZenonT(60) DEF FreeReq
  <1> HIDE DEF FreeReq
  <1>4. ASSUME NEW g, NEW n PROVE IoOutstanding(g, n)' = IoOutstanding(g, n)
    <2>1. ASSUME NEW r \in IoOutstanding(g, n) PROVE req'[r] = req[r]
      <3>1. r \in Requests /\ req[r].st = "outstanding" /\ req[r].cls \in IoClasses
        BY <2>1, ZenonT(60) DEF IoOutstanding, OnGroup
      <3>2. Busy(QpairOf[r]) /\ req[r].cls # "aer"
        BY <3>1, ZenonT(60) DEF Busy, Outstanding, OnQpair, IoClasses
      <3> QED
        BY <1>2, <3>1, <3>2, ZenonT(60)
    <2> QED
      BY <1>2, <1>3, <2>1, ZenonT(60) DEF IoOutstanding, OnGroup
  <1>5. ASSUME NEW q \in Qpairs
        PROVE  /\ qpair'[q].ctrlr = qpair[q].ctrlr
               /\ qpair'[q].state = "ENABLED" => qpair[q].state = "ENABLED"
    BY <1>1, ZenonT(60) DEF DisconnectAll, QpairType
  <1> QED
    BY <1>2, <1>4, <1>5, ZenonT(60)

(***************************************************************************)
(* Queue pairs come and go.                                                *)
(***************************************************************************)
LEMMA QpairJInv ==
  ASSUME IInv, JInv, \/ \E r \in Requests : nvmf_ctrlr_add_qpair(r)
                     \/ \E q \in Qpairs : spdk_nvmf_qpair_disconnect(q) \/ NewQpair(q)
  PROVE  JInv'
  <1> USE TopologyAssumption
  <1>1. qpair \in [Qpairs -> QpairType] /\ req \in [Requests -> ReqType]
    BY ZenonT(60) DEF IInv, TypeOK
  <1>2. ASSUME NEW r \in Requests, nvmf_ctrlr_add_qpair(r) PROVE JInv'
    <2>1. /\ UNCHANGED <<state, ns, iter, sgroup, ns_info, req>>
          /\ qpair' = [qpair EXCEPT ![QpairOf[r]].ctrlr = TRUE]
      BY <1>2, ZenonT(60) DEF nvmf_ctrlr_add_qpair
    <2>2. \A q \in Qpairs : /\ qpair'[q].state = qpair[q].state
                            /\ qpair[q].ctrlr => qpair'[q].ctrlr
      BY <1>1, <2>1, ZenonT(60) DEF QpairType
    <2>3. IoInv'
      BY <2>1, <2>2, ZenonT(60) DEF JInv, IoInv
    <2>4. \A g, n : IoOutstanding(g, n)' = IoOutstanding(g, n)
      BY <2>1, ZenonT(60) DEF IoOutstanding, OnGroup
    <2> QED
      BY <2>1, <2>3, <2>4, IoKept, ZenonT(60) DEF JInv
  <1>3. ASSUME NEW q \in Qpairs, spdk_nvmf_qpair_disconnect(q) PROVE JInv'
    <2>1. UNCHANGED <<state, ns, iter, sgroup, ns_info>> /\ DisconnectAll({q})
      BY <1>3, ZenonT(60) DEF spdk_nvmf_qpair_disconnect
    <2>2. /\ \A g, n : IoOutstanding(g, n)' = IoOutstanding(g, n)
          /\ \A p \in Qpairs : /\ qpair'[p].ctrlr = qpair[p].ctrlr
                               /\ qpair'[p].state = "ENABLED" => qpair[p].state = "ENABLED"
          /\ \A r \in Requests : req'[r] = req[r] \/ req'[r] = FreeReq
      BY <2>1, DisconnectIo, ZenonT(60)
    <2>3. FreeReq.st = "free" /\ FreeReq.cls = "mgmt"
      BY ZenonT(60) DEF FreeReq
    <2>4. IoInv'
      BY <2>1, <2>2, <2>3, ZenonT(60) DEF JInv, IoInv
    <2> QED
      BY <2>1, <2>2, <2>4, IoKept, ZenonT(60) DEF JInv
  <1>4. ASSUME NEW q \in Qpairs, NewQpair(q) PROVE JInv'
    <2>1. /\ UNCHANGED <<state, ns, iter, sgroup, ns_info, req>>
          /\ qpair[q].state = "GONE"
          /\ qpair' = [qpair EXCEPT ![q] = [state |-> "CONNECTING", ctrlr |-> FALSE]]
      BY <1>4, ZenonT(60) DEF NewQpair
    <2>2. \A p \in Qpairs : p # q => qpair'[p] = qpair[p]
      BY <1>1, <2>1, ZenonT(60)
    <2>3. qpair'[q].state = "CONNECTING"
      BY <1>1, <2>1, ZenonT(60)
    <2>4. \A r \in Requests : req[r].st # "free" => QpairOf[r] # q
      BY <2>1, ZenonT(60) DEF IInv, RequestInv
    <2>5. IoInv'
      BY <2>1, <2>2, <2>3, <2>4, ZenonT(60) DEF JInv, IoInv
    <2>6. \A g, n : IoOutstanding(g, n)' = IoOutstanding(g, n)
      BY <2>1, ZenonT(60) DEF IoOutstanding, OnGroup
    <2> QED
      BY <2>1, <2>5, <2>6, IoKept, ZenonT(60) DEF JInv
  <1> QED
    BY <1>2, <1>3, <1>4, ZenonT(60)

(***************************************************************************)
(* What the admission or the completion of a request does to its group g:  *)
(* the counts change, and the group is paused when it has drained.         *)
(***************************************************************************)
Counted(g) ==
  /\ \A h \in Groups \ {g} : sgroup'[h] = sgroup[h] /\ ns_info'[h] = ns_info[h]
  /\ sgroup'[g].num_ns = sgroup[g].num_ns
  /\ \A n \in Nsids : /\ ns_info'[g][n].state = ns_info[g][n].state
                      /\ ns_info'[g][n].channel = ns_info[g][n].channel
  /\ \/ sgroup'[g].state = sgroup[g].state
     \/ /\ sgroup[g].state = "PAUSING" /\ sgroup'[g].state = "PAUSED"
        /\ \A n \in Nsids :
             ns_info'[g][n].state = "PAUSING" => ns_info'[g][n].io_outstanding = 0

CountedIo(g, m, v) ==
  \A n \in Nsids :
    ns_info'[g][n].io_outstanding = IF n = m THEN v ELSE ns_info[g][n].io_outstanding

(***************************************************************************)
(* The counts are written and the group is checked.                        *)
(***************************************************************************)
LEMMA CountedFacts ==
  ASSUME IInv, NEW g \in Groups, NEW count \in Int, NEW m, NEW v, m \in Nsids => v \in Int,
         ns_info' = [ns_info EXCEPT ![g] = WithCount(ns_info[g], m, v)],
         GroupCounts(g, [sgroup[g] EXCEPT !.mgmt_io_outstanding = count],
                     WithCount(ns_info[g], m, v))
  PROVE  Counted(g) /\ CountedIo(g, m, v)
  <1> DEFINE sg == [sgroup[g] EXCEPT !.mgmt_io_outstanding = count]
             nsi == WithCount(ns_info[g], m, v)
  <1>1. /\ sgroup \in [Groups -> SgroupType] /\ ns_info \in [Groups -> [Nsids -> NsInfoType]]
        /\ sgroup[g].state # "INACTIVE" => sgroup[g].num_ns = MaxNsid
    BY ZenonT(60) DEF IInv, TypeOK, NsInv
  <1>2. ASSUME NEW n \in Nsids
        PROVE  /\ nsi[n].state = ns_info[g][n].state /\ nsi[n].channel = ns_info[g][n].channel
               /\ nsi[n].io_outstanding = IF n = m THEN v ELSE ns_info[g][n].io_outstanding
    <2>1. ns_info[g] \in [Nsids -> NsInfoType] /\ ns_info[g][n] \in NsInfoType
      BY <1>1, ZenonT(60)
    <2>2. CASE n # m
      BY <2>1, <2>2, ZenonT(60) DEF WithCount
    <2>3. CASE n = m
      <3>1. nsi[n] = [ns_info[g][n] EXCEPT !.io_outstanding = v]
        BY <2>1, <2>3, ZenonT(60) DEF WithCount
      <3> QED
        BY <2>1, <2>3, <3>1, ZenonT(60) DEF NsInfoType
    <2> QED
      BY <2>2, <2>3, ZenonT(60)
  <1>3. sg \in SgroupType /\ sg.state = sgroup[g].state /\ sg.num_ns = sgroup[g].num_ns
    <2>1. sgroup[g] \in SgroupType
      BY <1>1, ZenonT(60)
    <2> QED
      BY <2>1, ZenonT(60) DEF SgroupType
  <1>4. ns_info' = [ns_info EXCEPT ![g] = nsi] /\ GroupCounts(g, sg, nsi)
    BY ZenonT(60)
  <1> HIDE DEF sg, nsi
  <1>5. ns_info'[g] = nsi /\ \A h \in Groups \ {g} : ns_info'[h] = ns_info[h]
    BY <1>1, <1>4, ZenonT(60)
  <1> DEFINE paused == [sg EXCEPT !.state = "PAUSED", !.cb_fn = FALSE]
  <1>6. paused.state = "PAUSED" /\ paused.num_ns = sg.num_ns
    BY <1>3, ZenonT(60) DEF SgroupType
  <1>7. \/ sgroup' = [sgroup EXCEPT ![g] = sg]
        \/ sgroup' = [sgroup EXCEPT ![g] = paused] /\ Drained(sg, nsi)
    BY <1>4, ZenonT(60) DEF GroupCounts, CheckPaused
  <1> HIDE DEF paused
  <1>8. /\ \A h \in Groups \ {g} : sgroup'[h] = sgroup[h]
        /\ sgroup'[g] = sg \/ (sgroup'[g] = paused /\ Drained(sg, nsi))
    BY <1>1, <1>7, ZenonT(60)
  <1>9. Drained(sg, nsi) => /\ sgroup[g].state = "PAUSING"
                            /\ \A n \in Nsids : nsi[n].state = "PAUSING" => nsi[n].io_outstanding = 0
    BY <1>1, <1>3, ZenonT(60) DEF Drained, Nsids
  <1>10. Counted(g)
    BY <1>2, <1>3, <1>5, <1>6, <1>8, <1>9, ZenonT(60) DEF Counted
  <1>11. CountedIo(g, m, v)
    BY <1>2, <1>5, ZenonT(60) DEF CountedIo
  <1> QED
    BY <1>10, <1>11, ZenonT(60)

(***************************************************************************)
(* A request is admitted or completed: a pause keeps its namespace closed. *)
(***************************************************************************)
LEMMA PauseKept ==
  ASSUME PauseInv, ChangeFrame, iter'.todo = iter.todo, NEW g \in Groups, Counted(g),
         \A n \in Nsids :
           sgroup[g].state = "PAUSED" /\ ns_info[g][n].state = "PAUSING"
             /\ ns_info[g][n].io_outstanding = 0 => ns_info'[g][n].io_outstanding = 0
  PROVE  PauseInv'
  <1> SUFFICES ASSUME state' = "PAUSING", ~iter'.revert, NEW h \in Groups
               PROVE  IF h \in iter'.todo THEN sgroup'[h].state = "ACTIVE"
                      ELSE \A n \in Nsids \cap {iter'.nsid} :
                             /\ ns_info'[h][n].state = "PAUSING"
                             /\ sgroup'[h].state = "PAUSED" => ns_info'[h][n].io_outstanding = 0
    BY ZenonT(60) DEF PauseInv
  <1>1. IF h \in iter.todo THEN sgroup[h].state = "ACTIVE"
        ELSE \A n \in Nsids \cap {iter.nsid} :
               /\ ns_info[h][n].state = "PAUSING"
               /\ sgroup[h].state = "PAUSED" => ns_info[h][n].io_outstanding = 0
    BY ZenonT(60) DEF PauseInv, ChangeFrame
  <1>2. iter'.todo = iter.todo /\ iter'.nsid = iter.nsid
    BY ZenonT(60) DEF ChangeFrame
  <1>3. CASE h # g
    <2>1. sgroup'[h] = sgroup[h] /\ ns_info'[h] = ns_info[h]
      BY <1>3, ZenonT(60) DEF Counted
    <2> QED
      BY <1>1, <1>2, <2>1, ZenonT(60)
  <1>4. CASE h = g
    BY <1>1, <1>2, <1>4 DEF Counted
  <1> QED
    BY <1>3, <1>4, ZenonT(60)

(***************************************************************************)
(* Counting the I/O of group g only.                                       *)
(***************************************************************************)
LEMMA IoCountedBy ==
  ASSUME JInv, NEW g \in Groups, Counted(g), NEW m, NEW v, CountedIo(g, m, v),
         \A h \in Groups \ {g} : \A n : IoOutstanding(h, n)' = IoOutstanding(h, n),
         \A n \in Nsids : n # m => IoOutstanding(g, n)' = IoOutstanding(g, n),
         m \in Nsids => v = Cardinality(IoOutstanding(g, m)')
  PROVE  IoCounted'
  <1> SUFFICES ASSUME NEW h \in Groups, NEW n \in Nsids
               PROVE  ns_info'[h][n].io_outstanding = Cardinality(IoOutstanding(h, n)')
    BY ZenonT(60) DEF IoCounted
  <1>1. ns_info[h][n].io_outstanding = Cardinality(IoOutstanding(h, n))
    BY ZenonT(60) DEF JInv, IoCounted
  <1>2. CASE h # g
    <2>1. ns_info'[h] = ns_info[h]
      BY <1>2, ZenonT(60) DEF Counted
    <2> QED
      BY <1>1, <1>2, <2>1, ZenonT(60)
  <1>3. CASE h = g
    <2>1. ns_info'[g][n].io_outstanding = IF n = m THEN v ELSE ns_info[g][n].io_outstanding
      BY ZenonT(60) DEF CountedIo
    <2> QED
      BY <1>1, <1>3, <2>1, ZenonT(60)
  <1> QED
    BY <1>2, <1>3, ZenonT(60)

(***************************************************************************)
(* What admission does, in the terms of the lemmas above: an I/O that      *)
(* starts does so on an open namespace of the group.                       *)
(***************************************************************************)
LEMMA ExecIoFacts ==
  ASSUME IInv, JInv, NoVerify, NEW r \in Requests, NEW k \in Kind, spdk_nvmf_request_exec(r, k)
  PROVE  LET q == QpairOf[r]
             g == GroupOf[q]
             outcome == Exec(q, k, sgroup[g], ns_info[g])
             starts == outcome = "outstanding" /\ k.cls = "io"
             m == IF starts THEN k.nsid ELSE 0
             v == IF starts THEN ns_info[g][k.nsid].io_outstanding + 1 ELSE 0
         IN /\ Counted(g) /\ CountedIo(g, m, v)
            /\ req[r].st = "free"
            /\ \A x \in Requests \ {r} : req'[x] = req[x]
            /\ req'[r].st = "outstanding" /\ req'[r].cls = "io" <=> starts
            /\ starts => /\ req'[r].nsid = k.nsid /\ k.nsid \in 1 .. sgroup[g].num_ns
                         /\ k.nsid \in Nsids /\ ns_info[g][k.nsid].channel
                         /\ ns_info[g][k.nsid].state = "ACTIVE"
            /\ req'[r].cls # "verify"
            /\ req'[r].cls = "io" => qpair[q].state = "ENABLED"
            /\ UNCHANGED qpair
  <1> DEFINE q == QpairOf[r]
             g == GroupOf[q]
             outcome == Exec(q, k, sgroup[g], ns_info[g])
             starts == outcome = "outstanding" /\ k.cls = "io"
             old == sgroup[g].mgmt_io_outstanding
             count == IF CountsMgmt(k, outcome) THEN old + 1 ELSE old
             nsi == IF CountsIo(k, outcome, sgroup[g].num_ns)
                    THEN [ns_info[g] EXCEPT ![k.nsid].io_outstanding = @ + 1]
                    ELSE ns_info[g]
             new == IF outcome = "refused" THEN FreeReq
                    ELSE [st |-> outcome, cls |-> k.cls, nsid |-> k.nsid]
             m == IF starts THEN k.nsid ELSE 0
             v == IF starts THEN ns_info[g][k.nsid].io_outstanding + 1 ELSE 0
  <1> USE TopologyAssumption, ChangesAssumption
  <1>1. /\ q \in Qpairs /\ g \in Groups /\ old \in Int /\ sgroup[g] \in SgroupType
        /\ ns_info[g] \in [Nsids -> NsInfoType] /\ req \in [Requests -> ReqType]
        /\ sgroup[g].num_ns \in {0, MaxNsid}
    BY ZenonT(60) DEF IInv, TypeOK, SgroupType
  <1>2. /\ k.cls \in MgmtClasses \cup {"io"} /\ k.nsid \in 0 .. MaxNsid
        /\ outcome \in {"queued", "refused", "outstanding"}
    BY DEF Kind, NoVerify, IoClasses, MgmtClasses, Exec, ExecMgmt, ExecIo
  <1>3. /\ req[r].st = "free" /\ MaySend(q, k) /\ UNCHANGED qpair
        /\ req' = [req EXCEPT ![r] = new] /\ ns_info' = [ns_info EXCEPT ![g] = nsi]
    BY ZenonT(60) DEF spdk_nvmf_request_exec
  <1>4. CountsIo(k, outcome, sgroup[g].num_ns) <=> starts
    BY <1>2, ZenonT(60) DEF CountsIo, IoClasses, MgmtClasses
  <1>5. starts => /\ k.nsid \in 1 .. sgroup[g].num_ns /\ k.nsid \in Nsids
                  /\ ns_info[g][k.nsid].channel /\ ns_info[g][k.nsid].state = "ACTIVE"
    BY <1>1, <1>2 DEF Exec, ExecIo, MgmtClasses, Nsids
  <1>6. k.cls = "io" => qpair[q].state = "ENABLED"
    BY <1>3, ZenonT(60) DEF MaySend
  <1>7. GroupCounts(g, [sgroup[g] EXCEPT !.mgmt_io_outstanding = count], nsi)
    <2>1. [sgroup[g] EXCEPT !.mgmt_io_outstanding = count]
            = IF CountsMgmt(k, outcome)
              THEN [sgroup[g] EXCEPT !.mgmt_io_outstanding = @ + 1] ELSE sgroup[g]
      BY <1>1, ZenonT(60) DEF SgroupType
    <2> QED
      BY <2>1, ZenonT(60) DEF spdk_nvmf_request_exec, GroupCounts
  <1>8. /\ count \in Int
        /\ new.st = IF outcome = "refused" THEN "free" ELSE outcome
        /\ new.cls = IF outcome = "refused" THEN "mgmt" ELSE k.cls
        /\ outcome # "refused" => new.nsid = k.nsid
    BY <1>1 DEF FreeReq
  <1> HIDE DEF new, count, outcome
  <1>9. nsi = WithCount(ns_info[g], m, v)
    <2>1. CASE starts
      BY <1>4, <2>1, ZenonT(60) DEF WithCount
    <2>2. CASE ~starts
      <3>1. 0 \notin DOMAIN ns_info[g]
        BY <1>1 DEF Nsids
      <3>2. WithCount(ns_info[g], 0, 0) = ns_info[g]
        BY <1>1, <3>1, ZenonT(60) DEF WithCount
      <3> QED
        BY <1>4, <2>2, <3>2, ZenonT(60)
    <2> QED
      BY <2>1, <2>2, ZenonT(60)
  <1>10. m \in Nsids => v \in Int
    BY <1>1, <1>5 DEF Nsids, NsInfoType
  <1> HIDE DEF nsi, m, v
  <1>11. Counted(g) /\ CountedIo(g, m, v)
    BY <1>1, <1>3, <1>7, <1>8, <1>9, <1>10, CountedFacts, ZenonT(60)
  <1>12. req'[r] = new /\ \A x \in Requests \ {r} : req'[x] = req[x]
    BY <1>1, <1>3, ZenonT(60)
  <1>13. /\ req'[r].st = "outstanding" /\ req'[r].cls = "io" <=> starts
         /\ starts => req'[r].nsid = k.nsid
         /\ req'[r].cls # "verify" /\ (req'[r].cls = "io" => k.cls = "io")
    BY <1>2, <1>8, <1>12, ZenonT(60) DEF MgmtClasses
  <1> QED
    BY <1>3, <1>5, <1>6, <1>11, <1>12, <1>13, ZenonT(60) DEF m, v, outcome

(***************************************************************************)
(* Admission keeps the invariant.                                          *)
(***************************************************************************)
LEMMA ExecJInv ==
  ASSUME IInv, JInv, NoVerify, NEW r \in Requests, NEW k \in Kind, spdk_nvmf_request_exec(r, k)
  PROVE  JInv'
  <1> DEFINE q == QpairOf[r]
             g == GroupOf[q]
             outcome == Exec(q, k, sgroup[g], ns_info[g])
             starts == outcome = "outstanding" /\ k.cls = "io"
             m == IF starts THEN k.nsid ELSE 0
             v == IF starts THEN ns_info[g][k.nsid].io_outstanding + 1 ELSE 0
  <1> USE TopologyAssumption
  <1>1. /\ Counted(g) /\ CountedIo(g, m, v) /\ req[r].st = "free"
        /\ \A x \in Requests \ {r} : req'[x] = req[x]
        /\ req'[r].st = "outstanding" /\ req'[r].cls = "io" <=> starts
        /\ starts => /\ req'[r].nsid = k.nsid /\ k.nsid \in 1 .. sgroup[g].num_ns
                     /\ k.nsid \in Nsids /\ ns_info[g][k.nsid].channel
                     /\ ns_info[g][k.nsid].state = "ACTIVE"
        /\ req'[r].cls # "verify"
        /\ req'[r].cls = "io" => qpair[q].state = "ENABLED"
        /\ UNCHANGED qpair
    BY ExecIoFacts, ZenonT(60)
  <1>2. g \in Groups /\ q \in Qpairs /\ r \in OnGroup(g)
    BY ZenonT(60) DEF OnGroup
  <1>3. ChangeFrame /\ iter'.todo = iter.todo
    BY RequestChangeFrame, ZenonT(60) DEF RequestStep
  <1>4. 0 \notin Nsids
    BY DEF Nsids
  <1> HIDE DEF g, q, starts, outcome
  <1>5. \A x \in Requests : req'[x].cls # "verify" /\ req[x].cls # "verify"
    BY <1>1, ZenonT(60) DEF JInv, IoInv
  <1>6. \A h, n : /\ IoOutstanding(h, n) = {x \in OnGroup(h) : req[x].st = "outstanding"
                                                 /\ req[x].cls = "io" /\ req[x].nsid = n}
                 /\ IoOutstanding(h, n)' = {x \in OnGroup(h) : req'[x].st = "outstanding"
                                                 /\ req'[x].cls = "io" /\ req'[x].nsid = n}
    BY <1>5, ZenonT(60) DEF IoOutstanding, IoClasses, OnGroup
  <1>7. \A h \in Groups \ {g} : \A n : IoOutstanding(h, n)' = IoOutstanding(h, n)
    BY <1>1, <1>2, <1>6, ZenonT(180) DEF OnGroup
  <1>8. \A n \in Nsids : n # m => IoOutstanding(g, n)' = IoOutstanding(g, n)
    BY <1>1, <1>6, ZenonT(180) DEF OnGroup
  <1>9. PICK i, c : i = m /\ c = v
    BY ZenonT(60)
  <1>10. IoCounted'
    <2>1. ASSUME i \in Nsids PROVE c = Cardinality(IoOutstanding(g, i)')
      <3>1. starts /\ i = k.nsid
        BY <1>4, <1>9, <2>1, ZenonT(60)
      <3>2. IoOutstanding(g, i)' = IoOutstanding(g, i) \cup {r} /\ r \notin IoOutstanding(g, i)
        BY <1>1, <1>2, <1>6, <3>1 DEF OnGroup
      <3>3. Cardinality(IoOutstanding(g, i)') = Cardinality(IoOutstanding(g, i)) + 1
        BY <3>2, IoFinite, FS_AddElement, ZenonT(60)
      <3>4. ns_info[g][i].io_outstanding = Cardinality(IoOutstanding(g, i))
        BY <1>2, <2>1, ZenonT(60) DEF JInv, IoCounted
      <3> QED
        BY <1>9, <3>1, <3>3, <3>4, ZenonT(60)
    <2> HIDE DEF m, v
    <2>2. CountedIo(g, i, c) /\ \A n \in Nsids : n # i => IoOutstanding(g, n)' = IoOutstanding(g, n)
      BY <1>1, <1>8, <1>9, ZenonT(60)
    <2> QED
      BY <1>1, <1>2, <1>7, <2>1, <2>2, IoCountedBy, ZenonT(180)
  <1>11. PauseInv'
    <2>1. \A n \in Nsids :
            sgroup[g].state = "PAUSED" /\ ns_info[g][n].state = "PAUSING"
              /\ ns_info[g][n].io_outstanding = 0 => ns_info'[g][n].io_outstanding = 0
      BY <1>1, <1>4, ZenonT(60) DEF CountedIo
    <2> QED
      BY <1>1, <1>2, <1>3, <2>1, PauseKept, ZenonT(60) DEF JInv
  <1>12. AbsentInv'
    <2> SUFFICES ASSUME NEW h \in Groups, NEW n \in Nsids \ ns
                 PROVE  /\ IoOutstanding(h, n)' = {}
                        /\ ns_info'[h][n].state # "ACTIVE" \/ ~ns_info'[h][n].channel
      BY <1>3, ZenonT(60) DEF AbsentInv, ChangeFrame
    <2>1. IoOutstanding(h, n) = {} /\ (ns_info[h][n].state # "ACTIVE" \/ ~ns_info[h][n].channel)
      BY ZenonT(60) DEF JInv, AbsentInv
    <2>2. CASE h # g
      BY <1>1, <1>7, <2>1, <2>2 DEF Counted
    <2>3. CASE h = g
      <3>1. n # m
        BY <1>1, <1>4, <2>1, <2>3, ZenonT(60)
      <3> QED
        BY <1>1, <1>8, <2>1, <2>3, <3>1, ZenonT(60) DEF Counted
    <2> QED
      BY <2>2, <2>3, ZenonT(60)
  <1>13. \A h \in Groups : sgroup'[h].num_ns = sgroup[h].num_ns
    BY <1>1, ZenonT(60) DEF Counted
  <1>14. IoInv'
    <2> SUFFICES ASSUME NEW x \in Requests
                 PROVE  /\ req'[x].cls = "io" /\ req'[x].st # "free" => qpair[QpairOf[x]].ctrlr
                        /\ req'[x].cls = "io" /\ req'[x].st = "outstanding" =>
                             req'[x].nsid \in 1 .. sgroup'[GroupOf[QpairOf[x]]].num_ns
      BY <1>1, <1>5, ZenonT(60) DEF JInv, IoInv
    <2>1. GroupOf[QpairOf[x]] \in Groups
      BY ZenonT(60)
    <2>2. CASE x = r
      BY <1>1, <1>2, <1>13, <2>1, <2>2, ZenonT(60) DEF JInv, IoInv, g, q
    <2>3. CASE x # r
      BY <1>1, <1>13, <2>1, <2>3, ZenonT(60) DEF JInv, IoInv
    <2> QED
      BY <2>2, <2>3, ZenonT(60)
  <1> QED
    BY <1>10, <1>11, <1>12, <1>14, ZenonT(60) DEF JInv

(***************************************************************************)
(* Completion keeps the invariant.                                         *)
(***************************************************************************)
LEMMA CompleteJInv ==
  ASSUME IInv, JInv, NEW r \in Requests, nvmf_request_complete(r)
  PROVE  JInv'
  <1> DEFINE q == QpairOf[r]
             g == GroupOf[q]
             k == req[r]
             ends == k.cls = "io"
             old == sgroup[g].mgmt_io_outstanding
             count == IF k.cls \in {"mgmt", "connect"} THEN old - 1 ELSE old
             nsi == IF k.cls = "io" /\ k.nsid \in 1 .. sgroup[g].num_ns
                    THEN [ns_info[g] EXCEPT ![k.nsid].io_outstanding = @ - 1]
                    ELSE ns_info[g]
             last == qpair[q].state = "DEACTIVATING" /\ Outstanding(q) = {r}
             m == IF ends THEN k.nsid ELSE 0
             v == IF ends THEN ns_info[g][k.nsid].io_outstanding - 1 ELSE 0
  <1> USE TopologyAssumption, ChangesAssumption
  <1>1. /\ q \in Qpairs /\ g \in Groups /\ old \in Int /\ sgroup[g] \in SgroupType
        /\ ns_info[g] \in [Nsids -> NsInfoType] /\ req \in [Requests -> ReqType]
        /\ sgroup[g].num_ns \in {0, MaxNsid} /\ sgroup \in [Groups -> SgroupType]
        /\ qpair \in [Qpairs -> QpairType] /\ k \in ReqType /\ r \in OnGroup(g)
    BY ZenonT(60) DEF IInv, TypeOK, SgroupType, OnGroup
  <1>2. /\ k.st = "outstanding" /\ ns_info' = [ns_info EXCEPT ![g] = nsi]
        /\ req' = [x \in Requests |->
                     IF x = r \/ (last /\ QpairOf[x] = q) THEN FreeReq ELSE req[x]]
        /\ qpair' = [qpair EXCEPT ![q].state =
                       IF last THEN "GONE"
                       ELSE IF k.cls = "connect" /\ qpair[q].ctrlr /\ @ = "CONNECTING"
                            THEN "ENABLED" ELSE @]
    BY ZenonT(60) DEF nvmf_request_complete
  <1>3. ends => k.nsid \in 1 .. sgroup[g].num_ns /\ k.nsid \in Nsids
    BY <1>1, <1>2 DEF JInv, IoInv, Nsids
  <1>4. GroupCounts(g, [sgroup[g] EXCEPT !.mgmt_io_outstanding = count], nsi)
    <2>1. [sgroup[g] EXCEPT !.mgmt_io_outstanding = count]
            = IF k.cls \in {"mgmt", "connect"}
              THEN [sgroup[g] EXCEPT !.mgmt_io_outstanding = @ - 1] ELSE sgroup[g]
      BY <1>1, ZenonT(60) DEF SgroupType
    <2>2. CASE k.cls \in {"aer", "verify"}
      <3>1. UNCHANGED <<sgroup, iter>>
        BY <2>2, ZenonT(60) DEF nvmf_request_complete
      <3>2. sgroup = [sgroup EXCEPT ![g] = sgroup[g]]
        BY <1>1, ZenonT(60)
      <3> QED
        BY <2>1, <2>2, <3>1, <3>2, ZenonT(60) DEF GroupCounts
    <2>3. CASE k.cls \notin {"aer", "verify"}
      BY <2>1, <2>3, ZenonT(60) DEF nvmf_request_complete, GroupCounts
    <2> QED
      BY <2>2, <2>3, ZenonT(60)
  <1>5. nsi = WithCount(ns_info[g], m, v)
    <2>1. CASE ends
      BY <1>3, <2>1, ZenonT(60) DEF WithCount
    <2>2. CASE ~ends
      <3>1. 0 \notin DOMAIN ns_info[g]
        BY <1>1 DEF Nsids
      <3>2. WithCount(ns_info[g], 0, 0) = ns_info[g]
        BY <1>1, <3>1, ZenonT(60) DEF WithCount
      <3> QED
        BY <2>2, <3>2, ZenonT(60)
    <2> QED
      BY <2>1, <2>2, ZenonT(60)
  <1>6. count \in Int /\ (m \in Nsids => v \in Int)
    BY <1>1, <1>3 DEF Nsids, NsInfoType
  <1> HIDE DEF nsi, count
  <1>7. Counted(g) /\ CountedIo(g, m, v)
    <2> HIDE DEF m, v
    <2> QED
      BY <1>1, <1>2, <1>4, <1>5, <1>6, CountedFacts, ZenonT(60)
  <1>8. ChangeFrame /\ iter'.todo = iter.todo
    BY RequestChangeFrame, ZenonT(60) DEF RequestStep
  <1>9. FreeReq.st = "free" /\ FreeReq.cls = "mgmt" /\ 0 \notin Nsids
    BY DEF FreeReq, Nsids
  <1>10. \A x \in Requests : last /\ QpairOf[x] = q /\ x # r => req[x].st # "outstanding"
    BY ZenonT(60) DEF last, Outstanding, OnQpair
  <1>11. /\ \A p \in Qpairs : qpair'[p].ctrlr = qpair[p].ctrlr
         /\ \A p \in Qpairs : qpair'[p].state = "ENABLED" =>
                              qpair[p].state = "ENABLED" \/ qpair[p].ctrlr
    <2> DEFINE st == IF last THEN "GONE"
                     ELSE IF k.cls = "connect" /\ qpair[q].ctrlr /\ qpair[q].state = "CONNECTING"
                          THEN "ENABLED" ELSE qpair[q].state
    <2>1. qpair' = [qpair EXCEPT ![q].state = st]
      BY <1>2, ZenonT(60)
    <2>2. st = "ENABLED" => qpair[q].state = "ENABLED" \/ qpair[q].ctrlr
      BY ZenonT(60)
    <2> HIDE DEF st
    <2>3. \A p \in Qpairs : p # q => qpair'[p] = qpair[p]
      BY <1>1, <2>1, ZenonT(60)
    <2>4. qpair'[q] = [qpair[q] EXCEPT !.state = st] /\ qpair[q] \in QpairType
      BY <1>1, <2>1, ZenonT(60)
    <2>5. qpair'[q].ctrlr = qpair[q].ctrlr /\ qpair'[q].state = st
      BY <2>4, ZenonT(60) DEF QpairType
    <2> QED
      BY <2>2, <2>3, <2>5, ZenonT(60)
  <1> HIDE DEF last, FreeReq
  <1>12. /\ \A x \in Requests : req'[x] = req[x] \/ req'[x] = FreeReq
         /\ req'[r] = FreeReq
         /\ \A x \in Requests \ {r} : req[x].st = "outstanding" => req'[x] = req[x]
    BY <1>2, <1>10, ZenonT(60)
  <1> HIDE DEF g, q, ends
  <1>13. \A h \in Groups \ {g} : \A n : IoOutstanding(h, n)' = IoOutstanding(h, n)
    BY <1>1, <1>9, <1>12 DEF IoOutstanding, OnGroup, g, q
  <1>14. \A n \in Nsids : IoOutstanding(g, n)' = IoOutstanding(g, n) \ {r}
    BY <1>9, <1>12, ZenonT(60) DEF IoOutstanding, OnGroup
  <1>15. \A n \in Nsids : r \in IoOutstanding(g, n) <=> n = m
    <2>1. k.cls # "verify"
      BY ZenonT(60) DEF JInv, IoInv
    <2> QED
      BY <1>1, <1>2, <1>9, <2>1, ZenonT(60) DEF IoOutstanding, IoClasses, ends
  <1>16. \A n \in Nsids : n # m => IoOutstanding(g, n)' = IoOutstanding(g, n)
    BY <1>14, <1>15, ZenonT(60)
  <1>17. PICK i, c : i = m /\ c = v
    BY ZenonT(60)
  <1>18. IoCounted'
    <2>1. ASSUME i \in Nsids PROVE c = Cardinality(IoOutstanding(g, i)')
      <3>1. ends /\ i = k.nsid
        BY <1>9, <1>17, <2>1, ZenonT(60)
      <3>2. IoOutstanding(g, i)' = IoOutstanding(g, i) \ {r} /\ r \in IoOutstanding(g, i)
        BY <1>14, <1>15, <1>17, <2>1, ZenonT(60)
      <3>3. Cardinality(IoOutstanding(g, i)') = Cardinality(IoOutstanding(g, i)) - 1
        BY <3>2, IoFinite, FS_RemoveElement, ZenonT(60)
      <3>4. ns_info[g][i].io_outstanding = Cardinality(IoOutstanding(g, i))
        BY <1>1, <2>1, ZenonT(60) DEF JInv, IoCounted
      <3> QED
        BY <1>17, <3>1, <3>3, <3>4, ZenonT(60)
    <2> HIDE DEF m, v
    <2>2. CountedIo(g, i, c) /\ \A n \in Nsids : n # i => IoOutstanding(g, n)' = IoOutstanding(g, n)
      BY <1>7, <1>16, <1>17, ZenonT(60)
    <2> QED
      BY <1>1, <1>7, <1>13, <2>1, <2>2, IoCountedBy, ZenonT(60)
  <1>19. PauseInv'
    <2>1. ASSUME NEW n \in Nsids, ns_info[g][n].io_outstanding = 0
          PROVE  ns_info'[g][n].io_outstanding = 0
      <3>1. Cardinality(IoOutstanding(g, n)) = 0
        BY <1>1, <2>1, ZenonT(60) DEF JInv, IoCounted
      <3>2. IoOutstanding(g, n) = {}
        BY <3>1, IoFinite, FS_EmptySet, ZenonT(60)
      <3>3. n # m
        BY <1>15, <3>2, ZenonT(60)
      <3> QED
        BY <1>7, <2>1, <3>3, ZenonT(60) DEF CountedIo
    <2> QED
      BY <1>1, <1>7, <1>8, <2>1, PauseKept, ZenonT(60) DEF JInv
  <1>20. AbsentInv'
    <2> SUFFICES ASSUME NEW h \in Groups, NEW n \in Nsids \ ns
                 PROVE  /\ IoOutstanding(h, n)' = {}
                        /\ ns_info'[h][n].state # "ACTIVE" \/ ~ns_info'[h][n].channel
      BY <1>8, ZenonT(60) DEF AbsentInv, ChangeFrame
    <2>1. IoOutstanding(h, n) = {} /\ (ns_info[h][n].state # "ACTIVE" \/ ~ns_info[h][n].channel)
      BY ZenonT(60) DEF JInv, AbsentInv
    <2>2. CASE h # g
      BY <1>7, <1>13, <2>1, <2>2, ZenonT(60) DEF Counted
    <2>3. CASE h = g
      BY <1>7, <1>14, <2>1, <2>3, ZenonT(60) DEF Counted
    <2> QED
      BY <2>2, <2>3, ZenonT(60)
  <1>21. \A h \in Groups : sgroup'[h].num_ns = sgroup[h].num_ns
    BY <1>7, ZenonT(60) DEF Counted
  <1>22. IoInv'
    <2>1. \A x \in Requests : QpairOf[x] \in Qpairs /\ GroupOf[QpairOf[x]] \in Groups
      BY ZenonT(60)
    <2> QED
      BY <1>9, <1>11, <1>12, <1>21, <2>1, ZenonT(60) DEF JInv, IoInv
  <1> QED
    BY <1>18, <1>19, <1>20, <1>22, ZenonT(60) DEF JInv

-----------------------------------------------------------------------------
(***************************************************************************)
(* Group g takes over the namespaces of the subsystem, or closes some, and *)
(* no I/O starts or ends.                                                  *)
(***************************************************************************)
LEMMA NsUpdated ==
  ASSUME JInv, UNCHANGED ns, NEW g \in Groups,
         \A h \in Groups \ {g} : ns_info'[h] = ns_info[h],
         \A h, n : IoOutstanding(h, n)' = IoOutstanding(h, n),
         \A n \in Nsids : \/ ns_info'[g][n].io_outstanding = ns_info[g][n].io_outstanding
                          \/ ns_info'[g][n].io_outstanding = 0 /\ IoOutstanding(g, n) = {},
         \A n \in Nsids \ ns : ns_info'[g][n].state # "ACTIVE" \/ ~ns_info'[g][n].channel
  PROVE  AbsentInv' /\ IoCounted'
  <1>1. AbsentInv'
    BY ZenonT(60) DEF JInv, AbsentInv
  <1>2. Cardinality({}) = 0
    BY FS_EmptySet, ZenonT(60)
  <1>3. ASSUME NEW h \in Groups, NEW n \in Nsids
        PROVE  ns_info'[h][n].io_outstanding = Cardinality(IoOutstanding(h, n)')
    <2>1. ns_info[h][n].io_outstanding = Cardinality(IoOutstanding(h, n))
      BY ZenonT(60) DEF JInv, IoCounted
    <2>2. IoOutstanding(h, n)' = IoOutstanding(h, n)
      BY ZenonT(60)
    <2>3. CASE h # g
      BY <2>1, <2>2, <2>3, ZenonT(60)
    <2>4. CASE h = g
      BY <1>2, <2>1, <2>2, <2>4, ZenonT(60)
    <2> QED
      BY <2>3, <2>4, ZenonT(60)
  <1> QED
    BY <1>1, <1>3, ZenonT(60) DEF IoCounted

(***************************************************************************)
(* A group is told to pause: it closes the namespace, and waits unless no  *)
(* I/O is left on it.                                                      *)
(***************************************************************************)
LEMMA PauseJInv ==
  ASSUME IInv, JInv, NEW g \in Groups, nvmf_poll_group_pause_subsystem(g)
  PROVE  JInv'
  <1> DEFINE pausing == Nsids \cap 1 .. sgroup[g].num_ns \cap {iter.nsid}
             wait == \/ sgroup[g].mgmt_io_outstanding > 0
                     \/ \E n \in pausing : ns_info[g][n].io_outstanding # 0
             nsi == [n \in Nsids |-> IF n \in pausing
                                     THEN [ns_info[g][n] EXCEPT !.state = "PAUSING"]
                                     ELSE ns_info[g][n]]
  <1> USE TopologyAssumption
  <1>1. /\ sgroup \in [Groups -> SgroupType] /\ ns_info \in [Groups -> [Nsids -> NsInfoType]]
        /\ sgroup[g] \in SgroupType /\ \A n \in Nsids : ns_info[g][n] \in NsInfoType
    BY DEF IInv, TypeOK
  <1>2. UNCHANGED <<ns, qpair, req>> /\ g \in iter.todo /\ state = "PAUSING"
    BY ZenonT(60) DEF nvmf_poll_group_pause_subsystem, Visiting, IInv, MachineInv, IterMatches, TypeOK,
           SubsystemStates
  <1>3. ChangeFrame /\ iter'.todo = iter.todo \ {g}
    BY GroupChangeFrame, ZenonT(60) DEF GroupStep
  <1>4. \A h, n : IoOutstanding(h, n)' = IoOutstanding(h, n)
    BY <1>2, ZenonT(60) DEF IoOutstanding, OnGroup
  <1>5. CASE sgroup[g].state = "PAUSED"
    <2>1. UNCHANGED <<sgroup, ns_info>>
      BY <1>5, ZenonT(60) DEF nvmf_poll_group_pause_subsystem
    <2>2. iter.revert
      BY <1>2, <1>5, ZenonT(60) DEF JInv, PauseInv
    <2>3. PauseInv'
      BY <1>3, <2>2, ZenonT(60) DEF PauseInv, ChangeFrame
    <2> QED
      BY <1>2, <2>1, <2>3, DriverIo, ZenonT(60) DEF JInv
  <1>6. CASE sgroup[g].state # "PAUSED"
    <2>1. /\ sgroup' = [sgroup EXCEPT ![g].state = IF wait THEN "PAUSING" ELSE "PAUSED",
                                      ![g].cb_fn = wait]
          /\ ns_info' = [ns_info EXCEPT ![g] = nsi]
      BY <1>6, ZenonT(60) DEF nvmf_poll_group_pause_subsystem
    <2> DEFINE sg == [sgroup[g] EXCEPT !.state = IF wait THEN "PAUSING" ELSE "PAUSED",
                                       !.cb_fn = wait]
    <2> HIDE DEF wait
    <2>2. /\ sgroup'[g] = sg
          /\ \A h \in Groups \ {g} : sgroup'[h] = sgroup[h]
      BY <1>1, <2>1, ZenonT(60)
    <2>3. sg.state = (IF wait THEN "PAUSING" ELSE "PAUSED") /\ sg.num_ns = sgroup[g].num_ns
      BY <1>1, ZenonT(60) DEF SgroupType
    <2> HIDE DEF sg
    <2>4. ASSUME NEW n \in Nsids
          PROVE  /\ nsi[n].io_outstanding = ns_info[g][n].io_outstanding
                 /\ nsi[n].channel = ns_info[g][n].channel
                 /\ nsi[n].state = IF n \in pausing THEN "PAUSING" ELSE ns_info[g][n].state
      <3>1. ns_info[g][n] \in NsInfoType
        BY <1>1, ZenonT(60)
      <3> HIDE DEF pausing
      <3> QED
        BY <3>1, ZenonT(60) DEF NsInfoType
    <2> HIDE DEF nsi
    <2>5. ns_info'[g] = nsi /\ \A h \in Groups \ {g} : ns_info'[h] = ns_info[h]
      BY <1>1, <2>1, ZenonT(60)
    <2>6. \A n \in Nsids \ ns : ns_info[g][n].state # "ACTIVE" \/ ~ns_info[g][n].channel
      BY ZenonT(60) DEF JInv, AbsentInv
    <2>7. AbsentInv' /\ IoCounted'
      <3>1. \A n \in Nsids : ns_info'[g][n].io_outstanding = ns_info[g][n].io_outstanding
        BY <2>4, <2>5, ZenonT(60)
      <3>2. \A n \in Nsids \ ns : ns_info'[g][n].state # "ACTIVE" \/ ~ns_info'[g][n].channel
        BY <2>4, <2>5, <2>6, ZenonT(60)
      <3> QED
        BY <1>2, <1>4, <2>5, <3>1, <3>2, NsUpdated, ZenonT(60)
    <2>8. \A h \in Groups : sgroup'[h].num_ns = sgroup[h].num_ns
      BY <2>2, <2>3, ZenonT(60)
    <2>9. IoInv'
      BY <1>2, <2>8, ZenonT(60) DEF JInv, IoInv
    <2>10. PauseInv'
      <3> SUFFICES ASSUME ~iter.revert, NEW h \in Groups
                   PROVE  IF h \in iter'.todo THEN sgroup'[h].state = "ACTIVE"
                          ELSE \A n \in Nsids \cap {iter.nsid} :
                                 /\ ns_info'[h][n].state = "PAUSING"
                                 /\ sgroup'[h].state = "PAUSED" =>
                                      ns_info'[h][n].io_outstanding = 0
        BY <1>3 DEF PauseInv, ChangeFrame
      <3>1. IF h \in iter.todo THEN sgroup[h].state = "ACTIVE"
            ELSE \A n \in Nsids \cap {iter.nsid} :
                   /\ ns_info[h][n].state = "PAUSING"
                   /\ sgroup[h].state = "PAUSED" => ns_info[h][n].io_outstanding = 0
        BY <1>2, ZenonT(60) DEF JInv, PauseInv
      <3>2. CASE h # g
        BY <1>3, <2>2, <2>5, <3>1, <3>2, ZenonT(60)
      <3>3. CASE h = g
        <4>1. sgroup[g].num_ns = MaxNsid /\ g \notin iter'.todo
          BY <1>2, <1>3, <3>1, <3>3, ZenonT(60) DEF IInv, NsInv
        <4>2. \A n \in Nsids \cap {iter.nsid} : n \in pausing
          BY <4>1, ZenonT(60) DEF Nsids
        <4>3. sgroup'[g].state = "PAUSED" =>
                \A n \in pausing : ns_info[g][n].io_outstanding = 0
          BY <2>2, <2>3, ZenonT(60) DEF wait
        <4> HIDE DEF pausing
        <4> QED
          BY <2>4, <2>5, <3>3, <4>1, <4>2, <4>3, ZenonT(60)
      <3> QED
        BY <3>2, <3>3, ZenonT(60)
    <2> QED
      BY <2>7, <2>9, <2>10, ZenonT(60) DEF JInv
  <1> QED
    BY <1>5, <1>6, ZenonT(60)

(***************************************************************************)
(* poll_group_update_subsystem keeps the counts of the namespaces that are *)
(* there, and clears those that are not, on which no I/O runs.             *)
(***************************************************************************)
LEMMA UpdateIo ==
  ASSUME IInv, JInv, NEW g \in Groups, NEW upto \in Int, NEW n \in Nsids
  PROVE  LET up == poll_group_update_subsystem(ns_info[g], upto)
         IN /\ up[n] \in NsInfoType
            /\ \/ up[n].io_outstanding = ns_info[g][n].io_outstanding
               \/ up[n].io_outstanding = 0 /\ IoOutstanding(g, n) = {}
            /\ n \notin ns => \/ up[n].state # "ACTIVE"
                             \/ ~up[n].channel
            /\ n \notin ns /\ upto = MaxNsid => ~up[n].channel
  <1> DEFINE up == poll_group_update_subsystem(ns_info[g], upto)
             on == [ns_info[g][n] EXCEPT !.channel = TRUE]
  <1>1. ns_info[g][n] \in NsInfoType /\ n \in 1 .. MaxNsid /\ MaxNsid \in Nat
    BY ChangesAssumption, ZenonT(60) DEF IInv, TypeOK, Nsids
  <1>2. on \in NsInfoType /\ on.io_outstanding = ns_info[g][n].io_outstanding
    BY <1>1, ZenonT(60) DEF NsInfoType
  <1>3. /\ NoNsInfo \in NsInfoType /\ NoNsInfo.io_outstanding = 0
        /\ NoNsInfo.state # "ACTIVE" /\ ~NoNsInfo.channel
    BY DEF NoNsInfo, NsInfoType
  <1>4. up[n] = IF n > upto THEN ns_info[g][n] ELSE IF n \in ns THEN on ELSE NoNsInfo
    BY ZenonT(60) DEF poll_group_update_subsystem
  <1>5. n \notin ns => /\ IoOutstanding(g, n) = {}
                       /\ ns_info[g][n].state # "ACTIVE" \/ ~ns_info[g][n].channel
    BY ZenonT(60) DEF JInv, AbsentInv
  <1> HIDE DEF up, on, NoNsInfo
  <1>6. /\ up[n] \in NsInfoType
        /\ \/ up[n].io_outstanding = ns_info[g][n].io_outstanding
           \/ up[n].io_outstanding = 0 /\ IoOutstanding(g, n) = {}
        /\ n \notin ns => up[n].state # "ACTIVE" \/ ~up[n].channel
        /\ n \notin ns /\ upto = MaxNsid => ~up[n].channel
    BY <1>1, <1>2, <1>3, <1>4, <1>5
  <1> QED
    BY <1>6, ZenonT(60) DEF up

(***************************************************************************)
(* What UpdateIo says of a group that is resumed.                          *)
(***************************************************************************)
LEMMA UpdatedIo ==
  ASSUME IInv, JInv, NEW g \in Groups, NEW n \in Nsids
  PROVE  /\ Updated(g)[n] \in NsInfoType
         /\ \/ Updated(g)[n].io_outstanding = ns_info[g][n].io_outstanding
            \/ Updated(g)[n].io_outstanding = 0 /\ IoOutstanding(g, n) = {}
         /\ n \notin ns => ~Updated(g)[n].channel
  <1>1. MaxNsid \in Int
    BY ChangesAssumption
  <1> QED
    BY <1>1, UpdateIo, ZenonT(60) DEF Updated

(***************************************************************************)
(* Opening a namespace changes neither its count nor its channel.          *)
(***************************************************************************)
LEMMA NsStateOnly ==
  ASSUME NEW i \in NsInfoType, NEW s
  PROVE  /\ [i EXCEPT !.state = s].io_outstanding = i.io_outstanding
         /\ [i EXCEPT !.state = s].channel = i.channel
         /\ [i EXCEPT !.state = s].state = s
  BY ZenonT(60) DEF NsInfoType

(***************************************************************************)
(* A group cannot get a channel while it is resumed.                       *)
(***************************************************************************)
LEMMA ResumeFailsJInv ==
  ASSUME IInv, JInv, NEW g \in Groups, NEW m \in Nsids, ResumeGroupFails(g, m)
  PROVE  JInv'
  <1> DEFINE up == poll_group_update_subsystem(ns_info[g], m - 1)
  <1>1. /\ ns_info' = [ns_info EXCEPT ![g] = up] /\ UNCHANGED <<state, ns, sgroup, qpair, req>>
        /\ state = "RESUMING" /\ ns_info \in [Groups -> [Nsids -> NsInfoType]]
    BY ZenonT(60) DEF ResumeGroupFails, IInv, TypeOK
  <1>2. m - 1 \in Int
    BY DEF Nsids
  <1>3. ASSUME NEW n \in Nsids
        PROVE  /\ \/ up[n].io_outstanding = ns_info[g][n].io_outstanding
                  \/ up[n].io_outstanding = 0 /\ IoOutstanding(g, n) = {}
               /\ n \notin ns => up[n].state # "ACTIVE" \/ ~up[n].channel
    BY <1>2, UpdateIo, ZenonT(60)
  <1> HIDE DEF up
  <1>4. ns_info'[g] = up /\ \A h \in Groups \ {g} : ns_info'[h] = ns_info[h]
    BY <1>1, ZenonT(60)
  <1>5. \A h, n : IoOutstanding(h, n)' = IoOutstanding(h, n)
    BY <1>1, ZenonT(60) DEF IoOutstanding, OnGroup
  <1>6. AbsentInv' /\ IoCounted'
    BY <1>1, <1>3, <1>4, <1>5, NsUpdated, ZenonT(60)
  <1>7. PauseInv' /\ IoInv'
    BY <1>1, ZenonT(60) DEF JInv, PauseInv, IoInv
  <1> QED
    BY <1>6, <1>7, ZenonT(60) DEF JInv

(***************************************************************************)
(* A group takes the subsystem up again.                                   *)
(***************************************************************************)
LEMMA AddJInv ==
  ASSUME IInv, JInv, NEW g \in Groups, nvmf_poll_group_add_subsystem(g)
  PROVE  JInv'
  <1> DEFINE up == poll_group_update_subsystem(ns_info[g], MaxNsid)
             nsi == [n \in Nsids |-> [up[n] EXCEPT !.state = "ACTIVE"]]
  <1> USE TopologyAssumption, ChangesAssumption
  <1>1. /\ state = "ACTIVATING" /\ UNCHANGED <<state, ns, qpair>>
        /\ req' = [r \in Requests |-> IF r \in Queued(g) THEN FreeReq ELSE req[r]]
        /\ sgroup' = [sgroup EXCEPT ![g].state = "ACTIVE", ![g].num_ns = MaxNsid]
        /\ ns_info' = [ns_info EXCEPT ![g] = nsi]
        /\ sgroup \in [Groups -> SgroupType] /\ ns_info \in [Groups -> [Nsids -> NsInfoType]]
    BY ZenonT(60) DEF nvmf_poll_group_add_subsystem, IInv, TypeOK
  <1>2. ASSUME NEW n \in Nsids
        PROVE  /\ \/ nsi[n].io_outstanding = ns_info[g][n].io_outstanding
                  \/ nsi[n].io_outstanding = 0 /\ IoOutstanding(g, n) = {}
               /\ n \notin ns => ~nsi[n].channel
    <2>1. /\ up[n] \in NsInfoType
          /\ \/ up[n].io_outstanding = ns_info[g][n].io_outstanding
             \/ up[n].io_outstanding = 0 /\ IoOutstanding(g, n) = {}
          /\ n \notin ns => ~up[n].channel
      BY UpdateIo
    <2> HIDE DEF up
    <2>2. nsi[n].io_outstanding = up[n].io_outstanding /\ nsi[n].channel = up[n].channel
      BY <2>1, NsStateOnly, ZenonT(60)
    <2> QED
      BY <2>1, <2>2, ZenonT(60)
  <1> HIDE DEF nsi
  <1>3. ns_info'[g] = nsi /\ \A h \in Groups \ {g} : ns_info'[h] = ns_info[h]
    BY <1>1, ZenonT(60)
  <1>4. FreeReq.st = "free" /\ FreeReq.cls = "mgmt"
    BY ZenonT(60) DEF FreeReq
  <1>5. \A r \in Requests : /\ req'[r] = req[r] \/ req'[r] = FreeReq
                            /\ req[r].st = "outstanding" => req'[r] = req[r]
    BY <1>1, ZenonT(60) DEF Queued
  <1>6. \A h, n : IoOutstanding(h, n)' = IoOutstanding(h, n)
    BY <1>4, <1>5, ZenonT(60) DEF IoOutstanding, OnGroup
  <1>7. AbsentInv' /\ IoCounted'
    BY <1>1, <1>2, <1>3, <1>6, NsUpdated, ZenonT(60)
  <1>8. /\ sgroup'[g].num_ns = MaxNsid /\ sgroup[g].num_ns \in {0, MaxNsid}
        /\ \A h \in Groups \ {g} : sgroup'[h] = sgroup[h]
    BY <1>1, ZenonT(60) DEF SgroupType
  <1>9. IoInv'
    <2> SUFFICES ASSUME NEW r \in Requests
                 PROVE  /\ req'[r].cls # "verify"
                        /\ req'[r].cls = "io" /\ req'[r].st # "free" => qpair[QpairOf[r]].ctrlr
                        /\ req'[r].cls = "io" /\ req'[r].st = "outstanding" =>
                             req'[r].nsid \in 1 .. sgroup'[GroupOf[QpairOf[r]]].num_ns
      BY <1>1, ZenonT(60) DEF JInv, IoInv
    <2>1. /\ req[r].cls # "verify"
          /\ req[r].cls = "io" /\ req[r].st # "free" => qpair[QpairOf[r]].ctrlr
          /\ req[r].cls = "io" /\ req[r].st = "outstanding" =>
               req[r].nsid \in 1 .. sgroup[GroupOf[QpairOf[r]]].num_ns
      BY ZenonT(60) DEF JInv, IoInv
    <2>2. GroupOf[QpairOf[r]] \in Groups
      BY ZenonT(60)
    <2> QED
      BY <1>4, <1>5, <1>8, <2>1, <2>2
  <1>10. PauseInv'
    BY <1>1, ZenonT(60) DEF PauseInv
  <1> QED
    BY <1>7, <1>9, <1>10, ZenonT(60) DEF JInv

(***************************************************************************)
(* A group is stopped: it lets go of its namespaces when no queue pair     *)
(* with a controller, hence no I/O, is left.                               *)
(***************************************************************************)
LEMMA RemoveJInv ==
  ASSUME IInv, JInv, NEW g \in Groups, nvmf_poll_group_remove_subsystem(g)
  PROVE  JInv'
  <1> DEFINE found == {q \in Qpairs :
                         GroupOf[q] = g /\ qpair[q].ctrlr /\ qpair[q].state # "GONE"}
             D == {q \in found : Active(q)}
             off == [n \in Nsids |-> IF found = {} THEN NoNsInfo
                                     ELSE [ns_info[g][n] EXCEPT !.state = "INACTIVE"]]
             num == IF found = {} THEN 0 ELSE sgroup[g].num_ns
  <1> USE TopologyAssumption, ChangesAssumption
  <1>1. /\ Visiting(g, "INACTIVE") \/ (iter.phase = "remove" /\ iter.at = g)
        /\ sgroup' = [sgroup EXCEPT ![g].state = "INACTIVE", ![g].num_ns = num]
        /\ ns_info' = [ns_info EXCEPT ![g] = off]
        /\ DisconnectAll(D) /\ UNCHANGED <<state, ns>>
        /\ sgroup \in [Groups -> SgroupType] /\ ns_info \in [Groups -> [Nsids -> NsInfoType]]
    BY ZenonT(60) DEF nvmf_poll_group_remove_subsystem, IInv, TypeOK
  <1>2. state # "PAUSING"
    BY <1>1, ZenonT(60) DEF Visiting, IInv, MachineInv, IterMatches
  <1>3. /\ \A h, n : IoOutstanding(h, n)' = IoOutstanding(h, n)
        /\ \A q \in Qpairs : /\ qpair'[q].ctrlr = qpair[q].ctrlr
                             /\ qpair'[q].state = "ENABLED" => qpair[q].state = "ENABLED"
        /\ \A r \in Requests : req'[r] = req[r] \/ req'[r] = FreeReq
    BY <1>1, DisconnectIo, ZenonT(60)
  <1>4. FreeReq.st = "free" /\ FreeReq.cls = "mgmt"
    BY ZenonT(60) DEF FreeReq
  <1>5. found = {} => \A r \in Requests :
          GroupOf[QpairOf[r]] = g => ~(req[r].cls = "io" /\ req[r].st = "outstanding")
    BY ZenonT(60) DEF IInv, RequestInv, JInv, IoInv
  <1>6. found = {} => \A n : IoOutstanding(g, n) = {}
    BY <1>5, ZenonT(60) DEF IoOutstanding, OnGroup, IoClasses, JInv, IoInv
  <1> HIDE DEF found, D, FreeReq
  <1>7. ASSUME NEW n \in Nsids
        PROVE  /\ off[n].state # "ACTIVE"
               /\ \/ off[n].io_outstanding = ns_info[g][n].io_outstanding
                  \/ off[n].io_outstanding = 0 /\ IoOutstanding(g, n) = {}
    <2>1. CASE found = {}
      BY <1>6, <2>1, ZenonT(60) DEF NoNsInfo
    <2>2. CASE found # {}
      <3>1. off[n] = [ns_info[g][n] EXCEPT !.state = "INACTIVE"] /\ ns_info[g][n] \in NsInfoType
        BY <1>1, <2>2
      <3> DEFINE i == ns_info[g][n]
      <3>2. /\ [i EXCEPT !.state = "INACTIVE"].io_outstanding = i.io_outstanding
            /\ [i EXCEPT !.state = "INACTIVE"].state = "INACTIVE"
        BY <3>1, NsStateOnly, ZenonT(60)
      <3> HIDE DEF off
      <3> QED
        BY <3>1, <3>2, ZenonT(60)
    <2> QED
      BY <2>1, <2>2, ZenonT(60)
  <1> HIDE DEF off, num
  <1>8. ns_info'[g] = off /\ \A h \in Groups \ {g} : ns_info'[h] = ns_info[h]
    BY <1>1, ZenonT(60)
  <1>9. AbsentInv' /\ IoCounted'
    BY <1>1, <1>3, <1>7, <1>8, NsUpdated, ZenonT(60)
  <1>10. sgroup'[g].num_ns = num /\ \A h \in Groups \ {g} : sgroup'[h] = sgroup[h]
    <2> DEFINE sg == [sgroup[g] EXCEPT !.state = "INACTIVE", !.num_ns = num]
    <2>1. sgroup[g] \in SgroupType
      BY <1>1, ZenonT(60)
    <2>2. sg.num_ns = num
      BY <2>1, ZenonT(60) DEF SgroupType
    <2>3. sgroup' = [sgroup EXCEPT ![g] = sg]
      BY <1>1, <2>1, ZenonT(60)
    <2> HIDE DEF sg
    <2> QED
      BY <1>1, <2>2, <2>3, ZenonT(60)
  <1>11. IoInv'
    <2> SUFFICES ASSUME NEW r \in Requests
                 PROVE  /\ req'[r].cls # "verify"
                        /\ req'[r].cls = "io" /\ req'[r].st # "free" => qpair'[QpairOf[r]].ctrlr
                        /\ req'[r].cls = "io" /\ req'[r].st = "outstanding" =>
                             req'[r].nsid \in 1 .. sgroup'[GroupOf[QpairOf[r]]].num_ns
      BY <1>3, ZenonT(60) DEF JInv, IoInv
    <2>1. /\ req[r].cls # "verify"
          /\ req[r].cls = "io" /\ req[r].st # "free" => qpair[QpairOf[r]].ctrlr
          /\ req[r].cls = "io" /\ req[r].st = "outstanding" =>
               req[r].nsid \in 1 .. sgroup[GroupOf[QpairOf[r]]].num_ns
      BY ZenonT(60) DEF JInv, IoInv
    <2>2. GroupOf[QpairOf[r]] \in Groups /\ QpairOf[r] \in Qpairs
      BY ZenonT(60)
    <2>3. CASE GroupOf[QpairOf[r]] # g
      BY <1>3, <1>4, <1>10, <2>1, <2>2, <2>3, ZenonT(60)
    <2>4. CASE GroupOf[QpairOf[r]] = g
      BY <1>3, <1>4, <1>5, <1>10, <2>1, <2>2, <2>4, ZenonT(60) DEF num
    <2> QED
      BY <2>3, <2>4, ZenonT(60)
  <1>12. PauseInv'
    BY <1>1, <1>2, ZenonT(60) DEF PauseInv
  <1> QED
    BY <1>9, <1>11, <1>12, ZenonT(60) DEF JInv

(***************************************************************************)
(* The requests a resumed group executes: I/O starts only on a namespace   *)
(* that has a channel, hence only on one that is there.                    *)
(***************************************************************************)
LEMMA ResumedIo ==
  ASSUME IInv, JInv, NEW g \in Groups, nvmf_poll_group_resume_subsystem(g),
         sgroup[g].state # "ACTIVE"
  PROVE  /\ \A r \in Requests \ Queued(g) : req'[r] = req[r]
         /\ \A r \in Queued(g) :
              /\ r \in Requests /\ GroupOf[QpairOf[r]] = g /\ req[r].st = "queued"
              /\ \/ req'[r] = FreeReq
                 \/ /\ req'[r].cls = req[r].cls /\ req'[r].nsid = req[r].nsid
                    /\ req'[r].st = "outstanding" <=> OutcomeOf(g, r) = "outstanding"
                    /\ req'[r].st # "free"
              /\ OutcomeOf(g, r) = "outstanding" => req'[r] # FreeReq
              /\ OutcomeOf(g, r) = "outstanding" /\ req[r].cls = "io" =>
                   req[r].nsid \in 1 .. MaxNsid /\ req[r].nsid \in ns
  <1> USE TopologyAssumption, ChangesAssumption
  <1>1. /\ sgroup[g].state = "PAUSED" /\ sgroup[g].num_ns = MaxNsid
        /\ sgroup[g] \in SgroupType /\ req \in [Requests -> ReqType]
    BY ZenonT(60) DEF nvmf_poll_group_resume_subsystem, IInv, TypeOK, MachineInv, GroupMatches, NsInv
  <1>2. req' = [r \in Requests |->
                  IF r \notin Queued(g) THEN req[r]
                  ELSE IF OutcomeOf(g, r) = "refused" THEN FreeReq
                  ELSE [req[r] EXCEPT !.st = OutcomeOf(g, r)]]
    BY ResumeStep, ZenonT(60)
  <1>3. ResumedGroup(g).num_ns = MaxNsid
    BY <1>1, ZenonT(60) DEF ResumedGroup, SgroupType
  <1>4. ASSUME NEW n \in Nsids, n \notin ns PROVE ~ResumedNs(g)[n].channel
    <2>1. Updated(g)[n] \in NsInfoType /\ ~Updated(g)[n].channel
      BY <1>4, UpdatedIo, ZenonT(60)
    <2> DEFINE u == Updated(g)[n]
    <2>2. ResumedNs(g)[n] = [u EXCEPT !.state = "ACTIVE"]
      BY ZenonT(60) DEF ResumedNs
    <2> HIDE DEF u
    <2>3. [u EXCEPT !.state = "ACTIVE"].channel = u.channel
      BY <2>1, NsStateOnly, ZenonT(60) DEF u
    <2> QED
      BY <2>1, <2>2, <2>3, ZenonT(60) DEF u
  <1>5. ASSUME NEW r \in Queued(g)
        PROVE  r \in Requests /\ GroupOf[QpairOf[r]] = g /\ req[r].st = "queued"
    BY ZenonT(60) DEF Queued, OnGroup
  <1>6. ASSUME NEW r \in Queued(g)
        PROVE  OutcomeOf(g, r) \in {"refused", "outstanding", "queued"}
    BY ZenonT(60) DEF OutcomeOf, Exec, ExecMgmt, ExecIo
  <1>7. ASSUME NEW r \in Queued(g), OutcomeOf(g, r) = "outstanding", req[r].cls = "io"
        PROVE  req[r].nsid \in 1 .. MaxNsid /\ req[r].nsid \in ns
    <2>1. ExecIo(QpairOf[r], req[r], ResumedGroup(g), ResumedNs(g)) = "outstanding"
      BY <1>7, ZenonT(60) DEF OutcomeOf, Exec, MgmtClasses
    <2>2. /\ req[r].nsid \in 1 .. ResumedGroup(g).num_ns
          /\ ResumedNs(g)[req[r].nsid].channel
      BY <2>1, ZenonT(60) DEF ExecIo
    <2> QED
      BY <1>3, <1>4, <2>2, ZenonT(60) DEF Nsids
  <1>8. ASSUME NEW k \in ReqType, NEW s
        PROVE  /\ [k EXCEPT !.st = s].st = s /\ [k EXCEPT !.st = s].cls = k.cls
               /\ [k EXCEPT !.st = s].nsid = k.nsid
    BY ZenonT(60) DEF ReqType
  <1>9. FreeReq.st = "free"
    BY ZenonT(60) DEF FreeReq
  <1>10. ASSUME NEW r \in Queued(g)
         PROVE  /\ \/ req'[r] = FreeReq
                   \/ /\ req'[r].cls = req[r].cls /\ req'[r].nsid = req[r].nsid
                      /\ req'[r].st = "outstanding" <=> OutcomeOf(g, r) = "outstanding"
                      /\ req'[r].st # "free"
                /\ OutcomeOf(g, r) = "outstanding" => req'[r] # FreeReq
    <2>1. CASE OutcomeOf(g, r) = "refused"
      BY <1>2, <1>5, <2>1, ZenonT(60)
    <2>2. CASE OutcomeOf(g, r) # "refused"
      <3> DEFINE o == OutcomeOf(g, r)
      <3>1. req[r] \in ReqType /\ o \in {"outstanding", "queued"}
        BY <1>1, <1>5, <1>6, <2>2, ZenonT(60)
      <3>2. req'[r] = [req[r] EXCEPT !.st = o]
        BY <1>2, <1>5, <2>2, ZenonT(60)
      <3> HIDE DEF o
      <3>3. req'[r].st = o /\ req'[r].cls = req[r].cls /\ req'[r].nsid = req[r].nsid
        BY <1>8, <3>1, <3>2
      <3> HIDE DEF FreeReq
      <3> QED
        BY <1>9, <3>1, <3>3, ZenonT(60) DEF o
    <2> QED
      BY <2>1, <2>2, ZenonT(60)
  <1>11. \A r \in Requests \ Queued(g) : req'[r] = req[r]
    BY <1>2, ZenonT(60)
  <1> QED
    BY <1>5, <1>7, <1>10, <1>11, ZenonT(60)

(***************************************************************************)
(* A group is resumed: the I/O that starts on a namespace is counted with  *)
(* what already ran there.                                                 *)
(***************************************************************************)
LEMMA ResumeJInv ==
  ASSUME IInv, JInv, NEW g \in Groups, nvmf_poll_group_resume_subsystem(g)
  PROVE  JInv'
  <1> USE TopologyAssumption, ChangesAssumption
  <1>1. /\ state = "RESUMING" /\ UNCHANGED <<state, ns, qpair>>
        /\ sgroup \in [Groups -> SgroupType] /\ ns_info \in [Groups -> [Nsids -> NsInfoType]]
    BY ZenonT(60) DEF nvmf_poll_group_resume_subsystem, IInv, TypeOK
  <1>2. PauseInv'
    BY <1>1, ZenonT(60) DEF PauseInv
  <1>3. CASE sgroup[g].state = "ACTIVE"
    <2>1. UNCHANGED <<sgroup, ns_info, req>>
      BY <1>3, ZenonT(60) DEF nvmf_poll_group_resume_subsystem
    <2> QED
      BY <1>1, <1>2, <2>1, DriverIo, ZenonT(60) DEF JInv
  <1>4. CASE sgroup[g].state # "ACTIVE"
    <2> DEFINE io(n) == StartedIo(g, n)
               old(n) == IoOutstanding(g, n)
    <2>1. /\ \A r \in Requests \ Queued(g) : req'[r] = req[r]
          /\ \A r \in Queued(g) :
               /\ r \in Requests /\ GroupOf[QpairOf[r]] = g /\ req[r].st = "queued"
               /\ \/ req'[r] = FreeReq
                  \/ /\ req'[r].cls = req[r].cls /\ req'[r].nsid = req[r].nsid
                     /\ req'[r].st = "outstanding" <=> OutcomeOf(g, r) = "outstanding"
                     /\ req'[r].st # "free"
               /\ OutcomeOf(g, r) = "outstanding" => req'[r] # FreeReq
               /\ OutcomeOf(g, r) = "outstanding" /\ req[r].cls = "io" =>
                    req[r].nsid \in 1 .. MaxNsid /\ req[r].nsid \in ns
      BY <1>4, ResumedIo, ZenonT(60)
    <2>2. FreeReq.st = "free" /\ FreeReq.cls = "mgmt"
      BY ZenonT(60) DEF FreeReq
    <2> HIDE DEF FreeReq
    <2>3. \A n : io(n) = {r \in Queued(g) : /\ req[r].nsid = n /\ req[r].cls = "io"
                                           /\ OutcomeOf(g, r) = "outstanding"}
      BY <2>1, ZenonT(60) DEF StartedIo, CountsIo, IoClasses, JInv, IoInv
    <2>4. \A n \in Nsids \ ns : io(n) = {}
      <3> SUFFICES ASSUME NEW n \in Nsids \ ns, NEW r \in io(n) PROVE FALSE
        BY ZenonT(60)
      <3>1. /\ r \in Queued(g) /\ req[r].nsid = n /\ req[r].cls = "io"
            /\ OutcomeOf(g, r) = "outstanding"
        BY <2>3, ZenonT(60)
      <3> QED
        BY <2>1, <3>1, ZenonT(60)
    <2>5. \A h \in Groups \ {g} : \A n : IoOutstanding(h, n)' = IoOutstanding(h, n)
      BY <2>1 DEF IoOutstanding, OnGroup
    <2>6. \A n : old(n) \cap io(n) = {} /\ IoOutstanding(g, n)' = old(n) \cup io(n)
      <3> TAKE n
      <3>1. ASSUME NEW r \in Queued(g)
            PROVE  r \notin old(n) /\ (r \in IoOutstanding(g, n)' <=> r \in io(n))
        BY <2>1, <2>2, <2>3 DEF IoOutstanding, OnGroup, IoClasses, JInv, IoInv
      <3>2. ASSUME NEW r \in Requests \ Queued(g)
            PROVE  r \notin io(n) /\ (r \in IoOutstanding(g, n)' <=> r \in old(n))
        BY <2>1, ZenonT(60) DEF IoOutstanding, OnGroup, StartedIo
      <3>3. old(n) \subseteq Requests /\ IoOutstanding(g, n)' \subseteq Requests
            /\ io(n) \subseteq Queued(g) /\ Queued(g) \subseteq Requests
        BY <2>1, ZenonT(60) DEF IoOutstanding, OnGroup, StartedIo
      <3> HIDE DEF io, old
      <3> QED
        BY <3>1, <3>2, <3>3, ZenonT(60)
    <2>7. ASSUME NEW n \in Nsids
          PROVE  /\ Cardinality(old(n)) \in Nat /\ Cardinality(io(n)) \in Nat
                 /\ Cardinality(IoOutstanding(g, n)') =
                      Cardinality(old(n)) + Cardinality(io(n))
      <3>1. IsFiniteSet(old(n)) /\ IsFiniteSet(io(n))
        <4>1. io(n) \subseteq Requests
          BY <2>1, ZenonT(60) DEF StartedIo
        <4> QED
          BY <4>1, FS_Subset, IoFinite, ZenonT(60)
      <3>2. old(n) \cap io(n) = {} /\ IoOutstanding(g, n)' = old(n) \cup io(n)
        BY <2>6, ZenonT(60)
      <3> HIDE DEF io, old
      <3>3. Cardinality(old(n)) \in Nat /\ Cardinality(io(n)) \in Nat
        BY <3>1, FS_CardinalityType, ZenonT(60)
      <3>4. Cardinality(old(n) \cup io(n)) =
              Cardinality(old(n)) + Cardinality(io(n)) - Cardinality(old(n) \cap io(n))
        BY <3>1, FS_Union, ZenonT(60)
      <3>5. Cardinality(old(n) \cap io(n)) = 0
        BY <3>2, FS_EmptySet, ZenonT(60)
      <3>6. Cardinality(IoOutstanding(g, n)') = Cardinality(old(n) \cup io(n))
        BY <3>2, ZenonT(60)
      <3> QED
        BY <3>3, <3>4, <3>5, <3>6
    <2> DEFINE nsi == [n \in Nsids |-> [ResumedNs(g)[n] EXCEPT !.io_outstanding =
                                          @ + Cardinality(StartedIo(g, n))]]
    <2>8. ns_info' = [ns_info EXCEPT ![g] = nsi]
      BY <1>4, ResumeStep, ZenonT(60)
    <2>9. ASSUME NEW n \in Nsids
          PROVE  /\ nsi[n].io_outstanding = Cardinality(IoOutstanding(g, n)')
                 /\ n \notin ns => ~nsi[n].channel
      <3>1. /\ Updated(g)[n] \in NsInfoType
            /\ \/ Updated(g)[n].io_outstanding = ns_info[g][n].io_outstanding
               \/ Updated(g)[n].io_outstanding = 0 /\ old(n) = {}
            /\ n \notin ns => ~Updated(g)[n].channel
        BY UpdatedIo, ZenonT(60)
      <3>2. ResumedNs(g)[n] = [Updated(g)[n] EXCEPT !.state = "ACTIVE"]
        BY ZenonT(60) DEF ResumedNs
      <3>3. ResumedNs(g)[n] \in NsInfoType
        BY <3>1, <3>2, NsStateSet, ZenonT(60)
      <3>4. /\ ResumedNs(g)[n].io_outstanding = Updated(g)[n].io_outstanding
            /\ ResumedNs(g)[n].channel = Updated(g)[n].channel
        <4> DEFINE u == Updated(g)[n]
        <4>1. u \in NsInfoType
          BY <3>1, ZenonT(60)
        <4> HIDE DEF u
        <4>2. /\ [u EXCEPT !.state = "ACTIVE"].io_outstanding = u.io_outstanding
              /\ [u EXCEPT !.state = "ACTIVE"].channel = u.channel
          BY <4>1, NsStateOnly, ZenonT(60)
        <4> QED
          BY <3>2, <4>2, ZenonT(60) DEF u
      <3>5. ns_info[g][n].io_outstanding = Cardinality(old(n))
        BY ZenonT(60) DEF JInv, IoCounted
      <3>6. Updated(g)[n].io_outstanding = Cardinality(old(n))
        BY <3>1, <3>5, FS_EmptySet, ZenonT(60)
      <3>7. nsi[n] = [ResumedNs(g)[n] EXCEPT !.io_outstanding = @ + Cardinality(io(n))]
        BY ZenonT(60)
      <3> HIDE DEF nsi, io, old
      <3>8. /\ nsi[n].io_outstanding = ResumedNs(g)[n].io_outstanding + Cardinality(io(n))
            /\ nsi[n].channel = ResumedNs(g)[n].channel
        BY <3>3, <3>7, ZenonT(60) DEF NsInfoType
      <3> QED
        BY <2>7, <3>1, <3>4, <3>6, <3>8, ZenonT(60)
    <2> HIDE DEF nsi, io, old
    <2>10. ns_info'[g] = nsi /\ \A h \in Groups \ {g} : ns_info'[h] = ns_info[h]
      BY <1>1, <2>8, ZenonT(60)
    <2>11. IoCounted'
      BY <2>5, <2>9, <2>10 DEF JInv, IoCounted
    <2>12. AbsentInv'
      <3> SUFFICES ASSUME NEW h \in Groups, NEW n \in Nsids \ ns
                   PROVE  /\ IoOutstanding(h, n)' = {}
                          /\ ns_info'[h][n].state # "ACTIVE" \/ ~ns_info'[h][n].channel
        BY <1>1, ZenonT(60) DEF AbsentInv
      <3>1. /\ IoOutstanding(h, n) = {}
            /\ ns_info[h][n].state # "ACTIVE" \/ ~ns_info[h][n].channel
        BY ZenonT(60) DEF JInv, AbsentInv
      <3>2. CASE h = g
        BY <2>4, <2>6, <2>9, <2>10, <3>1, <3>2, ZenonT(60) DEF old
      <3>3. CASE h # g
        BY <2>5, <2>10, <3>1, <3>3, ZenonT(60)
      <3> QED
        BY <3>2, <3>3, ZenonT(60)
    <2>13. /\ sgroup'[g].num_ns = MaxNsid
           /\ \A h \in Groups \ {g} : sgroup'[h] = sgroup[h]
      <3> DEFINE c == Cardinality(Started(g))
                 sg == [ResumedGroup(g) EXCEPT !.mgmt_io_outstanding = @ + c]
      <3>1. sgroup[g].num_ns = MaxNsid /\ sgroup[g] \in SgroupType
        BY <1>1, <1>4, ZenonT(60)
           DEF nvmf_poll_group_resume_subsystem, IInv, MachineInv, GroupMatches, NsInv
      <3>2. ResumedGroup(g) \in SgroupType /\ ResumedGroup(g).num_ns = MaxNsid
        BY <3>1, ZenonT(60) DEF ResumedGroup, SgroupType
      <3>3. sg.num_ns = MaxNsid
        BY <3>2, ZenonT(60) DEF SgroupType
      <3>4. sgroup' = [sgroup EXCEPT ![g] = sg]
        BY <1>4, ResumeStep, ZenonT(60)
      <3> HIDE DEF sg
      <3> QED
        BY <1>1, <3>3, <3>4, ZenonT(60)
    <2>14. IoInv'
      <3> SUFFICES ASSUME NEW r \in Requests
                   PROVE  /\ req'[r].cls # "verify"
                          /\ req'[r].cls = "io" /\ req'[r].st # "free" => qpair[QpairOf[r]].ctrlr
                          /\ req'[r].cls = "io" /\ req'[r].st = "outstanding" =>
                               req'[r].nsid \in 1 .. sgroup'[GroupOf[QpairOf[r]]].num_ns
        BY <1>1, ZenonT(60) DEF JInv, IoInv
      <3>1. /\ req[r].cls # "verify"
            /\ req[r].cls = "io" /\ req[r].st # "free" => qpair[QpairOf[r]].ctrlr
            /\ req[r].cls = "io" /\ req[r].st = "outstanding" =>
                 req[r].nsid \in 1 .. sgroup[GroupOf[QpairOf[r]]].num_ns
        BY ZenonT(60) DEF JInv, IoInv
      <3>2. GroupOf[QpairOf[r]] \in Groups /\ sgroup[g].num_ns \in {0, MaxNsid}
        BY <1>1, ZenonT(60) DEF SgroupType
      <3>3. CASE r \in Queued(g)
        BY <2>1, <2>2, <2>13, <3>1, <3>3, ZenonT(60)
      <3>4. CASE r \notin Queued(g)
        BY <2>1, <2>13, <3>1, <3>2, <3>4
      <3> QED
        BY <3>3, <3>4, ZenonT(60)
    <2> QED
      BY <1>2, <2>11, <2>12, <2>14, ZenonT(60) DEF JInv
  <1> QED
    BY <1>3, <1>4, ZenonT(60)

-----------------------------------------------------------------------------
(***************************************************************************)
(* Every step keeps the I/O invariant.                                     *)
(***************************************************************************)
LEMMA NextJInv ==
  ASSUME NoVerify, IInv, ChangeInv, JInv, [Next]_vars
  PROVE  JInv'
  <1>1. ASSUME NEW g \in Groups, GroupStep(g) PROVE JInv'
    BY <1>1, PauseJInv, ResumeJInv, AddJInv, RemoveJInv, ResumeFailsJInv, ZenonT(60) DEF GroupStep
  <1>2. ASSUME UNCHANGED vars PROVE JInv'
    <2>1. UNCHANGED <<state, ns, iter, sgroup, ns_info, qpair, req>>
      BY <1>2, ZenonT(60) DEF vars
    <2>2. PauseInv'
      BY <2>1, ZenonT(60) DEF JInv, PauseInv
    <2> QED
      BY <2>1, <2>2, DriverIo, ZenonT(60) DEF JInv
  <1> QED
    BY <1>1, <1>2, ExecJInv, CompleteJInv, QpairJInv, DriverJInv, ZenonT(60) DEF Next

(***************************************************************************)
(* Under the documented use, and with no Verify command, the invariant     *)
(* that ties io_outstanding to the I/O in progress always holds.           *)
(***************************************************************************)
THEOREM IoInvariance ==
  ASSUME DocumentedUse, NoVerify
  PROVE  Spec => []JInv
  <1>1. IInv /\ ChangeInv /\ JInv /\ [Next]_vars => JInv'
    BY NextJInv, ZenonT(60)
  <1> QED
    BY <1>1, InitJInv, Invariance, ChangeInvariance, PTL DEF Spec

(***************************************************************************)
(* Under the documented use, and with no Verify command, io_outstanding is *)
(* the number of I/O commands in progress on the namespace and group, for  *)
(* any number of groups, queue pairs, namespaces and requests.             *)
(***************************************************************************)
THEOREM IoCountedHolds ==
  ASSUME DocumentedUse, NoVerify
  PROVE  Spec => []IoCounted
  <1>1. JInv => IoCounted
    BY ZenonT(60) DEF JInv
  <1> QED
    BY <1>1, IoInvariance, PTL

(***************************************************************************)
(* Under the documented use, and with no Verify command, a namespace is    *)
(* taken away only when no group runs I/O on it, or could start any.       *)
(***************************************************************************)
THEOREM RemovedWhenPausedHolds ==
  ASSUME DocumentedUse, NoVerify
  PROVE  Spec => RemovedWhenPaused
  <1> DEFINE Removal == \A n \in ns \ ns' : \A g \in Groups :
                          IoOutstanding(g, n) = {} /\ ns_info[g][n].state # "ACTIVE"
  <1>1. IInv /\ ChangeInv /\ JInv /\ [Next]_vars => [Removal]_vars
    <2> SUFFICES ASSUME IInv, ChangeInv, JInv, [Next]_vars, ~UNCHANGED vars PROVE Removal
      BY ZenonT(60)
    <2>1. ASSUME subsystem_state_change_done PROVE Removal
      BY <2>1, RemovedPaused, ZenonT(60)
    <2>2. ASSUME ~subsystem_state_change_done PROVE UNCHANGED ns
      <3>1. ASSUME NEW r \in Requests, RequestStep(r) PROVE UNCHANGED ns
        BY <3>1, RequestChangeFrame, ZenonT(60) DEF ChangeFrame
      <3>2. ASSUME NEW q \in Qpairs, QpairStep(q) PROVE UNCHANGED ns
        BY <3>2, ZenonT(60) DEF QpairStep, spdk_nvmf_qpair_disconnect, NewQpair
      <3>3. ASSUME NEW g \in Groups, GroupStep(g) PROVE UNCHANGED ns
        BY <3>3, GroupChangeFrame, ZenonT(60) DEF ChangeFrame
      <3>4. ASSUME NEW c \in Changes, nvmf_subsystem_state_change(c) PROVE UNCHANGED ns
        BY <3>4, ZenonT(60) DEF nvmf_subsystem_state_change
      <3> QED
        BY <2>2, <3>1, <3>2, <3>3, <3>4, StartSuits, FailedSuits, ZenonT(60) DEF Next, RequestStep, QpairStep
    <2> QED
      BY <2>1, <2>2, ZenonT(60)
  <1> QED
    BY <1>1, Invariance, ChangeInvariance, IoInvariance, PTL DEF Spec, RemovedWhenPaused
=============================================================================

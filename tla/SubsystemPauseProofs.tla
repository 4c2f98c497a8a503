------------------------ MODULE SubsystemPauseProofs ------------------------
(***************************************************************************)
(* The inductive invariant of SubsystemPause, the facts about counters and *)
(* namespaces it rests on, its preservation by queue pairs that come and   *)
(* go, by state changes, by requests and by each message to a poll group;  *)
(* and what it implies: theorems for any number of poll groups, queue      *)
(* pairs, requests and namespaces, any set of state changes, documented or *)
(* not, and any failure of an I/O channel.                                 *)
(***************************************************************************)
EXTENDS SubsystemPause, FiniteSetTheorems, TLAPS

(* A leaf that names no prover is for SMT, which may take a minute and is tried twice. *)
USE SMTT(60), Z3T(60)

(***************************************************************************)
(* The states the groups may be in while the subsystem is in a given state *)
(* and the state change has reached a given point.                         *)
(***************************************************************************)
GroupMatches(g) ==
  /\ state \in {"ACTIVE", "PAUSED", "INACTIVE"} => sgroup[g].state = state
  /\ state = "PAUSING" =>
       IF g \in iter.todo THEN sgroup[g].state \in {"ACTIVE", "PAUSED"}
       ELSE IF iter.phase = "wait" /\ iter.at = g THEN sgroup[g].state = "PAUSING"
       ELSE sgroup[g].state = "PAUSED"
  /\ state = "RESUMING" =>
       /\ sgroup[g].state \in {"ACTIVE", "PAUSED"}
       /\ iter.phase = "visit" /\ g \notin iter.todo => sgroup[g].state = "ACTIVE"
  /\ state = "ACTIVATING" =>
       sgroup[g].state = IF g \in iter.todo THEN "INACTIVE" ELSE "ACTIVE"
  /\ state = "DEACTIVATING" =>
       IF g \in iter.todo THEN sgroup[g].state \in {"ACTIVE", "PAUSED"}
       ELSE sgroup[g].state = "INACTIVE"

(***************************************************************************)
(* What the change in progress asks for, and how far it may be.            *)
(***************************************************************************)
IterMatches ==
  /\ state \in {"ACTIVE", "PAUSED", "INACTIVE"} => iter.phase = "idle"
  /\ state = "PAUSING" => iter.phase \in {"visit", "wait"} /\ iter.requested = "PAUSED"
  /\ state = "RESUMING" =>
       /\ iter.phase \in {"visit", "failed"} /\ iter.requested = "ACTIVE"
       /\ iter.original = "PAUSED" /\ ~iter.revert
  /\ state = "ACTIVATING" => iter.phase = "visit" /\ iter.requested = "ACTIVE"
  /\ state = "DEACTIVATING" =>
       iter.phase \in {"visit", "remove"} /\ iter.requested = "INACTIVE"

MachineInv ==
  /\ IterMatches
  /\ \A g \in Groups : GroupMatches(g)
  /\ iter.phase # "idle" => state_changes # <<>>
  /\ iter.phase \in {"wait", "remove"} => iter.at \in Groups \ iter.todo
  /\ \A g \in Groups : sgroup[g].cb_fn <=> sgroup[g].state = "PAUSING"

NsInv ==
  \A g \in Groups :
    /\ sgroup[g].state # "INACTIVE" => sgroup[g].num_ns = MaxNsid
    /\ sgroup[g].state = "ACTIVE" => \A n \in Nsids : ns_info[g][n].state = "ACTIVE"

RequestInv ==
  \A r \in Requests :
    /\ req[r].cls = "aer" => QpairOf[r] \in AdminQpairs
    /\ req[r].cls \in IoClasses => QpairOf[r] \notin AdminQpairs
    /\ req[r].st # "free" => qpair[QpairOf[r]].state # "GONE"
    /\ req[r].st = "outstanding" /\ req[r].cls = "aer" =>
         qpair[QpairOf[r]].state # "DEACTIVATING"

QueueInv ==
  \A r \in Requests : req[r].st = "queued" =>
    LET g == GroupOf[QpairOf[r]]
    IN \/ sgroup[g].state # "ACTIVE"
       \/ state \in {"PAUSING", "DEACTIVATING"} /\ g \in iter.todo

QuietInv ==
  \A g \in Groups : sgroup[g].state = "PAUSED" => sgroup[g].mgmt_io_outstanding = 0

IInv ==
  /\ TypeOK /\ MachineInv /\ NsInv /\ RequestInv /\ QueueInv /\ QuietInv
  /\ DeactivatingIsBusy /\ MgmtCounted
-----------------------------------------------------------------------------
(***************************************************************************)
(* Type correctness: every action keeps every variable in its type.        *)
(***************************************************************************)
LEMMA InitTypeOK == Init => TypeOK
  <1> SUFFICES ASSUME Init PROVE TypeOK
    BY ZenonT(60)
  <1> USE ChangesAssumption
  <1>1. iter \in IterType
    BY DEF Init, NoIter, IterType, SubsystemStates
  <1>2. sgroup \in [Groups -> SgroupType]
    BY DEF Init, SgroupType
  <1>3. ns_info \in [Groups -> [Nsids -> NsInfoType]]
    BY DEF Init, NsInfoType
  <1>4. req \in [Requests -> ReqType]
    BY DEF Init, FreeReq, ReqType, MgmtClasses
  <1>5. state_changes \in Seq(Change)
    BY DEF Init
  <1>6. qpair \in [Qpairs -> QpairType]
    BY ZenonT(60) DEF Init, QpairType
  <1> QED
    BY <1>1, <1>2, <1>3, <1>4, <1>5, <1>6, ZenonT(60) DEF Init, TypeOK, SubsystemStates

(***************************************************************************)
(* Initially nothing is queued, counted or in progress.                    *)
(***************************************************************************)
LEMMA InitIInv == Init => IInv
  <1> SUFFICES ASSUME Init PROVE IInv
    BY ZenonT(60)
  <1> USE TopologyAssumption, ChangesAssumption
  <1>1. TypeOK
    BY InitTypeOK, ZenonT(60)
  <1>2. MachineInv
    BY ZenonT(60) DEF Init, NoIter, MachineInv, IterMatches, GroupMatches
  <1>3. NsInv /\ QuietInv
    BY ZenonT(60) DEF Init, NsInv, QuietInv
  <1>4. RequestInv /\ QueueInv
    BY ZenonT(60) DEF Init, FreeReq, RequestInv, QueueInv, IoClasses
  <1>5. DeactivatingIsBusy
    BY ZenonT(60) DEF Init, DeactivatingIsBusy
  <1>6. MgmtCounted
    <2> SUFFICES ASSUME NEW g \in Groups
                 PROVE  sgroup[g].mgmt_io_outstanding = Cardinality(MgmtOutstanding(g))
      BY ZenonT(60) DEF MgmtCounted
    <2>1. MgmtOutstanding(g) = {}
      BY ZenonT(60) DEF Init, FreeReq, MgmtOutstanding, OnGroup
    <2> QED
      BY <2>1, FS_EmptySet, ZenonT(60) DEF Init
  <1> QED
    BY <1>1, <1>2, <1>3, <1>4, <1>5, <1>6, ZenonT(60) DEF IInv

-----------------------------------------------------------------------------
(***************************************************************************)
(* The requests a counter counts form a finite set.                        *)
(***************************************************************************)
LEMMA MgmtFinite ==
  \A g : IsFiniteSet(MgmtOutstanding(g)) /\ IsFiniteSet(MgmtOutstanding(g)')
  <1> TAKE g
  <1>1. MgmtOutstanding(g) \subseteq Requests /\ MgmtOutstanding(g)' \subseteq Requests
    BY ZenonT(60) DEF MgmtOutstanding, OnGroup
  <1> QED
    BY <1>1, FS_Subset, TopologyAssumption, ZenonT(60)

(***************************************************************************)
(* What a request may do to its group when it is admitted or completed: sg *)
(* has another count, and the group may turn out to be drained.            *)
(***************************************************************************)
GroupCounts(g, sg, nsi) ==
  \/ CheckPaused(g, sg, nsi)
  \/ sgroup' = [sgroup EXCEPT ![g] = sg] /\ UNCHANGED iter

(***************************************************************************)
(* The group and the iteration stay consistent, and the group keeps        *)
(* everything but its count and, when drained, its state.                  *)
(***************************************************************************)
LEMMA GroupCountsFacts ==
  ASSUME TypeOK, MachineInv, QuietInv, NEW g \in Groups, NEW count \in Int, NEW nsi,
         GroupCounts(g, [sgroup[g] EXCEPT !.mgmt_io_outstanding = count], nsi),
         sgroup[g].state = "PAUSED" => count = 0,
         UNCHANGED <<state, state_changes>>
  PROVE  /\ iter' \in IterType /\ sgroup' \in [Groups -> SgroupType]
         /\ MachineInv' /\ QuietInv'
         /\ iter'.todo = iter.todo
         /\ \A h \in Groups \ {g} : sgroup'[h] = sgroup[h]
         /\ sgroup'[g].mgmt_io_outstanding = count
         /\ \A h \in Groups : sgroup'[h].num_ns = sgroup[h].num_ns
         /\ \A h \in Groups : \/ sgroup'[h].state = sgroup[h].state
                              \/ sgroup[h].state = "PAUSING" /\ sgroup'[h].state = "PAUSED"
  <1> DEFINE sg == [sgroup[g] EXCEPT !.mgmt_io_outstanding = count]
  <1>0. /\ sg \in SgroupType /\ sg.state = sgroup[g].state /\ sg.cb_fn = sgroup[g].cb_fn
        /\ sg.num_ns = sgroup[g].num_ns /\ sg.mgmt_io_outstanding = count
        /\ sgroup \in [Groups -> SgroupType] /\ iter \in IterType
    BY ZenonT(60) DEF TypeOK, SgroupType
  <1> HIDE DEF sg
  <1>1. CASE sgroup' = [sgroup EXCEPT ![g] = sg] /\ UNCHANGED iter
    <2>1. /\ sgroup' \in [Groups -> SgroupType] /\ sgroup'[g] = sg
          /\ \A h \in Groups \ {g} : sgroup'[h] = sgroup[h]
      BY <1>0, <1>1, ZenonT(60)
    <2>2. MachineInv'
      BY <1>0, <1>1, <2>1 DEF MachineInv, IterMatches, GroupMatches
    <2>3. QuietInv'
      BY <1>0, <1>1, <2>1, ZenonT(60) DEF QuietInv
    <2> QED
      BY <1>0, <1>1, <2>1, <2>2, <2>3, ZenonT(60)
  <1>2. CASE CheckPaused(g, sg, nsi) /\ Drained(sg, nsi)
    <2> DEFINE paused == [sg EXCEPT !.state = "PAUSED", !.cb_fn = FALSE]
    <2>0. /\ paused \in SgroupType /\ paused.state = "PAUSED" /\ paused.cb_fn = FALSE
          /\ paused.num_ns = sgroup[g].num_ns /\ paused.mgmt_io_outstanding = count
      BY <1>0, ZenonT(60) DEF SgroupType
    <2> HIDE DEF paused
    <2>1. sgroup' = [sgroup EXCEPT ![g] = paused] /\ Continue
      BY <1>2, ZenonT(60) DEF CheckPaused, paused
    <2>2. /\ sgroup' \in [Groups -> SgroupType] /\ sgroup'[g] = paused
          /\ \A h \in Groups \ {g} : sgroup'[h] = sgroup[h]
      BY <1>0, <2>0, <2>1, ZenonT(60)
    <2>3. sgroup[g].state = "PAUSING" /\ count = 0
      BY <1>0, <1>2, ZenonT(60) DEF Drained
    <2>4. state = "PAUSING" /\ iter.phase = "wait" /\ iter.at = g /\ g \notin iter.todo
      BY <2>3, ZenonT(60) DEF MachineInv, GroupMatches, TypeOK, SubsystemStates
    <2>5. /\ iter' \in IterType /\ iter'.phase = "visit" /\ iter'.todo = iter.todo
          /\ iter'.requested = iter.requested /\ iter'.original = iter.original
          /\ iter'.revert = iter.revert
      BY <1>0, <2>1, ZenonT(60) DEF Continue, IterType
    <2>6. MachineInv'
      <3>1. IterMatches'
        BY <2>4, <2>5, ZenonT(60) DEF MachineInv, IterMatches
      <3>2. \A h \in Groups : GroupMatches(h)'
        BY <2>0, <2>2, <2>4, <2>5 DEF MachineInv, GroupMatches
      <3>3. \A h \in Groups : sgroup'[h].cb_fn <=> sgroup'[h].state = "PAUSING"
        BY <2>0, <2>2, ZenonT(60) DEF MachineInv
      <3> QED
        BY <2>4, <2>5, <3>1, <3>2, <3>3, ZenonT(60) DEF MachineInv
    <2>7. QuietInv'
      BY <2>0, <2>2, <2>3, ZenonT(60) DEF QuietInv
    <2> QED
      BY <2>0, <2>2, <2>3, <2>5, <2>6, <2>7, ZenonT(60)
  <1> QED
    BY <1>1, <1>2, ZenonT(60) DEF GroupCounts, CheckPaused, sg

(***************************************************************************)
(* Counting an I/O command does not touch the state of a namespace.        *)
(***************************************************************************)
WithCount(f, n, v) == [f EXCEPT ![n].io_outstanding = v]

(***************************************************************************)
(* Only the count of the namespace changes.                                *)
(***************************************************************************)
LEMMA CountIoFacts ==
  ASSUME NEW f \in [Nsids -> NsInfoType], NEW n, NEW v, n \in Nsids => v \in Int
  PROVE  /\ WithCount(f, n, v) \in [Nsids -> NsInfoType]
         /\ \A m \in Nsids : WithCount(f, n, v)[m].state = f[m].state
  <1> DEFINE i == [f[n] EXCEPT !.io_outstanding = v]
             c == [f EXCEPT ![n] = i]
  <1>1. CASE n \in Nsids
    <2>1. f[n] \in NsInfoType
      BY <1>1, ZenonT(60)
    <2>2. i \in NsInfoType /\ i.state = f[n].state
      BY <1>1, <2>1, ZenonT(60) DEF NsInfoType
    <2> HIDE DEF i
    <2>3. c \in [Nsids -> NsInfoType] /\ \A m \in Nsids : c[m].state = f[m].state
      BY <1>1, <2>2, ZenonT(60)
    <2> QED
      BY <2>3, ZenonT(60) DEF i, WithCount
  <1>2. CASE n \notin Nsids
    <2>1. c = f
      BY <1>2, ZenonT(60)
    <2> QED
      BY <2>1, ZenonT(60) DEF WithCount
  <1> QED
    BY <1>1, <1>2, ZenonT(60)

(***************************************************************************)
(* Neither admission nor completion changes the state of a namespace, and  *)
(* they pause a group but never activate one.                              *)
(***************************************************************************)
LEMMA NsKept ==
  ASSUME NsInv,
         \A h \in Groups : sgroup'[h].num_ns = sgroup[h].num_ns,
         \A h \in Groups : \/ sgroup'[h].state = sgroup[h].state
                           \/ sgroup[h].state = "PAUSING" /\ sgroup'[h].state = "PAUSED",
         \A h \in Groups : \A n \in Nsids : ns_info'[h][n].state = ns_info[h][n].state
  PROVE  NsInv'
  <1> SUFFICES ASSUME NEW h \in Groups
               PROVE  /\ sgroup'[h].state # "INACTIVE" => sgroup'[h].num_ns = MaxNsid
                      /\ sgroup'[h].state = "ACTIVE" =>
                           \A n \in Nsids : ns_info'[h][n].state = "ACTIVE"
    BY ZenonT(60) DEF NsInv
  <1>1. /\ sgroup[h].state # "INACTIVE" => sgroup[h].num_ns = MaxNsid
        /\ sgroup[h].state = "ACTIVE" => \A n \in Nsids : ns_info[h][n].state = "ACTIVE"
    BY ZenonT(60) DEF NsInv
  <1> QED
    BY <1>1, ZenonT(60)

(***************************************************************************)
(* One request of group g changed: the counters of the other groups still  *)
(* agree, and g's does if it follows the request.                          *)
(***************************************************************************)
LEMMA CountsFollow ==
  ASSUME TypeOK, MgmtCounted, NEW g \in Groups, NEW A \in SUBSET Requests,
         \A h \in Groups \ {g} : /\ sgroup'[h] = sgroup[h]
                                 /\ MgmtOutstanding(h)' = MgmtOutstanding(h),
         MgmtOutstanding(g)' = MgmtOutstanding(g) \cup A, MgmtOutstanding(g) \cap A = {},
         sgroup'[g].mgmt_io_outstanding = sgroup[g].mgmt_io_outstanding + Cardinality(A)
  PROVE  MgmtCounted'
  <1>1. IsFiniteSet(A)
    BY FS_Subset, TopologyAssumption, ZenonT(60)
  <1>2. Cardinality(MgmtOutstanding(g) \cup A)
          = Cardinality(MgmtOutstanding(g)) + Cardinality(A) - Cardinality({})
    BY <1>1, MgmtFinite, FS_Union
  <1>3. Cardinality(MgmtOutstanding(g)) \in Nat /\ Cardinality(A) \in Nat
    BY <1>1, MgmtFinite, FS_CardinalityType, ZenonT(60)
  <1>4. Cardinality({}) = 0
    BY FS_EmptySet, ZenonT(60)
  <1>5. sgroup'[g].mgmt_io_outstanding = Cardinality(MgmtOutstanding(g)')
    BY <1>2, <1>3, <1>4 DEF MgmtCounted
  <1>6. \A h \in Groups \ {g} : sgroup'[h].mgmt_io_outstanding = Cardinality(MgmtOutstanding(h)')
    BY ZenonT(60) DEF MgmtCounted
  <1> QED
    BY <1>5, <1>6, ZenonT(60) DEF MgmtCounted

(***************************************************************************)
(* A step that changes no request of a kind a group waits for, and no      *)
(* counter of such requests.                                               *)
(***************************************************************************)
LEMMA CountsKept ==
  ASSUME MgmtCounted,
         \A g \in Groups : /\ MgmtOutstanding(g)' = MgmtOutstanding(g)
                           /\ sgroup'[g].mgmt_io_outstanding = sgroup[g].mgmt_io_outstanding
  PROVE  MgmtCounted'
  BY ZenonT(60) DEF MgmtCounted

-----------------------------------------------------------------------------
(***************************************************************************)
(* The proofs that connecting and disconnecting a queue pair keep the      *)
(* inductive invariant of SubsystemPause.                                  *)
(***************************************************************************)

(***************************************************************************)
(* What disconnecting some active queue pairs changes.                     *)
(***************************************************************************)
LEMMA DisconnectFacts ==
  ASSUME IInv, NEW D \in SUBSET Qpairs, \A q \in D : Active(q), DisconnectAll(D)
  PROVE  /\ qpair' \in [Qpairs -> QpairType] /\ req' \in [Requests -> ReqType]
         /\ RequestInv' /\ DeactivatingIsBusy'
         /\ \A g \in Groups : MgmtOutstanding(g)' = MgmtOutstanding(g)
         /\ \A r \in Requests : req'[r].st = "queued" => req[r].st = "queued"
  <1> USE TopologyAssumption
  <1>1. /\ qpair \in [Qpairs -> QpairType] /\ req \in [Requests -> ReqType]
        /\ RequestInv /\ DeactivatingIsBusy
    BY ZenonT(60) DEF IInv, TypeOK
  <1>2. /\ qpair' \in [Qpairs -> QpairType]
        /\ \A q \in Qpairs :
             qpair'[q].state = IF q \in D THEN IF Busy(q) THEN "DEACTIVATING" ELSE "GONE"
                               ELSE qpair[q].state
    BY <1>1, ZenonT(60) DEF DisconnectAll, QpairType
  <1>3. /\ req' \in [Requests -> ReqType]
        /\ \A r \in Requests :
             IF /\ QpairOf[r] \in D
                /\ ~Busy(QpairOf[r]) \/ (req[r].st = "outstanding" /\ req[r].cls = "aer")
             THEN req'[r].st = "free" /\ req'[r].cls = "mgmt" ELSE req'[r] = req[r]
    <2>1. FreeReq \in ReqType /\ FreeReq.st = "free" /\ FreeReq.cls = "mgmt"
      BY ChangesAssumption DEF ReqType, FreeReq, MgmtClasses
    <2> QED
      BY <1>1, <2>1, ZenonT(60) DEF DisconnectAll
  <1>4. RequestInv'
    BY <1>1, <1>2, <1>3, ZenonT(60) DEF RequestInv, IoClasses
  <1>5. DeactivatingIsBusy'
    <2> SUFFICES ASSUME NEW q \in Qpairs, qpair'[q].state = "DEACTIVATING"
                 PROVE  \E r \in Outstanding(q)' : req'[r].cls # "aer"
      BY ZenonT(60) DEF DeactivatingIsBusy
    <2>1. Busy(q)
      BY <1>1, <1>2, ZenonT(60) DEF DeactivatingIsBusy, Busy
    <2>2. PICK r \in Outstanding(q) : req[r].cls # "aer"
      BY <2>1, ZenonT(60) DEF Busy
    <2>3. r \in Requests /\ QpairOf[r] = q /\ req[r].st = "outstanding"
      BY <2>2, ZenonT(60) DEF Outstanding, OnQpair
    <2>4. req'[r] = req[r]
      BY <1>3, <2>1, <2>2, <2>3, ZenonT(60)
    <2> QED
      BY <2>2, <2>3, <2>4, ZenonT(60) DEF Outstanding, OnQpair
  <1>6. \A g \in Groups : MgmtOutstanding(g)' = MgmtOutstanding(g)
    <2>1. \A r \in Requests :
            req[r].st = "outstanding" /\ req[r].cls \in {"mgmt", "connect"} => req'[r] = req[r]
      BY <1>3, ZenonT(60) DEF Busy, Outstanding, OnQpair
    <2> QED
      BY <1>3, <2>1, ZenonT(60) DEF MgmtOutstanding, OnGroup
  <1> QED
    BY <1>2, <1>3, <1>4, <1>5, <1>6, ZenonT(60)

(***************************************************************************)
(* Queue pairs come and go.                                                *)
(***************************************************************************)
LEMMA QpairIInv ==
  ASSUME IInv, \/ \E r \in Requests : nvmf_ctrlr_add_qpair(r)
               \/ \E q \in Qpairs : spdk_nvmf_qpair_disconnect(q) \/ NewQpair(q)
  PROVE  IInv'
  <1> USE TopologyAssumption
  <1>1. ASSUME NEW r \in Requests, nvmf_ctrlr_add_qpair(r) PROVE IInv'
    <2>1. /\ UNCHANGED <<state, ns, state_changes, iter, sgroup, ns_info, req>>
          /\ qpair' = [qpair EXCEPT ![QpairOf[r]].ctrlr = TRUE]
      BY <1>1, ZenonT(60) DEF nvmf_ctrlr_add_qpair
    <2>2. /\ qpair' \in [Qpairs -> QpairType]
          /\ \A q \in Qpairs : qpair'[q].state = qpair[q].state
      BY <2>1, ZenonT(60) DEF IInv, TypeOK, QpairType
    <2>3. TypeOK' /\ NsInv' /\ QueueInv' /\ QuietInv'
      BY <2>1, <2>2 DEF IInv, TypeOK, NsInv, QueueInv, QuietInv
    <2>4. MachineInv' /\ MgmtCounted'
      BY <2>1, ZenonT(60) DEF IInv, MachineInv, IterMatches, GroupMatches, MgmtCounted, MgmtOutstanding,
                  OnGroup
    <2>5. RequestInv' /\ DeactivatingIsBusy'
      BY <2>1, <2>2 DEF IInv, RequestInv, DeactivatingIsBusy, Outstanding, OnQpair
    <2> QED
      BY <2>3, <2>4, <2>5, ZenonT(60) DEF IInv
  <1>2. ASSUME NEW q \in Qpairs, spdk_nvmf_qpair_disconnect(q) PROVE IInv'
    <2>1. /\ UNCHANGED <<state, ns, state_changes, iter, sgroup, ns_info>>
          /\ Active(q) /\ DisconnectAll({q})
      BY <1>2, ZenonT(60) DEF spdk_nvmf_qpair_disconnect
    <2>2. /\ qpair' \in [Qpairs -> QpairType] /\ req' \in [Requests -> ReqType]
          /\ RequestInv' /\ DeactivatingIsBusy'
          /\ \A g \in Groups : MgmtOutstanding(g)' = MgmtOutstanding(g)
          /\ \A r \in Requests : req'[r].st = "queued" => req[r].st = "queued"
      BY <2>1, DisconnectFacts, ZenonT(60)
    <2>3. TypeOK' /\ NsInv' /\ QuietInv'
      BY <2>1, <2>2, ZenonT(60) DEF IInv, TypeOK, NsInv, QuietInv
    <2>4. MachineInv'
      BY <2>1, ZenonT(60) DEF IInv, MachineInv, IterMatches, GroupMatches
    <2>5. QueueInv'
      BY <2>1, <2>2, ZenonT(60) DEF IInv, QueueInv
    <2>6. MgmtCounted'
      BY <2>1, <2>2, CountsKept, ZenonT(60) DEF IInv
    <2> QED
      BY <2>2, <2>3, <2>4, <2>5, <2>6, ZenonT(60) DEF IInv
  <1>3. ASSUME NEW q \in Qpairs, NewQpair(q) PROVE IInv'
    <2>1. /\ UNCHANGED <<state, ns, state_changes, iter, sgroup, ns_info, req>>
          /\ qpair[q].state = "GONE"
          /\ qpair' = [qpair EXCEPT ![q] = [state |-> "CONNECTING", ctrlr |-> FALSE]]
      BY <1>3, ZenonT(60) DEF NewQpair
    <2>2. /\ qpair' \in [Qpairs -> QpairType]
          /\ \A p \in Qpairs :
               qpair'[p].state = IF p = q THEN "CONNECTING" ELSE qpair[p].state
      BY <2>1, ZenonT(60) DEF IInv, TypeOK, QpairType
    <2>3. TypeOK' /\ NsInv' /\ QueueInv' /\ QuietInv'
      BY <2>1, <2>2, ZenonT(60) DEF IInv, TypeOK, NsInv, QueueInv, QuietInv
    <2>4. MachineInv' /\ MgmtCounted'
      BY <2>1 DEF IInv, MachineInv, IterMatches, GroupMatches, MgmtCounted, MgmtOutstanding,
                  OnGroup
    <2>5. RequestInv' /\ DeactivatingIsBusy'
      BY <2>1, <2>2 DEF IInv, RequestInv, DeactivatingIsBusy, Outstanding, OnQpair
    <2> QED
      BY <2>3, <2>4, <2>5, ZenonT(60) DEF IInv
  <1> QED
    BY <1>1, <1>2, <1>3, ZenonT(60)

-----------------------------------------------------------------------------
(***************************************************************************)
(* The proofs that the state change of a subsystem keeps the inductive     *)
(* invariant: the steps of the thread that drives it, and the pausing,     *)
(* starting and stopping of one poll group.                                *)
(***************************************************************************)

(***************************************************************************)
(* A step of the thread that drives the state changes leaves the groups,   *)
(* queue pairs and requests alone.                                         *)
(***************************************************************************)
LEMMA DriverFrame ==
  ASSUME IInv, UNCHANGED <<sgroup, ns_info, qpair, req>>
  PROVE  NsInv' /\ RequestInv' /\ QuietInv' /\ DeactivatingIsBusy' /\ MgmtCounted'
  BY DEF IInv, NsInv, RequestInv, QuietInv, DeactivatingIsBusy, MgmtCounted, MgmtOutstanding,
         OnGroup, Outstanding, OnQpair

(***************************************************************************)
(* A new change is queued.                                                 *)
(***************************************************************************)
LEMMA StateChangeIInv ==
  ASSUME IInv, NEW c \in Changes, nvmf_subsystem_state_change(c)
  PROVE  IInv'
  <1>1. /\ state_changes' = Append(state_changes, c)
        /\ UNCHANGED <<state, ns, iter, sgroup, ns_info, qpair, req>>
    BY ZenonT(60) DEF nvmf_subsystem_state_change
  <1>2. state_changes \in Seq(Change) /\ c \in Change
    BY ChangesAssumption, ZenonT(60) DEF IInv, TypeOK
  <1>3. state_changes' \in Seq(Change) /\ state_changes' # <<>>
    BY <1>1, <1>2
  <1>4. TypeOK'
    BY <1>1, <1>3, ZenonT(60) DEF IInv, TypeOK
  <1>5. MachineInv'
    BY <1>1, <1>3, ZenonT(60) DEF IInv, MachineInv, IterMatches, GroupMatches
  <1>6. QueueInv'
    BY <1>1, ZenonT(60) DEF IInv, QueueInv
  <1> QED
    BY <1>1, <1>4, <1>5, <1>6, DriverFrame, ZenonT(60) DEF IInv

(***************************************************************************)
(* The callback of a change that ends keeps the types of what it changes.  *)
(***************************************************************************)
LEMMA FinishFacts ==
  ASSUME TypeOK, state_changes # <<>>, NEW new, Finish(Head(state_changes), new)
  PROVE  /\ iter' = NoIter /\ iter' \in IterType
         /\ state_changes' \in Seq(Change) /\ ns' \in SUBSET Nsids
  <1> DEFINE c == Head(state_changes)
             more == IF c.op \in PausingOps THEN <<Resume>> ELSE <<>>
  <1> USE ChangesAssumption
  <1>1. iter' = NoIter /\ NoIter \in IterType
    BY DEF Finish, NoIter, IterType, SubsystemStates
  <1>2. c \in Change /\ Tail(state_changes) \in Seq(Change)
    BY DEF TypeOK
  <1>3. Resume \in Change
    BY DEF Resume, Change, PausingOps
  <1>4. more \in Seq(Change)
    BY <1>3
  <1>5. state_changes' = Tail(state_changes) \o more
    BY ZenonT(60) DEF Finish
  <1> HIDE DEF more
  <1>6. state_changes' \in Seq(Change)
    BY <1>2, <1>4, <1>5
  <1>7. ns' \in SUBSET Nsids
    BY <1>2, ZenonT(60) DEF Finish, TypeOK, Change, PausingOps
  <1> QED
    BY <1>1, <1>6, <1>7, ZenonT(60)

(***************************************************************************)
(* A change is started, or ends at once.                                   *)
(***************************************************************************)
LEMMA DoStateChangeIInv ==
  ASSUME IInv, nvmf_subsystem_do_state_change
  PROVE  IInv'
  <1> DEFINE c == Head(state_changes)
             new == nvmf_subsystem_get_intermediate_state(state, c.requested)
  <1>1. /\ iter.phase = "idle" /\ state_changes # <<>>
        /\ UNCHANGED <<sgroup, ns_info, qpair, req>>
        /\ TypeOK /\ MachineInv
    BY ZenonT(60) DEF nvmf_subsystem_do_state_change, IInv
  <1>2. state \in {"ACTIVE", "PAUSED", "INACTIVE"}
    BY <1>1, ZenonT(60) DEF MachineInv, IterMatches, TypeOK, SubsystemStates
  <1>3. c \in Change /\ c.requested \in {"INACTIVE", "ACTIVE", "PAUSED"} /\ c.nsid \in 0 .. MaxNsid
    BY <1>1 DEF TypeOK, Change
  <1>4. CASE Finish(c, state) /\ UNCHANGED state
    <2>1. /\ iter' = NoIter /\ iter' \in IterType
          /\ state_changes' \in Seq(Change) /\ ns' \in SUBSET Nsids
      BY <1>1, <1>4, FinishFacts, ZenonT(60)
    <2>2. TypeOK'
      BY <1>1, <1>4, <2>1, ZenonT(60) DEF TypeOK
    <2>3. MachineInv'
      BY <1>1, <1>2, <1>4, <2>1, ZenonT(60) DEF MachineInv, IterMatches, GroupMatches, NoIter
    <2>4. QueueInv'
      BY <1>1, <1>2, <1>4, ZenonT(60) DEF IInv, QueueInv
    <2> QED
      BY <1>1, <2>2, <2>3, <2>4, DriverFrame, ZenonT(60) DEF IInv
  <1>5. CASE /\ state # c.requested /\ SetStateAllowed(new) /\ state' = new
             /\ VisitAll(c.requested, state, c.nsid, FALSE)
             /\ UNCHANGED <<ns, state_changes>>
    <2>1. /\ iter' \in IterType /\ iter'.phase = "visit" /\ iter'.todo = Groups
          /\ iter'.requested = c.requested /\ iter'.original = state /\ iter'.revert = FALSE
      BY <1>1, <1>3, <1>5, ZenonT(60) DEF VisitAll, IterType, TypeOK
    <2>2. \/ new = "PAUSING" /\ c.requested = "PAUSED" /\ state = "ACTIVE"
          \/ new = "RESUMING" /\ c.requested = "ACTIVE" /\ state = "PAUSED"
          \/ new = "ACTIVATING" /\ c.requested = "ACTIVE" /\ state = "INACTIVE"
          \/ new = "DEACTIVATING" /\ c.requested = "INACTIVE" /\ state \in {"ACTIVE", "PAUSED"}
      BY <1>2, <1>3, <1>5, ZenonT(60) DEF nvmf_subsystem_get_intermediate_state, SetStateAllowed, ExpectedOld
    <2> HIDE DEF new, c
    <2>3. TypeOK'
      BY <1>1, <1>5, <2>1, <2>2, ZenonT(60) DEF TypeOK, SubsystemStates
    <2>4. MachineInv'
      BY <1>1, <1>5, <2>1, <2>2, ZenonT(60) DEF MachineInv, IterMatches, GroupMatches
    <2>5. QueueInv'
      BY <1>1, <1>2, ZenonT(60) DEF IInv, QueueInv
    <2> QED
      BY <1>1, <2>3, <2>4, <2>5, DriverFrame, ZenonT(60) DEF IInv
  <1> QED
    BY <1>4, <1>5, ZenonT(60) DEF nvmf_subsystem_do_state_change

(***************************************************************************)
(* A change, or the undoing of one, has reached every group.               *)
(***************************************************************************)
LEMMA ChangeDoneIInv ==
  ASSUME IInv, subsystem_state_change_done
  PROVE  IInv'
  <1>1. /\ iter.phase = "visit" /\ iter.todo = {} /\ SetStateAllowed(iter.requested)
        /\ state' = iter.requested /\ Finish(Head(state_changes), iter.requested)
        /\ UNCHANGED <<sgroup, ns_info, qpair, req>>
        /\ TypeOK /\ MachineInv
    BY ZenonT(60) DEF subsystem_state_change_done, IInv
  <1>2. /\ iter' = NoIter /\ iter' \in IterType
        /\ state_changes' \in Seq(Change) /\ ns' \in SUBSET Nsids
    BY <1>1, FinishFacts, ZenonT(60) DEF MachineInv
  <1>3. /\ state' \in {"ACTIVE", "PAUSED", "INACTIVE"}
        /\ \A g \in Groups : sgroup[g].state = state'
    BY <1>1, ZenonT(60) DEF MachineInv, IterMatches, GroupMatches, TypeOK, SubsystemStates
  <1>4. TypeOK'
    BY <1>1, <1>2, <1>3, ZenonT(60) DEF TypeOK, SubsystemStates
  <1>5. MachineInv'
    BY <1>1, <1>2, <1>3, ZenonT(60) DEF MachineInv, IterMatches, GroupMatches, NoIter
  <1>6. QueueInv'
    BY <1>1, ZenonT(60) DEF IInv, QueueInv
  <1> QED
    BY <1>1, <1>4, <1>5, <1>6, DriverFrame, ZenonT(60) DEF IInv

(***************************************************************************)
(* A group failed to resume: all groups are to pause again.                *)
(***************************************************************************)
LEMMA ChangeFailedIInv ==
  ASSUME IInv, ChangeFailed
  PROVE  IInv'
  <1>1. /\ iter.phase = "failed" /\ TypeOK /\ MachineInv
        /\ state' = nvmf_subsystem_get_intermediate_state(iter.requested, iter.original)
        /\ VisitAll(iter.original, iter.original, iter.nsid, TRUE)
        /\ UNCHANGED <<ns, state_changes, sgroup, ns_info, qpair, req>>
    BY ZenonT(60) DEF ChangeFailed, IInv
  <1>2. /\ state = "RESUMING" /\ iter.original = "PAUSED" /\ iter.requested = "ACTIVE"
        /\ iter.nsid \in 0 .. MaxNsid
    BY <1>1, ZenonT(60) DEF MachineInv, IterMatches, TypeOK, SubsystemStates, IterType
  <1>3. state' = "PAUSING"
    BY <1>1, <1>2, ZenonT(60) DEF nvmf_subsystem_get_intermediate_state
  <1>4. /\ iter' \in IterType /\ iter'.phase = "visit" /\ iter'.todo = Groups
        /\ iter'.requested = "PAUSED"
    BY <1>1, <1>2, ZenonT(60) DEF VisitAll, IterType, SubsystemStates
  <1>5. TypeOK'
    BY <1>1, <1>3, <1>4, ZenonT(60) DEF TypeOK, SubsystemStates
  <1>6. MachineInv'
    BY <1>1, <1>2, <1>3, <1>4, ZenonT(60) DEF MachineInv, IterMatches, GroupMatches
  <1>7. QueueInv'
    BY <1>1, <1>2, ZenonT(60) DEF IInv, QueueInv
  <1> QED
    BY <1>1, <1>5, <1>6, <1>7, DriverFrame, ZenonT(60) DEF IInv
-----------------------------------------------------------------------------
(***************************************************************************)
(* The iteration moves on from a group.                                    *)
(***************************************************************************)
LEMMA VisitedFacts ==
  ASSUME TypeOK, NEW g \in Groups, NEW phase \in {"visit", "wait", "remove", "failed"},
         Visited(g, phase)
  PROVE  /\ iter' \in IterType /\ iter'.phase = phase /\ iter'.todo = iter.todo \ {g}
         /\ phase \in {"wait", "remove"} => iter'.at = g
         /\ iter'.requested = iter.requested /\ iter'.original = iter.original
         /\ iter'.revert = iter.revert /\ iter'.nsid = iter.nsid
  BY ZenonT(60) DEF TypeOK, Visited, IterType

(***************************************************************************)
(* A group changes and no request of it does.                              *)
(***************************************************************************)
LEMMA RequestFrame ==
  ASSUME IInv, UNCHANGED <<qpair, req>>,
         \A h \in Groups : sgroup'[h].mgmt_io_outstanding = sgroup[h].mgmt_io_outstanding
  PROVE  RequestInv' /\ DeactivatingIsBusy' /\ MgmtCounted'
  BY DEF IInv, RequestInv, DeactivatingIsBusy, MgmtCounted, MgmtOutstanding, OnGroup,
         Outstanding, OnQpair

(***************************************************************************)
(* Giving a namespace another state.                                       *)
(***************************************************************************)
LEMMA NsStateSet ==
  ASSUME NEW i \in NsInfoType, NEW s \in {"INACTIVE", "ACTIVE", "PAUSING"}
  PROVE  [i EXCEPT !.state = s] \in NsInfoType /\ [i EXCEPT !.state = s].state = s
  BY ZenonT(60) DEF NsInfoType

(***************************************************************************)
(* A group is told to pause.                                               *)
(***************************************************************************)
LEMMA PauseIInv ==
  ASSUME IInv, NEW g \in Groups, nvmf_poll_group_pause_subsystem(g)
  PROVE  IInv'
  <1> DEFINE pausing == Nsids \cap 1 .. sgroup[g].num_ns \cap {iter.nsid}
             wait == \/ sgroup[g].mgmt_io_outstanding > 0
                     \/ \E n \in pausing : ns_info[g][n].io_outstanding # 0
  <1> USE TopologyAssumption
  <1>1. /\ Visiting(g, "PAUSED") /\ UNCHANGED <<state, ns, state_changes, qpair, req>>
        /\ TypeOK /\ MachineInv /\ sgroup \in [Groups -> SgroupType]
    BY ZenonT(60) DEF nvmf_poll_group_pause_subsystem, IInv, TypeOK
  <1>2. state = "PAUSING" /\ g \in iter.todo /\ sgroup[g].state \in {"ACTIVE", "PAUSED"}
    BY <1>1, ZenonT(60) DEF Visiting, MachineInv, IterMatches, GroupMatches, TypeOK, SubsystemStates
  <1>3. CASE sgroup[g].state = "PAUSED"
    <2>1. UNCHANGED <<sgroup, ns_info>> /\ Visited(g, "visit")
      BY <1>3, ZenonT(60) DEF nvmf_poll_group_pause_subsystem
    <2>2. /\ iter' \in IterType /\ iter'.phase = "visit" /\ iter'.todo = iter.todo \ {g}
          /\ iter'.requested = iter.requested
      BY <1>1, <2>1, VisitedFacts, ZenonT(60)
    <2>3. TypeOK'
      BY <1>1, <2>1, <2>2, ZenonT(60) DEF TypeOK
    <2>4. MachineInv'
      BY <1>1, <1>2, <1>3, <2>1, <2>2, ZenonT(60) DEF Visiting, MachineInv, IterMatches, GroupMatches
    <2>5. QueueInv'
      BY <1>1, <1>2, <1>3, <2>1, <2>2, ZenonT(60) DEF IInv, QueueInv
    <2> QED
      BY <1>1, <2>1, <2>3, <2>4, <2>5, DriverFrame, ZenonT(60) DEF IInv
  <1>4. CASE sgroup[g].state # "PAUSED"
    <2>1. /\ sgroup' = [sgroup EXCEPT ![g].state = IF wait THEN "PAUSING" ELSE "PAUSED",
                                      ![g].cb_fn = wait]
          /\ ns_info' = [ns_info EXCEPT ![g] = [n \in Nsids |->
               IF n \in pausing THEN [@[n] EXCEPT !.state = "PAUSING"] ELSE @[n]]]
          /\ Visited(g, IF wait THEN "wait" ELSE "visit")
      BY <1>4, ZenonT(60) DEF nvmf_poll_group_pause_subsystem
    <2>2. wait \in BOOLEAN
      BY ZenonT(60)
    <2>3. ~wait => sgroup[g].mgmt_io_outstanding = 0
      <3>1. sgroup[g].mgmt_io_outstanding \in Nat
        BY MgmtFinite, FS_CardinalityType, ZenonT(60) DEF IInv, MgmtCounted
      <3> QED
        BY <3>1
    <2>4. ns_info' \in [Groups -> [Nsids -> NsInfoType]]
      <3>1. \A n \in Nsids : /\ ns_info[g][n] \in NsInfoType
                             /\ [ns_info[g][n] EXCEPT !.state = "PAUSING"] \in NsInfoType
        <4> TAKE n \in Nsids
        <4>1. ns_info[g][n] \in NsInfoType
          BY <1>1 DEF TypeOK
        <4> QED
          BY <4>1, NsStateSet, ZenonT(60)
      <3> HIDE DEF pausing
      <3> QED
        BY <1>1, <2>1, <3>1, ZenonT(60) DEF TypeOK
    <2> HIDE DEF wait
    <2>5. /\ sgroup' \in [Groups -> SgroupType]
          /\ sgroup'[g].state = (IF wait THEN "PAUSING" ELSE "PAUSED")
          /\ sgroup'[g].cb_fn = wait
          /\ sgroup'[g].num_ns = sgroup[g].num_ns
          /\ sgroup'[g].mgmt_io_outstanding = sgroup[g].mgmt_io_outstanding
          /\ \A h \in Groups \ {g} : sgroup'[h] = sgroup[h]
      BY <1>1, <2>1, <2>2, ZenonT(60) DEF SgroupType
    <2>6. /\ iter' \in IterType /\ iter'.phase = (IF wait THEN "wait" ELSE "visit")
          /\ iter'.todo = iter.todo \ {g} /\ iter'.requested = iter.requested
          /\ wait => iter'.at = g
      BY <1>1, <2>1, VisitedFacts, ZenonT(60)
    <2>7. TypeOK'
      BY <1>1, <2>4, <2>5, <2>6, ZenonT(60) DEF TypeOK
    <2>8. MachineInv'
      <3>1. IterMatches'
        BY <1>1, <1>2, <2>6, ZenonT(60) DEF Visiting, MachineInv, IterMatches
      <3>2. ASSUME NEW h \in Groups
            PROVE  GroupMatches(h)' /\ (sgroup'[h].cb_fn <=> sgroup'[h].state = "PAUSING")
        <4>1. CASE h = g
          BY <1>1, <1>2, <2>5, <2>6, <4>1, ZenonT(60) DEF Visiting, MachineInv, IterMatches, GroupMatches
        <4>2. CASE h # g
          <5>1. sgroup'[h] = sgroup[h] /\ (h \in iter'.todo <=> h \in iter.todo)
            BY <2>5, <2>6, <4>2, ZenonT(60)
          <5> QED
            BY <1>1, <1>2, <2>6, <4>2, <5>1
            DEF Visiting, MachineInv, IterMatches, GroupMatches
        <4> QED
          BY <4>1, <4>2, ZenonT(60)
      <3>3. /\ iter'.phase # "idle" => state_changes' # <<>>
            /\ iter'.phase \in {"wait", "remove"} => iter'.at \in Groups \ iter'.todo
        BY <1>1, <1>2, <2>6, ZenonT(60) DEF Visiting, MachineInv
      <3> QED
        BY <3>1, <3>2, <3>3, ZenonT(60) DEF MachineInv
    <2>9. NsInv'
      <3>1. \A h \in Groups \ {g} : ns_info'[h] = ns_info[h]
        BY <1>1, <2>1, ZenonT(60) DEF TypeOK
      <3>2. ASSUME NEW h \in Groups \ {g}
            PROVE  /\ sgroup'[h].state # "INACTIVE" => sgroup'[h].num_ns = MaxNsid
                   /\ sgroup'[h].state = "ACTIVE" =>
                        \A n \in Nsids : ns_info'[h][n].state = "ACTIVE"
        <4>1. sgroup'[h] = sgroup[h] /\ ns_info'[h] = ns_info[h]
          BY <2>5, <3>1, ZenonT(60)
        <4> QED
          BY <4>1, ZenonT(60) DEF IInv, NsInv
      <3>3. sgroup'[g].num_ns = MaxNsid /\ sgroup'[g].state # "ACTIVE"
        BY <1>2, <2>5, ZenonT(60) DEF IInv, NsInv
      <3> QED
        BY <3>2, <3>3, ZenonT(60) DEF NsInv
    <2>10. QueueInv'
      BY <1>1, <1>2, <2>5, <2>6, ZenonT(60) DEF IInv, QueueInv
    <2>11. QuietInv'
      BY <2>3, <2>5, ZenonT(60) DEF IInv, QuietInv
    <2>12. RequestInv' /\ DeactivatingIsBusy' /\ MgmtCounted'
      BY <1>1, <2>5, RequestFrame, ZenonT(60)
    <2> QED
      BY <2>7, <2>8, <2>9, <2>10, <2>11, <2>12, ZenonT(60) DEF IInv
  <1> QED
    BY <1>3, <1>4, ZenonT(60)

(***************************************************************************)
(* What a resumed or started group knows of its namespaces.                *)
(***************************************************************************)
LEMMA UpdateFacts ==
  ASSUME NEW nsi \in [Nsids -> NsInfoType], NEW upto
  PROVE  poll_group_update_subsystem(nsi, upto) \in [Nsids -> NsInfoType]
  <1>1. NoNsInfo \in NsInfoType
    BY DEF NoNsInfo, NsInfoType
  <1>2. ASSUME NEW n \in Nsids PROVE [nsi[n] EXCEPT !.channel = TRUE] \in NsInfoType
    BY ZenonT(60) DEF NsInfoType
  <1> QED
    BY <1>1, <1>2, ZenonT(60) DEF poll_group_update_subsystem

(***************************************************************************)
(* A group cannot be resumed for want of a channel.                        *)
(***************************************************************************)
LEMMA ResumeFailsIInv ==
  ASSUME IInv, NEW g \in Groups, NEW n \in Nsids, ResumeGroupFails(g, n)
  PROVE  IInv'
  <1>1. /\ Visiting(g, "ACTIVE") /\ state = "RESUMING" /\ sgroup[g].state # "ACTIVE"
        /\ ns_info' = [ns_info EXCEPT ![g] = poll_group_update_subsystem(ns_info[g], n - 1)]
        /\ Visited(g, "failed") /\ UNCHANGED <<state, ns, state_changes, sgroup, qpair, req>>
        /\ TypeOK
    BY ZenonT(60) DEF ResumeGroupFails, IInv, TypeOK
  <1>2. /\ iter' \in IterType /\ iter'.phase = "failed" /\ iter'.todo = iter.todo \ {g}
        /\ iter'.requested = iter.requested /\ iter'.original = iter.original
        /\ iter'.revert = iter.revert
    BY <1>1, VisitedFacts, ZenonT(60)
  <1>3. ns_info' \in [Groups -> [Nsids -> NsInfoType]]
    BY <1>1, UpdateFacts, ZenonT(60) DEF TypeOK
  <1>4. TypeOK'
    BY <1>1, <1>2, <1>3, ZenonT(60) DEF TypeOK
  <1>5. MachineInv'
    BY <1>1, <1>2, ZenonT(60) DEF IInv, Visiting, MachineInv, IterMatches, GroupMatches
  <1>6. NsInv'
    BY <1>1, ZenonT(60) DEF IInv, NsInv, TypeOK
  <1>7. QueueInv'
    BY <1>1, ZenonT(60) DEF IInv, QueueInv
  <1>8. QuietInv'
    BY <1>1, ZenonT(60) DEF IInv, QuietInv
  <1>9. RequestInv' /\ DeactivatingIsBusy' /\ MgmtCounted'
    BY <1>1, RequestFrame, ZenonT(60)
  <1> QED
    BY <1>4, <1>5, <1>6, <1>7, <1>8, <1>9, ZenonT(60) DEF IInv

(***************************************************************************)
(* Requests being executed are left alone.                                 *)
(***************************************************************************)
LEMMA BusyKept ==
  ASSUME DeactivatingIsBusy, UNCHANGED qpair,
         \A r \in Requests : req[r].st = "outstanding" => req'[r] = req[r]
  PROVE  DeactivatingIsBusy'
  <1> SUFFICES ASSUME NEW q \in Qpairs, qpair'[q].state = "DEACTIVATING"
               PROVE  \E r \in Outstanding(q)' : req'[r].cls # "aer"
    BY ZenonT(60) DEF DeactivatingIsBusy
  <1>1. PICK r \in Outstanding(q) : req[r].cls # "aer"
    BY ZenonT(60) DEF DeactivatingIsBusy
  <1>2. r \in Requests /\ QpairOf[r] = q /\ req[r].st = "outstanding"
    BY <1>1, ZenonT(60) DEF Outstanding, OnQpair
  <1> QED
    BY <1>1, <1>2, ZenonT(60) DEF Outstanding, OnQpair

(***************************************************************************)
(* A group is started: what it had queued is freed.                        *)
(***************************************************************************)
LEMMA AddIInv ==
  ASSUME IInv, NEW g \in Groups, nvmf_poll_group_add_subsystem(g)
  PROVE  IInv'
  <1> DEFINE up == poll_group_update_subsystem(ns_info[g], MaxNsid)
  <1> USE TopologyAssumption, ChangesAssumption
  <1>1. /\ Visiting(g, "ACTIVE") /\ state = "ACTIVATING"
        /\ req' = [r \in Requests |-> IF r \in Queued(g) THEN FreeReq ELSE req[r]]
        /\ sgroup' = [sgroup EXCEPT ![g].state = "ACTIVE", ![g].num_ns = MaxNsid]
        /\ Visited(g, "visit") /\ UNCHANGED <<state, ns, state_changes, qpair>>
        /\ TypeOK /\ sgroup \in [Groups -> SgroupType]
    BY ZenonT(60) DEF nvmf_poll_group_add_subsystem, IInv, TypeOK
  <1>2. ns_info' = [ns_info EXCEPT ![g] = [n \in Nsids |-> [up[n] EXCEPT !.state = "ACTIVE"]]]
    BY ZenonT(60) DEF nvmf_poll_group_add_subsystem, TypeOK
  <1>3. up \in [Nsids -> NsInfoType]
    BY <1>1, UpdateFacts, ZenonT(60) DEF TypeOK
  <1> HIDE DEF up
  <1>4. \A n \in Nsids : /\ [up[n] EXCEPT !.state = "ACTIVE"] \in NsInfoType
                         /\ [up[n] EXCEPT !.state = "ACTIVE"].state = "ACTIVE"
    BY <1>3, NsStateSet, ZenonT(60)
  <1>5. /\ ns_info' \in [Groups -> [Nsids -> NsInfoType]]
        /\ \A n \in Nsids : ns_info'[g][n].state = "ACTIVE"
        /\ \A h \in Groups \ {g} : ns_info'[h] = ns_info[h]
    <2>1. ns_info \in [Groups -> [Nsids -> NsInfoType]]
      BY <1>1, ZenonT(60) DEF TypeOK
    <2> QED
      BY <1>2, <1>4, <2>1, ZenonT(60)
  <1>6. /\ iter' \in IterType /\ iter'.phase = "visit" /\ iter'.todo = iter.todo \ {g}
        /\ iter'.requested = iter.requested
    BY <1>1, VisitedFacts, ZenonT(60)
  <1>7. /\ sgroup' \in [Groups -> SgroupType]
        /\ sgroup'[g].state = "ACTIVE" /\ sgroup'[g].num_ns = MaxNsid
        /\ sgroup'[g].cb_fn = sgroup[g].cb_fn
        /\ sgroup'[g].mgmt_io_outstanding = sgroup[g].mgmt_io_outstanding
        /\ \A h \in Groups \ {g} : sgroup'[h] = sgroup[h]
    BY <1>1, ZenonT(60) DEF SgroupType
  <1>8. FreeReq \in ReqType /\ FreeReq.st = "free" /\ FreeReq.cls = "mgmt"
    BY DEF FreeReq, ReqType, MgmtClasses
  <1>9. /\ req' \in [Requests -> ReqType]
        /\ \A r \in Requests : r \notin Queued(g) => req'[r] = req[r]
        /\ \A r \in Queued(g) : req[r].st = "queued" /\ req'[r].st = "free" /\ req'[r].cls = "mgmt"
    BY <1>1, <1>8, ZenonT(60) DEF TypeOK, Queued, OnGroup
  <1>10. TypeOK'
    BY <1>1, <1>5, <1>6, <1>7, <1>9, ZenonT(60) DEF TypeOK
  <1>11. MachineInv'
    BY <1>1, <1>6, <1>7, ZenonT(60) DEF IInv, Visiting, MachineInv, IterMatches, GroupMatches
  <1>12. NsInv'
    BY <1>5, <1>7 DEF IInv, NsInv
  <1>13. QuietInv'
    BY <1>7, ZenonT(60) DEF IInv, QuietInv
  <1>14. RequestInv'
    BY <1>1, <1>9, ZenonT(60) DEF IInv, RequestInv, IoClasses
  <1>15. QueueInv'
    <2> SUFFICES ASSUME NEW r \in Requests, req'[r].st = "queued"
                 PROVE  sgroup'[GroupOf[QpairOf[r]]].state # "ACTIVE"
      BY ZenonT(60) DEF QueueInv
    <2>1. req[r].st = "queued" /\ r \notin Queued(g)
      BY <1>9, ZenonT(60)
    <2>2. GroupOf[QpairOf[r]] \in Groups \ {g}
      BY <2>1, ZenonT(60) DEF Queued, OnGroup
    <2> QED
      BY <1>1, <1>7, <2>1, <2>2, ZenonT(60) DEF IInv, QueueInv
  <1>16. \A r \in Requests : req[r].st = "outstanding" => req'[r] = req[r]
    BY <1>9, ZenonT(60)
  <1>17. DeactivatingIsBusy'
    BY <1>1, <1>16, BusyKept, ZenonT(60) DEF IInv
  <1>18. \A h \in Groups : MgmtOutstanding(h)' = MgmtOutstanding(h)
    BY <1>9, ZenonT(60) DEF MgmtOutstanding, OnGroup
  <1>19. MgmtCounted'
    BY <1>7, <1>18, CountsKept, ZenonT(60) DEF IInv
  <1> QED
    BY <1>10, <1>11, <1>12, <1>13, <1>14, <1>15, <1>17, <1>19, ZenonT(60) DEF IInv

(***************************************************************************)
(* A group is stopped.                                                     *)
(***************************************************************************)
LEMMA RemoveIInv ==
  ASSUME IInv, NEW g \in Groups, nvmf_poll_group_remove_subsystem(g)
  PROVE  IInv'
  <1> DEFINE found == {q \in Qpairs :
                         GroupOf[q] = g /\ qpair[q].ctrlr /\ qpair[q].state # "GONE"}
             D == {q \in found : Active(q)}
             off == [n \in Nsids |-> IF found = {} THEN NoNsInfo
                                     ELSE [ns_info[g][n] EXCEPT !.state = "INACTIVE"]]
             num == IF found = {} THEN 0 ELSE sgroup[g].num_ns
             phase == IF found = {} THEN "visit" ELSE "remove"
  <1> USE TopologyAssumption, ChangesAssumption
  <1>1. /\ Visiting(g, "INACTIVE") \/ (iter.phase = "remove" /\ iter.at = g)
        /\ sgroup' = [sgroup EXCEPT ![g].state = "INACTIVE", ![g].num_ns = num]
        /\ ns_info' = [ns_info EXCEPT ![g] = off]
        /\ DisconnectAll(D) /\ Visited(g, phase) /\ UNCHANGED <<state, ns, state_changes>>
        /\ TypeOK /\ MachineInv
    BY ZenonT(60) DEF nvmf_poll_group_remove_subsystem, IInv, TypeOK
  <1>2. /\ qpair' \in [Qpairs -> QpairType] /\ req' \in [Requests -> ReqType]
        /\ RequestInv' /\ DeactivatingIsBusy'
        /\ \A h \in Groups : MgmtOutstanding(h)' = MgmtOutstanding(h)
        /\ \A r \in Requests : req'[r].st = "queued" => req[r].st = "queued"
    BY <1>1, DisconnectFacts, ZenonT(60)
  <1>3. off \in [Nsids -> NsInfoType]
    <2>1. NoNsInfo \in NsInfoType
      BY DEF NoNsInfo, NsInfoType
    <2>2. \A n \in Nsids : [ns_info[g][n] EXCEPT !.state = "INACTIVE"] \in NsInfoType
      <3> TAKE n \in Nsids
      <3>1. ns_info[g][n] \in NsInfoType
        BY <1>1 DEF TypeOK
      <3> QED
        BY <3>1, NsStateSet, ZenonT(60)
    <2> HIDE DEF found
    <2> QED
      BY <2>1, <2>2, ZenonT(60)
  <1>4. num \in {0, MaxNsid} /\ phase \in {"visit", "remove"}
    BY <1>1, ZenonT(60) DEF TypeOK, SgroupType
  <1> HIDE DEF found, D, off, num, phase
  <1>5. /\ iter' \in IterType /\ iter'.phase = phase /\ iter'.todo = iter.todo \ {g}
        /\ phase = "remove" => iter'.at = g
        /\ iter'.requested = iter.requested
    BY <1>1, <1>4, VisitedFacts, ZenonT(60)
  <1>6. /\ sgroup' \in [Groups -> SgroupType] /\ sgroup'[g].state = "INACTIVE"
        /\ sgroup'[g].cb_fn = sgroup[g].cb_fn
        /\ sgroup'[g].mgmt_io_outstanding = sgroup[g].mgmt_io_outstanding
        /\ \A h \in Groups \ {g} : sgroup'[h] = sgroup[h]
    <2> DEFINE sg == [sgroup[g] EXCEPT !.state = "INACTIVE", !.num_ns = num]
    <2>1. sgroup[g] \in SgroupType /\ sgroup \in [Groups -> SgroupType]
      BY <1>1, ZenonT(60) DEF TypeOK
    <2>2. /\ sg \in SgroupType /\ sg.state = "INACTIVE" /\ sg.cb_fn = sgroup[g].cb_fn
          /\ sg.mgmt_io_outstanding = sgroup[g].mgmt_io_outstanding
      BY <1>4, <2>1, ZenonT(60) DEF SgroupType
    <2>3. sgroup' = [sgroup EXCEPT ![g] = sg]
      BY <1>1, <2>1, ZenonT(60)
    <2> HIDE DEF sg
    <2> QED
      BY <2>1, <2>2, <2>3, ZenonT(60)
  <1>7. /\ ns_info' \in [Groups -> [Nsids -> NsInfoType]]
        /\ \A h \in Groups \ {g} : ns_info'[h] = ns_info[h]
    BY <1>1, <1>3, ZenonT(60) DEF TypeOK
  <1>8. TypeOK'
    BY <1>1, <1>2, <1>5, <1>6, <1>7, ZenonT(60) DEF TypeOK
  <1>9. state = "DEACTIVATING" /\ sgroup[g].state # "PAUSING"
    BY <1>1, ZenonT(60) DEF Visiting, MachineInv, IterMatches, GroupMatches, TypeOK, SubsystemStates
  <1>10. MachineInv'
    BY <1>1, <1>4, <1>5, <1>6, <1>9 DEF MachineInv, IterMatches, GroupMatches
  <1>11. NsInv'
    BY <1>6, <1>7 DEF IInv, NsInv
  <1>12. QueueInv'
    BY <1>1, <1>2, <1>5, <1>6, ZenonT(60) DEF IInv, QueueInv
  <1>13. QuietInv'
    BY <1>6, ZenonT(60) DEF IInv, QuietInv
  <1>14. MgmtCounted'
    <2>1. \A h \in Groups : sgroup'[h].mgmt_io_outstanding = sgroup[h].mgmt_io_outstanding
      BY <1>6, ZenonT(60)
    <2> QED
      BY <1>2, <2>1, CountsKept, ZenonT(60) DEF IInv
  <1> QED
    BY <1>2, <1>8, <1>10, <1>11, <1>12, <1>13, <1>14, ZenonT(60) DEF IInv

-----------------------------------------------------------------------------
(***************************************************************************)
(* Admission keeps the invariant.                                          *)
(***************************************************************************)
LEMMA ExecIInv ==
  ASSUME IInv, NEW r \in Requests, NEW k \in Kind, spdk_nvmf_request_exec(r, k)
  PROVE  IInv'
  <1> DEFINE q == QpairOf[r]
             g == GroupOf[q]
             outcome == Exec(q, k, sgroup[g], ns_info[g])
             old == sgroup[g].mgmt_io_outstanding
             count == IF CountsMgmt(k, outcome) THEN old + 1 ELSE old
             new == IF outcome = "refused" THEN FreeReq
                    ELSE [st |-> outcome, cls |-> k.cls, nsid |-> k.nsid]
             nsi == IF CountsIo(k, outcome, sgroup[g].num_ns)
                    THEN [ns_info[g] EXCEPT ![k.nsid].io_outstanding = @ + 1]
                    ELSE ns_info[g]
  <1> USE TopologyAssumption, ChangesAssumption
  <1>1. /\ q \in Qpairs /\ g \in Groups /\ r \in OnQpair(q) /\ r \in OnGroup(g)
        /\ TypeOK /\ old \in Int /\ sgroup[g] \in SgroupType
    BY ZenonT(60) DEF IInv, TypeOK, SgroupType, OnQpair, OnGroup
  <1>2. /\ outcome \in {"queued", "refused", "outstanding"}
        /\ k.cls \in MgmtClasses \cup IoClasses /\ k.nsid \in 0 .. MaxNsid
    BY DEF Exec, ExecMgmt, ExecIo, Kind
  <1>3. /\ req[r].st = "free" /\ MaySend(q, k)
        /\ req' = [req EXCEPT ![r] = new]
        /\ ns_info' = [ns_info EXCEPT ![g] = nsi]
        /\ UNCHANGED <<state, ns, state_changes, qpair>>
    BY ZenonT(60) DEF spdk_nvmf_request_exec
  <1>4. /\ Active(q) /\ qpair[q].state \in {"ENABLED", "CONNECTING"}
        /\ k.cls = "aer" => q \in AdminQpairs /\ qpair[q].state = "ENABLED"
        /\ k.cls \in IoClasses => q \notin AdminQpairs
    BY <1>3, ZenonT(60) DEF MaySend, Active, IoClasses
  <1>5. CountsMgmt(k, outcome) <=> outcome = "outstanding" /\ k.cls \in {"mgmt", "connect"}
    BY <1>4, ZenonT(60) DEF CountsMgmt, Exec, ExecMgmt, MgmtClasses
  <1>6. GroupCounts(g, [sgroup[g] EXCEPT !.mgmt_io_outstanding = count], nsi)
    <2>1. [sgroup[g] EXCEPT !.mgmt_io_outstanding = count]
            = IF CountsMgmt(k, outcome)
              THEN [sgroup[g] EXCEPT !.mgmt_io_outstanding = @ + 1] ELSE sgroup[g]
      BY <1>1, ZenonT(60) DEF SgroupType
    <2> QED
      BY <2>1, ZenonT(60) DEF spdk_nvmf_request_exec, GroupCounts
  <1>7. sgroup[g].state # "ACTIVE" => ~CountsMgmt(k, outcome)
    BY <1>5, ZenonT(60) DEF Exec, ExecMgmt, MgmtClasses
  <1>8. /\ iter' \in IterType /\ sgroup' \in [Groups -> SgroupType]
        /\ MachineInv' /\ QuietInv'
        /\ iter'.todo = iter.todo
        /\ \A h \in Groups \ {g} : sgroup'[h] = sgroup[h]
        /\ sgroup'[g].mgmt_io_outstanding = count
        /\ \A h \in Groups : sgroup'[h].num_ns = sgroup[h].num_ns
        /\ \A h \in Groups : \/ sgroup'[h].state = sgroup[h].state
                             \/ sgroup[h].state = "PAUSING" /\ sgroup'[h].state = "PAUSED"
    <2>1. count \in Int /\ (sgroup[g].state = "PAUSED" => count = 0)
      BY <1>1, <1>7 DEF IInv, QuietInv
    <2> HIDE DEF count, nsi, g
    <2> QED
      BY <1>1, <1>3, <1>6, <2>1, GroupCountsFacts, ZenonT(60) DEF IInv
  <1>9. /\ new \in ReqType
        /\ new.st = IF outcome = "refused" THEN "free" ELSE outcome
        /\ new.cls = IF outcome = "refused" THEN "mgmt" ELSE k.cls
    BY <1>2 DEF ReqType, FreeReq, MgmtClasses
  <1>10. /\ ns_info' \in [Groups -> [Nsids -> NsInfoType]]
         /\ \A h \in Groups : \A n \in Nsids : ns_info'[h][n].state = ns_info[h][n].state
    <2>1. /\ nsi \in [Nsids -> NsInfoType]
          /\ \A n \in Nsids : nsi[n].state = ns_info[g][n].state
      <3> DEFINE counted == WithCount(ns_info[g], k.nsid, ns_info[g][k.nsid].io_outstanding + 1)
      <3>1. ns_info[g] \in [Nsids -> NsInfoType]
        BY <1>1, ZenonT(60) DEF TypeOK
      <3>2. /\ counted \in [Nsids -> NsInfoType]
            /\ \A n \in Nsids : counted[n].state = ns_info[g][n].state
        <4> DEFINE f == ns_info[g]
                   n == k.nsid
                   v == f[n].io_outstanding + 1
        <4>1. f \in [Nsids -> NsInfoType] /\ (n \in Nsids => v \in Int)
          BY <3>1 DEF NsInfoType
        <4> HIDE DEF new, outcome, count, nsi, counted, f, n, v
        <4>2. /\ WithCount(f, n, v) \in [Nsids -> NsInfoType]
              /\ \A m \in Nsids : WithCount(f, n, v)[m].state = f[m].state
          BY <4>1, CountIoFacts
        <4>3. WithCount(f, n, v) = counted /\ f = ns_info[g]
          BY ZenonT(60) DEF counted, f, n, v
        <4> QED
          BY <4>2, <4>3, ZenonT(60)
      <3> HIDE DEF counted
      <3>3. nsi = IF CountsIo(k, outcome, sgroup[g].num_ns) THEN counted ELSE ns_info[g]
        BY ZenonT(60) DEF counted, WithCount
      <3> QED
        BY <3>1, <3>2, <3>3, ZenonT(60)
    <2> HIDE DEF nsi
    <2> QED
      BY <1>1, <1>3, <2>1, ZenonT(60) DEF TypeOK
  <1> HIDE DEF new, nsi, count
  <1>11. req' \in [Requests -> ReqType] /\ req'[r] = new
         /\ \A x \in Requests \ {r} : req'[x] = req[x]
    BY <1>1, <1>3, <1>9, ZenonT(60) DEF TypeOK
  <1>12. TypeOK'
    BY <1>1, <1>3, <1>8, <1>10, <1>11, ZenonT(60) DEF TypeOK
  <1>13. NsInv'
    BY <1>8, <1>10, NsKept, ZenonT(60) DEF IInv
  <1>14. RequestInv'
    <2> SUFFICES ASSUME NEW x \in Requests
                 PROVE  /\ req'[x].cls = "aer" => QpairOf[x] \in AdminQpairs
                        /\ req'[x].cls \in IoClasses => QpairOf[x] \notin AdminQpairs
                        /\ req'[x].st # "free" => qpair'[QpairOf[x]].state # "GONE"
                        /\ req'[x].st = "outstanding" /\ req'[x].cls = "aer" =>
                             qpair'[QpairOf[x]].state # "DEACTIVATING"
      BY ZenonT(60) DEF RequestInv
    <2>1. CASE x = r
      BY <1>3, <1>4, <1>9, <1>11, <2>1, ZenonT(60) DEF IoClasses
    <2>2. CASE x # r
      BY <1>3, <1>11, <2>2, ZenonT(60) DEF IInv, RequestInv
    <2> QED
      BY <2>1, <2>2, ZenonT(60)
  <1>15. QueueInv'
    <2>1. outcome = "queued" =>
            \/ sgroup[g].state # "ACTIVE"
            \/ state \in {"PAUSING", "DEACTIVATING"} /\ g \in iter.todo
      <3>1. CASE k.cls \in MgmtClasses
        BY <1>1, <3>1, ZenonT(60) DEF Exec, ExecMgmt, NotReady, IInv, MachineInv, GroupMatches
      <3>2. CASE k.cls \notin MgmtClasses
        BY <1>1, <3>2, ZenonT(60) DEF Exec, ExecIo, IInv, NsInv, Nsids
      <3> QED
        BY <3>1, <3>2, ZenonT(60)
    <2>2. \A x \in Requests : QpairOf[x] \in Qpairs /\ GroupOf[QpairOf[x]] \in Groups
      BY ZenonT(60)
    <2> HIDE DEF outcome
    <2> SUFFICES ASSUME NEW x \in Requests, req'[x].st = "queued"
                 PROVE  \/ sgroup'[GroupOf[QpairOf[x]]].state # "ACTIVE"
                        \/ /\ state' \in {"PAUSING", "DEACTIVATING"}
                           /\ GroupOf[QpairOf[x]] \in iter'.todo
      BY ZenonT(60) DEF QueueInv
    <2>3. CASE x = r
      BY <1>1, <1>3, <1>8, <1>9, <1>11, <2>1, <2>3, ZenonT(60)
    <2>4. CASE x # r
      BY <1>3, <1>8, <1>11, <2>2, <2>4 DEF IInv, QueueInv
    <2> QED
      BY <2>3, <2>4, ZenonT(60)
  <1>16. DeactivatingIsBusy'
    BY <1>3, <1>11, ZenonT(60) DEF IInv, DeactivatingIsBusy, Outstanding, OnQpair
  <1>17. MgmtCounted'
    <2> DEFINE A == IF CountsMgmt(k, outcome) THEN {r} ELSE {}
    <2>1. \A h \in Groups \ {g} : MgmtOutstanding(h)' = MgmtOutstanding(h)
      BY <1>1, <1>11 DEF MgmtOutstanding, OnGroup
    <2>2. MgmtOutstanding(g)' = MgmtOutstanding(g) \cup A
      BY <1>1, <1>3, <1>5, <1>9, <1>11 DEF MgmtOutstanding
    <2>3. MgmtOutstanding(g) \cap A = {}
      BY <1>3, ZenonT(60) DEF MgmtOutstanding
    <2>4. sgroup'[g].mgmt_io_outstanding = sgroup[g].mgmt_io_outstanding + Cardinality(A)
      <3>1. Cardinality({}) = 0 /\ Cardinality({r}) = 1
        BY FS_EmptySet, FS_Singleton, ZenonT(60)
      <3>2. sgroup'[g].mgmt_io_outstanding = count /\ old \in Int
        BY <1>1, <1>8, ZenonT(60)
      <3> QED
        BY <3>1, <3>2 DEF count
    <2> QED
      BY <1>1, <1>8, <2>1, <2>2, <2>3, <2>4, CountsFollow DEF IInv
  <1> QED
    BY <1>8, <1>12, <1>13, <1>14, <1>15, <1>16, <1>17, ZenonT(60) DEF IInv

(***************************************************************************)
(* Completion keeps the invariant.                                         *)
(***************************************************************************)
LEMMA CompleteIInv ==
  ASSUME IInv, NEW r \in Requests, nvmf_request_complete(r)
  PROVE  IInv'
  <1> DEFINE q == QpairOf[r]
             g == GroupOf[q]
             k == req[r]
             old == sgroup[g].mgmt_io_outstanding
             count == IF k.cls \in {"mgmt", "connect"} THEN old - 1 ELSE old
             nsi == IF k.cls = "io" /\ k.nsid \in 1 .. sgroup[g].num_ns
                    THEN [ns_info[g] EXCEPT ![k.nsid].io_outstanding = @ - 1]
                    ELSE ns_info[g]
             last == qpair[q].state = "DEACTIVATING" /\ Outstanding(q) = {r}
  <1> USE TopologyAssumption, ChangesAssumption
  <1>1. /\ q \in Qpairs /\ g \in Groups /\ r \in OnQpair(q) /\ r \in OnGroup(g)
        /\ TypeOK /\ old \in Int /\ sgroup[g] \in SgroupType /\ k \in ReqType
    BY ZenonT(60) DEF IInv, TypeOK, SgroupType, OnQpair, OnGroup
  <1>2. /\ k.st = "outstanding"
        /\ ns_info' = [ns_info EXCEPT ![g] = nsi]
        /\ req' = [x \in Requests |->
                     IF x = r \/ (last /\ QpairOf[x] = q) THEN FreeReq ELSE req[x]]
        /\ qpair' = [qpair EXCEPT ![q].state =
                       IF last THEN "GONE"
                       ELSE IF k.cls = "connect" /\ qpair[q].ctrlr /\ @ = "CONNECTING"
                            THEN "ENABLED" ELSE @]
        /\ UNCHANGED <<state, ns, state_changes>>
    BY ZenonT(60) DEF nvmf_request_complete
  <1>3. GroupCounts(g, [sgroup[g] EXCEPT !.mgmt_io_outstanding = count], nsi)
    <2>1. [sgroup[g] EXCEPT !.mgmt_io_outstanding = count]
            = IF k.cls \in {"mgmt", "connect"}
              THEN [sgroup[g] EXCEPT !.mgmt_io_outstanding = @ - 1] ELSE sgroup[g]
      BY <1>1, ZenonT(60) DEF SgroupType
    <2>2. CASE k.cls \in {"aer", "verify"}
      <3>1. UNCHANGED <<sgroup, iter>>
        BY <2>2, ZenonT(60) DEF nvmf_request_complete
      <3>2. sgroup = [sgroup EXCEPT ![g] = sgroup[g]]
        BY <1>1, ZenonT(60) DEF TypeOK
      <3> QED
        BY <2>1, <2>2, <3>1, <3>2, ZenonT(60) DEF GroupCounts
    <2>3. CASE k.cls \notin {"aer", "verify"}
      BY <2>1, <2>3, ZenonT(60) DEF nvmf_request_complete, GroupCounts
    <2> QED
      BY <2>2, <2>3, ZenonT(60)
  <1>4. k.cls \in {"mgmt", "connect"} => r \in MgmtOutstanding(g) /\ old > 0
    <2> SUFFICES ASSUME k.cls \in {"mgmt", "connect"}
                 PROVE  r \in MgmtOutstanding(g) /\ old > 0
      BY ZenonT(60)
    <2>1. r \in MgmtOutstanding(g)
      BY <1>1, <1>2, ZenonT(60) DEF MgmtOutstanding
    <2>2. Cardinality(MgmtOutstanding(g)) \in Nat /\ Cardinality(MgmtOutstanding(g)) # 0
      BY <2>1, MgmtFinite, FS_CardinalityType, FS_EmptySet, ZenonT(60)
    <2> QED
      BY <1>1, <2>1, <2>2 DEF IInv, MgmtCounted
  <1>5. /\ iter' \in IterType /\ sgroup' \in [Groups -> SgroupType]
        /\ MachineInv' /\ QuietInv'
        /\ iter'.todo = iter.todo
        /\ \A h \in Groups \ {g} : sgroup'[h] = sgroup[h]
        /\ sgroup'[g].mgmt_io_outstanding = count
        /\ \A h \in Groups : sgroup'[h].num_ns = sgroup[h].num_ns
        /\ \A h \in Groups : \/ sgroup'[h].state = sgroup[h].state
                             \/ sgroup[h].state = "PAUSING" /\ sgroup'[h].state = "PAUSED"
    <2>1. count \in Int /\ (sgroup[g].state = "PAUSED" => count = 0)
      BY <1>1, <1>4 DEF IInv, QuietInv
    <2> HIDE DEF count, nsi, g
    <2> QED
      BY <1>1, <1>2, <1>3, <2>1, GroupCountsFacts, ZenonT(60) DEF IInv
  <1>6. /\ ns_info' \in [Groups -> [Nsids -> NsInfoType]]
        /\ \A h \in Groups : \A n \in Nsids : ns_info'[h][n].state = ns_info[h][n].state
    <2>1. /\ nsi \in [Nsids -> NsInfoType]
          /\ \A n \in Nsids : nsi[n].state = ns_info[g][n].state
      <3> DEFINE counted == WithCount(ns_info[g], k.nsid, ns_info[g][k.nsid].io_outstanding - 1)
      <3>1. ns_info[g] \in [Nsids -> NsInfoType]
        BY <1>1, ZenonT(60) DEF TypeOK
      <3>2. /\ counted \in [Nsids -> NsInfoType]
            /\ \A n \in Nsids : counted[n].state = ns_info[g][n].state
        <4> DEFINE f == ns_info[g]
                   n == k.nsid
                   v == f[n].io_outstanding - 1
        <4>1. f \in [Nsids -> NsInfoType] /\ (n \in Nsids => v \in Int)
          BY <3>1 DEF NsInfoType
        <4> HIDE DEF g, k, counted, f, n, v
        <4>2. /\ WithCount(f, n, v) \in [Nsids -> NsInfoType]
              /\ \A m \in Nsids : WithCount(f, n, v)[m].state = f[m].state
          BY <4>1, CountIoFacts
        <4>3. WithCount(f, n, v) = counted /\ f = ns_info[g]
          BY ZenonT(60) DEF counted, f, n, v
        <4> QED
          BY <4>2, <4>3, ZenonT(60)
      <3> HIDE DEF counted
      <3>3. nsi = IF k.cls = "io" /\ k.nsid \in 1 .. sgroup[g].num_ns THEN counted ELSE ns_info[g]
        BY ZenonT(60) DEF counted, WithCount
      <3> QED
        BY <3>1, <3>2, <3>3, ZenonT(60)
    <2> HIDE DEF nsi
    <2> QED
      BY <1>1, <1>2, <2>1, ZenonT(60) DEF TypeOK
  <1> HIDE DEF nsi, count, last
  <1>7. /\ req' \in [Requests -> ReqType]
        /\ \A x \in Requests : IF x = r \/ (last /\ QpairOf[x] = q)
                               THEN req'[x].st = "free" /\ req'[x].cls = "mgmt"
                               ELSE req'[x] = req[x]
    BY <1>1, <1>2 DEF TypeOK, ReqType, FreeReq, MgmtClasses
  <1>8. /\ qpair' \in [Qpairs -> QpairType]
        /\ \A p \in Qpairs \ {q} : qpair'[p] = qpair[p]
        /\ last => qpair'[q].state = "GONE"
        /\ ~last => qpair'[q].state \in {qpair[q].state, "ENABLED"}
    BY <1>1, <1>2 DEF TypeOK, QpairType
  <1>9. TypeOK'
    BY <1>1, <1>2, <1>5, <1>6, <1>7, <1>8, ZenonT(60) DEF TypeOK
  <1>10. NsInv'
    BY <1>5, <1>6, NsKept, ZenonT(60) DEF IInv
  <1>11. RequestInv'
    BY <1>1, <1>2, <1>7, <1>8 DEF IInv, RequestInv, IoClasses
  <1>12. QueueInv'
    BY <1>2, <1>5, <1>7 DEF IInv, QueueInv
  <1>13. DeactivatingIsBusy'
    <2> SUFFICES ASSUME NEW p \in Qpairs, qpair'[p].state = "DEACTIVATING"
                 PROVE  \E x \in Outstanding(p)' : req'[x].cls # "aer"
      BY ZenonT(60) DEF DeactivatingIsBusy
    <2>1. CASE p # q
      BY <1>7, <1>8, <2>1 DEF IInv, DeactivatingIsBusy, Outstanding, OnQpair
    <2>2. CASE p = q
      <3>1. ~last /\ qpair[q].state = "DEACTIVATING"
        BY <1>8, <2>2, ZenonT(60)
      <3>2. PICK x \in Outstanding(q) : x # r
        BY <1>1, <1>2, <3>1, ZenonT(60) DEF last, Outstanding
      <3>3. x \in Requests /\ req[x].st = "outstanding" /\ QpairOf[x] = q
        BY <3>2, ZenonT(60) DEF Outstanding, OnQpair
      <3>4. req[x].cls # "aer"
        BY <3>1, <3>3, ZenonT(60) DEF IInv, RequestInv
      <3> QED
        BY <1>7, <2>2, <3>1, <3>2, <3>3, <3>4, ZenonT(60) DEF Outstanding, OnQpair
    <2> QED
      BY <2>1, <2>2, ZenonT(60)
  <1>14. MgmtCounted'
    <2>1. \A h \in Groups \ {g} : MgmtOutstanding(h)' = MgmtOutstanding(h)
      BY <1>1, <1>7, ZenonT(60) DEF MgmtOutstanding, OnGroup
    <2>2. MgmtOutstanding(g)' = MgmtOutstanding(g) \ {r}
      <3>1. \A x \in Requests : last /\ QpairOf[x] = q /\ x # r => req[x].st # "outstanding"
        BY ZenonT(60) DEF last, Outstanding, OnQpair
      <3> QED
        BY <1>7, <3>1, ZenonT(60) DEF MgmtOutstanding, OnGroup
    <2>3. Cardinality(MgmtOutstanding(g) \ {r})
            = IF r \in MgmtOutstanding(g) THEN Cardinality(MgmtOutstanding(g)) - 1
              ELSE Cardinality(MgmtOutstanding(g))
      BY MgmtFinite, FS_RemoveElement, ZenonT(60)
    <2>4. r \in MgmtOutstanding(g) <=> k.cls \in {"mgmt", "connect"}
      BY <1>4, ZenonT(60) DEF MgmtOutstanding
    <2>5. sgroup'[g].mgmt_io_outstanding = Cardinality(MgmtOutstanding(g)')
      BY <1>1, <1>5, <2>2, <2>3, <2>4, ZenonT(60) DEF IInv, MgmtCounted, count
    <2>6. \A h \in Groups \ {g} : sgroup'[h].mgmt_io_outstanding = Cardinality(MgmtOutstanding(h)')
      BY <1>5, <2>1, ZenonT(60) DEF IInv, MgmtCounted
    <2> QED
      BY <2>5, <2>6, ZenonT(60) DEF MgmtCounted
  <1> QED
    BY <1>5, <1>9, <1>10, <1>11, <1>12, <1>13, <1>14, ZenonT(60) DEF IInv

-----------------------------------------------------------------------------
(***************************************************************************)
(* The proof that resuming a poll group, with the requests queued on it,   *)
(* keeps the inductive invariant of SubsystemPause.                        *)
(***************************************************************************)

(***************************************************************************)
(* An asynchronous event request waiting on a paused group belongs to a    *)
(* queue pair that is not being disconnected: such a queue pair would have *)
(* an admin command outstanding, and a paused group has none.              *)
(***************************************************************************)
LEMMA QueuedAerActive ==
  ASSUME IInv, NEW g \in Groups, sgroup[g].state = "PAUSED",
         NEW r \in Queued(g), req[r].cls = "aer"
  PROVE  Active(QpairOf[r])
  <1> DEFINE q == QpairOf[r]
  <1> USE TopologyAssumption
  <1>1. r \in Requests /\ q \in Qpairs /\ GroupOf[q] = g /\ req[r].st = "queued" /\ TypeOK
    BY ZenonT(60) DEF Queued, OnGroup, IInv
  <1>2. q \in AdminQpairs /\ qpair[q].state # "GONE"
    BY <1>1, ZenonT(60) DEF IInv, RequestInv
  <1>3. MgmtOutstanding(g) = {}
    <2>1. Cardinality(MgmtOutstanding(g)) = 0
      BY ZenonT(60) DEF IInv, QuietInv, MgmtCounted
    <2> QED
      BY <2>1, MgmtFinite, FS_EmptySet, ZenonT(60)
  <1>4. ASSUME qpair[q].state = "DEACTIVATING" PROVE FALSE
    <2>1. PICK x \in Outstanding(q) : req[x].cls # "aer"
      BY <1>1, <1>4, ZenonT(60) DEF IInv, DeactivatingIsBusy
    <2>2. x \in Requests /\ QpairOf[x] = q /\ req[x].st = "outstanding"
      BY <2>1, ZenonT(60) DEF Outstanding, OnQpair
    <2>3. req[x].cls \in {"mgmt", "connect"}
      <3>1. req[x].cls \in MgmtClasses \cup IoClasses
        BY <1>1, <2>2, ZenonT(60) DEF TypeOK, ReqType
      <3> QED
        BY <1>2, <2>1, <2>2, <3>1, ZenonT(60) DEF IInv, RequestInv, MgmtClasses
    <2> QED
      BY <1>1, <1>3, <2>2, <2>3, ZenonT(60) DEF MgmtOutstanding, OnGroup
  <1> QED
    BY <1>1, <1>2, <1>4, ZenonT(60) DEF Active, TypeOK, QpairType

(***************************************************************************)
(* The local definitions of nvmf_poll_group_resume_subsystem.              *)
(***************************************************************************)
ResumedGroup(g) == [sgroup[g] EXCEPT !.state = "ACTIVE"]
Updated(g) == poll_group_update_subsystem(ns_info[g], MaxNsid)
ResumedNs(g) == [n \in Nsids |-> [Updated(g)[n] EXCEPT !.state = "ACTIVE"]]
OutcomeOf(g, r) == Exec(QpairOf[r], req[r], ResumedGroup(g), ResumedNs(g))
Started(g) == {r \in Queued(g) : CountsMgmt(req[r], OutcomeOf(g, r))}
StartedIo(g, n) ==
  {r \in Queued(g) :
     req[r].nsid = n /\ CountsIo(req[r], OutcomeOf(g, r), ResumedGroup(g).num_ns)}

(***************************************************************************)
(* What resuming a group that is not already active writes, in the names   *)
(* just introduced.                                                        *)
(***************************************************************************)
LEMMA ResumeStep ==
  ASSUME NEW g \in Groups, nvmf_poll_group_resume_subsystem(g), sgroup[g].state # "ACTIVE"
  PROVE  /\ sgroup' = [sgroup EXCEPT ![g] =
                         [ResumedGroup(g) EXCEPT !.mgmt_io_outstanding =
                            @ + Cardinality(Started(g))]]
         /\ ns_info' = [ns_info EXCEPT ![g] = [n \in Nsids |->
                          [ResumedNs(g)[n] EXCEPT !.io_outstanding =
                             @ + Cardinality(StartedIo(g, n))]]]
         /\ req' = [r \in Requests |->
                      IF r \notin Queued(g) THEN req[r]
                      ELSE IF OutcomeOf(g, r) = "refused" THEN FreeReq
                      ELSE [req[r] EXCEPT !.st = OutcomeOf(g, r)]]
  BY ZenonT(60) DEF nvmf_poll_group_resume_subsystem, ResumedGroup, Updated, ResumedNs, OutcomeOf,
         Started, StartedIo

(***************************************************************************)
(* A group is resumed: none of its queued requests is queued again, and    *)
(* the counter follows those that start.                                   *)
(***************************************************************************)
LEMMA ResumeIInv ==
  ASSUME IInv, NEW g \in Groups, nvmf_poll_group_resume_subsystem(g)
  PROVE  IInv'
  <1> DEFINE sg == ResumedGroup(g)
             nsi == ResumedNs(g)
             Outcome(r) == OutcomeOf(g, r)
             A == Started(g)
             io(n) == StartedIo(g, n)
  <1> USE TopologyAssumption, ChangesAssumption
  <1>1. /\ Visiting(g, "ACTIVE") /\ state = "RESUMING" /\ Visited(g, "visit")
        /\ UNCHANGED <<state, ns, state_changes, qpair>>
        /\ TypeOK /\ MachineInv /\ sgroup[g] \in SgroupType
        /\ sgroup \in [Groups -> SgroupType] /\ ns_info \in [Groups -> [Nsids -> NsInfoType]]
        /\ req \in [Requests -> ReqType]
    BY ZenonT(60) DEF nvmf_poll_group_resume_subsystem, IInv, TypeOK
  <1>2. /\ iter' \in IterType /\ iter'.phase = "visit" /\ iter'.todo = iter.todo \ {g}
        /\ iter'.requested = iter.requested /\ iter'.original = iter.original
        /\ iter'.revert = iter.revert
    BY <1>1, VisitedFacts, ZenonT(60)
  <1>3. CASE sgroup[g].state = "ACTIVE"
    <2>1. UNCHANGED <<sgroup, ns_info, req>>
      BY <1>3, ZenonT(60) DEF nvmf_poll_group_resume_subsystem
    <2>2. TypeOK'
      BY <1>1, <1>2, <2>1, ZenonT(60) DEF TypeOK
    <2>3. MachineInv'
      BY <1>1, <1>2, <1>3, <2>1, ZenonT(60) DEF Visiting, MachineInv, IterMatches, GroupMatches
    <2>4. QueueInv'
      BY <1>1, <2>1, ZenonT(60) DEF IInv, QueueInv
    <2> QED
      BY <1>1, <2>1, <2>2, <2>3, <2>4, DriverFrame, ZenonT(60) DEF IInv
  <1>4. CASE sgroup[g].state # "ACTIVE"
    <2>1. sgroup[g].state = "PAUSED" /\ sgroup[g].num_ns = MaxNsid
      BY <1>1, <1>4, ZenonT(60) DEF IInv, MachineInv, GroupMatches, NsInv
    <2>2. /\ sgroup' = [sgroup EXCEPT ![g] =
                          [sg EXCEPT !.mgmt_io_outstanding = @ + Cardinality(A)]]
          /\ ns_info' = [ns_info EXCEPT ![g] = [n \in Nsids |->
                          [nsi[n] EXCEPT !.io_outstanding = @ + Cardinality(io(n))]]]
          /\ req' = [r \in Requests |->
                       IF r \notin Queued(g) THEN req[r]
                       ELSE IF Outcome(r) = "refused" THEN FreeReq
                       ELSE [req[r] EXCEPT !.st = Outcome(r)]]
      BY <1>4, ResumeStep, ZenonT(60)
    <2>3. \A n \in Nsids : Updated(g)[n] \in NsInfoType
      BY <1>1, UpdateFacts DEF Updated
    <2>4. \A n \in Nsids : nsi[n] \in NsInfoType /\ nsi[n].state = "ACTIVE"
      BY <2>3, NsStateSet, ZenonT(60) DEF ResumedNs
    <2> HIDE DEF nsi
    <2>5. /\ sg \in SgroupType /\ sg.state = "ACTIVE" /\ sg.num_ns = MaxNsid
          /\ sg.mgmt_io_outstanding = sgroup[g].mgmt_io_outstanding
          /\ sg.cb_fn = sgroup[g].cb_fn
      BY <1>1, <2>1, ZenonT(60) DEF SgroupType, ResumedGroup
    <2> HIDE DEF sg
    <2>6. \A r \in Queued(g) : r \in Requests /\ req[r].st = "queued" /\ r \in OnGroup(g)
      BY ZenonT(60) DEF Queued, OnGroup
    <2>7. \A r \in Queued(g) : Outcome(r) \in {"refused", "outstanding"}
      <3> TAKE r \in Queued(g)
      <3>1. CASE req[r].cls \in MgmtClasses
        BY <1>1, <2>5, <3>1, ZenonT(60) DEF OutcomeOf, Exec, ExecMgmt, NotReady, sg
      <3>2. CASE req[r].cls \notin MgmtClasses
        BY <2>4, <2>5, <3>2, ZenonT(60) DEF OutcomeOf, Exec, ExecIo, Nsids, sg, nsi
      <3> QED
        BY <3>1, <3>2, ZenonT(60)
    <2>8. \A r \in Queued(g) : req[r].cls = "aer" => Active(QpairOf[r])
      BY <2>1, QueuedAerActive, ZenonT(60)
    <2>9. \A r \in Queued(g) :
            CountsMgmt(req[r], Outcome(r)) <=>
              Outcome(r) = "outstanding" /\ req[r].cls \in {"mgmt", "connect"}
      <3> TAKE r \in Queued(g)
      <3>1. req[r].cls = "aer" => Outcome(r) = "outstanding"
        BY <1>1, <2>5, <2>8, ZenonT(60) DEF OutcomeOf, Exec, ExecMgmt, MgmtClasses, sg
      <3> QED
        BY <3>1, ZenonT(60) DEF CountsMgmt
    <2>10. \A n : IsFiniteSet(io(n))
      <3> TAKE n
      <3>1. io(n) \subseteq Requests
        BY <2>6, ZenonT(60) DEF StartedIo
      <3> QED
        BY <3>1, FS_Subset, ZenonT(60)
    <2>11. \A n : Cardinality(io(n)) \in Nat
      BY <2>10, FS_CardinalityType, ZenonT(60)
    <2>12. A \in SUBSET Requests /\ Cardinality(A) \in Nat
      <3>1. A \in SUBSET Requests
        BY <2>6, ZenonT(60) DEF Started
      <3> QED
        BY <3>1, FS_Subset, FS_CardinalityType, ZenonT(60)
    <2>13. \A r \in Requests :
             /\ r \notin Queued(g) => req'[r] = req[r]
             /\ r \in Queued(g) => /\ req'[r] \in ReqType
                                   /\ Outcome(r) = "refused" =>
                                        req'[r].st = "free" /\ req'[r].cls = "mgmt"
                                   /\ Outcome(r) = "outstanding" =>
                                        /\ req'[r].st = "outstanding"
                                        /\ req'[r].cls = req[r].cls
      <3> HIDE DEF Outcome
      <3>1. FreeReq \in ReqType /\ FreeReq.st = "free" /\ FreeReq.cls = "mgmt"
        BY DEF FreeReq, ReqType, MgmtClasses
      <3>2. \A r \in Requests :
              /\ [req[r] EXCEPT !.st = "outstanding"] \in ReqType
              /\ [req[r] EXCEPT !.st = "outstanding"].st = "outstanding"
              /\ [req[r] EXCEPT !.st = "outstanding"].cls = req[r].cls
        BY <1>1, ZenonT(60) DEF ReqType
      <3> QED
        BY <2>2, <2>7, <3>1, <3>2, ZenonT(60)
    <2> HIDE DEF Outcome
    <2>14. req' \in [Requests -> ReqType]
      <3>1. \A r \in Requests : req'[r] \in ReqType
        BY <1>1, <2>13, ZenonT(60)
      <3> QED
        BY <2>2, <3>1, ZenonT(60)
    <2> DEFINE sg2 == [sg EXCEPT !.mgmt_io_outstanding = @ + Cardinality(A)]
    <2> HIDE DEF A
    <2>15. /\ sg2 \in SgroupType /\ sg2.state = "ACTIVE" /\ sg2.num_ns = MaxNsid
           /\ sg2.mgmt_io_outstanding = sgroup[g].mgmt_io_outstanding + Cardinality(A)
           /\ sg2.cb_fn = sgroup[g].cb_fn
      BY <2>5, <2>12 DEF SgroupType
    <2>16. sgroup' = [sgroup EXCEPT ![g] = sg2]
      BY <2>2, ZenonT(60)
    <2> HIDE DEF sg2
    <2>17. /\ sgroup' \in [Groups -> SgroupType] /\ sgroup'[g] = sg2
           /\ \A h \in Groups \ {g} : sgroup'[h] = sgroup[h]
      BY <1>1, <2>15, <2>16, ZenonT(60)
    <2>18. /\ ns_info' \in [Groups -> [Nsids -> NsInfoType]]
           /\ \A n \in Nsids : ns_info'[g][n].state = "ACTIVE"
           /\ \A h \in Groups \ {g} : ns_info'[h] = ns_info[h]
      <3> DEFINE counted == [n \in Nsids |->
                               [nsi[n] EXCEPT !.io_outstanding = @ + Cardinality(io(n))]]
      <3>1. ASSUME NEW i \in NsInfoType, NEW c \in Nat
            PROVE  /\ [i EXCEPT !.io_outstanding = @ + c] \in NsInfoType
                   /\ [i EXCEPT !.io_outstanding = @ + c].state = i.state
        BY DEF NsInfoType
      <3> HIDE DEF io
      <3>2. \A n \in Nsids : counted[n] \in NsInfoType /\ counted[n].state = "ACTIVE"
        BY <2>4, <2>11, <3>1, ZenonT(60)
      <3>3. counted \in [Nsids -> NsInfoType]
        BY <3>2, ZenonT(60)
      <3>4. ns_info' = [ns_info EXCEPT ![g] = counted]
        BY <2>2, ZenonT(60)
      <3> HIDE DEF counted
      <3> QED
        BY <1>1, <3>2, <3>3, <3>4, ZenonT(60)
    <2>19. TypeOK'
      BY <1>1, <1>2, <2>14, <2>17, <2>18, ZenonT(60) DEF TypeOK
    <2>20. MachineInv'
      <3>1. IterMatches'
        BY <1>1, <1>2, ZenonT(60) DEF Visiting, MachineInv, IterMatches
      <3>2. ASSUME NEW h \in Groups
            PROVE  GroupMatches(h)' /\ (sgroup'[h].cb_fn <=> sgroup'[h].state = "PAUSING")
        <4>1. CASE h = g
          BY <1>1, <2>1, <2>15, <2>17, <4>1, ZenonT(60) DEF MachineInv, GroupMatches
        <4>2. CASE h # g
          <5>1. sgroup'[h] = sgroup[h] /\ (h \in iter'.todo <=> h \in iter.todo)
            BY <1>2, <2>17, <4>2, ZenonT(60)
          <5> QED
            BY <1>1, <1>2, <5>1, ZenonT(60) DEF Visiting, MachineInv, GroupMatches
        <4> QED
          BY <4>1, <4>2, ZenonT(60)
      <3>3. /\ iter'.phase # "idle" => state_changes' # <<>>
            /\ iter'.phase \in {"wait", "remove"} => iter'.at \in Groups \ iter'.todo
        BY <1>1, <1>2, ZenonT(60) DEF Visiting, MachineInv
      <3> QED
        BY <3>1, <3>2, <3>3, ZenonT(60) DEF MachineInv
    <2>21. NsInv'
      <3> SUFFICES ASSUME NEW h \in Groups
                   PROVE  /\ sgroup'[h].state # "INACTIVE" => sgroup'[h].num_ns = MaxNsid
                          /\ sgroup'[h].state = "ACTIVE" =>
                               \A n \in Nsids : ns_info'[h][n].state = "ACTIVE"
        BY ZenonT(60) DEF NsInv
      <3>1. CASE h = g
        BY <2>15, <2>17, <2>18, <3>1, ZenonT(60)
      <3>2. CASE h # g
        <4>1. sgroup'[h] = sgroup[h] /\ ns_info'[h] = ns_info[h]
          BY <2>17, <2>18, <3>2, ZenonT(60)
        <4> QED
          BY <4>1, ZenonT(60) DEF IInv, NsInv
      <3> QED
        BY <3>1, <3>2, ZenonT(60)
    <2>22. RequestInv'
      <3> SUFFICES ASSUME NEW r \in Requests
                   PROVE  /\ req'[r].cls = "aer" => QpairOf[r] \in AdminQpairs
                          /\ req'[r].cls \in IoClasses => QpairOf[r] \notin AdminQpairs
                          /\ req'[r].st # "free" => qpair[QpairOf[r]].state # "GONE"
                          /\ req'[r].st = "outstanding" /\ req'[r].cls = "aer" =>
                               qpair[QpairOf[r]].state # "DEACTIVATING"
        BY <1>1, ZenonT(60) DEF RequestInv
      <3>1. CASE r \notin Queued(g)
        BY <2>13, <3>1, ZenonT(60) DEF IInv, RequestInv
      <3>2. CASE r \in Queued(g) /\ Outcome(r) = "refused"
        BY <2>13, <3>2, ZenonT(60) DEF IoClasses
      <3>3. CASE r \in Queued(g) /\ Outcome(r) = "outstanding"
        BY <2>6, <2>8, <2>13, <3>3, ZenonT(60) DEF IInv, RequestInv, Active
      <3> QED
        BY <2>7, <3>1, <3>2, <3>3, ZenonT(60)
    <2>23. QueueInv'
      <3> SUFFICES ASSUME NEW r \in Requests, req'[r].st = "queued"
                   PROVE  sgroup'[GroupOf[QpairOf[r]]].state # "ACTIVE"
        BY ZenonT(60) DEF QueueInv
      <3>1. req[r].st = "queued" /\ r \notin Queued(g)
        BY <2>7, <2>13, ZenonT(60)
      <3>2. GroupOf[QpairOf[r]] \in Groups \ {g}
        BY <3>1, ZenonT(60) DEF Queued, OnGroup
      <3> QED
        BY <1>1, <2>17, <3>1, <3>2, ZenonT(60) DEF IInv, QueueInv
    <2>24. QuietInv'
      BY <2>15, <2>17, ZenonT(60) DEF IInv, QuietInv
    <2>25. DeactivatingIsBusy'
      BY <1>1, <2>6, <2>13, BusyKept, ZenonT(60) DEF IInv
    <2>26. MgmtCounted'
      <3>1. \A h \in Groups \ {g} : MgmtOutstanding(h)' = MgmtOutstanding(h)
        BY <2>6, <2>13, ZenonT(60) DEF MgmtOutstanding, OnGroup
      <3>2. MgmtOutstanding(g) \cap A = {}
        BY <2>6, ZenonT(60) DEF MgmtOutstanding, OnGroup, A, Started
      <3>3. MgmtOutstanding(g)' = MgmtOutstanding(g) \cup A
        <4>1. \A r \in Queued(g) : r \in A <=> r \in MgmtOutstanding(g)'
          BY <2>6, <2>7, <2>9, <2>13, ZenonT(60) DEF MgmtOutstanding, A, Started, Outcome
        <4>2. \A r \in Queued(g) : r \notin MgmtOutstanding(g)
          BY <2>6, ZenonT(60) DEF MgmtOutstanding
        <4>3. \A r \in Requests \ Queued(g) :
                r \notin A /\ (r \in MgmtOutstanding(g) <=> r \in MgmtOutstanding(g)')
          BY <2>13, ZenonT(60) DEF MgmtOutstanding, A, Started
        <4> QED
          BY <2>6, <2>12, <4>1, <4>2, <4>3, ZenonT(60) DEF MgmtOutstanding, OnGroup
      <3> QED
        BY <1>1, <2>12, <2>15, <2>17, <3>1, <3>2, <3>3, CountsFollow, ZenonT(60) DEF IInv
    <2> QED
      BY <2>19, <2>20, <2>21, <2>22, <2>23, <2>24, <2>25, <2>26, ZenonT(60) DEF IInv
  <1> QED
    BY <1>3, <1>4, ZenonT(60)

-----------------------------------------------------------------------------
(***************************************************************************)
(* The theorems.                                                           *)
(***************************************************************************)

(***************************************************************************)
(* Every step keeps the invariant.                                         *)
(***************************************************************************)
LEMMA NextIInv == IInv /\ [Next]_vars => IInv'
  <1> SUFFICES ASSUME IInv, [Next]_vars PROVE IInv'
    BY ZenonT(60)
  <1>1. ASSUME NEW g \in Groups, GroupStep(g) PROVE IInv'
    BY <1>1, PauseIInv, ResumeIInv, AddIInv, RemoveIInv, ResumeFailsIInv, ZenonT(60) DEF GroupStep
  <1>2. CASE UNCHANGED vars
    <2>1. TypeOK' /\ MachineInv' /\ QueueInv'
      BY <1>2, ZenonT(60) DEF vars, IInv, TypeOK, MachineInv, IterMatches, GroupMatches, QueueInv
    <2> QED
      BY <1>2, <2>1, DriverFrame, ZenonT(60) DEF vars, IInv
  <1> QED
    BY <1>1, <1>2, ExecIInv, CompleteIInv, QpairIInv, StateChangeIInv, DoStateChangeIInv,
       ChangeDoneIInv, ChangeFailedIInv, ZenonT(60) DEF Next

(***************************************************************************)
(* The inductive invariant holds of every behaviour, whatever the state    *)
(* changes asked for and whichever channels fail.                          *)
(***************************************************************************)
THEOREM Invariance == Spec => []IInv
  BY InitIInv, NextIInv, PTL DEF Spec

(***************************************************************************)
(* mgmt_io_outstanding is exact: a pause waits for every admin and fabrics *)
(* command, and for nothing that has already ended.                        *)
(***************************************************************************)
THEOREM MgmtCountedHolds == Spec => []MgmtCounted
  <1>1. IInv => MgmtCounted
    BY ZenonT(60) DEF IInv
  <1> QED
    BY <1>1, Invariance, PTL

(***************************************************************************)
(* A paused subsystem has no admin or fabrics command executing.           *)
(***************************************************************************)
THEOREM PausedMeansQuietHolds == Spec => []PausedMeansQuiet
  <1>1. IInv => PausedMeansQuiet
    <2> SUFFICES ASSUME IInv, state = "PAUSED", NEW g \in Groups
                 PROVE  sgroup[g].state = "PAUSED" /\ MgmtOutstanding(g) = {}
      BY ZenonT(60) DEF PausedMeansQuiet
    <2>1. sgroup[g].state = "PAUSED"
      BY ZenonT(60) DEF IInv, MachineInv, GroupMatches
    <2>2. Cardinality(MgmtOutstanding(g)) = 0
      BY <2>1, ZenonT(60) DEF IInv, QuietInv, MgmtCounted
    <2> QED
      BY <2>1, <2>2, MgmtFinite, FS_EmptySet, ZenonT(60)
  <1> QED
    BY <1>1, Invariance, PTL

(***************************************************************************)
(* No request is left behind in a queue by the resume of the subsystem.    *)
(***************************************************************************)
THEOREM ActiveReleasesQueueHolds == Spec => []ActiveReleasesQueue
  <1>1. IInv => ActiveReleasesQueue
    BY TopologyAssumption, ZenonT(60) DEF IInv, ActiveReleasesQueue, QueueInv, MachineInv, GroupMatches
  <1> QED
    BY <1>1, Invariance, PTL

(***************************************************************************)
(* A queue pair being disconnected always has a request that will destroy  *)
(* it when it completes.                                                   *)
(***************************************************************************)
THEOREM DeactivatingIsBusyHolds == Spec => []DeactivatingIsBusy
  <1>1. IInv => DeactivatingIsBusy
    BY ZenonT(60) DEF IInv
  <1> QED
    BY <1>1, Invariance, PTL

(***************************************************************************)
(* The pause callback is stored by the group the pause waits for and by no *)
(* other.                                                                  *)
(***************************************************************************)
THEOREM OneWaitingGroupHolds == Spec => []OneWaitingGroup
  <1>1. IInv => OneWaitingGroup
    <2> SUFFICES ASSUME IInv, NEW g \in Groups
                 PROVE  /\ sgroup[g].cb_fn <=> sgroup[g].state = "PAUSING"
                        /\ sgroup[g].state = "PAUSING" <=> (iter.phase = "wait" /\ iter.at = g)
      BY ZenonT(60) DEF OneWaitingGroup, IInv, MachineInv
    <2>1. sgroup[g].cb_fn <=> sgroup[g].state = "PAUSING"
      BY ZenonT(60) DEF IInv, MachineInv
    <2>2. sgroup[g].state = "PAUSING" => iter.phase = "wait" /\ iter.at = g
      BY ZenonT(60) DEF IInv, MachineInv, GroupMatches, TypeOK, SubsystemStates
    <2>3. iter.phase = "wait" => state = "PAUSING"
      BY ZenonT(60) DEF IInv, MachineInv, IterMatches, TypeOK, SubsystemStates
    <2>4. iter.phase = "wait" /\ iter.at = g => sgroup[g].state = "PAUSING"
      BY <2>3, ZenonT(60) DEF IInv, MachineInv, GroupMatches
    <2> QED
      BY <2>1, <2>2, <2>4, ZenonT(60)
  <1> QED
    BY <1>1, Invariance, PTL
=============================================================================

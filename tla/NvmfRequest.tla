---------------------------- MODULE NvmfRequest ----------------------------
(***************************************************************************)
(* What the transport may rely on after spdk_nvmf_request_exec             *)
(* (lib/nvmf/ctrlr.c): a request is completed at once by the handler's     *)
(* SPDK_NVMF_REQUEST_EXEC_STATUS_COMPLETE, or later by exactly one call of *)
(* spdk_nvmf_request_complete, and its status is final from then on.       *)
(* Several requests may move in one step: the completion of one I/O calls  *)
(* back requests that were waiting for a descriptor.                       *)
(***************************************************************************)
CONSTANTS Reqs, Statuses

VARIABLES
  st,  \* st[r]: "idle" in the transport's pool, "exec" executing, "done" completed
  sc   \* sc[r]: the status of the response

vars == <<st, sc>>

Init ==
  /\ st = [r \in Reqs |-> "idle"]
  /\ sc \in [Reqs -> Statuses]

spdk_nvmf_request_exec(r) ==
  st[r] = "idle" /\ st'[r] \in {"exec", "done"} /\ sc'[r] \in Statuses

spdk_nvmf_request_complete(r) ==
  st[r] = "exec" /\ st'[r] = "done" /\ sc'[r] \in Statuses

Executing(r) == st[r] = "exec" /\ st'[r] = "exec" /\ sc'[r] \in Statuses

Untouched(r) == st'[r] = st[r] /\ sc'[r] = sc[r]

Next ==
  /\ DOMAIN st' = Reqs /\ DOMAIN sc' = Reqs
  /\ \A r \in Reqs :
       \/ spdk_nvmf_request_exec(r)
       \/ spdk_nvmf_request_complete(r)
       \/ Executing(r)
       \/ Untouched(r)

(***************************************************************************)
(* A request the handlers keep is eventually completed.                    *)
(***************************************************************************)
Completes == \A r \in Reqs : (st[r] = "exec") ~> (st[r] = "done")

Spec == Init /\ [][Next]_vars /\ Completes
=============================================================================

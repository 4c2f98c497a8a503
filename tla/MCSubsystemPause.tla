-------------------------- MODULE MCSubsystemPause --------------------------
(***************************************************************************)
(* A controller with its admin queue pair on one poll group and an I/O     *)
(* queue pair, which also carries fabrics commands, on another.            *)
(***************************************************************************)
EXTENDS SubsystemPause, TLC

CONSTANTS g1, g2, qa, qi, a1, a2, i1, i2

MCGroupOf == qa :> g1 @@ qi :> g2
MCQpairOf == a1 :> qa @@ a2 :> qa @@ i1 :> qi @@ i2 :> qi

Ch(op, on, requested, nsid) == [op |-> op, on |-> on, requested |-> requested, nsid |-> nsid]
Remove(n) == Ch("remove", n, "PAUSED", n)
Add(n) == Ch("add", n, "PAUSED", n)
Resize(n) == Ch("resize", n, "PAUSED", 0)
Stop == Ch("stop", 0, "INACTIVE", 0)
Start == Ch("start", 0, "ACTIVE", 0)

AllChanges == {Remove(1), Add(1), Resize(1), Stop, Start, Resume}
=============================================================================

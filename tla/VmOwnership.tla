----------------------------- MODULE VmOwnership -----------------------------
(***************************************************************************)
(* What the labels of the VM pool promise, whoever writes them: a VM is    *)
(* held by at most one binding.  It is handed out free, it stays with the  *)
(* binding that got it while it is in use and while it is cleaned up, and  *)
(* it is free again before another binding gets it.  A VM that is given    *)
(* back is not taken into use again by the binding that gave it back.      *)
(* The module PoolVm implements this.                                      *)
(***************************************************************************)
CONSTANTS Vms, Bindings, None  \* None is not a binding

VARIABLES
  holder,   \* VM -> the binding that holds it, or None
  inUse     \* VM -> it has not been given back

vars == <<holder, inUse>>

Init ==
  /\ holder = [v \in Vms |-> None]
  /\ inUse = [v \in Vms |-> FALSE]

Take(v, b) ==
  /\ holder[v] = None
  /\ holder' = [holder EXCEPT ![v] = b]
  /\ inUse' = [inUse EXCEPT ![v] = TRUE]

GiveBack(v) ==
  /\ inUse[v]
  /\ inUse' = [inUse EXCEPT ![v] = FALSE]
  /\ UNCHANGED holder

(* Cleaned up, deleted, or never really used. *)
Free(v) ==
  /\ holder[v] # None
  /\ holder' = [holder EXCEPT ![v] = None]
  /\ inUse' = [inUse EXCEPT ![v] = FALSE]

Next ==
  \E v \in Vms : (\E b \in Bindings : Take(v, b)) \/ GiveBack(v) \/ Free(v)

Spec == Init /\ [][Next]_vars
=============================================================================

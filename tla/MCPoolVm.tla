------------------------------- MODULE MCPoolVm -------------------------------
(* The pool, with two bindings of one assistant, or of two. *)
EXTENDS PoolVm

CONSTANTS v1, v2, b1, b2, a1, a2

OneAssistant == {[b \in Bindings |-> a1]}
OneOrTwoAssistants ==
  OneAssistant \cup {[b \in Bindings |-> IF b = b1 THEN a1 ELSE a2]}

(* The VMs are interchangeable. *)
VmSymmetry == {[v \in Vms |-> v], [v \in Vms |-> IF v = v1 THEN v2 ELSE v1]}
=============================================================================

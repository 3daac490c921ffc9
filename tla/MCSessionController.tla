------------------------ MODULE MCSessionController ------------------------
(* Small instances of SessionController for TLC. *)
EXTENDS SessionController, TLC

CONSTANTS r1, r2

OneReconciler == {r1}
TwoReconcilers == {r1, r2}
DesktopOnly == {TRUE}
ContainerOnly == {FALSE}
AnyDesktop == BOOLEAN

(* Passes are interchangeable. *)
Symmetry == Permutations(TwoReconcilers)

(* A user waits for the answer to one request before the next, and asks for
   what the session is not yet asked to be.  Once a binding is crossed nobody
   asks for anything any more, and once all of them are a run ends: no property
   says anything of them then. *)
FewRequests ==
  /\ start # NoStart => ~stopping /\ spec.desired = "Stopped"
  /\ stopping => spec.desired = "Running"
  /\ start # NoStart \/ stopping => crossed = {}
  /\ crossed # Bindings
=============================================================================

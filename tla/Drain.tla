-------------------------------- MODULE Drain --------------------------------
(***************************************************************************)
(* Draining one assistant: admission of new work is closed by a durable    *)
(* intent, a waiter watches until nothing runs any more or a deadline has  *)
(* passed, stops the live session and opens admission again.               *)
(*                                                                         *)
(* The intent is shared by all instances of the service; a waiter lives in *)
(* the instance that started it and dies with it.  Nothing keeps two       *)
(* instances from having a waiter each.  A waiter reads the intent, waits  *)
(* for the answers of the cluster and writes back what it has read: what   *)
(* others did to the intent meanwhile is overwritten.                      *)
(*                                                                         *)
(* Abstractions: time is whether the deadline has passed; the request that *)
(* names the revision under way already and the one that does not differ   *)
(* in whether the deadline is set anew; a waiter's look at the cluster and *)
(* the write that follows it are one step; the intents of other assistants *)
(* are left out, and the retries that several writers of one map cause.    *)
(***************************************************************************)
CONSTANTS
  Instances,  \* of the service
  Pods,       \* offline Jobs that may run
  None

VARIABLES
  intent,     \* the durable intent, or None
  waiter,     \* instance -> its waiter
  session,    \* the live session: "none", "on", "stopping"
  pods,       \* offline Jobs with a running pod
  lost        \* the waiter of the intent died or was never started (ghost)

drain == <<intent, waiter, lost>>
vars == <<drain, session, pods>>

Modes == {"graceful", "force"}
Intents == [mode: Modes, state: {"draining", "stopping", "done", "failed"},
            block: BOOLEAN, late: BOOLEAN]
Waiters == [pc: {"none", "poll", "judge", "stop", "wait", "finish", "clear"},
            copy: Intents \cup {None}, past: BOOLEAN]

TypeOK ==
  /\ intent \in Intents \cup {None}
  /\ waiter \in [Instances -> Waiters]
  /\ session \in {"none", "on", "stopping"}
  /\ pods \subseteq Pods
  /\ lost \in BOOLEAN

NoWaiter == [pc |-> "none", copy |-> None, past |-> FALSE]
At(i, pc) == waiter[i].pc = pc
Goes(i, pc) == waiter' = [waiter EXCEPT ![i] = [NoWaiter EXCEPT !.pc = pc]]

Over == intent = None \/ intent.state \in {"done", "failed"}
(* admission_blocked *)
Blocked == intent # None /\ intent.block /\ ~Over
Busy == session # "none" \/ pods # {}

-----------------------------------------------------------------------------
(* The waiter *)

(* Mutant: an instance is asked once only. *)
NeverAgain(i) == UNCHANGED <<waiter, lost>>
EnsureWaiter(i) ==
  /\ waiter' = IF At(i, "none")
                 THEN [waiter EXCEPT ![i] = [NoWaiter EXCEPT !.pc = "poll"]]
                 ELSE waiter
  /\ lost' = FALSE

Poll(i) ==
  /\ At(i, "poll")
  /\ waiter' = [waiter EXCEPT ![i] =
       IF Over THEN NoWaiter
       ELSE [pc |-> "judge", copy |-> intent, past |-> intent.late]]
  /\ UNCHANGED <<intent, session, pods, lost>>

(* What it has read is written back. *)
Judge(i) ==
  LET state == IF Busy /\ ~waiter[i].past THEN "draining" ELSE "stopping"
  IN /\ At(i, "judge")
     /\ intent' = [waiter[i].copy EXCEPT !.state = state]
     /\ Goes(i, IF state = "draining" THEN "poll" ELSE "stop")
     /\ UNCHANGED <<session, pods, lost>>

StopSession == session' = IF session = "on" THEN "stopping" ELSE session
StopLive(i) ==
  /\ At(i, "stop")
  /\ StopSession
  /\ Goes(i, "wait")
  /\ UNCHANGED <<intent, pods, lost>>

(* For a while, then it goes on whether or not something still runs. *)
WaitIdle(i) ==
  /\ At(i, "wait")
  /\ Goes(i, "finish")
  /\ UNCHANGED <<intent, session, pods, lost>>

Finish(i) ==
  /\ At(i, "finish")
  /\ IF intent = None
       THEN UNCHANGED intent /\ Goes(i, "none")
       ELSE /\ intent' = [intent EXCEPT !.state = "done", !.block = FALSE]
            /\ Goes(i, "clear")
  /\ UNCHANGED <<session, pods, lost>>

(* Whatever is there by then. *)
Clear(i) ==
  /\ At(i, "clear")
  /\ intent' = None
  /\ Goes(i, "none")
  /\ UNCHANGED <<session, pods, lost>>

WaiterNext(i) ==
  Poll(i) \/ Judge(i) \/ StopLive(i) \/ WaitIdle(i) \/ Finish(i) \/ Clear(i)

(* A call fails.  The failure is noted on the intent, if that succeeds. *)
WaiterFails(i) ==
  /\ ~At(i, "none")
  /\ Goes(i, "none")
  /\ \/ /\ intent' = IF intent = None THEN None
                     ELSE [intent EXCEPT !.state = "failed", !.block = FALSE]
        /\ UNCHANGED lost
     \/ UNCHANGED intent /\ lost' = TRUE
  /\ UNCHANGED <<session, pods>>

Recycle(i) ==
  /\ ~At(i, "none")
  /\ Goes(i, "none")
  /\ lost' = TRUE
  /\ UNCHANGED <<intent, session, pods>>

-----------------------------------------------------------------------------
(* Requests *)

Armed(mode) ==
  [mode |-> mode, state |-> IF mode = "graceful" THEN "draining" ELSE "stopping",
   block |-> TRUE, late |-> FALSE]

(* The revision is under way already. *)
Repeat(i) ==
  /\ Blocked
  /\ EnsureWaiter(i)
  /\ UNCHANGED <<intent, session, pods>>

(* Which intent a request writes: the one under way with a new deadline, or a
   new one. *)
Renewed(mode) ==
  IF intent # None /\ intent.block
    THEN [intent EXCEPT !.late = FALSE,
                        !.mode = IF mode = "force" THEN "force" ELSE @]
    ELSE Armed(mode)

(* One that forces may ask to leave the session alone. *)
Request(i, mode) ==
  /\ intent' = Renewed(mode)
  /\ (mode = "force" /\ StopSession) \/ UNCHANGED session
  /\ EnsureWaiter(i)
  /\ UNCHANGED pods

(* Cut off after the intent was written. *)
RequestFails(i, mode) ==
  /\ intent' = Renewed(mode)
  /\ lost' = TRUE
  /\ UNCHANGED session \/ (mode = "force" /\ StopSession)
  /\ UNCHANGED <<waiter, pods>>

(* It reaches the waiter of its own instance only. *)
Cancel(i) ==
  /\ intent # None /\ intent.state # "stopping"
  /\ intent' = None
  /\ Goes(i, "none")
  /\ UNCHANGED <<session, pods, lost>>

(* An offline dispatch is turned away, and revives the drain. *)
Deferred(i) ==
  /\ Blocked
  /\ EnsureWaiter(i)
  /\ UNCHANGED <<intent, session, pods>>

-----------------------------------------------------------------------------
(* What is around it *)

SessionStarts ==
  /\ session = "none" /\ ~Blocked
  /\ session' = "on"
  /\ UNCHANGED <<drain, pods>>
SessionEnds ==
  /\ session # "none"
  /\ session' = "none"
  /\ UNCHANGED <<drain, pods>>

PodsChange ==
  /\ pods' \in SUBSET Pods /\ pods' # pods
  /\ UNCHANGED <<drain, session>>

(* A waiter holds no deadline that is later. *)
DeadlinePasses ==
  /\ intent # None /\ ~intent.late
  /\ intent' = [intent EXCEPT !.late = TRUE]
  /\ waiter' = [i \in Instances |-> IF waiter[i].copy = None THEN waiter[i]
                                    ELSE [waiter[i] EXCEPT !.copy.late = TRUE]]
  /\ UNCHANGED <<session, pods, lost>>

Init ==
  /\ intent = None /\ waiter = [i \in Instances |-> NoWaiter]
  /\ session \in {"none", "on"} /\ pods = {} /\ lost = FALSE

Next ==
  \/ \E i \in Instances :
       \/ WaiterNext(i) \/ WaiterFails(i) \/ Recycle(i)
       \/ Repeat(i) \/ Cancel(i) \/ Deferred(i)
       \/ \E mode \in Modes : Request(i, mode) \/ RequestFails(i, mode)
  \/ SessionStarts \/ SessionEnds \/ PodsChange \/ DeadlinePasses

Spec == Init /\ [][Next]_vars

-----------------------------------------------------------------------------
(* Properties *)

(* An intent that blocks admission has a waiter that will lift it, whatever
   requests, cancellations and waiters of several instances do to it at once;
   one that has lost it gets one from the next request or the next dispatch
   that is turned away (_ensure_waiter). *)
BlockedIsDriven ==
  Blocked => lost \/ \E i \in Instances : ~At(i, "none")
=============================================================================

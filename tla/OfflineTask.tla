----------------------------- MODULE OfflineTask -----------------------------
(***************************************************************************)
(* Offline tasks: the occurrences of one scheduled task, and explicit      *)
(* requests for it, are each executed by a Kubernetes Job.                 *)
(*                                                                         *)
(* A dispatch names its run by a key that every delivery of the same       *)
(* occurrence shares, creates or adopts the row of that run, looks at the  *)
(* Job the row names, and launches a Job whose name is a function of the   *)
(* key and the number of the retry.  Rows are patched without a            *)
(* comparison.  The Job reports its end to the row itself; a watcher of    *)
(* the Jobs mirrors what it could not report.  A drain (module Drain)      *)
(* turns dispatches away, and a dispatch that is turned away revives it.   *)
(*                                                                         *)
(* Abstractions:                                                           *)
(*  - the rows are kept by another service: creating or adopting a row,    *)
(*    patching it, looking up the newest one and releasing rows are        *)
(*    external and atomic;                                                 *)
(*  - one task of one assistant, all runs have the same source row;        *)
(*    revisions, destinations and entrypoints do not change;               *)
(*  - the two reads of the overlap check are one step, and so are a Job    *)
(*    and its Secret;                                                      *)
(*  - a Job past its deadline and not yet killed is not told apart;        *)
(*  - the repair of the current occurrence of an offline task has no       *)
(*    effect: it calls the dispatch with an argument too few.              *)
(***************************************************************************)
EXTENDS Naturals, FiniteSets

CONSTANTS
  Scheduled,    \* occurrences of the schedule, numbered in their order
  Explicit,     \* runs that were asked for
  Callers,      \* dispatches that may be worked on at once
  Instances,    \* of the service, for the waiters of a drain
  MaxRetry,     \* bound: retries of a run
  MaxFaults,    \* bound: failed calls, recycled instances, killed pods
  MaxOps,       \* bound: what is asked for: restarts, cancellations, and starts
                \* of a live session
  None

Runs == Scheduled \cup Explicit
Attempts == 0..MaxRetry
Jobs == Runs \X Attempts

ASSUME RunsAssumption ==
  Scheduled \subseteq Nat /\ Explicit \subseteq Nat /\ Scheduled \cap Explicit = {}
ASSUME BoundsAssumption == {MaxRetry, MaxFaults, MaxOps} \subseteq Nat

VARIABLES
  row,        \* run -> its row
  newest,     \* the run whose row was created last
  current,    \* the occurrence that the schedule has come to
  due,        \* runs that have to be dispatched still
  job,        \* Job -> how it stands
  call,       \* caller -> the dispatch it works on
  mirror,     \* the watcher's call
  yielded,    \* runs that were given up for one whose Job is active
  intent, waiter, session, lost,  \* see Drain
  faults, ops \* bounded counts

rows == <<row, newest>>
drain == <<intent, waiter, lost>>
counts == <<faults, ops>>
vars == <<rows, current, due, job, call, mirror, yielded, drain, session, counts>>

Active == {x \in Jobs : job[x] = "active"}
D == INSTANCE Drain WITH pods <- Active, Pods <- Jobs

ASSUME NoneAssumption == None \notin Nat /\ None \notin D!Intents

States == {"none", "pending", "running", "completed", "failed"}
Inflight == {"pending", "running"}
Ended == {"succeeded", "failed"}
Live == {"waiting", "active"}
RowType == [state: States, job: Attempts \cup {None}, retries: Attempts]
NoRow == [state |-> "none", job |-> None, retries |-> 0]
CallSteps == {"idle", "overlap", "skip", "create", "classify", "stale", "reopen",
              "check", "launch", "note"}
CallType == [pc: CallSteps, run: Runs \cup {None}, n: Attempts,
             job: Attempts \cup {None}]
NoCall == [pc |-> "idle", run |-> None, n |-> 0, job |-> None]
MirrorType == [pc: {"idle", "update", "release"}, run: Runs \cup {None},
               outcome: {"none", "completed", "failed"}, inflight: BOOLEAN]
NoMirror == [pc |-> "idle", run |-> None, outcome |-> "none", inflight |-> FALSE]

TypeOK ==
  /\ row \in [Runs -> RowType] /\ newest \in Runs \cup {None}
  /\ current \in Scheduled \cup {None} /\ due \subseteq Runs
  /\ job \in [Jobs -> {"absent"} \cup Live \cup Ended]
  /\ yielded \subseteq Runs
  /\ call \in [Callers -> CallType] /\ mirror \in MirrorType
  /\ D!TypeOK
  /\ faults \in 0..MaxFaults /\ ops \in 0..MaxOps

-----------------------------------------------------------------------------
(* The rows, which another service keeps *)

SetState(r, state) == row' = [row EXCEPT ![r].state = state]

CreateOrAdopt(r) ==
  /\ row' = IF row[r].state = "none" THEN [row EXCEPT ![r].state = "pending"] ELSE row
  /\ newest' = IF row[r].state = "none" THEN r ELSE newest

(* Every running execution under the source, or the one of the run. *)
Release(which) ==
  row' = [r \in Runs |-> IF r \in which /\ row[r].state = "running"
                           THEN [row[r] EXCEPT !.state = "failed"] ELSE row[r]]

(* Mutant: also a run that has a row and no Job yet. *)
PendingIsFinished(r) == row[r].state \in {"completed", "pending"}
Finished(r) == row[r].state = "completed"
InflightWithJob(r) == row[r].state \in Inflight /\ row[r].job # None
JobOf(r) == <<r, row[r].job>>

-----------------------------------------------------------------------------
(* Dispatch *)

Step(c, pc) == call' = [call EXCEPT ![c].pc = pc]
Retries(c, pc, n) == call' = [call EXCEPT ![c].pc = pc, ![c].n = n]
At(c, pc) == call[c].pc = pc
(* An answer that the task queue takes for success. *)
Answer(c) ==
  /\ call' = [call EXCEPT ![c] = NoCall]
  /\ due' = due \ {call[c].run}

(* The run that executes the source, as far as the newest row tells. *)
ActiveSibling(r) ==
  /\ newest \notin {r, None}
  /\ InflightWithJob(newest)
  /\ job[JobOf(newest)] = "active"

(* Past the drain; refused because the schedule has moved on, or begun. *)
Admitted(c, r) ==
  /\ ~D!Blocked
  /\ IF r \in Scheduled /\ r # current
       THEN due' = due \ {r} /\ UNCHANGED call
       ELSE /\ call' = [call EXCEPT ![c].run = r, ![c].pc =
                 IF r \in Scheduled THEN "overlap" ELSE "create"]
            /\ UNCHANGED due
  /\ UNCHANGED <<drain, session>>

(* Mutant: who is turned away does nothing for the drain. *)
AcceptIdly(c, r) ==
  /\ UNCHANGED <<rows, current, job, mirror, yielded>>
  /\ \/ D!Blocked /\ UNCHANGED <<due, call, drain, session>>
     \/ Admitted(c, r)
(* A drain turns it away, and is revived by it. *)
Accept(c, r) ==
  /\ UNCHANGED <<rows, current, job, mirror, yielded>>
  /\ \/ /\ \E i \in Instances : D!Deferred(i)
        /\ UNCHANGED <<due, call>>
     \/ Admitted(c, r)

(* The task queue delivers at least once, until it is answered. *)
Deliver(c, r) == At(c, "idle") /\ r \in due /\ Accept(c, r) /\ UNCHANGED counts

Overlap(c) ==
  /\ At(c, "overlap")
  /\ Step(c, IF ActiveSibling(call[c].run) THEN "skip" ELSE "create")
  /\ UNCHANGED <<rows, due, job, yielded>>

Skip(c) ==
  LET r == call[c].run
  IN /\ At(c, "skip")
     /\ \/ /\ row[r].state = "none"
           /\ CreateOrAdopt(r)
           /\ UNCHANGED <<call, due, yielded>>
        \/ /\ row[r].state # "none"
           /\ SetState(r, "completed") /\ UNCHANGED newest
           /\ yielded' = yielded \cup {r}
           /\ Answer(c)
     /\ UNCHANGED job

Create(c) ==
  LET r == call[c].run
  IN /\ At(c, "create")
     /\ CreateOrAdopt(r)
     /\ \/ Finished(r) /\ Answer(c)
        \/ /\ row[r].state = "failed" /\ row[r].retries < MaxRetry
           /\ Retries(c, "reopen", row[r].retries + 1) /\ UNCHANGED due
        \/ /\ InflightWithJob(r)
           /\ call' = [call EXCEPT ![c].pc = "classify", ![c].n = row[r].retries,
                                   ![c].job = row[r].job]
           /\ UNCHANGED due
        \/ /\ ~Finished(r) /\ row[r].state # "failed" /\ ~InflightWithJob(r)
           /\ Step(c, "check") /\ UNCHANGED due
     /\ UNCHANGED <<job, yielded>>

(* The row named a Job: is there still a pod of it? *)
Classify(c) ==
  LET active == job[<<call[c].run, call[c].job>>] = "active"
  IN /\ At(c, "classify")
     /\ \/ active /\ Answer(c)
        \/ /\ ~active /\ call[c].n < MaxRetry
           /\ Retries(c, "stale", call[c].n + 1) /\ UNCHANGED due
     /\ UNCHANGED <<rows, job, yielded>>

Stale(c) ==
  LET r == call[c].run
  IN /\ At(c, "stale")
     /\ row' = [row EXCEPT ![r].state = "failed", ![r].retries = call[c].n]
     /\ Step(c, "reopen")
     /\ UNCHANGED <<newest, due, job, yielded>>

Reopen(c) ==
  /\ At(c, "reopen")
  /\ Release(Runs)
  /\ Step(c, "check")
  /\ UNCHANGED <<newest, due, job, yielded>>

(* Another Job owns the source: its run is the answer. *)
Check(c) ==
  LET r == call[c].run
  IN /\ At(c, "check")
     /\ IF ActiveSibling(r)
          THEN Answer(c) /\ yielded' = yielded \cup {r}
          ELSE Step(c, "launch") /\ UNCHANGED <<due, yielded>>
     /\ UNCHANGED <<rows, job>>

(* The name of the Job tells whether another delivery was faster. *)
Launch(c) ==
  LET x == <<call[c].run, call[c].n>>
  IN /\ At(c, "launch")
     /\ IF job[x] = "absent"
          THEN /\ job' = [job EXCEPT ![x] = "waiting"]
               /\ Step(c, "note") /\ UNCHANGED due
          ELSE Answer(c) /\ UNCHANGED job
     /\ UNCHANGED <<rows, yielded>>

(* Mutant: the retry that comes next is noted. *)
NoteNext(c) ==
  LET r == call[c].run
  IN /\ At(c, "note")
     /\ row' = [row EXCEPT ![r] =
          [state |-> "running", job |-> call[c].n, retries |-> call[c].n + 1]]
     /\ Answer(c)
     /\ UNCHANGED <<newest, job, yielded>>
Note(c) ==
  LET r == call[c].run
  IN /\ At(c, "note")
     /\ row' = [row EXCEPT ![r] =
          [state |-> "running", job |-> call[c].n,
           retries |-> IF call[c].n = 0 THEN @.retries ELSE call[c].n]]
     /\ Answer(c)
     /\ UNCHANGED <<newest, job, yielded>>

Dispatch(c) ==
  /\ \/ Overlap(c) \/ Skip(c) \/ Create(c) \/ Classify(c) \/ Stale(c)
     \/ Reopen(c) \/ Check(c) \/ Launch(c) \/ Note(c)
  /\ UNCHANGED <<current, mirror, drain, session, counts>>

-----------------------------------------------------------------------------
(* The Jobs, their rows' other writers, and the schedule *)

Reports(r, state) ==
  row' = IF row[r].state \in Inflight THEN [row EXCEPT ![r].state = state] ELSE row

PodStarts(x) ==
  /\ job[x] = "waiting"
  /\ job' = [job EXCEPT ![x] = "active"]
  /\ UNCHANGED row
(* The Job may not get to say how it went. *)
JobSucceeds(x) ==
  /\ job[x] = "active"
  /\ job' = [job EXCEPT ![x] = "succeeded"]
  /\ Reports(x[1], "completed") \/ UNCHANGED row
JobFails(x) ==
  /\ job[x] \in Live
  /\ job' = [job EXCEPT ![x] = "failed"]
  /\ Reports(x[1], "failed") \/ UNCHANGED row

JobNext ==
  /\ \E x \in Jobs : PodStarts(x) \/ JobSucceeds(x) \/ JobFails(x)
  /\ UNCHANGED <<newest, current, due, call, mirror, yielded, session, drain, counts>>

Hears(x, outcome) ==
  mirror' = [pc |-> "update", run |-> x[1], outcome |-> outcome,
             inflight |-> row[x[1]].state \in Inflight]
(* Mutant: a Job that has ended has done its work. *)
EndIsSuccess ==
  /\ mirror = NoMirror
  /\ \E x \in Jobs : job[x] \in Ended /\ Hears(x, "completed")
  /\ UNCHANGED row
(* The watcher hears that a Job has ended, perhaps once more. *)
MirrorReads ==
  /\ mirror = NoMirror
  /\ \E x \in Jobs :
       \/ job[x] = "succeeded" /\ Hears(x, "completed")
       \/ job[x] = "failed" /\ Hears(x, "failed")
  /\ UNCHANGED row
MirrorWrites ==
  /\ mirror.pc = "update"
  /\ IF mirror.inflight THEN SetState(mirror.run, mirror.outcome) ELSE UNCHANGED row
  /\ mirror' = IF mirror.outcome = "failed" THEN [mirror EXCEPT !.pc = "release"]
                                            ELSE NoMirror
MirrorReleases ==
  /\ mirror.pc = "release"
  /\ Release({mirror.run})
  /\ mirror' = NoMirror
Mirror ==
  /\ MirrorReads \/ MirrorWrites \/ MirrorReleases
  /\ UNCHANGED <<newest, current, due, job, call, yielded, drain, session, counts>>

(* An assumption on the service that keeps the schedule, which is not in this
   repository: it comes to its next occurrence when one has been dispatched, and
   after an occurrence that was skipped when nothing runs any more. *)
Project ==
  /\ current \in Scheduled /\ current + 1 \in Scheduled
  /\ row[current].state \in {"running", "completed", "failed"}
  /\ current \in yielded => \A x \in Jobs : job[x] \notin Live
  /\ current' = current + 1
  /\ due' = due \cup {current + 1}
  /\ UNCHANGED <<rows, job, call, mirror, yielded, drain, session, counts>>

-----------------------------------------------------------------------------
(* Drain, and what goes wrong *)

Fault == faults < MaxFaults /\ faults' = faults + 1 /\ UNCHANGED ops
Op == ops < MaxOps /\ ops' = ops + 1 /\ UNCHANGED faults
tasks == <<rows, current, due, job, mirror, yielded>>

WaiterGoesOn(i) == UNCHANGED <<tasks, call, counts>> /\ D!WaiterNext(i)
TimePasses == UNCHANGED <<tasks, call, counts>> /\ D!DeadlinePasses
SessionEnds == UNCHANGED <<tasks, call, counts>> /\ D!SessionEnds
SessionStarts == UNCHANGED <<tasks, call>> /\ Op /\ D!SessionStarts
DrainAsked(i) ==
  /\ UNCHANGED <<tasks, call>>
  /\ Op
  /\ D!Repeat(i) \/ D!Cancel(i) \/ \E mode \in D!Modes : D!Request(i, mode)
DrainFails(i) ==
  /\ UNCHANGED <<tasks, call>>
  /\ Fault
  /\ D!WaiterFails(i) \/ \E mode \in D!Modes : D!RequestFails(i, mode)
Draining ==
  \/ \E i \in Instances : WaiterGoesOn(i) \/ DrainAsked(i) \/ DrainFails(i)
  \/ TimePasses \/ SessionStarts \/ SessionEnds

(* The task queue will deliver again. *)
CallFails(c) ==
  /\ ~At(c, "idle")
  /\ Fault
  /\ call' = [call EXCEPT ![c] = NoCall]
  /\ UNCHANGED <<tasks, drain, session>>
(* Whether the Job of the newest row is active cannot be told: the dispatch goes
   on as if it were not. *)
SiblingUnknown(c) ==
  /\ Fault
  /\ \/ At(c, "overlap") /\ Step(c, "create")
     \/ At(c, "check") /\ Step(c, "launch")
  /\ UNCHANGED <<tasks, drain, session>>
(* With the dispatches it was working on. *)
InstanceDies(i) ==
  /\ Fault
  /\ \E dead \in SUBSET Callers :
       call' = [c \in Callers |-> IF c \in dead THEN NoCall ELSE call[c]]
  /\ UNCHANGED tasks
  /\ D!Recycle(i)
(* Its Job tries again. *)
PodFails(x) ==
  /\ job[x] = "active"
  /\ Fault
  /\ job' = [job EXCEPT ![x] = "waiting"]
  /\ UNCHANGED <<rows, current, due, mirror, yielded, call, drain, session>>
MirrorFails ==
  /\ mirror # NoMirror
  /\ Fault
  /\ mirror' = NoMirror
  /\ UNCHANGED <<rows, current, due, job, yielded, call, drain, session>>
Faults ==
  \/ \E c \in Callers : CallFails(c) \/ SiblingUnknown(c)
  \/ \E i \in Instances : InstanceDies(i)
  \/ \E x \in Jobs : PodFails(x)
  \/ MirrorFails

Init ==
  /\ row = [r \in Runs |-> NoRow] /\ newest = None
  /\ \/ current = None /\ Scheduled = {}
     \/ current \in Scheduled /\ \A r \in Scheduled : current <= r
  /\ due = Explicit \cup {r \in Scheduled : r = current}
  /\ job = [x \in Jobs |-> "absent"]
  /\ call = [c \in Callers |-> NoCall] /\ mirror = NoMirror /\ yielded = {}
  /\ D!Init
  /\ faults = 0 /\ ops = 0

Next ==
  \/ \E c \in Callers :
       Dispatch(c) \/ \E r \in Runs : Deliver(c, r)
  \/ JobNext \/ Mirror \/ Project \/ Draining \/ Faults

Spec == Init /\ [][Next]_vars

(* The task queue delivers what is due, a call and a waiter go on, and time
   passes. *)
FairSpec ==
  /\ Spec
  /\ \A c \in Callers : WF_vars(Dispatch(c))
  /\ \A i \in Instances : WF_vars(WaiterGoesOn(i))
  /\ \A r \in Runs : WF_vars(\E c \in Callers : Deliver(c, r))
  /\ WF_vars(TimePasses)

-----------------------------------------------------------------------------
(* Properties *)

(* What the task queue is told is done has come to something: a Job was
   launched for the run, or the run was given up for another one whose Job was
   active (dispatch_offline_task answers success in eight places, and every
   failure between two of its calls is delivered again). *)
NothingDropped ==
  \A r \in Runs :
    \/ r \in due \/ r \in yielded
    \/ \E n \in Attempts : job[<<r, n>>] # "absent"
    \/ (r \in Scheduled /\ r > current)

(* A run is reported completed only if a Job of it has succeeded or the run was
   given up as overlapping, whoever reports it: the Job, the watcher that
   mirrors its end, perhaps late and twice, or a dispatch. *)
CompletedHasRun ==
  \A r \in Runs : row[r].state = "completed" =>
    r \in yielded \/ \E n \in Attempts : job[<<r, n>>] = "succeeded"

(* An intent that blocks admission has a waiter that will lift it, or lost it
   in a failure (_ensure_waiter). *)
BlockedIsDriven == D!BlockedIsDriven

(* A dispatch that is due is answered in the end, whichever of several instances
   it reaches: a drain whose waiter has died is revived by the very dispatches it
   turns away (_ensure_waiter in dispatch_offline_task), a failed call is
   delivered again.  The exception is the code's: waiters of two instances may go
   on for ever, each writing back the intent that the other has just lifted
   (set_drain_intent in _graceful_waiter). *)
WritesBackLifted ==
  \E i \in Instances : waiter[i].pc = "judge" /\ D!Over /\ WaiterGoesOn(i)
DueIsAnswered ==
  []<><<WritesBackLifted>>_vars \/ \A r \in Runs : r \in due ~> r \notin due
=============================================================================

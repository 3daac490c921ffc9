--------------------------- MODULE OfflineTaskProofs ---------------------------
(***************************************************************************)
(* Proofs about OfflineTask, for any runs, callers, instances and bounds:  *)
(* its type, that nothing the task queue was told is done is dropped, that *)
(* completed runs have run, that what it does to the drain is what Drain   *)
(* allows, and that a drain that blocks admission is driven.               *)
(***************************************************************************)
EXTENDS OfflineTask, TLAPS

(* The run has a Job, or was given up for another one. *)
Served(r) ==
  r \in yielded \/ \E n \in Attempts : job[<<r, n>>] # "absent"
Succeeded(r) == \E n \in Attempts : job[<<r, n>>] = "succeeded"

CallKnows ==
  \A c \in Callers :
    call[c].pc # "idle" =>
      /\ call[c].run \in Runs
      /\ call[c].pc = "note" => job[<<call[c].run, call[c].n>>] # "absent"
      /\ call[c].pc = "classify" => call[c].job \in Attempts
      /\ call[c].pc \in {"classify", "stale"} => Served(call[c].run)
RowServed ==
  \A r \in Runs :
    row[r].state \in {"running", "completed", "failed"} \/ row[r].job # None => Served(r)
MirrorKnows ==
  mirror.pc # "idle" =>
    /\ mirror.run \in Runs /\ Served(mirror.run)
    /\ mirror.outcome # "none"
    /\ mirror.outcome = "completed" => Succeeded(mirror.run)
PastServed ==
  /\ Scheduled # {} => current \in Scheduled
  /\ \A r \in Scheduled : r < current => Served(r)
JudgeHas == \A i \in Instances : waiter[i].pc = "judge" => waiter[i].copy # None
DrainOK == D!TypeOK /\ JudgeHas /\ BlockedIsDriven

TaskType ==
  /\ row \in [Runs -> RowType] /\ newest \in Runs \cup {None}
  /\ current \in Scheduled \cup {None} /\ due \subseteq Runs
  /\ job \in [Jobs -> {"absent"} \cup Live \cup Ended]
  /\ yielded \subseteq Runs
  /\ call \in [Callers -> CallType] /\ mirror \in MirrorType
CountType == faults \in 0..MaxFaults /\ ops \in 0..MaxOps

-----------------------------------------------------------------------------
(* The drain *)

dvars == <<intent, waiter, lost, session>>

(* Every step is a step of Drain, in which the Jobs with a pod change, or
   nothing does. *)
LEMMA StepIsDrain == Next => [D!Next]_(D!vars)
<1> SUFFICES ASSUME Next PROVE [D!Next]_(D!vars)
  OBVIOUS
<1>1. ASSUME UNCHANGED dvars PROVE [D!Next]_(D!vars)
  <2>1. Active' \in SUBSET Jobs
    BY DEF Active
  <2>2. CASE Active' = Active
    BY <1>1, <2>2 DEF dvars, D!vars, D!drain
  <2>3. CASE Active' # Active
    BY <1>1, <2>1, <2>3 DEF dvars, D!Next, D!PodsChange, D!drain
  <2> QED BY <2>2, <2>3
<1>2. ASSUME NEW c \in Callers, NEW r \in Runs, Accept(c, r) PROVE [D!Next]_(D!vars)
  <2>1. CASE \E i \in Instances : D!Deferred(i)
    BY <2>1 DEF D!Next
  <2>2. CASE Admitted(c, r)
    BY <2>2, <1>1 DEF Admitted, dvars, drain
  <2> QED BY <1>2, <2>1, <2>2 DEF Accept
<1>4. ASSUME NEW c \in Callers, NEW r \in Runs, Deliver(c, r) PROVE [D!Next]_(D!vars)
  BY <1>2, <1>4 DEF Deliver
<1>5. ASSUME NEW c \in Callers, Dispatch(c) PROVE [D!Next]_(D!vars)
  BY <1>1, <1>5 DEF Dispatch, dvars, drain
<1>6. CASE JobNext \/ Mirror \/ Project
  BY <1>1, <1>6 DEF JobNext, Mirror, Project, dvars, drain
<1>7. ASSUME NEW i \in Instances, WaiterGoesOn(i) \/ DrainAsked(i) \/ DrainFails(i)
      PROVE [D!Next]_(D!vars)
  <2>1. CASE WaiterGoesOn(i)
    BY <2>1 DEF WaiterGoesOn, D!Next
  <2>2. CASE DrainAsked(i)
    BY <2>2 DEF DrainAsked, D!Next
  <2>3. CASE DrainFails(i)
    BY <2>3 DEF DrainFails, D!Next
  <2> QED BY <1>7, <2>1, <2>2, <2>3
<1>8. CASE TimePasses \/ SessionStarts \/ SessionEnds
  BY <1>8 DEF TimePasses, SessionStarts, SessionEnds, D!Next
<1>9. ASSUME NEW i \in Instances, InstanceDies(i) PROVE [D!Next]_(D!vars)
  BY <1>9 DEF InstanceDies, D!Next
<1>10. ASSUME NEW c \in Callers, CallFails(c) PROVE [D!Next]_(D!vars)
  BY <1>1, <1>10 DEF CallFails, dvars, drain
<1>13. ASSUME NEW c \in Callers, SiblingUnknown(c) PROVE [D!Next]_(D!vars)
  BY <1>1, <1>13 DEF SiblingUnknown, dvars, drain
<1>11. ASSUME NEW x \in Jobs, PodFails(x) PROVE [D!Next]_(D!vars)
  BY <1>1, <1>11 DEF PodFails, dvars, drain
<1>12. CASE MirrorFails
  BY <1>1, <1>12 DEF MirrorFails, dvars, drain
<1> QED
  BY <1>4, <1>5, <1>6, <1>7, <1>8, <1>9, <1>10, <1>11, <1>12, <1>13
     DEF Next, Draining, Faults

LEMMA StutterIsDrain == UNCHANGED vars => UNCHANGED D!vars
BY DEF vars, drain, D!vars, D!drain, Active

(* The waiter of a blocking intent, through every step of the drain. *)
LEMMA DrainInv == DrainOK /\ [D!Next]_(D!vars) => DrainOK'
<1> SUFFICES ASSUME DrainOK, [D!Next]_(D!vars) PROVE DrainOK'
  OBVIOUS
<1> USE DEF DrainOK, JudgeHas, BlockedIsDriven, D!BlockedIsDriven, D!Blocked, D!At,
            D!TypeOK
<1>0. Active' \subseteq Jobs
  BY DEF Active
<1>1. ASSUME NEW i \in Instances, D!Poll(i) PROVE DrainOK'
  BY <1>0, <1>1 DEF D!Poll, D!NoWaiter, D!Waiters, D!Intents, D!Over
<1>2. ASSUME NEW i \in Instances, D!Judge(i) PROVE DrainOK'
  BY <1>0, <1>2 DEF D!Judge, D!Goes, D!NoWaiter, D!Waiters, D!Intents, D!Over
<1>3. ASSUME NEW i \in Instances, D!StopLive(i) PROVE DrainOK'
  BY <1>0, <1>3 DEF D!StopLive, D!StopSession, D!Goes, D!NoWaiter, D!Waiters
<1>4. ASSUME NEW i \in Instances, D!WaitIdle(i) PROVE DrainOK'
  BY <1>0, <1>4 DEF D!WaitIdle, D!Goes, D!NoWaiter, D!Waiters
<1>5. ASSUME NEW i \in Instances, D!Finish(i) PROVE DrainOK'
  <2>1. CASE intent = None
    BY <1>0, <1>5, <2>1 DEF D!Finish, D!Goes, D!NoWaiter, D!Waiters, D!Over
  <2>2. CASE intent # None
    <3>1. /\ intent' \in D!Intents /\ intent'.block = FALSE
      BY <1>5, <2>2 DEF D!Finish, D!Intents
    <3>2. waiter' \in [Instances -> D!Waiters] /\ waiter'[i].pc = "clear"
      <4>1. waiter' = [waiter EXCEPT ![i] = [D!NoWaiter EXCEPT !.pc = "clear"]]
        BY <1>5, <2>2 DEF D!Finish, D!Goes
      <4>2. /\ [D!NoWaiter EXCEPT !.pc = "clear"] \in D!Waiters
            /\ [D!NoWaiter EXCEPT !.pc = "clear"].pc = "clear"
        BY DEF D!NoWaiter, D!Waiters
      <4> QED BY <4>1, <4>2
    <3>3. JudgeHas'
      <4>1. waiter' = [waiter EXCEPT ![i] = [D!NoWaiter EXCEPT !.pc = "clear"]]
        BY <1>5, <2>2 DEF D!Finish, D!Goes
      <4>2. waiter'[i].pc # "judge"
        BY <3>2
      <4> QED BY <4>1, <4>2
    <3> QED BY <1>0, <1>5, <3>1, <3>2, <3>3 DEF D!Finish
  <2> QED BY <2>1, <2>2
<1>6. ASSUME NEW i \in Instances, D!Clear(i) PROVE DrainOK'
  BY <1>0, <1>6 DEF D!Clear, D!Goes, D!NoWaiter, D!Waiters, D!Over
<1>7. ASSUME NEW i \in Instances, D!WaiterFails(i) PROVE DrainOK'
  BY <1>0, <1>7 DEF D!WaiterFails, D!Goes, D!NoWaiter, D!Waiters, D!Intents, D!Over
<1>8. ASSUME NEW i \in Instances, D!Recycle(i) PROVE DrainOK'
  BY <1>0, <1>8 DEF D!Recycle, D!Goes, D!NoWaiter, D!Waiters
<1>9. ASSUME NEW i \in Instances, D!Repeat(i) PROVE DrainOK'
  BY <1>0, <1>9 DEF D!Repeat, D!EnsureWaiter, D!NoWaiter, D!Waiters
<1>10. ASSUME NEW i \in Instances, D!Cancel(i) PROVE DrainOK'
  BY <1>0, <1>10 DEF D!Cancel, D!Goes, D!NoWaiter, D!Waiters, D!Over
<1>11. ASSUME NEW i \in Instances, D!Deferred(i) PROVE DrainOK'
  BY <1>0, <1>11 DEF D!Deferred, D!EnsureWaiter, D!NoWaiter, D!Waiters
<1>12. ASSUME NEW i \in Instances, NEW mode \in D!Modes, D!Request(i, mode) PROVE DrainOK'
  BY <1>0, <1>12 DEF D!Request, D!EnsureWaiter, D!NoWaiter, D!Waiters, D!Renewed, D!Armed, D!Intents, D!Modes, D!StopSession
<1>13. ASSUME NEW i \in Instances, NEW mode \in D!Modes, D!RequestFails(i, mode) PROVE DrainOK'
  BY <1>0, <1>13 DEF D!RequestFails, D!Renewed, D!Armed, D!Intents, D!Modes, D!StopSession
<1>14. CASE D!SessionStarts
  BY <1>0, <1>14 DEF D!SessionStarts, D!drain, D!Over
<1>15. CASE D!SessionEnds
  BY <1>0, <1>15 DEF D!SessionEnds, D!drain, D!Over
<1>16. CASE D!PodsChange
  BY <1>0, <1>16 DEF D!PodsChange, D!drain, D!Over
<1>17. CASE D!DeadlinePasses
  <2>1. intent' \in D!Intents /\ D!Blocked' = D!Blocked
    <3>1. intent \in D!Intents /\ intent' = [intent EXCEPT !.late = TRUE]
      BY <1>17 DEF D!DeadlinePasses
    <3>2. /\ intent' \in D!Intents /\ intent'.state = intent.state
          /\ intent'.block = intent.block
      BY <3>1 DEF D!Intents
    <3>3. intent # None /\ intent' # None
      BY <3>1, <3>2, NoneAssumption
    <3> QED BY <3>2, <3>3 DEF D!Over
  <2>2. ASSUME NEW i \in Instances
        PROVE  /\ waiter'[i] \in D!Waiters /\ waiter'[i].pc = waiter[i].pc
               /\ waiter[i].copy # None => waiter'[i].copy # None
    <3>1. CASE waiter[i].copy = None
      BY <1>17, <3>1 DEF D!DeadlinePasses
    <3>2. CASE waiter[i].copy # None
      <4>1. waiter[i].copy \in D!Intents
        BY <3>2 DEF D!Waiters
      <4>2. waiter'[i] = [waiter[i] EXCEPT !.copy.late = TRUE]
        BY <1>17, <3>2 DEF D!DeadlinePasses
      <4>3. [waiter[i].copy EXCEPT !.late = TRUE] \in D!Intents
        BY <4>1 DEF D!Intents
      <4>4. /\ waiter'[i].copy = [waiter[i].copy EXCEPT !.late = TRUE]
            /\ waiter'[i].pc = waiter[i].pc /\ waiter'[i].past = waiter[i].past
            /\ waiter'[i] = [pc |-> waiter'[i].pc, copy |-> waiter'[i].copy,
                             past |-> waiter'[i].past]
        BY <4>2 DEF D!Waiters
      <4>5. waiter'[i] \in D!Waiters
        BY <4>3, <4>4 DEF D!Waiters
      <4> QED BY <4>3, <4>4, <4>5, NoneAssumption
    <3> QED BY <3>1, <3>2
  <2>3. waiter' \in [Instances -> D!Waiters]
    BY <1>17, <2>2 DEF D!DeadlinePasses
  <2> QED BY <1>0, <1>17, <2>1, <2>2, <2>3 DEF D!DeadlinePasses
<1>18. CASE UNCHANGED D!vars
  BY <1>0, <1>18 DEF D!vars, D!drain, D!Over
<1> QED
  BY <1>1, <1>2, <1>3, <1>4, <1>5, <1>6, <1>7, <1>8, <1>9, <1>10, <1>11, <1>12, <1>13, <1>14, <1>15, <1>16, <1>17, <1>18
     DEF D!Next, D!WaiterNext

-----------------------------------------------------------------------------
(* The runs *)

(* What happened to a run or a Job stays so. *)
Keeps ==
  /\ \A r \in Runs : (Served(r) => Served(r)') /\ (Succeeded(r) => Succeeded(r)')
  /\ \A x \in Jobs : job[x] # "absent" => job'[x] # "absent"

LEMMA KeepsSame == UNCHANGED job /\ yielded \subseteq yielded' => Keeps
BY DEF Keeps, Served, Succeeded

LEMMA KeepsOther ==
  ASSUME TaskType, NEW x \in Jobs, NEW new, job' = [job EXCEPT ![x] = new],
         UNCHANGED yielded, new # "absent", job[x] # "succeeded"
  PROVE  Keeps
<1>1. ASSUME NEW y \in Jobs
      PROVE  /\ job[y] # "absent" => job'[y] # "absent"
             /\ job[y] = "succeeded" => job'[y] = "succeeded"
  BY DEF TaskType
<1>2. \A r \in Runs, n \in Attempts : <<r, n>> \in Jobs
  BY DEF Jobs
<1> QED BY <1>1, <1>2 DEF Keeps, Served, Succeeded

(* Nothing but the counts and the drain. *)
runvars == <<row, newest, current, due, job, call, mirror, yielded>>
RunsOK ==
  /\ TaskType /\ CallKnows /\ RowServed /\ MirrorKnows /\ PastServed
  /\ CompletedHasRun /\ NothingDropped

LEMMA RunsSame == RunsOK /\ UNCHANGED runvars => RunsOK'
BY DEF RunsOK, runvars, TaskType, CallKnows, RowServed, MirrorKnows, PastServed,
       CompletedHasRun, NothingDropped, Served, Succeeded

(* What a dispatch leaves in the rows, the queue and its call. *)
RowsGood ==
  /\ row' \in [Runs -> RowType] /\ newest' \in Runs \cup {None}
  /\ \A r \in Runs :
       /\ row'[r].state \in {"running", "completed", "failed"} \/ row'[r].job # None
            => Served(r)'
       /\ row'[r].state = "completed" /\ row[r].state # "completed" => r \in yielded' \/ Succeeded(r)'
DueGood ==
  /\ due' \subseteq due
  /\ \A r \in due \ due' : Served(r)' \/ (r \in Scheduled /\ r > current)
JobsGood ==
  /\ job' \in [Jobs -> {"absent"} \cup Live \cup Ended]
  /\ yielded' \subseteq Runs /\ yielded \subseteq yielded'
CallGood(k) ==
  /\ k \in CallType
  /\ k.pc # "idle" =>
       /\ k.run \in Runs
       /\ k.pc = "note" => job'[<<k.run, k.n>>] # "absent"
       /\ k.pc = "classify" => k.job \in Attempts
       /\ k.pc \in {"classify", "stale"} => Served(k.run)'

LEMMA DispatchFrame ==
  ASSUME RunsOK, NEW c \in Callers, Keeps, UNCHANGED <<current, mirror>>,
         RowsGood, DueGood, JobsGood,
         NEW k, call' = [call EXCEPT ![c] = k], CallGood(k)
  PROVE  RunsOK'
<1> USE DEF RowsGood, DueGood, JobsGood, CallGood
<1>1. TaskType'
  BY DEF RunsOK, TaskType
<1>2. CallKnows'
  <2> SUFFICES ASSUME NEW d \in Callers, call'[d].pc # "idle"
               PROVE  /\ call'[d].run \in Runs
                      /\ call'[d].pc = "note" => job'[<<call'[d].run, call'[d].n>>] # "absent"
                      /\ call'[d].pc = "classify" => call'[d].job \in Attempts
                      /\ call'[d].pc \in {"classify", "stale"} => Served(call[d].run)'
    BY DEF CallKnows, Served
  <2>1. CASE d = c
    BY <2>1 DEF RunsOK, TaskType
  <2>2. CASE d # c
    <3>1. call'[d] = call[d] /\ call[d] \in CallType
      BY <2>2 DEF RunsOK, TaskType
    <3>2. call[d].run \in Runs /\ call[d].n \in Attempts
      BY <3>1 DEF RunsOK, CallKnows, CallType
    <3>3. <<call[d].run, call[d].n>> \in Jobs
      BY <3>2 DEF Jobs
    <3> QED BY <3>1, <3>2, <3>3 DEF RunsOK, CallKnows, Keeps
  <2> QED BY <2>1, <2>2
<1>3. RowServed'
  BY DEF RowServed, Served
<1>4. MirrorKnows'
  BY DEF RunsOK, MirrorKnows, Keeps, Served, Succeeded
<1>5. PastServed'
  BY DEF RunsOK, PastServed, Keeps, Served, Runs
<1>6. CompletedHasRun'
  <2> SUFFICES ASSUME NEW r \in Runs, row'[r].state = "completed"
               PROVE  r \in yielded' \/ Succeeded(r)'
    BY DEF CompletedHasRun, Succeeded
  <2>1. CASE row[r].state = "completed"
    <3>1. r \in yielded \/ Succeeded(r)
      BY <2>1 DEF RunsOK, CompletedHasRun, Succeeded
    <3> QED BY <3>1 DEF Keeps
  <2> QED BY <2>1
<1>7. NothingDropped'
  <2> SUFFICES ASSUME NEW r \in Runs, r \notin due'
               PROVE  Served(r)' \/ (r \in Scheduled /\ r > current')
    BY DEF NothingDropped, Served
  <2>1. CASE r \in due
    BY <2>1
  <2>2. CASE r \notin due
    <3>1. Served(r) \/ (r \in Scheduled /\ r > current)
      BY <2>2 DEF RunsOK, NothingDropped, Served
    <3> QED BY <3>1 DEF Keeps
  <2> QED BY <2>1, <2>2
<1> QED BY <1>1, <1>2, <1>3, <1>4, <1>5, <1>6, <1>7 DEF RunsOK

LEMMA Moves ==
  ASSUME TaskType, NEW c \in Callers, NEW pc \in CallSteps, Step(c, pc)
  PROVE  \E k \in CallType :
           /\ call' = [call EXCEPT ![c] = k]
           /\ k.pc = pc /\ k.run = call[c].run /\ k.n = call[c].n /\ k.job = call[c].job
<1> DEFINE k == [call[c] EXCEPT !.pc = pc]
<1>1. k \in CallType /\ k.pc = pc /\ k.run = call[c].run /\ k.n = call[c].n /\ k.job = call[c].job
  BY DEF TaskType, CallType
<1>2. call' = [call EXCEPT ![c] = k]
  BY DEF Step, TaskType
<1> QED BY <1>1, <1>2

LEMMA MovesOn ==
  ASSUME TaskType, NEW c \in Callers, NEW pc \in CallSteps, NEW n \in Attempts,
         Retries(c, pc, n)
  PROVE  \E k \in CallType :
           /\ call' = [call EXCEPT ![c] = k]
           /\ k.pc = pc /\ k.run = call[c].run /\ k.n = n /\ k.job = call[c].job
<1> DEFINE k == [call[c] EXCEPT !.pc = pc, !.n = n]
<1>1. k \in CallType /\ k.pc = pc /\ k.run = call[c].run /\ k.n = n /\ k.job = call[c].job
  BY DEF TaskType, CallType
<1>2. call' = [call EXCEPT ![c] = k]
  BY DEF Retries, TaskType
<1> QED BY <1>1, <1>2

LEMMA NoCallType == NoCall \in CallType /\ NoCall.pc = "idle"
BY BoundsAssumption DEF NoCall, CallType, CallSteps, Attempts

LEMMA RowServes ==
  ASSUME RunsOK
  PROVE  \A r \in Runs :
           /\ row[r] \in RowType
           /\ row[r].state \in {"running", "completed", "failed"} \/ row[r].job # None
                => Served(r)
BY DEF RunsOK, TaskType, RowServed

(* The row of a call's run. *)
LEMMA CallRuns ==
  ASSUME RunsOK, NEW c \in Callers, call[c].pc # "idle"
  PROVE  /\ call[c].run \in Runs /\ call[c].n \in Attempts /\ call[c] \in CallType
         /\ <<call[c].run, call[c].n>> \in Jobs
BY DEF RunsOK, TaskType, CallKnows, CallType, Jobs

(* The rows are left alone, or one is made. *)
LEMMA RowsFrame ==
  ASSUME RunsOK, Keeps, UNCHANGED <<row, newest>>
  PROVE  RowsGood
BY DEF RunsOK, TaskType, RowServed, Keeps, RowsGood

LEMMA JobsFrame ==
  ASSUME RunsOK, UNCHANGED <<job, yielded>>
  PROVE  Keeps /\ JobsGood
BY KeepsSame DEF RunsOK, TaskType, JobsGood

LEMMA CreatesRow ==
  ASSUME RunsOK, Keeps, NEW r \in Runs, CreateOrAdopt(r)
  PROVE  RowsGood
<1>1. row' \in [Runs -> RowType] /\ newest' \in Runs \cup {None}
  BY DEF CreateOrAdopt, RunsOK, TaskType, RowType, States
<1>2. \A s \in Runs :
        \/ row'[s] = row[s]
        \/ row'[s].state = "pending" /\ row'[s].job = row[s].job
  BY DEF CreateOrAdopt, RunsOK, TaskType, RowType
<1>3. ASSUME NEW s \in Runs
      PROVE  /\ row'[s].state \in {"running", "completed", "failed"} \/ row'[s].job # None
                  => Served(s)'
             /\ row'[s].state = "completed" /\ row[s].state # "completed" => s \in yielded' \/ Succeeded(s)'
  BY <1>2 DEF RunsOK, RowServed, Keeps
<1> QED BY <1>1, <1>3 DEF RowsGood

(* The call ends with an answer, for a run that is served. *)
LEMMA Answered ==
  ASSUME NEW c \in Callers, Answer(c), NEW r \in Runs, r = call[c].run, Served(r)'
  PROVE  call' = [call EXCEPT ![c] = NoCall] /\ CallGood(NoCall) /\ DueGood
BY NoCallType DEF Answer, CallGood, DueGood

LEMMA SameDue == UNCHANGED due => DueGood
BY DEF DueGood

LEMMA OverlapOK ==
  ASSUME RunsOK, NEW c \in Callers, Overlap(c), UNCHANGED <<current, mirror>>
  PROVE  RunsOK'
<1>1. UNCHANGED <<row, newest, due, job, yielded>> /\ call[c].run \in Runs
  BY CallRuns DEF Overlap, rows, At
<1>2. PICK k \in CallType : /\ call' = [call EXCEPT ![c] = k]
                            /\ k.pc \in {"skip", "create"} /\ k.run = call[c].run
  <2>1. CASE ActiveSibling(call[c].run)
    BY <2>1, Moves, "skip" \in CallSteps DEF RunsOK, Overlap, CallSteps
  <2>2. CASE ~ActiveSibling(call[c].run)
    BY <2>2, Moves, "create" \in CallSteps DEF RunsOK, Overlap, CallSteps
  <2> QED BY <2>1, <2>2
<1>3. CallGood(k)
  BY <1>1, <1>2 DEF CallGood
<1> QED
  BY <1>1, <1>2, <1>3, JobsFrame, RowsFrame, SameDue, DispatchFrame

LEMMA SkipOK ==
  ASSUME RunsOK, NEW c \in Callers, Skip(c), UNCHANGED <<current, mirror>>
  PROVE  RunsOK'
<1> PICK r \in Runs : r = call[c].run
  BY CallRuns DEF Skip, At
<1>0. UNCHANGED job
  BY DEF Skip
<1>1. CASE row[r].state = "none"
  <2>1. CreateOrAdopt(r) /\ UNCHANGED <<call, due, yielded>>
    BY <1>1 DEF Skip
  <2>2. call' = [call EXCEPT ![c] = call[c]] /\ CallGood(call[c])
    BY <2>1 DEF Skip, At, RunsOK, TaskType, CallGood
  <2> QED
    BY <1>0, <2>1, <2>2, JobsFrame, CreatesRow, SameDue, DispatchFrame
<1>2. CASE row[r].state # "none"
  <2>1. /\ SetState(r, "completed") /\ UNCHANGED newest
        /\ yielded' = yielded \cup {r} /\ Answer(c)
    BY <1>2 DEF Skip
  <2>2. Keeps /\ JobsGood /\ Served(r)'
    BY <1>0, <2>1, KeepsSame DEF RunsOK, TaskType, JobsGood, Served
  <2>3. row' \in [Runs -> RowType] /\ newest' \in Runs \cup {None}
    BY <2>1 DEF SetState, RunsOK, TaskType, RowType, States
  <2>4. ASSUME NEW s \in Runs
        PROVE  /\ row'[s].state \in {"running", "completed", "failed"}
                    \/ row'[s].job # None => Served(s)'
               /\ row'[s].state = "completed" /\ row[s].state # "completed"
                    => s \in yielded' \/ Succeeded(s)'
    <3>1. CASE s = r
      BY <2>1, <2>2, <3>1
    <3>2. CASE s # r
      <4>1. row'[s] = row[s]
        BY <2>1, <3>2 DEF SetState, RunsOK, TaskType
      <4> QED BY <2>2, <4>1 DEF RunsOK, RowServed, Keeps
    <3> QED BY <3>1, <3>2
  <2>5. RowsGood
    BY <2>3, <2>4 DEF RowsGood
  <2> QED
    BY <2>1, <2>2, <2>5, Answered, DispatchFrame
<1> QED BY <1>1, <1>2

LEMMA CreateOK ==
  ASSUME RunsOK, NEW c \in Callers, Create(c), UNCHANGED <<current, mirror>>
  PROVE  RunsOK'
<1> PICK r \in Runs : r = call[c].run
  BY CallRuns DEF Create, At
<1>0. CreateOrAdopt(r) /\ UNCHANGED <<job, yielded>> /\ call[c] \in CallType
  BY CallRuns DEF Create, At
<1>1. Keeps /\ JobsGood /\ RowsGood
  BY <1>0, JobsFrame, CreatesRow
<1>2. /\ row[r] \in RowType
      /\ row[r].state = "completed" \/ row[r].job # None => Served(r)'
  BY <1>1, RowServes DEF Keeps
<1>3. CASE Finished(r) /\ Answer(c)
  BY <1>1, <1>2, <1>3, Answered, DispatchFrame DEF Finished
<1>4. CASE /\ row[r].state = "failed" /\ row[r].retries < MaxRetry
           /\ Retries(c, "reopen", row[r].retries + 1) /\ UNCHANGED due
  <2>1. row[r].retries + 1 \in Attempts
    BY <1>2, <1>4, BoundsAssumption DEF RowType, Attempts
  <2>2. "reopen" \in CallSteps
    BY DEF CallSteps
  <2>3. PICK k \in CallType : call' = [call EXCEPT ![c] = k] /\ k.pc = "reopen" /\ k.run = r
    BY <1>4, <2>1, <2>2, MovesOn DEF RunsOK
  <2>4. CallGood(k)
    BY <2>3 DEF CallGood
  <2> QED
    BY <1>1, <1>4, <2>3, <2>4, SameDue, DispatchFrame
<1>5. CASE /\ InflightWithJob(r)
           /\ call' = [call EXCEPT ![c].pc = "classify", ![c].n = row[r].retries,
                                   ![c].job = row[r].job]
           /\ UNCHANGED due
  <2> DEFINE k == [call[c] EXCEPT !.pc = "classify", !.n = row[r].retries, !.job = row[r].job]
  <2>1. row[r].job \in Attempts /\ Served(r)'
    BY <1>2, <1>5 DEF InflightWithJob, RowType
  <2>2. k \in CallType /\ k.pc = "classify" /\ k.run = r /\ k.job = row[r].job
    BY <1>0, <1>2, <2>1 DEF CallType, CallSteps, RowType
  <2>3. call' = [call EXCEPT ![c] = k]
    BY <1>5 DEF RunsOK, TaskType
  <2>4. \E l : call' = [call EXCEPT ![c] = l] /\ l = k
    BY <2>3
  <2>5. PICK l : call' = [call EXCEPT ![c] = l] /\ l = k
    BY <2>4
  <2> HIDE DEF k
  <2>6. CallGood(l)
    BY <2>1, <2>2, <2>5 DEF CallGood
  <2> QED
    BY <1>1, <1>5, <2>5, <2>6, SameDue, DispatchFrame
<1>6. CASE Step(c, "check") /\ UNCHANGED due
  <2>1. "check" \in CallSteps
    BY DEF CallSteps
  <2>2. PICK k \in CallType : call' = [call EXCEPT ![c] = k] /\ k.pc = "check" /\ k.run = r
    BY <1>6, <2>1, Moves DEF RunsOK
  <2>3. CallGood(k)
    BY <2>2 DEF CallGood
  <2> QED
    BY <1>1, <1>6, <2>2, <2>3, SameDue, DispatchFrame
<1> QED BY <1>3, <1>4, <1>5, <1>6 DEF Create

LEMMA ClassifyOK ==
  ASSUME RunsOK, NEW c \in Callers, Classify(c), UNCHANGED <<current, mirror>>
  PROVE  RunsOK'
<1> PICK r \in Runs : r = call[c].run
  BY CallRuns DEF Classify, At
<1>0. /\ call[c] \in CallType /\ UNCHANGED <<row, newest, job, yielded>>
      /\ Served(r)
  BY CallRuns DEF Classify, At, rows, RunsOK, CallKnows
<1>1. Keeps /\ JobsGood /\ RowsGood /\ Served(r)'
  BY <1>0, JobsFrame, RowsFrame DEF Keeps
<1>2. CASE Answer(c)
  BY <1>1, <1>2, Answered, DispatchFrame
<1>3. CASE call[c].n < MaxRetry /\ Retries(c, "stale", call[c].n + 1) /\ UNCHANGED due
  <2>1. call[c].n + 1 \in Attempts
    BY <1>0, <1>3, BoundsAssumption DEF CallType, Attempts
  <2>2. "stale" \in CallSteps
    BY DEF CallSteps
  <2>3. PICK k \in CallType : call' = [call EXCEPT ![c] = k] /\ k.pc = "stale" /\ k.run = r
    BY <1>3, <2>1, <2>2, MovesOn DEF RunsOK
  <2>4. CallGood(k)
    BY <1>1, <2>3 DEF CallGood
  <2> QED
    BY <1>1, <1>3, <2>3, <2>4, SameDue, DispatchFrame
<1> QED BY <1>2, <1>3 DEF Classify

(* A row is set, and its run is served. *)
LEMMA RowSet ==
  ASSUME RunsOK, Keeps, UNCHANGED newest, NEW r \in Runs, NEW new \in RowType,
         row' = [row EXCEPT ![r] = new], Served(r)',
         new.state = "completed" => Succeeded(r)'
  PROVE  RowsGood
<1>1. row' \in [Runs -> RowType] /\ newest' \in Runs \cup {None}
  BY DEF RunsOK, TaskType
<1>2. ASSUME NEW s \in Runs
      PROVE  /\ row'[s].state \in {"running", "completed", "failed"} \/ row'[s].job # None
                  => Served(s)'
             /\ row'[s].state = "completed" /\ row[s].state # "completed" => s \in yielded' \/ Succeeded(s)'
  <2>1. CASE s = r
    BY <2>1 DEF RunsOK, TaskType
  <2>2. CASE s # r
    <3>1. row'[s] = row[s]
      BY <2>2 DEF RunsOK, TaskType
    <3> QED BY <3>1 DEF RunsOK, RowServed, Keeps
  <2> QED BY <2>1, <2>2
<1> QED BY <1>1, <1>2 DEF RowsGood

(* Running rows fail. *)
LEMMA Released ==
  ASSUME RunsOK, Keeps, UNCHANGED newest, NEW which, Release(which)
  PROVE  RowsGood
<1>1. ASSUME NEW s \in Runs
      PROVE  /\ row'[s] \in RowType /\ row'[s].job = row[s].job
             /\ \/ row'[s].state = row[s].state
                \/ row'[s].state = "failed" /\ row[s].state = "running"
  BY DEF Release, RunsOK, TaskType, RowType, States
<1>2. row' \in [Runs -> RowType] /\ newest' \in Runs \cup {None}
  <2>1. row' = [s \in Runs |-> row'[s]]
    BY DEF Release
  <2> QED BY <1>1, <2>1 DEF RunsOK, TaskType
<1>3. ASSUME NEW s \in Runs
      PROVE  /\ row'[s].state \in {"running", "completed", "failed"} \/ row'[s].job # None
                  => Served(s)'
             /\ row'[s].state = "completed" /\ row[s].state # "completed" => s \in yielded' \/ Succeeded(s)'
  BY <1>1 DEF RunsOK, RowServed, Keeps
<1> QED BY <1>2, <1>3 DEF RowsGood

LEMMA StaleOK ==
  ASSUME RunsOK, NEW c \in Callers, Stale(c), UNCHANGED <<current, mirror>>
  PROVE  RunsOK'
<1> PICK r \in Runs : r = call[c].run
  BY CallRuns DEF Stale, At
<1>0. /\ call[c].n \in Attempts /\ UNCHANGED <<newest, due, job, yielded>> /\ Served(r)
      /\ row' = [row EXCEPT ![r].state = "failed", ![r].retries = call[c].n]
      /\ Step(c, "reopen")
  BY CallRuns DEF Stale, At, RunsOK, CallKnows
<1>1. Keeps /\ JobsGood /\ Served(r)'
  BY <1>0, JobsFrame DEF Keeps
<1>2. RowsGood
  <2> DEFINE new == [row[r] EXCEPT !.state = "failed", !.retries = call[c].n]
  <2>1. row' = [row EXCEPT ![r] = new]
    BY <1>0 DEF RunsOK, TaskType
  <2>2. new \in RowType /\ new.state = "failed"
    BY <1>0 DEF RunsOK, TaskType, RowType, States
  <2> HIDE DEF new
  <2> QED BY <1>0, <1>1, <2>1, <2>2, RowSet
<1>3. "reopen" \in CallSteps
  BY DEF CallSteps
<1>4. PICK k \in CallType : call' = [call EXCEPT ![c] = k] /\ k.pc = "reopen" /\ k.run = r
  BY <1>0, <1>3, Moves DEF RunsOK
<1>5. CallGood(k)
  BY <1>4 DEF CallGood
<1> QED BY <1>0, <1>1, <1>2, <1>4, <1>5, SameDue, DispatchFrame

LEMMA ReopenOK ==
  ASSUME RunsOK, NEW c \in Callers, Reopen(c), UNCHANGED <<current, mirror>>
  PROVE  RunsOK'
<1>0. /\ UNCHANGED <<newest, due, job, yielded>> /\ Release(Runs) /\ Step(c, "check")
      /\ call[c].run \in Runs
  BY CallRuns DEF Reopen, At
<1>1. Keeps /\ JobsGood /\ RowsGood
  BY <1>0, JobsFrame, Released
<1>2. "check" \in CallSteps
  BY DEF CallSteps
<1>3. PICK k \in CallType : call' = [call EXCEPT ![c] = k] /\ k.pc = "check" /\ k.run = call[c].run
  BY <1>0, <1>2, Moves DEF RunsOK
<1>4. CallGood(k)
  BY <1>0, <1>3 DEF CallGood
<1> QED BY <1>0, <1>1, <1>3, <1>4, SameDue, DispatchFrame

LEMMA CheckOK ==
  ASSUME RunsOK, NEW c \in Callers, Check(c), UNCHANGED <<current, mirror>>
  PROVE  RunsOK'
<1> PICK r \in Runs : r = call[c].run
  BY CallRuns DEF Check, At
<1>0. UNCHANGED <<row, newest, job>>
  BY DEF Check, rows
<1>1. CASE Answer(c) /\ yielded' = yielded \cup {r}
  <2>1. Keeps /\ JobsGood /\ Served(r)'
    BY <1>0, <1>1, KeepsSame DEF RunsOK, TaskType, JobsGood, Served
  <2>2. RowsGood
    BY <1>0, <2>1, RowsFrame
  <2> QED BY <1>1, <2>1, <2>2, Answered, DispatchFrame
<1>2. CASE Step(c, "launch") /\ UNCHANGED <<due, yielded>>
  <2>1. "launch" \in CallSteps
    BY DEF CallSteps
  <2>2. PICK k \in CallType : call' = [call EXCEPT ![c] = k] /\ k.pc = "launch" /\ k.run = r
    BY <1>2, <2>1, Moves DEF RunsOK
  <2>3. CallGood(k)
    BY <2>2 DEF CallGood
  <2> QED BY <1>0, <1>2, <2>2, <2>3, JobsFrame, RowsFrame, SameDue, DispatchFrame
<1> QED BY <1>1, <1>2 DEF Check

LEMMA LaunchOK ==
  ASSUME RunsOK, NEW c \in Callers, Launch(c), UNCHANGED <<current, mirror>>
  PROVE  RunsOK'
<1> PICK r \in Runs, n \in Attempts : r = call[c].run /\ n = call[c].n /\ <<r, n>> \in Jobs
  BY CallRuns DEF Launch, At
<1>0. UNCHANGED <<row, newest, yielded>>
  BY DEF Launch, rows
<1>1. CASE job[<<r, n>>] = "absent"
  <2>1. job' = [job EXCEPT ![<<r, n>>] = "waiting"] /\ Step(c, "note") /\ UNCHANGED due
    BY <1>1 DEF Launch
  <2>2. Keeps
    BY <1>0, <1>1, <2>1, KeepsOther DEF RunsOK
  <2>3. JobsGood /\ job'[<<r, n>>] # "absent"
    BY <1>0, <2>1 DEF RunsOK, TaskType, JobsGood, Live
  <2>4. "note" \in CallSteps
    BY DEF CallSteps
  <2>5. PICK k \in CallType : /\ call' = [call EXCEPT ![c] = k] /\ k.pc = "note"
                              /\ k.run = r /\ k.n = n
    BY <2>1, <2>4, Moves DEF RunsOK
  <2>6. CallGood(k)
    BY <2>3, <2>5 DEF CallGood
  <2> QED BY <1>0, <2>1, <2>2, <2>3, <2>5, <2>6, RowsFrame, SameDue, DispatchFrame
<1>2. CASE job[<<r, n>>] # "absent"
  <2>1. Answer(c) /\ UNCHANGED job
    BY <1>2 DEF Launch
  <2>2. Keeps /\ JobsGood /\ RowsGood
    BY <1>0, <2>1, JobsFrame, RowsFrame
  <2>3. Served(r)'
    BY <1>2, <2>1 DEF Served
  <2> QED BY <2>1, <2>2, <2>3, Answered, DispatchFrame
<1> QED BY <1>1, <1>2

LEMMA NoteOK ==
  ASSUME RunsOK, NEW c \in Callers, Note(c), UNCHANGED <<current, mirror>>
  PROVE  RunsOK'
<1> PICK r \in Runs, n \in Attempts :
      r = call[c].run /\ n = call[c].n /\ job[<<r, n>>] # "absent"
  BY CallRuns DEF Note, At, RunsOK, CallKnows
<1>0. UNCHANGED <<newest, job, yielded>> /\ Answer(c)
  BY DEF Note
<1>1. Keeps /\ JobsGood /\ Served(r)'
  <2>1. Served(r)
    BY DEF Served
  <2> QED BY <1>0, <2>1, JobsFrame DEF Keeps
<1>2. RowsGood
  <2> DEFINE new == [state |-> "running", job |-> n,
                     retries |-> IF n = 0 THEN row[r].retries ELSE n]
  <2>1. row' = [row EXCEPT ![r] = new]
    BY DEF Note, RunsOK, TaskType
  <2>2. new \in RowType /\ new.state = "running"
    BY DEF RunsOK, TaskType, RowType, States
  <2> HIDE DEF new
  <2> QED BY <1>0, <1>1, <2>1, <2>2, RowSet
<1> QED BY <1>0, <1>1, <1>2, Answered, DispatchFrame

LEMMA DispatchOK == ASSUME RunsOK, NEW c \in Callers, Dispatch(c) PROVE RunsOK'
BY OverlapOK, SkipOK, CreateOK, ClassifyOK, StaleOK, ReopenOK, CheckOK, LaunchOK, NoteOK
   DEF Dispatch

-----------------------------------------------------------------------------
(* Deliveries, the schedule and failures of calls *)

LEMMA AcceptOK ==
  ASSUME RunsOK, NEW c \in Callers, NEW r \in Runs, Accept(c, r)
  PROVE  RunsOK'
<1>0. UNCHANGED <<row, newest, current, job, mirror, yielded>>
  BY DEF Accept, rows
<1>1. Keeps /\ JobsGood /\ RowsGood
  BY <1>0, JobsFrame, RowsFrame
<1>2. CASE UNCHANGED <<due, call>>
  BY <1>0, <1>2, RunsSame DEF runvars
<1>3. CASE Admitted(c, r)
  <2>1. CASE r \in Scheduled /\ r # current
    <3>1. due' = due \ {r} /\ UNCHANGED call
      BY <1>3, <2>1 DEF Admitted
    <3>2. current \in Scheduled /\ r \in Nat /\ current \in Nat
      BY <2>1, RunsAssumption DEF RunsOK, PastServed
    <3>3. Served(r) \/ (r \in Scheduled /\ r > current)
      BY <2>1, <3>2 DEF RunsOK, PastServed
    <3>4. DueGood
      BY <1>1, <3>1, <3>3 DEF DueGood, Keeps
    <3>5. TaskType' /\ CallKnows' /\ RowServed' /\ MirrorKnows' /\ PastServed' /\ CompletedHasRun'
      BY <1>0, <3>1 DEF RunsOK, TaskType, CallKnows, RowServed, MirrorKnows, PastServed,
                        CompletedHasRun, Served, Succeeded
    <3>6. NothingDropped'
      <4> SUFFICES ASSUME NEW s \in Runs, s \notin due'
                   PROVE  Served(s)' \/ (s \in Scheduled /\ s > current')
        BY DEF NothingDropped, Served
      <4>1. CASE s = r
        BY <1>0, <1>1, <3>3, <4>1 DEF Keeps
      <4>2. CASE s # r
        <5>1. Served(s) \/ (s \in Scheduled /\ s > current)
          BY <3>1, <4>2 DEF RunsOK, NothingDropped, Served
        <5> QED BY <1>0, <1>1, <5>1 DEF Keeps
      <4> QED BY <4>1, <4>2
    <3> QED BY <3>5, <3>6 DEF RunsOK
  <2>2. CASE ~(r \in Scheduled /\ r # current)
    <3> DEFINE k == [call[c] EXCEPT !.run = r, !.pc =
                       IF r \in Scheduled THEN "overlap" ELSE "create"]
    <3>1. call' = [call EXCEPT ![c] = k] /\ UNCHANGED due
      BY <1>3, <2>2 DEF Admitted, RunsOK, TaskType
    <3>2. k \in CallType /\ k.pc \in {"overlap", "create"} /\ k.run = r
      BY DEF RunsOK, TaskType, CallType, CallSteps
    <3> HIDE DEF k
    <3>3. PICK l : call' = [call EXCEPT ![c] = l] /\ l = k
      BY <3>1
    <3>4. CallGood(l)
      BY <3>2, <3>3 DEF CallGood
    <3> QED BY <1>0, <1>1, <3>1, <3>3, <3>4, SameDue, DispatchFrame
  <2> QED BY <2>1, <2>2
<1> QED BY <1>2, <1>3 DEF Accept

LEMMA ProjectOK == RunsOK /\ Project => RunsOK'
<1> SUFFICES ASSUME RunsOK, Project PROVE RunsOK'
  OBVIOUS
<1>0. /\ UNCHANGED <<row, newest, job, call, mirror, yielded>>
      /\ current \in Scheduled /\ current + 1 \in Scheduled /\ current' = current + 1
      /\ due' = due \cup {current + 1}
      /\ row[current].state \in {"running", "completed", "failed"}
  BY DEF Project, rows
<1>1. current \in Nat /\ current \in Runs /\ current + 1 \in Runs /\ Scheduled \subseteq Nat
  BY <1>0, RunsAssumption DEF Runs
<1>2. Served(current)
  BY <1>0, <1>1 DEF RunsOK, RowServed
<1>3. TaskType' /\ CallKnows' /\ RowServed' /\ MirrorKnows' /\ CompletedHasRun'
  BY <1>0, <1>1 DEF RunsOK, TaskType, CallKnows, RowServed, MirrorKnows, CompletedHasRun,
                    Served, Succeeded
<1>4. PastServed'
  <2>1. ASSUME NEW r \in Scheduled, r < current + 1 PROVE Served(r)
    <3>1. r = current \/ r < current
      BY <1>1, <2>1
    <3> QED BY <1>2, <3>1 DEF RunsOK, PastServed
  <2> QED BY <1>0, <2>1 DEF PastServed, Served
<1>5. NothingDropped'
  <2>1. ASSUME NEW r \in Runs, r \notin due', ~Served(r)
        PROVE  r \in Scheduled /\ r > current + 1
    <3>1. r \in Scheduled /\ r > current /\ r # current + 1
      BY <1>0, <2>1 DEF RunsOK, NothingDropped, Served
    <3> QED BY <1>1, <3>1
  <2> QED BY <1>0, <2>1 DEF NothingDropped, Served
<1> QED BY <1>3, <1>4, <1>5 DEF RunsOK

(* What happens outside the dispatches, some of which may be cut off. *)
LEMMA OtherFrame ==
  ASSUME RunsOK, Keeps, RowsGood, JobsGood, UNCHANGED <<current, due>>,
         \E dead \in SUBSET Callers :
           call' = [c \in Callers |-> IF c \in dead THEN NoCall ELSE call[c]],
         mirror' \in MirrorType, MirrorKnows'
  PROVE  RunsOK'
<1> PICK dead \in SUBSET Callers :
      call' = [c \in Callers |-> IF c \in dead THEN NoCall ELSE call[c]]
  OBVIOUS
<1>1. \A c \in Callers : call'[c] \in {call[c], NoCall}
  OBVIOUS
<1>2. call' \in [Callers -> CallType]
  BY NoCallType DEF RunsOK, TaskType
<1>3. TaskType'
  BY <1>2 DEF RunsOK, TaskType, RowsGood, JobsGood
<1>4. CallKnows'
  <2> SUFFICES ASSUME NEW d \in Callers, call'[d].pc # "idle"
               PROVE  /\ call'[d].run \in Runs
                      /\ call'[d].pc = "note" => job'[<<call'[d].run, call'[d].n>>] # "absent"
                      /\ call'[d].pc = "classify" => call'[d].job \in Attempts
                      /\ call'[d].pc \in {"classify", "stale"} => Served(call[d].run)'
    BY DEF CallKnows, Served
  <2>1. call'[d] = call[d]
    BY <1>1, NoCallType
  <2>2. PICK r \in Runs, n \in Attempts : r = call[d].run /\ n = call[d].n /\ <<r, n>> \in Jobs
    BY <2>1, CallRuns
  <2>3. Served(r) => Served(r)'
    BY DEF Keeps
  <2> QED BY <2>1, <2>2, <2>3 DEF RunsOK, CallKnows, Keeps
<1>5. RowServed'
  BY DEF RowServed, RowsGood
<1>6. PastServed'
  BY DEF RunsOK, PastServed, Keeps, Runs
<1>7. CompletedHasRun'
  <2> SUFFICES ASSUME NEW r \in Runs, row'[r].state = "completed"
               PROVE  r \in yielded' \/ Succeeded(r)'
    BY DEF CompletedHasRun, Succeeded
  <2>1. CASE row[r].state = "completed"
    <3>1. r \in yielded \/ Succeeded(r)
      BY <2>1 DEF RunsOK, CompletedHasRun, Succeeded
    <3> QED BY <3>1 DEF Keeps, JobsGood
  <2> QED BY <2>1 DEF RowsGood
<1>8. NothingDropped'
  <2> SUFFICES ASSUME NEW r \in Runs, r \notin due'
               PROVE  Served(r)' \/ (r \in Scheduled /\ r > current')
    BY DEF NothingDropped, Served
  <2>1. Served(r) \/ (r \in Scheduled /\ r > current)
    BY DEF RunsOK, NothingDropped, Served
  <2> QED BY <2>1 DEF Keeps
<1> QED BY <1>4, <1>5, <1>6, <1>7, <1>8, <1>3 DEF RunsOK, TaskType

LEMMA SameCalls ==
  ASSUME RunsOK, UNCHANGED call
  PROVE  \E dead \in SUBSET Callers :
           call' = [c \in Callers |-> IF c \in dead THEN NoCall ELSE call[c]]
<1>1. call' = [c \in Callers |-> IF c \in {} THEN NoCall ELSE call[c]]
  BY DEF RunsOK, TaskType
<1>2. {} \in SUBSET Callers
  OBVIOUS
<1> QED BY <1>1, <1>2

LEMMA SameMirror ==
  ASSUME RunsOK, Keeps, UNCHANGED mirror
  PROVE  mirror' \in MirrorType /\ MirrorKnows'
BY DEF RunsOK, TaskType, MirrorKnows, Keeps

(* The state of a row is set, to that of a Job of the run. *)
LEMMA StateSet ==
  ASSUME RunsOK, Keeps, UNCHANGED newest, NEW r \in Runs, NEW state \in States,
         SetState(r, state), Served(r)', state = "completed" => Succeeded(r)'
  PROVE  RowsGood
<1> DEFINE new == [row[r] EXCEPT !.state = state]
<1>1. row' = [row EXCEPT ![r] = new]
  BY DEF SetState, RunsOK, TaskType
<1>2. new \in RowType /\ new.state = state
  BY DEF RunsOK, TaskType, RowType
<1> HIDE DEF new
<1> QED BY <1>1, <1>2, RowSet

LEMMA JobOK == RunsOK /\ JobNext => RunsOK'
<1> SUFFICES ASSUME RunsOK, JobNext PROVE RunsOK'
  OBVIOUS
<1>0. UNCHANGED <<newest, current, due, call, mirror, yielded>>
  BY DEF JobNext
<1>1. PICK x \in Jobs : PodStarts(x) \/ JobSucceeds(x) \/ JobFails(x)
  BY DEF JobNext
<1>2. PICK r \in Runs, n \in Attempts : x = <<r, n>> /\ x[1] = r
  BY DEF Jobs
<1>3. PICK new \in {"active", "succeeded", "failed"} :
        /\ job' = [job EXCEPT ![x] = new]
        /\ job[x] \in Live
        /\ \/ UNCHANGED row
           \/ new = "succeeded" /\ SetState(r, "completed")
           \/ new = "failed" /\ SetState(r, "failed")
  BY <1>1, <1>2 DEF PodStarts, JobSucceeds, JobFails, Reports, SetState, Live
<1>4. /\ Keeps
      /\ JobsGood
  BY <1>0, <1>3, KeepsOther DEF RunsOK, TaskType, JobsGood, Live, Ended
<1>5. job'[<<r, n>>] = new
  BY <1>2, <1>3 DEF RunsOK, TaskType
<1>6. Served(r)' /\ (new = "succeeded" => Succeeded(r)')
  BY <1>3, <1>5 DEF Served, Succeeded
<1>7. RowsGood
  <2>1. "completed" \in States /\ "failed" \in States
    BY DEF States
  <2> QED BY <1>0, <1>3, <1>4, <1>6, <2>1, StateSet, RowsFrame
<1> QED BY <1>0, <1>4, <1>7, SameCalls, SameMirror, OtherFrame

LEMMA MirrorOK == RunsOK /\ Mirror => RunsOK'
<1> SUFFICES ASSUME RunsOK, Mirror PROVE RunsOK'
  OBVIOUS
<1>0. UNCHANGED <<newest, current, due, job, call, yielded>>
  BY DEF Mirror
<1>1. Keeps /\ JobsGood
  BY <1>0, JobsFrame
<1>2. CASE MirrorReads
  <2>1. PICK x \in Jobs :
          \/ job[x] = "succeeded" /\ Hears(x, "completed")
          \/ job[x] = "failed" /\ Hears(x, "failed")
    BY <1>2 DEF MirrorReads
  <2>2. PICK r \in Runs, n \in Attempts : x = <<r, n>> /\ x[1] = r
    BY DEF Jobs
  <2>3. PICK outcome \in {"completed", "failed"} :
          /\ mirror' = [pc |-> "update", run |-> r, outcome |-> outcome,
                        inflight |-> row[r].state \in Inflight]
          /\ outcome = "completed" => job[<<r, n>>] = "succeeded"
          /\ job[<<r, n>>] # "absent"
    BY <2>1, <2>2 DEF Hears
  <2>4. Served(r) /\ (outcome = "completed" => Succeeded(r))
    BY <2>3 DEF Served, Succeeded
  <2>5. mirror' \in MirrorType
    BY <2>3 DEF MirrorType
  <2>6. /\ mirror'.run = r /\ mirror'.outcome = outcome
    BY <2>3
  <2>7. MirrorKnows'
    BY <1>0, <2>4, <2>6 DEF MirrorKnows, Served, Succeeded
  <2> QED
    BY <1>0, <1>1, <1>2, <2>5, <2>7, RowsFrame, SameCalls, OtherFrame DEF MirrorReads
<1>3. CASE MirrorWrites
  <2>1. PICK r \in Runs : r = mirror.run /\ Served(r)
    BY <1>3 DEF MirrorWrites, RunsOK, MirrorKnows
  <2>2. /\ mirror.outcome \in {"completed", "failed"}
        /\ mirror.outcome = "completed" => Succeeded(r)
    BY <1>3, <2>1 DEF MirrorWrites, RunsOK, MirrorKnows, TaskType, MirrorType
  <2>3. RowsGood
    <3>1. UNCHANGED row \/ SetState(r, mirror.outcome)
      BY <1>3, <2>1 DEF MirrorWrites
    <3>2. Served(r)' /\ (mirror.outcome = "completed" => Succeeded(r)')
      BY <1>1, <2>1, <2>2 DEF Keeps
    <3>3. mirror.outcome \in States
      BY <2>2 DEF States
    <3>4. PICK state \in States : state = mirror.outcome
      BY <3>3
    <3> QED BY <1>0, <1>1, <3>1, <3>2, <3>4, RowsFrame, StateSet
  <2>4. mirror' \in MirrorType /\ mirror'.run \in {mirror.run, None}
        /\ mirror'.outcome \in {mirror.outcome, "none"}
        /\ (mirror'.pc # "idle" => mirror'.run = mirror.run /\ mirror'.outcome = mirror.outcome)
    BY <1>3 DEF MirrorWrites, RunsOK, TaskType, MirrorType, NoMirror
  <2>5. MirrorKnows'
    <3>1. mirror'.pc # "idle" => mirror'.run = r /\ mirror'.outcome = mirror.outcome
      BY <2>1, <2>4
    <3>2. Served(r)' /\ (mirror.outcome = "completed" => Succeeded(r)')
      BY <1>1, <2>1, <2>2 DEF Keeps
    <3> QED BY <1>0, <2>1, <2>2, <3>1, <3>2 DEF MirrorKnows, Served, Succeeded
  <2> QED BY <1>0, <1>1, <2>3, <2>4, <2>5, SameCalls, OtherFrame
<1>4. CASE MirrorReleases
  <2>1. RowsGood
    BY <1>0, <1>1, <1>4, Released DEF MirrorReleases
  <2>2. mirror' \in MirrorType /\ MirrorKnows'
    BY <1>4 DEF MirrorReleases, MirrorType, NoMirror, MirrorKnows
  <2> QED BY <1>0, <1>1, <2>1, <2>2, SameCalls, OtherFrame
<1> QED BY <1>2, <1>3, <1>4 DEF Mirror

LEMMA FaultsOK == RunsOK /\ Faults => RunsOK'
<1> SUFFICES ASSUME RunsOK, Faults PROVE RunsOK'
  OBVIOUS
<1>1. ASSUME NEW c \in Callers, CallFails(c) PROVE RunsOK'
  <2>1. UNCHANGED <<row, newest, current, due, job, mirror, yielded>>
    BY <1>1 DEF CallFails, tasks, rows
  <2>2. call' = [d \in Callers |-> IF d \in {c} THEN NoCall ELSE call[d]]
    BY <1>1 DEF CallFails, RunsOK, TaskType
  <2>3. {c} \in SUBSET Callers
    OBVIOUS
  <2> QED BY <2>1, <2>2, <2>3, JobsFrame, RowsFrame, SameMirror, OtherFrame
<1>2. ASSUME NEW i \in Instances, InstanceDies(i) PROVE RunsOK'
  <2>1. UNCHANGED <<row, newest, current, due, job, mirror, yielded>>
    BY <1>2 DEF InstanceDies, tasks, rows
  <2>2. \E dead \in SUBSET Callers :
          call' = [c \in Callers |-> IF c \in dead THEN NoCall ELSE call[c]]
    BY <1>2 DEF InstanceDies
  <2> QED BY <2>1, <2>2, JobsFrame, RowsFrame, SameMirror, OtherFrame
<1>3. ASSUME NEW x \in Jobs, PodFails(x) PROVE RunsOK'
  <2>1. /\ UNCHANGED <<row, newest, current, due, call, mirror, yielded>>
        /\ job' = [job EXCEPT ![x] = "waiting"] /\ job[x] = "active"
    BY <1>3 DEF PodFails, rows
  <2>2. Keeps
    BY <2>1, KeepsOther DEF RunsOK
  <2>3. JobsGood
    BY <2>1 DEF RunsOK, TaskType, JobsGood, Live
  <2> QED BY <2>1, <2>2, <2>3, RowsFrame, SameCalls, SameMirror, OtherFrame
<1>4. CASE MirrorFails
  <2>1. UNCHANGED <<row, newest, current, due, job, call, yielded>>
    BY <1>4 DEF MirrorFails, rows
  <2>2. mirror' \in MirrorType /\ MirrorKnows'
    BY <1>4 DEF MirrorFails, MirrorType, NoMirror, MirrorKnows
  <2> QED BY <2>1, <2>2, JobsFrame, RowsFrame, SameCalls, OtherFrame
<1>5. ASSUME NEW c \in Callers, SiblingUnknown(c) PROVE RunsOK'
  <2>1. UNCHANGED <<row, newest, current, due, job, mirror, yielded>>
    BY <1>5 DEF SiblingUnknown, tasks, rows
  <2>2. "create" \in CallSteps /\ "launch" \in CallSteps
    BY DEF CallSteps
  <2>3. PICK k \in CallType : /\ call' = [call EXCEPT ![c] = k]
                              /\ k.pc \in {"create", "launch"} /\ k.run = call[c].run
    <3>1. CASE Step(c, "create")
      BY <2>2, <3>1, Moves DEF RunsOK
    <3>2. CASE Step(c, "launch")
      BY <2>2, <3>2, Moves DEF RunsOK
    <3> QED BY <1>5, <3>1, <3>2 DEF SiblingUnknown
  <2>4. call[c].run \in Runs
    BY <1>5, CallRuns DEF SiblingUnknown, At
  <2>5. CallGood(k)
    BY <2>3, <2>4 DEF CallGood
  <2> QED BY <2>1, <2>3, <2>5, JobsFrame, RowsFrame, SameDue, DispatchFrame
<1> QED BY <1>1, <1>2, <1>3, <1>4, <1>5 DEF Faults

LEMMA DrainingOK == RunsOK /\ Draining => RunsOK'
BY RunsSame DEF Draining, WaiterGoesOn, DrainAsked, DrainFails, TimePasses, SessionStarts,
   SessionEnds, tasks, rows, runvars

LEMMA RunsInv == RunsOK /\ [Next]_vars => RunsOK'
<1>1. RunsOK /\ UNCHANGED vars => RunsOK'
  BY RunsSame DEF vars, rows, runvars
<1>2. ASSUME RunsOK, NEW c \in Callers, NEW r \in Runs, Deliver(c, r) PROVE RunsOK'
  BY <1>2, AcceptOK DEF Deliver
<1> QED
  BY <1>1, <1>2, DispatchOK, JobOK, MirrorOK, ProjectOK, DrainingOK, FaultsOK DEF Next

LEMMA CountInv == CountType /\ [Next]_vars => CountType'
<1> SUFFICES ASSUME CountType, [Next]_vars PROVE CountType'
  OBVIOUS
<1>1. UNCHANGED counts \/ Fault \/ Op \/ (ops < MaxOps /\ ops' = ops + 1 /\ UNCHANGED faults)
  BY DEF Next, vars, Dispatch, Deliver, JobNext, Mirror, Project, Draining,
     WaiterGoesOn, DrainAsked, DrainFails, TimePasses, SessionStarts, SessionEnds, Faults,
     CallFails, SiblingUnknown, InstanceDies, PodFails, MirrorFails
<1> QED BY <1>1, BoundsAssumption DEF CountType, counts, Fault, Op

LEMMA Start == Init => DrainOK /\ CountType /\ RunsOK
<1> SUFFICES ASSUME Init PROVE DrainOK /\ CountType /\ RunsOK
  OBVIOUS
<1>1. CountType
  BY BoundsAssumption DEF Init, CountType
<1>2. Active = {}
  BY DEF Init, Active
<1>3. D!NoWaiter \in D!Waiters /\ D!NoWaiter.pc = "none"
  BY DEF D!NoWaiter, D!Waiters
<1>4. DrainOK
  BY <1>2, <1>3 DEF Init, D!Init, DrainOK, D!TypeOK, JudgeHas, BlockedIsDriven,
     D!BlockedIsDriven, D!Blocked
<1>5. NoRow \in RowType /\ NoRow.state = "none" /\ NoRow.job = None
  BY BoundsAssumption DEF NoRow, RowType, States, Attempts
<1>6. NoMirror \in MirrorType /\ NoMirror.pc = "idle"
  BY DEF NoMirror, MirrorType
<1>7. TaskType
  BY <1>5, <1>6, NoCallType DEF Init, TaskType, Runs
<1>8. CallKnows /\ RowServed /\ MirrorKnows /\ CompletedHasRun
  BY <1>5, <1>6, NoCallType DEF Init, CallKnows, RowServed, MirrorKnows, CompletedHasRun
<1>9. PastServed
  <2>1. ASSUME NEW r \in Scheduled PROVE current \in Scheduled /\ ~(r < current)
    <3>1. current \in Scheduled /\ current <= r /\ current \in Nat /\ r \in Nat
      BY <2>1, RunsAssumption DEF Init
    <3> QED BY <3>1
  <2> QED BY <2>1 DEF PastServed
<1>10. NothingDropped
  <2>1. ASSUME NEW r \in Runs, r \notin due PROVE r \in Scheduled /\ r > current
    <3>1. r \in Scheduled /\ r # current
      BY <2>1 DEF Init, Runs
    <3>2. current \in Scheduled /\ current <= r
      BY <3>1 DEF Init
    <3> QED BY <3>1, <3>2, RunsAssumption
  <2> QED BY <2>1 DEF NothingDropped
<1> QED BY <1>1, <1>4, <1>7, <1>8, <1>9, <1>10 DEF RunsOK

-----------------------------------------------------------------------------
(* Theorems *)

THEOREM InvariantHolds == Spec => [](DrainOK /\ CountType /\ RunsOK)
<1>1. DrainOK /\ CountType /\ RunsOK /\ [Next]_vars => (DrainOK /\ CountType /\ RunsOK)'
  <2>1. [Next]_vars => [D!Next]_(D!vars)
    BY StepIsDrain, StutterIsDrain
  <2> QED BY <2>1, DrainInv, CountInv, RunsInv
<1> QED BY <1>1, Start, PTL DEF Spec

THEOREM TypeCorrect == Spec => []TypeOK
<1>1. DrainOK /\ CountType /\ RunsOK => TypeOK
  BY DEF DrainOK, CountType, RunsOK, TaskType, TypeOK
<1> QED BY <1>1, InvariantHolds, PTL

(* Answered for good: every run that is no longer due came to something. *)
THEOREM NothingIsDropped == Spec => []NothingDropped
<1>1. RunsOK => NothingDropped
  BY DEF RunsOK
<1> QED BY <1>1, InvariantHolds, PTL

(* A run that is reported completed has run. *)
THEOREM CompletedHasRunHolds == Spec => []CompletedHasRun
<1>1. RunsOK => CompletedHasRun
  BY DEF RunsOK
<1> QED BY <1>1, InvariantHolds, PTL

(* A drain that blocks admission is driven, for any number of instances. *)
THEOREM DrainIsDriven == Spec => []BlockedIsDriven
<1>1. DrainOK => BlockedIsDriven
  BY DEF DrainOK
<1> QED BY <1>1, InvariantHolds, PTL
=============================================================================

-------------------------- MODULE SessionController --------------------------
(***************************************************************************)
(* The reconcile loop of the assistant session controller                  *)
(* (_update_status_for_session) for one AssistantSession, together with    *)
(* everything that runs beside it: the HTTP endpoints that start and stop  *)
(* the session, the worker that assigns a desktop VM, the pods, the guest  *)
(* and the sweeper of orphaned VMs.                                        *)
(*                                                                         *)
(* A binding is one attempt to run the assistant: at most one Job and one  *)
(* desktop VM carry its id.  The loop is level triggered.  A pass reads    *)
(* the session (Refresh), takes the first branch of the code whose guard   *)
(* holds in what it read, calling Kubernetes and the VM pool on the way    *)
(* (one action per branch), and ends with one write of the status          *)
(* (WriteStatus) or of the spec (WriteStopped).  The write does not check  *)
(* that the session is still what the pass has read.                       *)
(*                                                                         *)
(* Abstractions:                                                           *)
(*  - a deadline may be found exceeded whenever its clock is running;      *)
(*  - the claim of a Job is one step, and the Job of binding b is b:       *)
(*    JobClaim models the steps and shows that there is at most one;       *)
(*  - the VM of a binding is on its way back ("leaving") from the moment   *)
(*    its release is queued; what the session records of the release is    *)
(*    modelled, its generations and how the guest confirms it are not;     *)
(*  - a VM that is held is taken to hold the assistant's disk;             *)
(*  - an assignment worker that outlives the timeout of its attempt, and   *)
(*    a disk that is attached to no VM of the assistant, are left out;     *)
(*  - conditions, messages, references and conflicts of a write that is    *)
(*    retried are left out;                                                *)
(*  - a session whose required spec fields are missing, or that is being   *)
(*    deleted, is left out.                                                *)
(***************************************************************************)
EXTENDS Naturals, FiniteSets

CONSTANTS
  Reconcilers,         \* passes that may run at once
  Desktops,            \* values a start may give spec.desktop.required
  MaxBootstrapRetries, \* MAX_BOOTSTRAP_RETRIES
  MaxVmRetries,        \* MAX_VM_READINESS_RETRIES
  LivenessThreshold,   \* DESKTOP_LIVENESS_FAILURE_THRESHOLD
  MaxBinding,          \* bound: bindings ever minted
  MaxActivation,       \* bound: activations ever requested
  MaxFaults            \* bound: API failures, crashes and losses

ASSUME ModesAssumption == Desktops \subseteq BOOLEAN /\ Desktops # {}
ASSUME LimitsAssumption ==
  /\ MaxBootstrapRetries \in Nat /\ MaxVmRetries \in Nat
  /\ LivenessThreshold \in Nat \ {0}
ASSUME BoundsAssumption ==
  MaxBinding \in Nat /\ MaxActivation \in Nat \ {0} /\ MaxFaults \in Nat

Bindings == 1..MaxBinding

VARIABLES
  spec,        \* desired state, activation id, desktop required
  status,      \* phase, observed activation, binding, counters, intent
  signals,     \* signals recorded for the current binding, not yet consumed
  released,    \* status.releasedBindings: the ledger of finished releases
  job,         \* binding -> state of its Kubernetes Job
  vm,          \* binding -> state of the desktop VM that carries its id
  worker,      \* binding -> state of its VM assignment task
  minted,      \* bindings minted so far
  activations, \* activation ids handed out so far
  rec,         \* reconciler -> its pass
  start,       \* the spec a start request is about to write
  stopping,    \* a stop request has still to write the spec
  faults,      \* faults so far
  leaked,      \* bindings whose Job a pass has failed to suspend (ghost)
  overtaken,   \* passes that another one has overtaken (ghost)
  crossed      \* bindings that a pass so overtaken has acted for (ghost)

apiVars == <<start, stopping, activations>>
overlap == <<overtaken, crossed>>
vars == <<spec, status, signals, released, job, vm, worker, minted, rec,
          apiVars, faults, leaked, overlap>>

-----------------------------------------------------------------------------
(* Values *)

ActivePhases ==
  {"PendingJob", "PendingContainer", "PendingVM", "PendingGuest", "Active"}
Phases == ActivePhases \cup {"None", "Releasing", "Released", "Failed"}

LiveStates == {"booting", "ready"}       \* the Job is not terminal
PodStates == LiveStates \cup {"ending"}  \* it has active pods
JobStates == PodStates \cup {"none", "done", "missing"}
VmStates == {"none", "kept", "leaving"}
WorkerStates == {"idle", "queued", "claimed"}

(* status.binding: its id, whether it records a Job and a VM, whether the
   desktop has reported ready, the state of the assignment attempt, and how far
   its release has come (releaseRequestedAt, releaseCompletedAt). *)
BindingType == [id: 0..MaxBinding, job: BOOLEAN, vm: BOOLEAN, ready: BOOLEAN,
                attempt: {"none", "running", "refused"},
                release: {"none", "asked", "completed"}]

NewBinding(b) == [id |-> b, job |-> FALSE, vm |-> FALSE, ready |-> FALSE,
                  attempt |-> "none", release |-> "none"]
NoBinding == NewBinding(0)

SpecType == [desired: {"Running", "Stopped"}, activation: 1..MaxActivation,
             desktop: BOOLEAN]

Fields == {"phase", "observed", "binding", "boot", "vmr", "probes"}
BindingFields == {"phase", "observed", "binding"}

StatusType == [phase: Phases, observed: 0..MaxActivation,
               binding: BindingType,
               boot: 0..MaxBootstrapRetries, vmr: Nat,
               probes: 0..(LivenessThreshold - 1),
               intent: [binding: 0..MaxBinding,
                        value: {"none", "stop", "replace"}]]

NoSpec == [desired |-> "Running", activation |-> 1, desktop |-> FALSE]
NoStatus == [phase |-> "None", observed |-> 0, binding |-> NoBinding,
             boot |-> 0, vmr |-> 0, probes |-> 0,
             intent |-> [binding |-> 0, value |-> "none"]]

(* A pass: what it has read, or what it is about to write (`fields` of the
   status, having consumed `signals`). *)
Pass(pc, sp, st, sigs, fields) ==
  [pc |-> pc, spec |-> sp, status |-> st, signals |-> sigs, fields |-> fields]
Idle == Pass("idle", NoSpec, NoStatus, {}, {})

NoStart == [activation |-> 0, desktop |-> FALSE]

SessionOK ==
  /\ spec \in SpecType
  /\ status \in StatusType
  /\ signals \subseteq {"ready", "healthy", "failed"}
  /\ released \subseteq Bindings
  /\ job \in [Bindings -> JobStates]
  /\ vm \in [Bindings -> VmStates]
  /\ worker \in [Bindings -> WorkerStates]
  /\ minted \in 0..MaxBinding
  /\ activations \in 1..MaxActivation
  /\ rec \in [Reconcilers ->
                [pc: {"idle", "read", "write", "stop"}, spec: SpecType,
                 status: StatusType, signals: SUBSET {"ready", "healthy", "failed"},
                 fields: SUBSET Fields]]
  /\ start \in [activation: 0..MaxActivation, desktop: BOOLEAN]
  /\ stopping \in BOOLEAN
  /\ faults \in 0..MaxFaults
  /\ leaked \subseteq Bindings

OverlapOK == overtaken \subseteq Reconcilers /\ crossed \subseteq Bindings

TypeOK == SessionOK /\ OverlapOK

(* What pass r has read of the session. *)
Want(r) == rec[r].spec
Had(r) == rec[r].status
Bound(r) == rec[r].status.binding
Id(r) == rec[r].status.binding.id

Live(b) == b \in Bindings /\ job[b] \in LiveStates
HasPods(b) == b \in Bindings /\ job[b] \in PodStates
HasVm(b) == b \in Bindings /\ vm[b] # "none"

(* A bounded supply of things that go wrong. *)
Fault == faults < MaxFaults /\ faults' = faults + 1

-----------------------------------------------------------------------------
(* Passes side by side (history only: no guard looks at it)

   The timer and the watch handler run passes over the same session at the
   same time, and nothing tells a pass that another one has moved on.  A pass
   is overtaken when, since it has read, another one has changed the status,
   has entered a binding in the ledger, or is about to exchange the binding. *)

ExchangePending(r) ==
  /\ rec[r].pc = "write" /\ "binding" \in rec[r].fields
  /\ rec[r].status.binding.id # status.binding.id

Overtakes(r) ==
  status' # status \/ released' # released \/ ExchangePending(r)'

(* A pass that has been overtaken crosses the bindings that it claims a Job or
   starts an assignment for, and, when it changes the status, the one that it
   writes and those that have pods then. *)
Crosses(r) ==
  IF r \notin overtaken THEN {}
  ELSE {b \in Bindings : \/ job'[b] = "booting" /\ job[b] # "booting"
                         \/ worker'[b] # worker[b]
                         \/ /\ rec[r].pc = "write" /\ status' # status
                            /\ HasPods(b) \/ b = status'.binding.id}

Track(r) ==
  /\ overtaken' =
       (IF rec'[r].pc = "idle" THEN overtaken \ {r} ELSE overtaken)
       \cup {q \in Reconcilers \ {r} : Overtakes(r) /\ rec[q].pc # "idle"}
  /\ crossed' = crossed \cup Crosses(r)

-----------------------------------------------------------------------------
(* The end of a pass *)

(* A pass returns without writing. *)
Return(r) == rec' = [rec EXCEPT ![r] = Idle]

(* It is about to write these fields of the status. *)
Patch(r, fields, to, consumed) ==
  rec' = [rec EXCEPT ![r] = Pass("write", NoSpec, to, consumed, fields)]

(* The status of this phase, with the activation that was read observed. *)
Entering(r, phase, binding) ==
  [Had(r) EXCEPT !.phase = phase, !.observed = Want(r).activation,
                 !.binding = binding]

(* A fresh binding; nothing is written when the bound on them is reached. *)
Mint(r, to, consumed) ==
  IF minted < MaxBinding
    THEN /\ Patch(r, Fields,
                  [to EXCEPT !.phase = "PendingJob", !.probes = 0,
                             !.binding = NewBinding(minted + 1)], consumed)
         /\ minted' = minted + 1
    ELSE Return(r) /\ UNCHANGED minted

(* _restart_binding_decision, for the retry counter `count` of the status. *)
Restart(r, count, max, consumed) ==
  LET failed == [Entering(r, "Failed", NoBinding) EXCEPT !.probes = 0] IN
  IF Had(r)[count] >= max
    THEN Patch(r, Fields, failed, consumed) /\ UNCHANGED minted
    ELSE Mint(r, [failed EXCEPT ![count] = @ + 1], consumed)

RestartBoot(r) == Restart(r, "boot", MaxBootstrapRetries, {})
RestartVm(r, consumed) == Restart(r, "vmr", MaxVmRetries, consumed)

(* _record_binding_suspend_intent: only for the current binding. *)
IntentRecorded(b, value) ==
  status' = [status EXCEPT !.intent =
               IF status.binding.id = b /\ b # 0
                 THEN [binding |-> b, value |-> value] ELSE @]

(* Mutant: the Job is left to run when its binding is replaced. *)
SuspendLater(r) ==
  IntentRecorded(Id(r), "replace") /\ UNCHANGED <<job, faults, leaked>>

(* _suspend_bound_job before a restart, best effort. *)
SuspendOwn(r) ==
  /\ IntentRecorded(Id(r), "replace")
  /\ \/ /\ job' = [job EXCEPT ![Id(r)] = "ending"]
        /\ UNCHANGED <<faults, leaked>>
     \/ /\ Fault
        /\ leaked' = leaked \cup {Id(r)}
        /\ UNCHANGED job

-----------------------------------------------------------------------------
(* Releasing what the assistant holds *)

(* Mutant: a container that is still booting is not suspended. *)
SuspendReady ==
  /\ job' = [b \in Bindings |-> IF job[b] = "ready" THEN "ending" ELSE job[b]]
  /\ UNCHANGED <<faults, leaked>>

(* Every live Job of the assistant is suspended; API failures leave some of
   them running, and the pass goes on. *)
SuspendAll ==
  \E failing \in SUBSET {b \in Bindings : Live(b)} :
    /\ Fault \/ (failing = {} /\ UNCHANGED faults)
    /\ job' = [b \in Bindings |->
                 IF Live(b) /\ b \notin failing THEN "ending" ELSE job[b]]
    /\ UNCHANGED leaked

(* The suspend intent this leaves.  A Job with pods that is not the one the
   pass knows of is suspended as an extra Job, to be replaced. *)
SuspendIntents(r, value) ==
  LET b == status.binding.id IN
  IF HasPods(b) /\ (b # Id(r) \/ ~Bound(r).job) THEN IntentRecorded(b, "replace")
  ELSE IF Live(b) THEN IntentRecorded(b, value)
  ELSE UNCHANGED status

(* Mutant: a Job that is suspended has no pods. *)
QuietOnceSuspended(jobs, vms) ==
  \A b \in Bindings : jobs[b] \notin LiveStates /\ vms[b] = "none"

(* No pod is active and no VM is held. *)
Quiet(jobs, vms) ==
  \A b \in Bindings : jobs[b] \notin PodStates /\ vms[b] = "none"

(* Without a VM of its own, the pass finishes the release of a single other VM
   that is leaving. *)
OthersReleasing(r) ==
  LET others == {c \in Bindings \ {Id(r)} : HasVm(c)} IN
  IF ~Bound(r).vm /\ ~Live(Id(r)) /\ Cardinality(others) = 1
    THEN [b \in Bindings |-> IF vm[b] = "leaving" THEN "none" ELSE vm[b]]
    ELSE vm

(* What the pass may make of its own VM.  A release that has been asked for is
   queued again only when it has timed out; one that is recorded as completed is
   finished, if the VM is being released at all (complete_pool_vm_release). *)
OwnReleasing(r) ==
  CASE Bound(r).release = "none" -> {"leaving"}
    [] Bound(r).release = "asked" -> {"leaving", vm[Id(r)]}
    [] Bound(r).release = "completed" ->
         IF vm[Id(r)] = "kept" THEN {"kept"} ELSE {"leaving", "none"}

(* The reference to the VM is dropped once nothing at all is left. *)
KeepsVmRef(r) ==
  IF HasVm(Id(r)) THEN vm'[Id(r)] # "none"
  ELSE Bound(r).vm /\ (Live(Id(r)) \/ \E b \in Bindings : HasVm(b))

(* _binding_release_state.  Afterwards the release of the binding is either
   complete, and in the ledger, or goes on with ReleasingBinding. *)
Release(r, value) ==
  /\ SuspendAll
  /\ IF HasVm(Id(r))
       THEN \E state \in OwnReleasing(r) : vm' = [vm EXCEPT ![Id(r)] = state]
       ELSE vm' = OthersReleasing(r)
  /\ SuspendIntents(r, value)
  /\ released' = IF Quiet(job', vm') /\ ~KeepsVmRef(r)
                   THEN released \cup {Id(r)} ELSE released
  /\ UNCHANGED worker

ReleaseComplete(r) == Quiet(job', vm') /\ ~KeepsVmRef(r)

(* The release counts as completed when no VM is found, even though pods may be
   left, or a VM may still come from an assignment under way. *)
ReleaseProgress(r) ==
  IF \/ Bound(r).release = "completed"
     \/ ~KeepsVmRef(r) /\ \A b \in Bindings : vm'[b] = "none"
    THEN "completed" ELSE "asked"

ReleasingBinding(r) ==
  [Bound(r) EXCEPT !.vm = KeepsVmRef(r), !.attempt = "none",
                   !.ready = @ /\ KeepsVmRef(r), !.release = ReleaseProgress(r)]

(* _assistant_release_state_without_binding: every VM of the assistant is
   released, or finished, unless that fails. *)
ReleaseWithoutBinding(r) ==
  /\ SuspendAll
  /\ SuspendIntents(r, "replace")
  /\ \E failing \in SUBSET {b \in Bindings : HasVm(b)} :
       /\ failing = {} \/ faults' > faults
       /\ vm' = [b \in Bindings |-> IF b \in failing THEN vm[b]
                                    ELSE IF vm[b] = "kept" THEN "leaving"
                                    ELSE "none"]
  /\ UNCHANGED <<worker, released>>

-----------------------------------------------------------------------------
(* The branches of _update_status_for_session, in order *)

(* Mutant: a session without a binding is taken to be released. *)
TerminallyUnbound == spec.desired = "Stopped" /\ status.binding.id = 0

(* _is_terminally_released: the timer skips the session. *)
TerminallyReleased ==
  spec.desired = "Stopped" /\ status.phase = "Released" /\ status.binding.id = 0

(* The pass reads the session. *)
Read(r) ==
  /\ rec[r].pc = "idle"
  /\ rec' = [rec EXCEPT ![r] = Pass("read", spec, status, signals, {})]
  /\ overtaken' = IF \E q \in Reconcilers : ExchangePending(q)
                    THEN overtaken \cup {r} ELSE overtaken
  /\ UNCHANGED <<spec, status, signals, released, job, vm, worker, minted,
                 apiVars, faults, leaked, crossed>>

(* The timer; and the watch, which looks at released sessions too. *)
Refresh(r) == ~TerminallyReleased /\ Read(r)
OnSessionChange(r) == TerminallyReleased /\ Read(r)

(* What no branch changes before its write. *)
Elsewhere == UNCHANGED <<spec, signals, apiVars>>

Stopped(r) == rec[r].pc = "read" /\ Want(r).desired = "Stopped"
Running(r) == rec[r].pc = "read" /\ Want(r).desired = "Running"

FirstObserved(r) ==
  IF Had(r).observed = 0 THEN Want(r).activation ELSE Had(r).observed

StopWithoutBinding(r) ==
  /\ Stopped(r) /\ Id(r) = 0
  /\ ReleaseWithoutBinding(r)
  /\ Patch(r, BindingFields,
           [Had(r) EXCEPT !.phase = IF Quiet(job', vm') THEN "Released"
                                    ELSE "Releasing",
                          !.observed = FirstObserved(r)], {})
  /\ Elsewhere /\ UNCHANGED minted
  /\ Track(r)

StopBinding(r) ==
  /\ Stopped(r) /\ Id(r) # 0
  /\ Release(r, "stop")
  /\ Patch(r, BindingFields,
           [Had(r) EXCEPT !.phase = IF ReleaseComplete(r) THEN "Released"
                                    ELSE "Releasing",
                          !.binding = IF ReleaseComplete(r) THEN NoBinding
                                      ELSE ReleasingBinding(r),
                          !.observed = FirstObserved(r)], {})
  /\ Elsewhere /\ UNCHANGED minted
  /\ Track(r)

(* Mutant: a cleanup that goes on is not recognised. *)
OrphanedOnce(r) ==
  Had(r).phase = "Failed" /\ Id(r) = 0 /\ Had(r).observed = Want(r).activation

(* Failed, or releasing without a binding, under the observed activation. *)
Orphaned(r) ==
  /\ Had(r).phase \in {"Failed", "Releasing"}
  /\ Id(r) = 0
  /\ Had(r).observed = Want(r).activation

BudgetExhausted(st) ==
  st.boot >= MaxBootstrapRetries \/ st.vmr >= MaxVmRetries

(* The session is declared stopped (patch_assistant_session_spec). *)
DeclareStopped(r) ==
  rec' = [rec EXCEPT ![r] = Pass("stop", NoSpec, NoStatus, {}, {})]

(* _recover_failed_running_session_without_binding, in the order of its
   early returns: cleanup, stop intent, budget. *)
RecoverWithoutBinding(r) ==
  LET parking == Fields \ {"probes"} IN
  /\ Running(r) /\ Orphaned(r)
  /\ ReleaseWithoutBinding(r)
  /\ \/ /\ ~Quiet(job', vm')
        /\ Patch(r, parking, [Had(r) EXCEPT !.phase = "Releasing"], {})
        /\ UNCHANGED minted
     \/ /\ Quiet(job', vm') /\ Had(r).intent.value = "stop"
        /\ DeclareStopped(r)
        /\ UNCHANGED minted
     \/ /\ Quiet(job', vm') /\ Had(r).intent.value # "stop"
        /\ BudgetExhausted(Had(r))
        /\ IF Had(r).phase = "Failed" THEN Return(r)
           ELSE Patch(r, parking, [Had(r) EXCEPT !.phase = "Failed"], {})
        /\ UNCHANGED minted
     \/ /\ Quiet(job', vm') /\ Had(r).intent.value # "stop"
        /\ ~BudgetExhausted(Had(r))
        /\ Mint(r, Had(r), {})
  /\ Elsewhere
  /\ Track(r)

(* The binding belongs to an activation that has been replaced. *)
Replaced(r) ==
  Id(r) # 0 /\ Had(r).observed # 0 /\ Had(r).observed # Want(r).activation

(* A new activation starts with the full retry budget. *)
FreshAttempt(r) ==
  IF Had(r).observed # 0 /\ Had(r).observed # Want(r).activation
    THEN [Had(r) EXCEPT !.observed = Want(r).activation, !.boot = 0, !.vmr = 0]
    ELSE [Had(r) EXCEPT !.observed = Want(r).activation]

ReplaceActivation(r) ==
  /\ Running(r) /\ Replaced(r)
  /\ Release(r, "replace")
  /\ IF ReleaseComplete(r) THEN Mint(r, FreshAttempt(r), {})
     ELSE /\ Patch(r, BindingFields,
                   [Had(r) EXCEPT !.phase = "Releasing",
                                  !.binding = ReleasingBinding(r)], {})
          /\ UNCHANGED minted
  /\ Elsewhere
  /\ Track(r)

ContinueRelease(r) ==
  /\ Running(r) /\ ~Replaced(r) /\ Id(r) # 0 /\ Had(r).phase = "Releasing"
  /\ Release(r, "replace")
  /\ IF ReleaseComplete(r) THEN Mint(r, FreshAttempt(r), {})
     ELSE /\ Patch(r, BindingFields,
                   [Had(r) EXCEPT !.phase = "Releasing",
                                  !.binding = ReleasingBinding(r),
                                  !.observed = FirstObserved(r)], {})
          /\ UNCHANGED minted
  /\ Elsewhere
  /\ Track(r)

MintBinding(r) ==
  /\ Running(r) /\ ~Orphaned(r) /\ Id(r) = 0
  /\ Mint(r, FreshAttempt(r), {})
  /\ Elsewhere
  /\ UNCHANGED <<status, released, job, vm, worker, faults, leaked>>
  /\ Track(r)

(* The binding is the one to work on. *)
Working(r) ==
  Running(r) /\ ~Replaced(r) /\ Id(r) # 0 /\ Had(r).phase # "Releasing"

(* A release that ends in a restart of the binding when it is complete.
   Until then the phase is Releasing, with the counters given. *)
ReleaseThen(r, waiting, fields, consumed, Restarted) ==
  /\ Release(r, "replace")
  /\ IF ReleaseComplete(r) THEN Restarted
     ELSE /\ Patch(r, fields,
                   [waiting EXCEPT !.phase = "Releasing",
                                   !.observed = Want(r).activation,
                                   !.binding = ReleasingBinding(r)], consumed)
          /\ UNCHANGED minted

JobMissing(r) ==
  /\ Working(r) /\ Bound(r).job /\ job[Id(r)] = "missing"
  /\ ReleaseThen(r, [Had(r) EXCEPT !.probes = 0], Fields, {}, RestartBoot(r))
  /\ Elsewhere
  /\ Track(r)

(* _claim_and_bind_pending_job: an idle Job takes the binding's labels, or
   the one that already has them is found. *)
ClaimJob(r) ==
  /\ Working(r) /\ ~Bound(r).job
  /\ job' = [job EXCEPT ![Id(r)] = IF @ \in {"none", "missing"} THEN "booting"
                                   ELSE @]
  /\ Patch(r, Fields,
           [Entering(r, "PendingContainer", [Bound(r) EXCEPT !.job = TRUE])
              EXCEPT !.probes = 0], {})
  /\ Elsewhere
  /\ UNCHANGED <<status, released, vm, worker, minted, faults, leaked>>
  /\ Track(r)

AwaitCapacity(r) ==
  /\ Working(r) /\ ~Bound(r).job /\ job[Id(r)] \in {"none", "missing"}
  /\ Patch(r, BindingFields, Entering(r, "PendingJob", Bound(r)), {})
  /\ Elsewhere
  /\ UNCHANGED <<status, released, job, vm, worker, minted, faults, leaked>>
  /\ Track(r)

(* The user's stop of this binding ends the session, but only if the
   release is complete in this very pass. *)
JobTerminal(r) ==
  /\ Working(r) /\ Bound(r).job /\ job[Id(r)] \in {"ending", "done"}
  /\ ReleaseThen(r, Had(r), BindingFields, {},
       IF Had(r).intent = [binding |-> Id(r), value |-> "stop"]
         THEN DeclareStopped(r) /\ UNCHANGED minted
         ELSE RestartBoot(r))
  /\ Elsewhere
  /\ Track(r)

(* The container of the binding. *)
Booting(r) == Working(r) /\ Bound(r).job /\ job[Id(r)] = "booting"
Serving(r) == Working(r) /\ Bound(r).job /\ job[Id(r)] = "ready"

AwaitContainer(r) ==
  /\ Booting(r)
  /\ Patch(r, BindingFields, Entering(r, "PendingContainer", Bound(r)), {})
  /\ Elsewhere
  /\ UNCHANGED <<status, released, job, vm, worker, minted, faults, leaked>>
  /\ Track(r)

BootstrapTimeout(r) ==
  /\ Booting(r)
  /\ SuspendOwn(r) /\ RestartBoot(r)
  /\ Elsewhere /\ UNCHANGED <<released, vm, worker>>
  /\ Track(r)

(* _release_desktop_for_container_session queues the release of the VM. *)
RunWithoutDesktop(r) ==
  /\ Serving(r) /\ ~Want(r).desktop
  /\ vm' = IF Bound(r).vm /\ HasVm(Id(r))
             THEN [vm EXCEPT ![Id(r)] = "leaving"] ELSE vm
  /\ Patch(r, BindingFields \cup {"probes"},
           [Entering(r, "Active",
              [Bound(r) EXCEPT !.vm = FALSE, !.ready = FALSE,
                               !.attempt = IF Bound(r).vm THEN "none" ELSE @,
                               !.release = IF Bound(r).vm THEN "asked" ELSE @])
              EXCEPT !.probes = 0], {})
  /\ Elsewhere
  /\ UNCHANGED <<status, released, job, worker, minted, faults, leaked>>
  /\ Track(r)
(* The desktop of the binding: first its VM has to be assigned. *)
Assigning(r) == Serving(r) /\ Want(r).desktop /\ ~Bound(r).vm

AssignmentTimeout(r) ==
  /\ Assigning(r)
  /\ SuspendOwn(r) /\ RestartVm(r, {})
  /\ Elsewhere /\ UNCHANGED <<released, vm, worker>>
  /\ Track(r)

(* Mutant: the binding that was read is written back. *)
AwaitAssignmentStale(r) ==
  /\ Assigning(r) /\ Bound(r).attempt # "none"
  /\ Patch(r, BindingFields, Entering(r, "PendingVM", Bound(r)), {})
  /\ Elsewhere
  /\ UNCHANGED <<status, released, job, vm, worker, minted, faults, leaked>>
  /\ Track(r)

(* An attempt is under way, or the next one is not due yet. *)
AwaitAssignment(r) ==
  /\ Assigning(r) /\ Bound(r).attempt # "none"
  /\ Patch(r, {"phase", "observed"}, Entering(r, "PendingVM", Bound(r)), {})
  /\ Elsewhere
  /\ UNCHANGED <<status, released, job, vm, worker, minted, faults, leaked>>
  /\ Track(r)

(* claim_binding_vm_assignment_attempt: the binding read is still the one
   that needs a VM, and no other attempt is under way. *)
AttemptClaimed(r) ==
  /\ status.binding.id = Id(r) /\ spec.desired = "Running"
  /\ ~status.binding.vm
  /\ status.binding.attempt # "running" \/ worker[Id(r)] = "idle"

QueueAssignment(r) ==
  /\ Assigning(r)
  /\ Bound(r).attempt # "running" \/ worker[Id(r)] = "idle"
  /\ IF AttemptClaimed(r)
       THEN /\ status' = [status EXCEPT !.binding.attempt = "running"]
            /\ worker' = [worker EXCEPT ![Id(r)] = IF @ = "idle" THEN "queued"
                                                   ELSE @]
            /\ Patch(r, {"phase", "observed"},
                     Entering(r, "PendingVM", Bound(r)), {})
       ELSE Return(r) /\ UNCHANGED <<status, worker>>
  /\ Elsewhere
  /\ UNCHANGED <<released, job, vm, minted, faults, leaked>>
  /\ Track(r)

(* Then the guest has to report, and be healthy. *)
Assigned(r) == Serving(r) /\ Want(r).desktop /\ Bound(r).vm
Guest(r) == Assigned(r) /\ vm[Id(r)] = "kept"
Probed(r, state) == Guest(r) /\ state \in rec[r].signals
Unprobed(r) == Guest(r) /\ rec[r].signals \cap {"healthy", "failed"} = {}

(* The binding with the desktop-ready signal taken in. *)
Observed(r) == [Bound(r) EXCEPT !.ready = @ \/ "ready" \in rec[r].signals,
                                !.attempt = "none"]

OwnershipLost(r) ==
  /\ Assigned(r) /\ vm[Id(r)] # "kept"
  /\ SuspendOwn(r) /\ RestartVm(r, {})
  /\ Elsewhere /\ UNCHANGED <<released, vm, worker>>
  /\ Track(r)

Healthy(r) ==
  /\ Probed(r, "healthy")
  /\ Patch(r, Fields, [Entering(r, "Active", Observed(r)) EXCEPT !.probes = 0],
           rec[r].signals)
  /\ Elsewhere
  /\ UNCHANGED <<status, released, job, vm, worker, minted, faults, leaked>>
  /\ Track(r)

(* Mutant: the failure that reaches the threshold is still counted. *)
UnhealthyLate(r) ==
  /\ Probed(r, "failed") /\ Had(r).probes < LivenessThreshold
  /\ Patch(r, Fields, [Entering(r, "Active", Observed(r)) EXCEPT !.probes = @ + 1],
           rec[r].signals)
  /\ Elsewhere
  /\ UNCHANGED <<status, released, job, vm, worker, minted, faults, leaked>>
  /\ Track(r)

Unhealthy(r) ==
  /\ Probed(r, "failed") /\ Had(r).probes + 1 < LivenessThreshold
  /\ Patch(r, Fields, [Entering(r, "Active", Observed(r)) EXCEPT !.probes = @ + 1],
           rec[r].signals)
  /\ Elsewhere
  /\ UNCHANGED <<status, released, job, vm, worker, minted, faults, leaked>>
  /\ Track(r)

(* The VM has failed the binding; its retry is counted even while the
   release goes on. *)
GiveUpVm(r, consumed) ==
  /\ ReleaseThen(r, [Had(r) EXCEPT !.vmr = @ + 1, !.probes = 0], Fields, consumed,
                 RestartVm(r, consumed))
  /\ Elsewhere

LivenessFailed(r) ==
  /\ Probed(r, "failed") /\ Had(r).probes + 1 >= LivenessThreshold
  /\ GiveUpVm(r, rec[r].signals)
  /\ Track(r)

AwaitGuest(r) ==
  /\ Unprobed(r) /\ Observed(r).ready
  /\ Patch(r, Fields,
           Entering(r, IF Had(r).phase = "Active" THEN "Active" ELSE "PendingGuest",
                    Observed(r)), rec[r].signals)
  /\ Elsewhere
  /\ UNCHANGED <<status, released, job, vm, worker, minted, faults, leaked>>
  /\ Track(r)

ReadinessTimeout(r) ==
  /\ Unprobed(r) /\ ~Observed(r).ready
  /\ GiveUpVm(r, {})
  /\ Track(r)

AwaitDesktop(r) ==
  /\ Unprobed(r) /\ ~Observed(r).ready
  /\ Patch(r, Fields,
           [Entering(r, "PendingGuest", Observed(r)) EXCEPT !.probes = 0], {})
  /\ Elsewhere
  /\ UNCHANGED <<status, released, job, vm, worker, minted, faults, leaked>>
  /\ Track(r)

-----------------------------------------------------------------------------
(* The write at the end of a pass *)

(* patch_assistant_session_status: the fields of the pass on top of whatever
   the status is now.  A change of binding clears the signals. *)
Written(r) ==
  LET to == rec[r].status
      f == rec[r].fields
      keep(name, old, new) == IF name \in f THEN new ELSE old
  IN [phase |-> keep("phase", status.phase, to.phase),
      observed |-> keep("observed", status.observed, to.observed),
      binding |-> keep("binding", status.binding, to.binding),
      boot |-> keep("boot", status.boot, to.boot),
      vmr |-> keep("vmr", status.vmr, to.vmr),
      probes |-> keep("probes", status.probes, to.probes),
      intent |-> status.intent]

(* _remaining_signals: a signal is consumed by its name, so a newer result of
   the health probe goes with the one that was read. *)
Consumed(taken) ==
  LET health == {"healthy", "failed"} IN
  taken \cup IF taken \cap health = {} THEN {} ELSE health

WriteStatus(r) ==
  /\ rec[r].pc = "write"
  /\ status' = Written(r)
  /\ signals' = IF status'.binding.id # status.binding.id THEN {}
                ELSE signals \ Consumed(rec[r].signals)
  /\ Return(r)
  /\ UNCHANGED <<spec, released, job, vm, worker, minted, apiVars, faults, leaked>>
  /\ Track(r)

(* patch_assistant_session_spec *)
WriteStopped(r) ==
  /\ rec[r].pc = "stop"
  /\ spec' = [spec EXCEPT !.desired = "Stopped"]
  /\ Return(r)
  /\ UNCHANGED <<status, signals, released, job, vm, worker, minted, apiVars,
                 faults, leaked>>
  /\ Track(r)

(* A call to the API has failed, and kopf ends the pass. *)
Fail(r) ==
  /\ rec[r].pc # "idle"
  /\ Fault
  /\ Return(r)
  /\ UNCHANGED <<spec, status, signals, released, job, vm, worker, minted,
                 apiVars, leaked>>
  /\ Track(r)

(* The controller restarts: passes and assignment tasks are gone. *)
ControllerCrash ==
  /\ Fault
  /\ rec' = [r \in Reconcilers |-> Idle]
  /\ worker' = [b \in Bindings |-> "idle"]
  /\ overtaken' = {}
  /\ UNCHANGED <<spec, status, signals, released, job, vm, minted, apiVars, leaked,
                 crossed>>

-----------------------------------------------------------------------------
(* Starting and stopping, over HTTP *)

(* assistant_session_stop_requested *)
StopRequested ==
  /\ status.binding.id # 0 /\ spec.desired = "Stopped"
  /\ status.intent = [binding |-> status.binding.id, value |-> "stop"]

Draining ==
  /\ status.phase \in {"Releasing", "Released"}
  /\ status.binding.job \/ status.binding.vm

(* The activation of a session that runs, or is restarting, is reused. *)
Reused ==
  \/ status.phase \in ActivePhases
  \/ Draining
  \/ /\ status.phase # "None" /\ status.observed # 0
     /\ spec.activation # status.observed

NextActivation == IF Reused THEN spec.activation ELSE activations + 1

(* A binding that has, or is getting, a VM keeps its desktop, if the assistant
   is (still) entitled to one. *)
DesktopEstablished ==
  ~Draining /\ (status.binding.vm \/ status.binding.attempt = "running")

StartRead(d) ==
  /\ start = NoStart
  /\ ~StopRequested
  /\ NextActivation <= MaxActivation
  /\ \E entitled \in BOOLEAN :
       start' = [activation |-> NextActivation,
                 desktop |-> d \/ (entitled /\ DesktopEstablished)]
  /\ activations' = IF Reused THEN activations ELSE activations + 1
  /\ UNCHANGED <<spec, status, signals, released, job, vm, worker, minted, rec,
                 stopping, faults, leaked, overlap>>

(* create_or_update_assistant_session *)
StartWrite ==
  /\ start # NoStart
  /\ spec' = [desired |-> "Running", activation |-> start.activation,
              desktop |-> start.desktop]
  /\ start' = NoStart
  /\ UNCHANGED <<status, signals, released, job, vm, worker, minted, rec,
                 stopping, activations, faults, leaked, overlap>>

StartAbandoned ==
  /\ start # NoStart
  /\ Fault
  /\ start' = NoStart
  /\ UNCHANGED <<spec, status, signals, released, job, vm, worker, minted, rec,
                 stopping, activations, leaked, overlap>>

(* _persist_assistant_session_stop_request records the intent, then writes
   the spec. *)
StopIntent ==
  /\ ~stopping
  /\ stopping' = TRUE
  /\ IntentRecorded(status.binding.id, "stop")
  /\ UNCHANGED <<spec, signals, released, job, vm, worker, minted, rec, start,
                 activations, faults, leaked, overlap>>

StopSpec ==
  /\ stopping
  /\ stopping' = FALSE
  /\ spec' = [spec EXCEPT !.desired = "Stopped"]
  /\ UNCHANGED <<status, signals, released, job, vm, worker, minted, rec, start,
                 activations, faults, leaked, overlap>>

StopAbandoned ==
  /\ stopping
  /\ Fault
  /\ stopping' = FALSE
  /\ UNCHANGED <<spec, status, signals, released, job, vm, worker, minted, rec,
                 start, activations, leaked, overlap>>

-----------------------------------------------------------------------------
(* The VM assignment worker (_run_vm_assignment) *)

Current(b) == status.binding.id = b
(* The result of an attempt is only written to the binding it was for. *)
Awaited(b) == Current(b) /\ spec.desired = "Running"
              /\ status.binding.attempt = "running"

(* The worker finds its binding replaced before it starts. *)
AssignmentSkipped(b) ==
  /\ worker[b] = "queued" /\ ~Current(b)
  /\ worker' = [worker EXCEPT ![b] = "idle"]
  /\ UNCHANGED <<spec, status, signals, released, job, vm, minted, rec, apiVars,
                 faults, leaked, overlap>>

(* assign_pool_vm: no other VM may have the disk of the assistant.  The
   check that the binding is current may have been made earlier. *)
VmAssigned(b) ==
  /\ worker[b] = "queued" /\ vm[b] # "leaving"
  /\ \A c \in Bindings \ {b} : vm[c] = "none"
  /\ vm' = [vm EXCEPT ![b] = "kept"]
  /\ worker' = [worker EXCEPT ![b] = "claimed"]
  /\ UNCHANGED <<spec, status, signals, released, job, minted, rec, apiVars,
                 faults, leaked, overlap>>

(* No capacity, or the disk is in use. *)
AssignmentRefused(b) ==
  /\ worker[b] = "queued"
  /\ worker' = [worker EXCEPT ![b] = "idle"]
  /\ status' = IF Awaited(b) THEN [status EXCEPT !.binding.attempt = "refused"]
               ELSE status
  /\ UNCHANGED <<spec, signals, released, job, vm, minted, rec, apiVars, faults,
                 leaked, overlap>>

(* persist_binding_vm_assignment_result; a stale result is released. *)
AssignmentPersisted(b) ==
  /\ worker[b] = "claimed"
  /\ worker' = [worker EXCEPT ![b] = "idle"]
  /\ IF Awaited(b)
       THEN /\ status' = [status EXCEPT !.binding.vm = TRUE,
                                        !.binding.ready = FALSE,
                                        !.binding.attempt = "none",
                                        !.binding.release = "none"]
            /\ UNCHANGED vm
       ELSE /\ vm' = [vm EXCEPT ![b] = IF @ = "kept" THEN "leaving" ELSE @]
            /\ UNCHANGED status
  /\ UNCHANGED <<spec, signals, released, job, minted, rec, apiVars, faults,
                 leaked, overlap>>

-----------------------------------------------------------------------------
(* The cluster, the VM pool and the guest *)

clusterUnchanged == UNCHANGED <<spec, status, released, worker, minted, rec,
                                apiVars, leaked, overlap>>

(* Unity annotates its Job. *)
ContainerReady(b) ==
  /\ job[b] = "booting"
  /\ job' = [job EXCEPT ![b] = "ready"]
  /\ clusterUnchanged /\ UNCHANGED <<signals, vm, faults>>

(* The Job fails or completes. *)
JobEnds(b) ==
  /\ Live(b)
  /\ job' = [job EXCEPT ![b] = "done"]
  /\ clusterUnchanged /\ UNCHANGED <<signals, vm, faults>>

(* POST /job/stop marks it done while its pods still run. *)
JobSuspended(b) ==
  /\ Live(b)
  /\ job' = [job EXCEPT ![b] = "ending"]
  /\ clusterUnchanged /\ UNCHANGED <<signals, vm, faults>>

PodsGone(b) ==
  /\ job[b] = "ending"
  /\ job' = [job EXCEPT ![b] = "done"]
  /\ clusterUnchanged /\ UNCHANGED <<signals, vm, faults>>

JobDeleted(b) ==
  /\ Live(b)
  /\ Fault
  /\ job' = [job EXCEPT ![b] = "missing"]
  /\ clusterUnchanged /\ UNCHANGED <<signals, vm>>

(* The guest has confirmed the release, or has been retired. *)
VmReturns(b) ==
  /\ vm[b] = "leaving"
  /\ vm' = [vm EXCEPT ![b] = "none"]
  /\ clusterUnchanged /\ UNCHANGED <<signals, job, faults>>

(* Mutant: only VMs of the current binding are looked at. *)
SweepCurrent(b) ==
  /\ vm[b] = "kept" /\ ~Live(b) /\ Current(b)
  /\ vm' = [vm EXCEPT ![b] = "leaving"]
  /\ clusterUnchanged /\ UNCHANGED <<signals, job, faults>>

(* reconcile_orphaned_vms *)
SweepOrphan(b) ==
  /\ vm[b] = "kept" /\ ~Live(b)
  /\ vm' = [vm EXCEPT ![b] = "leaving"]
  /\ clusterUnchanged /\ UNCHANGED <<signals, job, faults>>

VmLost(b) ==
  /\ vm[b] = "kept"
  /\ Fault
  /\ vm' = [vm EXCEPT ![b] = "none"]
  /\ clusterUnchanged /\ UNCHANGED <<signals, job>>

(* POST /vm/ready, or the controller's own look at the desktop. *)
DesktopReady ==
  /\ status.binding.vm /\ vm[status.binding.id] = "kept"
  /\ ~status.binding.ready /\ "ready" \notin signals
  /\ signals' = signals \cup {"ready"}
  /\ clusterUnchanged /\ UNCHANGED <<job, vm, faults>>

(* _run_guest_health_probe replaces the result of the probe before it. *)
HealthProbe(state) ==
  /\ status.binding.vm /\ status.binding.ready
  /\ signals' = (signals \ {"healthy", "failed"}) \cup {state}
  /\ clusterUnchanged /\ UNCHANGED <<job, vm, faults>>

-----------------------------------------------------------------------------
(* Specification *)

Init ==
  /\ spec \in [desired: {"Running"}, activation: {1}, desktop: Desktops]
  /\ status = NoStatus
  /\ signals = {}
  /\ released = {}
  /\ job = [b \in Bindings |-> "none"]
  /\ vm = [b \in Bindings |-> "none"]
  /\ worker = [b \in Bindings |-> "idle"]
  /\ minted = 0
  /\ activations = 1
  /\ rec = [r \in Reconcilers |-> Idle]
  /\ start = NoStart
  /\ stopping = FALSE
  /\ faults = 0
  /\ leaked = {}
  /\ overtaken = {} /\ crossed = {}

Stop(r) == StopWithoutBinding(r) \/ StopBinding(r)
Renew(r) == RecoverWithoutBinding(r) \/ ReplaceActivation(r)
            \/ ContinueRelease(r) \/ MintBinding(r)
Contain(r) == JobMissing(r) \/ ClaimJob(r) \/ AwaitCapacity(r) \/ JobTerminal(r)
              \/ AwaitContainer(r) \/ BootstrapTimeout(r)
Equip(r) == RunWithoutDesktop(r) \/ AssignmentTimeout(r) \/ AwaitAssignment(r)
            \/ QueueAssignment(r) \/ OwnershipLost(r)
Watch(r) == Healthy(r) \/ Unhealthy(r) \/ LivenessFailed(r) \/ AwaitGuest(r)
            \/ ReadinessTimeout(r) \/ AwaitDesktop(r)
Branch(r) == Stop(r) \/ Renew(r) \/ Contain(r) \/ Equip(r) \/ Watch(r)

Reconcile(r) == Refresh(r) \/ Branch(r) \/ WriteStatus(r) \/ WriteStopped(r)
Api == \/ \E d \in Desktops : StartRead(d)
       \/ StartWrite \/ StartAbandoned
       \/ StopIntent \/ StopSpec \/ StopAbandoned
Assign(b) == AssignmentSkipped(b) \/ AssignmentRefused(b) \/ AssignmentPersisted(b)
             \/ VmAssigned(b)
Cluster(b) == ContainerReady(b) \/ JobEnds(b) \/ JobSuspended(b) \/ PodsGone(b)
              \/ JobDeleted(b) \/ VmReturns(b) \/ SweepOrphan(b) \/ VmLost(b)

Next ==
  \/ \E r \in Reconcilers : Reconcile(r) \/ OnSessionChange(r) \/ Fail(r)
  \/ ControllerCrash
  \/ Api
  \/ \E b \in Bindings : Assign(b) \/ Cluster(b)
  \/ DesktopReady
  \/ \E state \in {"healthy", "failed"} : HealthProbe(state)

Spec == Init /\ [][Next]_vars

(* The timer runs a pass again and again, and a task that was queued runs;
   a suspended Job loses its pods, a VM told to leave leaves, the sweeper is
   a cron job, and a stop request that has begun either ends or dies.  Nobody
   has to start or stop anything, and a deadline need never pass. *)
FairSpec ==
  /\ Spec
  /\ \A r \in Reconcilers : WF_vars(Reconcile(r))
  /\ \A b \in Bindings : /\ WF_vars(Assign(b)) /\ WF_vars(PodsGone(b))
                         /\ WF_vars(VmReturns(b)) /\ WF_vars(SweepOrphan(b))
  /\ WF_vars(StopSpec)

-----------------------------------------------------------------------------
(* Properties *)

(* Two containers of the assistant never run at once, unless the Job of one
   of them is one that a restart has failed to suspend, or its binding is one
   that an overtaken pass has acted for: a binding is only replaced when the
   Job it had has been stopped (_binding_release_state, _suspend_bound_job). *)
OneLiveContainer ==
  \A b, c \in Bindings :
    Live(b) /\ Live(c) /\ b # c => {b, c} \cap (leaked \cup crossed) # {}

(* A binding in the ledger of released bindings has no pods, so a caller that
   waits for its release by id may go on, unless an overtaken pass has acted
   for it (record_released_binding). *)
ReleasedIsClean == \A b \in released \ crossed : ~HasPods(b)

(* At least it has none as long as no call to an API has failed. *)
ReleasedIsCleanUnlessFaults == faults = 0 => ReleasedIsClean

(* The timer stops looking at a session that is Stopped and Released, so
   nothing of it may run any more, but for what an overtaken pass has brought
   back (_is_terminally_released). *)
QuietWhenReleased ==
  spec.desired = "Stopped" /\ status.phase = "Released" /\ status.binding.id = 0
    => \A b \in Bindings \ crossed : ~HasPods(b)

(* Its retries are used up and it has no binding, be its cleanup done or not. *)
Parked ==
  /\ spec.desired = "Running" /\ spec.activation = status.observed
  /\ status.phase \in {"Failed", "Releasing"} /\ status.binding.id = 0
  /\ BudgetExhausted(status)

(* Such a session gets no binding, however often it is looked at, until
   somebody changes what is asked of it: otherwise it would go on claiming
   Jobs.  Only a pass that has been overtaken may still bring one
   (_recover_failed_running_session_without_binding). *)
ParkedStaysParked ==
  [][Parked /\ spec' = spec => status'.binding.id \in {0} \cup crossed']_vars

(* The VM that the worker has written to a binding is not lost to a pass that
   read the binding before: the reference only goes when the binding is
   released or replaced, or by a pass that has been overtaken.  (Where every
   start asks for a desktop.) *)
VmRefIsKept ==
  [][status.binding.vm /\ status'.binding.id = status.binding.id
       => \/ status'.binding.vm \/ status'.phase = "Releasing"
          \/ status.binding.id \in crossed']_vars

(* A session that is to stop ends Released, with no binding, no pod and no
   VM, unless it is started again (_binding_release_state,
   _assistant_release_state_without_binding). *)
StopConverges ==
  spec.desired = "Stopped" ~>
    \/ spec.desired = "Running"
    \/ status.phase = "Released" /\ status.binding.id = 0 /\ Quiet(job, vm)

(* A new activation is taken up in the end: the release of the binding before
   it comes to an end (bounded: while bindings are left). *)
ReplacementConverges ==
  spec.desired = "Running" /\ spec.activation # status.observed ~>
    \/ spec.desired = "Stopped"
    \/ spec.activation = status.observed
    \/ minted = MaxBinding

(* The VM of a binding that is no longer current goes back to the pool,
   unless the Job it had could not be suspended (reconcile_orphaned_vms, the
   stale result of _run_vm_assignment). *)
StrayVmReturns ==
  \A b \in Bindings :
    vm[b] # "none" /\ ~Current(b) /\ b \notin leaked ~> vm[b] = "none"

(* A session at work has not used more VM readiness retries than its budget:
   once it is exhausted there are no further bindings
   (_restart_binding_decision, _retry_budget_exhausted). *)
BudgetHolds == status.phase \in ActivePhases => status.vmr <= MaxVmRetries

(* A VM is not left assigned to a session that runs without a desktop and
   knows nothing of it: nothing would give it back before the session stops
   (_release_desktop_for_container_session). *)
NoStrandedVm ==
  \A b \in Bindings :
    ~ /\ vm[b] = "kept" /\ worker[b] = "idle"
      /\ Current(b) /\ status.phase = "Active" /\ ~status.binding.vm
      /\ spec.desired = "Running" /\ ~spec.desktop
      /\ spec.activation = status.observed
      /\ start = NoStart /\ \A r \in Reconcilers : rec[r].pc = "idle"

=============================================================================

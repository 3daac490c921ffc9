----------------------- MODULE SessionControllerTypes -----------------------
(***************************************************************************)
(* Type correctness of the reconcile loop: a lemma for each helper that a  *)
(* branch is built from, one for each group of branches, and one for each  *)
(* actor beside the loop.  The invariant is strengthened by what a start   *)
(* request under way is about to write (StartNamesOne).                    *)
(***************************************************************************)
EXTENDS SessionController, TLAPS

Signals == {"ready", "healthy", "failed"}
PassType ==
  [pc: {"idle", "read", "write", "stop"}, spec: SpecType, status: StatusType,
   signals: SUBSET Signals, fields: SUBSET Fields]

LEMMA NoBindingType == NoBinding \in BindingType
BY BoundsAssumption DEF NoBinding, NewBinding, BindingType

LEMMA NoSpecType == NoSpec \in SpecType
BY BoundsAssumption DEF NoSpec, SpecType

LEMMA NoStatusType == NoStatus \in StatusType
BY BoundsAssumption, LimitsAssumption, NoBindingType
   DEF NoStatus, StatusType, Phases

LEMMA PassHasType ==
  ASSUME NEW pc \in {"idle", "read", "write", "stop"}, NEW sp \in SpecType,
         NEW st \in StatusType, NEW sigs \in SUBSET Signals,
         NEW fields \in SUBSET Fields
  PROVE  Pass(pc, sp, st, sigs, fields) \in PassType
BY DEF Pass, PassType

(* What a pass has read has its type. *)
LEMMA ReadHasType ==
  ASSUME SessionOK, NEW r \in Reconcilers
  PROVE  /\ rec \in [Reconcilers -> PassType]
         /\ Want(r) \in SpecType /\ Had(r) \in StatusType
         /\ Bound(r) \in BindingType /\ Id(r) \in 0..MaxBinding
         /\ rec[r].signals \in SUBSET Signals
         /\ rec[r].status = Had(r) /\ Had(r).binding = Bound(r)
<1>1. rec \in [Reconcilers -> PassType]
  BY DEF SessionOK, PassType, Signals
<1>2. rec[r] \in PassType
  BY <1>1
<1>3. Want(r) \in SpecType /\ Had(r) \in StatusType /\ rec[r].signals \in SUBSET Signals
  BY <1>2 DEF PassType, Want, Had
<1>4. Bound(r) \in BindingType
  BY <1>3 DEF StatusType, Bound, Had
<1>5. Id(r) \in 0..MaxBinding
  BY <1>4 DEF BindingType, Bound, Id
<1>. QED  BY <1>1, <1>3, <1>4, <1>5 DEF Had, Bound

LEMMA PassEnds ==
  ASSUME SessionOK, NEW r \in Reconcilers, Return(r)
  PROVE  rec' \in [Reconcilers -> PassType]
<1>1. Idle \in PassType
  BY NoSpecType, NoStatusType, PassHasType DEF Idle
<1>. QED  BY <1>1, ReadHasType DEF Return

LEMMA PatchHasType ==
  ASSUME SessionOK, NEW r \in Reconcilers, NEW fields \in SUBSET Fields,
         NEW to \in StatusType, NEW consumed \in SUBSET Signals,
         Patch(r, fields, to, consumed)
  PROVE  rec' \in [Reconcilers -> PassType]
<1>1. Pass("write", NoSpec, to, consumed, fields) \in PassType
  BY NoSpecType, PassHasType
<1>. QED  BY <1>1, ReadHasType DEF Patch

(* One field of a status after the other. *)
LEMMA StatusWith ==
  ASSUME NEW st \in StatusType
  PROVE  /\ \A phase \in Phases : [st EXCEPT !.phase = phase] \in StatusType
         /\ \A n \in 0..MaxActivation : [st EXCEPT !.observed = n] \in StatusType
         /\ \A b \in BindingType : [st EXCEPT !.binding = b] \in StatusType
         /\ [st EXCEPT !.probes = 0] \in StatusType
<1>1. 0 \in 0..(LivenessThreshold - 1)
  BY LimitsAssumption
<1>. QED  BY <1>1 DEF StatusType

LEMMA StatusBecomes ==
  ASSUME NEW st \in StatusType, NEW phase \in Phases,
         NEW n \in 0..MaxActivation, NEW b \in BindingType
  PROVE  /\ [st EXCEPT !.phase = phase, !.observed = n] \in StatusType
         /\ [st EXCEPT !.phase = phase, !.binding = b] \in StatusType
         /\ [st EXCEPT !.phase = phase, !.probes = 0] \in StatusType
         /\ [st EXCEPT !.phase = phase, !.observed = n, !.binding = b] \in StatusType
         /\ [st EXCEPT !.phase = phase, !.binding = b, !.observed = n] \in StatusType
         /\ [st EXCEPT !.phase = phase, !.probes = 0, !.binding = b] \in StatusType
<1>1. [st EXCEPT !.phase = phase] \in StatusType
  BY StatusWith
<1>2. /\ [[st EXCEPT !.phase = phase] EXCEPT !.observed = n] \in StatusType
      /\ [[st EXCEPT !.phase = phase] EXCEPT !.binding = b] \in StatusType
      /\ [[st EXCEPT !.phase = phase] EXCEPT !.probes = 0] \in StatusType
  BY <1>1, StatusWith
<1>3. /\ [[[st EXCEPT !.phase = phase] EXCEPT !.observed = n]
             EXCEPT !.binding = b] \in StatusType
      /\ [[[st EXCEPT !.phase = phase] EXCEPT !.binding = b]
             EXCEPT !.observed = n] \in StatusType
      /\ [[[st EXCEPT !.phase = phase] EXCEPT !.probes = 0]
             EXCEPT !.binding = b] \in StatusType
  BY <1>2, StatusWith
<1>. QED  BY <1>2, <1>3, Zenon

LEMMA EnteringHasType ==
  ASSUME SessionOK, NEW r \in Reconcilers, NEW phase \in Phases,
         NEW binding \in BindingType
  PROVE  Entering(r, phase, binding) \in StatusType
<1>1. Had(r) \in StatusType /\ Want(r).activation \in 0..MaxActivation
  BY ReadHasType, BoundsAssumption DEF SpecType
<1>. QED  BY <1>1, StatusBecomes DEF Entering

LEMMA MintHasType ==
  ASSUME SessionOK, NEW r \in Reconcilers, NEW to \in StatusType,
         NEW consumed \in SUBSET Signals, Mint(r, to, consumed)
  PROVE  rec' \in [Reconcilers -> PassType] /\ minted' \in 0..MaxBinding
<1>1. CASE minted < MaxBinding
  <2> DEFINE fresh == [to EXCEPT !.phase = "PendingJob", !.probes = 0,
                                 !.binding = NewBinding(minted + 1)]
  <2>1. minted + 1 \in 0..MaxBinding
    BY <1>1, BoundsAssumption DEF SessionOK
  <2>2. NewBinding(minted + 1) \in BindingType
    BY <2>1 DEF NewBinding, BindingType
  <2>3. fresh \in StatusType
    <3>1. "PendingJob" \in Phases /\ 0 \in 0..MaxActivation
      BY BoundsAssumption DEF Phases, ActivePhases
    <3>. QED  BY <2>2, <3>1, StatusBecomes
  <2>4. Patch(r, Fields, fresh, consumed) /\ minted' = minted + 1
    BY <1>1 DEF Mint
  <2>. QED  BY <2>1, <2>3, <2>4, PatchHasType
<1>2. CASE ~(minted < MaxBinding)
  BY <1>2, PassEnds DEF Mint, SessionOK
<1>. QED  BY <1>1, <1>2

LEMMA RestartHasType ==
  ASSUME SessionOK, NEW r \in Reconcilers, NEW consumed \in SUBSET Signals,
         RestartBoot(r) \/ RestartVm(r, consumed)
  PROVE  rec' \in [Reconcilers -> PassType] /\ minted' \in 0..MaxBinding
<1> DEFINE failed == [Entering(r, "Failed", NoBinding) EXCEPT !.probes = 0]
<1>1. Had(r) \in StatusType /\ Entering(r, "Failed", NoBinding) \in StatusType
  BY ReadHasType, NoBindingType, EnteringHasType DEF Phases
<1>2. failed \in StatusType
  BY <1>1, StatusWith
<1>6. failed.boot = Had(r).boot /\ failed.vmr = Had(r).vmr
  BY <1>1 DEF StatusType, Entering
<1>3. {} \in SUBSET Signals /\ Fields \in SUBSET Fields /\ minted \in 0..MaxBinding
  BY DEF SessionOK
<1>4. CASE RestartBoot(r)
  <2> HIDE DEF failed
  <2>1. CASE Had(r).boot >= MaxBootstrapRetries
    <3>1. Patch(r, Fields, failed, {}) /\ UNCHANGED minted
      BY <1>4, <2>1 DEF RestartBoot, Restart, failed
    <3>. QED  BY <3>1, <1>2, <1>3, PatchHasType
  <2>2. CASE ~(Had(r).boot >= MaxBootstrapRetries)
    <3>1. Mint(r, [failed EXCEPT !.boot = @ + 1], {})
      BY <1>4, <2>2 DEF RestartBoot, Restart, failed
    <3>2. [failed EXCEPT !.boot = @ + 1] \in StatusType
      BY <1>1, <1>2, <1>6, <2>2, LimitsAssumption DEF StatusType
    <3>. QED  BY <3>1, <3>2, <1>3, MintHasType
  <2>. QED  BY <2>1, <2>2
<1>5. CASE RestartVm(r, consumed)
  <2> HIDE DEF failed
  <2>1. CASE Had(r).vmr >= MaxVmRetries
    <3>1. Patch(r, Fields, failed, consumed) /\ UNCHANGED minted
      BY <1>5, <2>1 DEF RestartVm, Restart, failed
    <3>. QED  BY <3>1, <1>2, <1>3, PatchHasType
  <2>2. CASE ~(Had(r).vmr >= MaxVmRetries)
    <3>1. Mint(r, [failed EXCEPT !.vmr = @ + 1], consumed)
      BY <1>5, <2>2 DEF RestartVm, Restart, failed
    <3>2. [failed EXCEPT !.vmr = @ + 1] \in StatusType
      BY <1>1, <1>2, <1>6 DEF StatusType
    <3>. QED  BY <3>1, <3>2, MintHasType
  <2>. QED  BY <2>1, <2>2
<1>. QED  BY <1>4, <1>5

LEMMA IntentHasType ==
  ASSUME SessionOK, NEW b \in 0..MaxBinding, NEW value \in {"none", "stop", "replace"},
         IntentRecorded(b, value)
  PROVE  status' \in StatusType
<1> DEFINE intent == IF status.binding.id = b /\ b # 0
                       THEN [binding |-> b, value |-> value] ELSE status.intent
<1>1. status \in StatusType
  BY DEF SessionOK
<1>2. intent \in [binding: 0..MaxBinding, value: {"none", "stop", "replace"}]
  BY <1>1 DEF StatusType
<1>3. status' = [status EXCEPT !.intent = intent]
  BY DEF IntentRecorded
<1> HIDE DEF intent
<1>. QED  BY <1>1, <1>2, <1>3 DEF StatusType

LEMMA SuspendAllHasType ==
  ASSUME SessionOK, SuspendAll
  PROVE  job' \in [Bindings -> JobStates] /\ faults' \in 0..MaxFaults
         /\ leaked' \subseteq Bindings
<1>1. PICK failing \in SUBSET {b \in Bindings : Live(b)} :
        /\ Fault \/ (failing = {} /\ UNCHANGED faults)
        /\ job' = [b \in Bindings |->
                     IF Live(b) /\ b \notin failing THEN "ending" ELSE job[b]]
        /\ UNCHANGED leaked
  BY DEF SuspendAll
<1>2. job' \in [Bindings -> JobStates]
  BY <1>1 DEF SessionOK, JobStates, PodStates
<1>3. faults' \in 0..MaxFaults
  BY <1>1, BoundsAssumption DEF SessionOK, Fault
<1>. QED  BY <1>1, <1>2, <1>3 DEF SessionOK

LEMMA SuspendIntentsHasType ==
  ASSUME SessionOK, NEW r \in Reconcilers, NEW value \in {"stop", "replace"},
         SuspendIntents(r, value)
  PROVE  status' \in StatusType
<1>1. status.binding.id \in 0..MaxBinding /\ status \in StatusType
  BY DEF SessionOK, StatusType, BindingType
<1>. QED  BY <1>1, IntentHasType DEF SuspendIntents

LEMMA ReleaseHasType ==
  ASSUME SessionOK, NEW r \in Reconcilers, Id(r) # 0, NEW value \in {"stop", "replace"},
         Release(r, value)
  PROVE  /\ job' \in [Bindings -> JobStates] /\ faults' \in 0..MaxFaults
         /\ leaked' \subseteq Bindings /\ status' \in StatusType
         /\ vm' \in [Bindings -> VmStates] /\ worker' \in [Bindings -> WorkerStates]
         /\ released' \subseteq Bindings
<1>1. SuspendAll /\ SuspendIntents(r, value)
      /\ released' \subseteq released \cup {Id(r)} /\ worker' = worker
  BY DEF Release
<1>2. Id(r) \in Bindings
  BY ReadHasType DEF Bindings
<1>3. vm' \in [Bindings -> VmStates]
  <2>1. OthersReleasing(r) \in [Bindings -> VmStates]
    BY DEF SessionOK, OthersReleasing, VmStates
  <2>2. OwnReleasing(r) \subseteq VmStates
    BY <1>2, ReadHasType DEF SessionOK, OwnReleasing, VmStates, BindingType
  <2>. QED  BY <2>1, <2>2 DEF SessionOK, Release
<1>. QED  BY <1>1, <1>2, <1>3, SuspendAllHasType, SuspendIntentsHasType DEF SessionOK

LEMMA ReleasingHasType ==
  ASSUME SessionOK, NEW r \in Reconcilers
  PROVE  ReleasingBinding(r) \in BindingType
<1>1. Bound(r) \in BindingType
  BY ReadHasType
<1>2. KeepsVmRef(r) \in BOOLEAN /\ (Bound(r).ready /\ KeepsVmRef(r)) \in BOOLEAN
  BY DEF KeepsVmRef
<1>3. ReleasingBinding(r) = [Bound(r) EXCEPT !.vm = KeepsVmRef(r), !.attempt = "none",
                               !.ready = Bound(r).ready /\ KeepsVmRef(r),
                               !.release = ReleaseProgress(r)]
  BY <1>1 DEF ReleasingBinding, BindingType
<1>4. ReleaseProgress(r) \in {"none", "asked", "completed"}
  BY DEF ReleaseProgress
<1>. QED  BY <1>1, <1>2, <1>3, <1>4 DEF BindingType

LEMMA ReleaseWithoutBindingHasType ==
  ASSUME SessionOK, NEW r \in Reconcilers, ReleaseWithoutBinding(r)
  PROVE  /\ job' \in [Bindings -> JobStates] /\ faults' \in 0..MaxFaults
         /\ leaked' \subseteq Bindings /\ status' \in StatusType
         /\ vm' \in [Bindings -> VmStates] /\ UNCHANGED <<worker, released>>
<1>1. SuspendAll /\ SuspendIntents(r, "replace") /\ UNCHANGED <<worker, released>>
  BY DEF ReleaseWithoutBinding
<1>2. vm' \in [Bindings -> VmStates]
  BY DEF ReleaseWithoutBinding, SessionOK, VmStates
<1>. QED  BY <1>1, <1>2, SuspendAllHasType, SuspendIntentsHasType

LEMMA SuspendOwnHasType ==
  ASSUME SessionOK, NEW r \in Reconcilers, Id(r) # 0, SuspendOwn(r)
  PROVE  /\ job' \in [Bindings -> JobStates] /\ faults' \in 0..MaxFaults
         /\ leaked' \subseteq Bindings /\ status' \in StatusType
<1>1. Id(r) \in Bindings /\ Id(r) \in 0..MaxBinding
  BY ReadHasType DEF Bindings
<1>2. status' \in StatusType
  BY <1>1, IntentHasType DEF SuspendOwn
<1>3. job' \in [Bindings -> JobStates]
  BY <1>1 DEF SuspendOwn, SessionOK, JobStates, PodStates
<1>4. faults' \in 0..MaxFaults /\ leaked' \subseteq Bindings
  BY <1>1, BoundsAssumption DEF SuspendOwn, SessionOK, Fault
<1>. QED  BY <1>2, <1>3, <1>4

LEMMA StopKeepsTypes ==
  ASSUME SessionOK, NEW r \in Reconcilers, Stop(r)
  PROVE  SessionOK'
<1>1. /\ Had(r) \in StatusType /\ Want(r).activation \in 0..MaxActivation
      /\ BindingFields \in SUBSET Fields /\ {} \in SUBSET Signals
      /\ "Released" \in Phases /\ "Releasing" \in Phases
      /\ FirstObserved(r) \in 0..MaxActivation
  BY ReadHasType, BoundsAssumption
     DEF SpecType, StatusType, BindingFields, Fields, Phases, FirstObserved
<1>2. CASE StopWithoutBinding(r)
  <2>1. PICK phase \in {"Released", "Releasing"} :
          Patch(r, BindingFields, [Had(r) EXCEPT !.phase = phase,
                                     !.observed = FirstObserved(r)], {})
    BY <1>2 DEF StopWithoutBinding
  <2>2. [Had(r) EXCEPT !.phase = phase, !.observed = FirstObserved(r)] \in StatusType
    BY <1>1, NoBindingType, StatusBecomes
  <2>3. rec' \in [Reconcilers -> PassType]
    BY <1>1, <2>1, <2>2, PatchHasType
  <2>4. ReleaseWithoutBinding(r) /\ Elsewhere /\ UNCHANGED minted
    BY <1>2 DEF StopWithoutBinding
  <2>. QED  BY <2>3, <2>4, ReleaseWithoutBindingHasType
            DEF SessionOK, PassType, Signals, Elsewhere, apiVars
<1>3. CASE StopBinding(r)
  <2>1. PICK phase \in {"Released", "Releasing"},
             binding \in {NoBinding, ReleasingBinding(r)} :
          Patch(r, BindingFields, [Had(r) EXCEPT !.phase = phase, !.binding = binding,
                                     !.observed = FirstObserved(r)], {})
    BY <1>3 DEF StopBinding
  <2>2. [Had(r) EXCEPT !.phase = phase, !.binding = binding,
                       !.observed = FirstObserved(r)] \in StatusType
    BY <1>1, NoBindingType, ReleasingHasType, StatusBecomes
  <2>3. rec' \in [Reconcilers -> PassType]
    BY <1>1, <2>1, <2>2, PatchHasType
  <2>4. Release(r, "stop") /\ Elsewhere /\ UNCHANGED minted /\ Id(r) # 0
    BY <1>3 DEF StopBinding
  <2>. QED  BY <2>3, <2>4, ReleaseHasType
            DEF SessionOK, PassType, Signals, Elsewhere, apiVars
<1>. QED  BY <1>2, <1>3 DEF Stop

LEMMA FreshAttemptHasType ==
  ASSUME SessionOK, NEW r \in Reconcilers
  PROVE  FreshAttempt(r) \in StatusType
<1>1. Had(r) \in StatusType /\ Want(r).activation \in 0..MaxActivation
  BY ReadHasType, BoundsAssumption DEF SpecType
<1>2. [Had(r) EXCEPT !.observed = Want(r).activation] \in StatusType
  BY <1>1, StatusWith
<1>3. \A st \in StatusType :
         [st EXCEPT !.boot = 0] \in StatusType /\ [st EXCEPT !.vmr = 0] \in StatusType
  <2>1. 0 \in 0..MaxBootstrapRetries
    BY LimitsAssumption
  <2>. QED  BY <2>1 DEF StatusType
<1>4. [[[Had(r) EXCEPT !.observed = Want(r).activation] EXCEPT !.boot = 0]
         EXCEPT !.vmr = 0] \in StatusType
  BY <1>2, <1>3
<1>. QED  BY <1>2, <1>4 DEF FreshAttempt

LEMMA RenewKeepsTypes ==
  ASSUME SessionOK, NEW r \in Reconcilers, Renew(r)
  PROVE  SessionOK'
<1>1. /\ Had(r) \in StatusType /\ Want(r).activation \in 0..MaxActivation
      /\ BindingFields \in SUBSET Fields /\ {} \in SUBSET Signals
      /\ Fields \ {"probes"} \in SUBSET Fields
      /\ "Failed" \in Phases /\ "Releasing" \in Phases
      /\ FirstObserved(r) \in 0..MaxActivation /\ minted \in 0..MaxBinding
  BY ReadHasType, BoundsAssumption
     DEF SessionOK, SpecType, StatusType, BindingFields, Fields, Phases, FirstObserved
<1>2. CASE RecoverWithoutBinding(r)
  <2>1. rec' \in [Reconcilers -> PassType] /\ minted' \in 0..MaxBinding
    <3>1. /\ [Had(r) EXCEPT !.phase = "Releasing"] \in StatusType
          /\ [Had(r) EXCEPT !.phase = "Failed"] \in StatusType
      BY <1>1, StatusWith
    <3>2. ASSUME DeclareStopped(r)
          PROVE  rec' \in [Reconcilers -> PassType]
      <4>1. Pass("stop", NoSpec, NoStatus, {}, {}) \in PassType
        BY NoSpecType, NoStatusType, PassHasType
      <4>. QED  BY <3>2, <4>1, ReadHasType DEF DeclareStopped
    <3>. QED  BY <1>1, <1>2, <3>1, <3>2, PassEnds, PatchHasType, MintHasType
              DEF RecoverWithoutBinding
  <2>2. ReleaseWithoutBinding(r) /\ Elsewhere
    BY <1>2 DEF RecoverWithoutBinding
  <2>. QED  BY <2>1, <2>2, ReleaseWithoutBindingHasType
            DEF SessionOK, PassType, Signals, Elsewhere, apiVars
<1>3. CASE ReplaceActivation(r) \/ ContinueRelease(r)
  <2>1. /\ [Had(r) EXCEPT !.phase = "Releasing", !.binding = ReleasingBinding(r)]
             \in StatusType
        /\ [Had(r) EXCEPT !.phase = "Releasing", !.binding = ReleasingBinding(r),
                          !.observed = FirstObserved(r)] \in StatusType
    BY <1>1, ReleasingHasType, StatusBecomes
  <2>2. rec' \in [Reconcilers -> PassType] /\ minted' \in 0..MaxBinding
    BY <1>1, <1>3, <2>1, FreshAttemptHasType, PatchHasType, MintHasType
       DEF ReplaceActivation, ContinueRelease
  <2>3. Release(r, "replace") /\ Elsewhere /\ Id(r) # 0
    BY <1>3 DEF ReplaceActivation, ContinueRelease, Replaced
  <2>. QED  BY <2>2, <2>3, ReleaseHasType
            DEF SessionOK, PassType, Signals, Elsewhere, apiVars
<1>4. CASE MintBinding(r)
  BY <1>1, <1>4, FreshAttemptHasType, MintHasType
     DEF MintBinding, SessionOK, PassType, Signals, Elsewhere, apiVars
<1>. QED  BY <1>2, <1>3, <1>4 DEF Renew

(* A release that is followed by a restart of the binding. *)
LEMMA ReleaseThenHasType ==
  ASSUME SessionOK, NEW r \in Reconcilers, Id(r) # 0,
         NEW waiting \in StatusType, NEW fields \in SUBSET Fields,
         NEW consumed \in SUBSET Signals,
         Release(r, "replace"),
         \/ Patch(r, fields, [waiting EXCEPT !.phase = "Releasing",
                                !.observed = Want(r).activation,
                                !.binding = ReleasingBinding(r)], consumed)
            /\ UNCHANGED minted
         \/ RestartBoot(r) \/ RestartVm(r, consumed)
         \/ DeclareStopped(r) /\ UNCHANGED minted,
         Elsewhere
  PROVE  SessionOK'
<1>1. "Releasing" \in Phases /\ Want(r).activation \in 0..MaxActivation
      /\ minted \in 0..MaxBinding
  BY ReadHasType, BoundsAssumption DEF Phases, SpecType, SessionOK
<1>2. [waiting EXCEPT !.phase = "Releasing", !.observed = Want(r).activation,
                      !.binding = ReleasingBinding(r)] \in StatusType
  BY <1>1, ReleasingHasType, StatusBecomes
<1>3. ASSUME DeclareStopped(r)
      PROVE  rec' \in [Reconcilers -> PassType]
  <2>1. Pass("stop", NoSpec, NoStatus, {}, {}) \in PassType
    BY NoSpecType, NoStatusType, PassHasType
  <2>. QED  BY <1>3, <2>1, ReadHasType DEF DeclareStopped
<1>4. rec' \in [Reconcilers -> PassType] /\ minted' \in 0..MaxBinding
  BY <1>1, <1>2, <1>3, PatchHasType, RestartHasType
<1>. QED  BY <1>4, ReleaseHasType DEF SessionOK, PassType, Signals, Elsewhere, apiVars

LEMMA ContainKeepsTypes ==
  ASSUME SessionOK, NEW r \in Reconcilers, Contain(r)
  PROVE  SessionOK'
<1>1. /\ Had(r) \in StatusType /\ Bound(r) \in BindingType
      /\ BindingFields \in SUBSET Fields /\ {} \in SUBSET Signals
      /\ {"PendingJob", "PendingContainer"} \subseteq Phases
      /\ minted \in 0..MaxBinding /\ [Had(r) EXCEPT !.probes = 0] \in StatusType
  BY ReadHasType, StatusWith DEF SessionOK, BindingFields, Fields, Phases, ActivePhases
<1>2. Id(r) # 0
  BY DEF Contain, JobMissing, ClaimJob, AwaitCapacity, JobTerminal, AwaitContainer,
         BootstrapTimeout, Booting, Working
<1>3. Id(r) \in Bindings
  BY <1>2, ReadHasType DEF Bindings
<1>4. CASE JobMissing(r)
  BY <1>1, <1>2, <1>4, ReleaseThenHasType DEF JobMissing, ReleaseThen
<1>5. CASE JobTerminal(r)
  BY <1>1, <1>2, <1>5, ReleaseThenHasType DEF JobTerminal, ReleaseThen
<1>6. CASE ClaimJob(r)
  <2>1. [Bound(r) EXCEPT !.job = TRUE] \in BindingType
    BY <1>1 DEF BindingType
  <2>2. [Entering(r, "PendingContainer", [Bound(r) EXCEPT !.job = TRUE])
           EXCEPT !.probes = 0] \in StatusType
    BY <1>1, <2>1, EnteringHasType, StatusWith
  <2>3. rec' \in [Reconcilers -> PassType]
    BY <1>1, <1>6, <2>2, PatchHasType DEF ClaimJob
  <2>4. job' \in [Bindings -> JobStates]
    BY <1>3, <1>6 DEF ClaimJob, SessionOK, JobStates, PodStates, LiveStates
  <2>. QED  BY <1>6, <2>3, <2>4
            DEF ClaimJob, SessionOK, PassType, Signals, Elsewhere, apiVars
<1>7. CASE AwaitCapacity(r) \/ AwaitContainer(r)
  <2>1. rec' \in [Reconcilers -> PassType]
    BY <1>1, <1>7, EnteringHasType, PatchHasType DEF AwaitCapacity, AwaitContainer
  <2>. QED  BY <1>7, <2>1
            DEF AwaitCapacity, AwaitContainer, SessionOK, PassType, Signals, Elsewhere,
                apiVars
<1>8. CASE BootstrapTimeout(r)
  <2>1. rec' \in [Reconcilers -> PassType] /\ minted' \in 0..MaxBinding
    BY <1>1, <1>8, RestartHasType DEF BootstrapTimeout
  <2>. QED  BY <1>2, <1>8, <2>1, SuspendOwnHasType
            DEF BootstrapTimeout, SessionOK, PassType, Signals, Elsewhere, apiVars
<1>. QED  BY <1>4, <1>5, <1>6, <1>7, <1>8 DEF Contain

LEMMA EquipKeepsTypes ==
  ASSUME SessionOK, NEW r \in Reconcilers, Equip(r)
  PROVE  SessionOK'
<1>1. /\ Had(r) \in StatusType /\ Bound(r) \in BindingType
      /\ BindingFields \in SUBSET Fields /\ {} \in SUBSET Signals
      /\ {"phase", "observed"} \in SUBSET Fields
      /\ BindingFields \cup {"probes"} \in SUBSET Fields
      /\ "Active" \in Phases /\ "PendingVM" \in Phases
      /\ minted \in 0..MaxBinding
  BY ReadHasType DEF SessionOK, BindingFields, Fields, Phases, ActivePhases
<1>2. Id(r) # 0
  BY DEF Equip, RunWithoutDesktop, AssignmentTimeout, AwaitAssignment, QueueAssignment,
         OwnershipLost, Assigning, Assigned, Serving, Working
<1>3. Id(r) \in Bindings
  BY <1>2, ReadHasType DEF Bindings
<1>4. CASE RunWithoutDesktop(r)
  <2> DEFINE bare == [Bound(r) EXCEPT !.vm = FALSE, !.ready = FALSE,
                        !.attempt = IF Bound(r).vm THEN "none" ELSE @,
                        !.release = IF Bound(r).vm THEN "asked" ELSE @]
  <2>1. bare \in BindingType
    BY <1>1 DEF BindingType
  <2>2. [Entering(r, "Active", bare) EXCEPT !.probes = 0] \in StatusType
    BY <1>1, <2>1, EnteringHasType, StatusWith
  <2>3. rec' \in [Reconcilers -> PassType]
    BY <1>1, <1>4, <2>2, PatchHasType DEF RunWithoutDesktop
  <2>4. vm' \in [Bindings -> VmStates]
    BY <1>3, <1>4 DEF RunWithoutDesktop, SessionOK, VmStates
  <2>. QED  BY <1>4, <2>3, <2>4
            DEF RunWithoutDesktop, SessionOK, PassType, Signals, Elsewhere, apiVars
<1>5. CASE AssignmentTimeout(r) \/ OwnershipLost(r)
  <2>1. rec' \in [Reconcilers -> PassType] /\ minted' \in 0..MaxBinding
    BY <1>1, <1>5, RestartHasType DEF AssignmentTimeout, OwnershipLost
  <2>. QED  BY <1>2, <1>5, <2>1, SuspendOwnHasType
            DEF AssignmentTimeout, OwnershipLost, SessionOK, PassType, Signals, Elsewhere,
                apiVars
<1>6. CASE AwaitAssignment(r)
  <2>1. rec' \in [Reconcilers -> PassType]
    BY <1>1, <1>6, EnteringHasType, PatchHasType DEF AwaitAssignment
  <2>. QED  BY <1>6, <2>1
            DEF AwaitAssignment, SessionOK, PassType, Signals, Elsewhere, apiVars
<1>7. CASE QueueAssignment(r)
  <2>1. rec' \in [Reconcilers -> PassType]
    BY <1>1, <1>7, EnteringHasType, PatchHasType, PassEnds DEF QueueAssignment
  <2>2. [status EXCEPT !.binding.attempt = "running"] \in StatusType
    BY DEF SessionOK, StatusType, BindingType
  <2>3. status' \in StatusType
    BY <1>7, <2>2 DEF QueueAssignment, SessionOK
  <2>4. worker' \in [Bindings -> WorkerStates]
    BY <1>3, <1>7 DEF QueueAssignment, SessionOK, WorkerStates
  <2>. QED  BY <1>7, <2>1, <2>3, <2>4
            DEF QueueAssignment, SessionOK, PassType, Signals, Elsewhere, apiVars
<1>. QED  BY <1>4, <1>5, <1>6, <1>7 DEF Equip

LEMMA WatchKeepsTypes ==
  ASSUME SessionOK, NEW r \in Reconcilers, Watch(r)
  PROVE  SessionOK'
<1>1. /\ Had(r) \in StatusType /\ Bound(r) \in BindingType
      /\ rec[r].signals \in SUBSET Signals /\ {} \in SUBSET Signals
      /\ "Active" \in Phases /\ "PendingGuest" \in Phases
      /\ Fields \in SUBSET Fields
  BY ReadHasType DEF Phases, ActivePhases
<1>2. Id(r) # 0
  BY DEF Watch, Healthy, Unhealthy, LivenessFailed, AwaitGuest, ReadinessTimeout,
         AwaitDesktop, Probed, Unprobed, Guest, Assigned, Serving, Working
<1>3. Observed(r) \in BindingType
  <2>1. (Bound(r).ready \/ "ready" \in rec[r].signals) \in BOOLEAN
    OBVIOUS
  <2>. QED  BY <1>1, <2>1 DEF Observed, BindingType
<1>4. CASE Healthy(r) \/ AwaitGuest(r) \/ AwaitDesktop(r)
  <2>1. rec' \in [Reconcilers -> PassType]
    BY <1>1, <1>3, <1>4, EnteringHasType, StatusWith, PatchHasType
       DEF Healthy, AwaitGuest, AwaitDesktop
  <2>. QED  BY <1>4, <2>1
            DEF Healthy, AwaitGuest, AwaitDesktop, SessionOK, PassType, Signals, Elsewhere,
                apiVars
<1>5. CASE Unhealthy(r)
  <2> DEFINE active == Entering(r, "Active", Observed(r))
  <2>1. active \in StatusType
    BY <1>1, <1>3, EnteringHasType
  <2>2. active.probes = Had(r).probes /\ Had(r).probes \in 0..(LivenessThreshold - 1)
    BY <1>1 DEF Entering, StatusType
  <2>3. active.probes + 1 \in 0..(LivenessThreshold - 1)
    BY <1>5, <2>2, LimitsAssumption DEF Unhealthy
  <2>4. [active EXCEPT !.probes = @ + 1] \in StatusType
    <3> HIDE DEF active
    <3>. QED  BY <2>1, <2>3 DEF StatusType
  <2>5. rec' \in [Reconcilers -> PassType]
    BY <1>1, <1>5, <2>4, PatchHasType DEF Unhealthy
  <2>. QED  BY <1>5, <2>5
            DEF Unhealthy, SessionOK, PassType, Signals, Elsewhere, apiVars
<1>6. CASE LivenessFailed(r) \/ ReadinessTimeout(r)
  <2> DEFINE waiting == [Had(r) EXCEPT !.vmr = @ + 1, !.probes = 0]
  <2>1. [Had(r) EXCEPT !.vmr = @ + 1] \in StatusType
    BY <1>1 DEF StatusType
  <2>2. [[Had(r) EXCEPT !.vmr = @ + 1] EXCEPT !.probes = 0] \in StatusType
    BY <2>1, StatusWith
  <2>3. waiting \in StatusType
    BY <2>2
  <2>4. PICK consumed \in {{}, rec[r].signals} : GiveUpVm(r, consumed)
    BY <1>6 DEF LivenessFailed, ReadinessTimeout
  <2>5. consumed \in SUBSET Signals
    BY <1>1
  <2> HIDE DEF waiting
  <2>. QED  BY <1>1, <1>2, <2>3, <2>4, <2>5, ReleaseThenHasType
            DEF GiveUpVm, ReleaseThen, waiting
<1>. QED  BY <1>4, <1>5, <1>6 DEF Watch

LEMMA WriteKeepsTypes ==
  ASSUME SessionOK, NEW r \in Reconcilers, WriteStatus(r) \/ WriteStopped(r) \/ Fail(r)
  PROVE  SessionOK'
<1>1. rec' \in [Reconcilers -> PassType]
  BY PassEnds DEF WriteStatus, WriteStopped, Fail
<1>2. Written(r) \in StatusType
  BY ReadHasType DEF Written, SessionOK, StatusType
<1>3. CASE WriteStatus(r)
  BY <1>1, <1>2, <1>3 DEF WriteStatus, SessionOK, PassType, Signals, apiVars
<1>4. CASE WriteStopped(r)
  BY <1>1, <1>4 DEF WriteStopped, SessionOK, SpecType, PassType, Signals, apiVars
<1>5. CASE Fail(r)
  BY <1>1, <1>5, BoundsAssumption DEF Fail, Fault, SessionOK, PassType, Signals, apiVars
<1>. QED  BY <1>3, <1>4, <1>5

LEMMA ReadKeepsTypes ==
  ASSUME SessionOK, NEW r \in Reconcilers, Read(r)
  PROVE  SessionOK'
<1>1. Pass("read", spec, status, signals, {}) \in PassType
  BY PassHasType DEF SessionOK, Signals
<1>2. rec' \in [Reconcilers -> PassType]
  BY <1>1, ReadHasType DEF Read
<1>. QED  BY <1>2 DEF Read, SessionOK, PassType, Signals, apiVars

LEMMA CrashKeepsTypes ==
  ASSUME SessionOK, ControllerCrash
  PROVE  SessionOK'
<1>1. Idle \in PassType
  BY NoSpecType, NoStatusType, PassHasType DEF Idle
<1>2. rec' \in [Reconcilers -> PassType] /\ worker' \in [Bindings -> WorkerStates]
  BY <1>1 DEF ControllerCrash, WorkerStates
<1>. QED  BY <1>2, BoundsAssumption
          DEF ControllerCrash, Fault, SessionOK, PassType, Signals, apiVars

(* A start request that is under way names an activation. *)
StartNamesOne == start # NoStart => start.activation \in 1..MaxActivation

LEMMA ApiKeepsTypes ==
  ASSUME SessionOK, StartNamesOne, Api
  PROVE  SessionOK' /\ StartNamesOne'
<1>1. spec \in SpecType /\ status \in StatusType /\ status.binding.id \in 0..MaxBinding
      /\ spec.activation \in 1..MaxActivation
      /\ status.binding.vm \in BOOLEAN
  BY DEF SessionOK, SpecType, StatusType, BindingType
<1>2. ASSUME NEW d \in Desktops, StartRead(d)
      PROVE  SessionOK' /\ StartNamesOne'
  <2>1. \A entitled \in BOOLEAN : (d \/ (entitled /\ DesktopEstablished)) \in BOOLEAN
    BY <1>1, ModesAssumption DEF DesktopEstablished
  <2>2. NextActivation \in 1..MaxActivation
    BY <1>1, <1>2 DEF StartRead, NextActivation, SessionOK
  <2>3. activations' \in 1..MaxActivation
    BY <1>2, <2>2 DEF StartRead, NextActivation, SessionOK
  <2>4. start' \in [activation: 1..MaxActivation, desktop: BOOLEAN]
    BY <1>2, <2>1, <2>2 DEF StartRead
  <2>. QED  BY <1>2, <2>3, <2>4 DEF StartRead, SessionOK, StartNamesOne
<1>3. NoStart \in [activation: 0..MaxActivation, desktop: BOOLEAN]
  BY BoundsAssumption DEF NoStart
<1>4. CASE StartWrite
  BY <1>3, <1>4 DEF StartWrite, SessionOK, StartNamesOne, SpecType
<1>5. CASE StartAbandoned
  BY <1>3, <1>5, BoundsAssumption DEF StartAbandoned, Fault, SessionOK, StartNamesOne
<1>6. CASE StopIntent
  <2>1. status' \in StatusType
    BY <1>1, <1>6, IntentHasType DEF StopIntent
  <2>. QED  BY <1>6, <2>1 DEF StopIntent, SessionOK, StartNamesOne
<1>7. CASE StopSpec
  BY <1>7 DEF StopSpec, SessionOK, SpecType, StartNamesOne
<1>8. CASE StopAbandoned
  <2>1. faults' \in 0..MaxFaults
    BY <1>8, BoundsAssumption DEF StopAbandoned, Fault, SessionOK
  <2>. QED  BY <1>8, <2>1 DEF StopAbandoned, SessionOK, StartNamesOne
<1>. QED  BY <1>2, <1>4, <1>5, <1>6, <1>7, <1>8 DEF Api

LEMMA AssignKeepsTypes ==
  ASSUME SessionOK, NEW b \in Bindings, Assign(b)
  PROVE  SessionOK'
<1>1. \A n \in {"none", "running", "refused"} :
         [status EXCEPT !.binding.attempt = n] \in StatusType
  BY DEF SessionOK, StatusType, BindingType
<1>2. [status EXCEPT !.binding.vm = TRUE, !.binding.ready = FALSE,
                     !.binding.attempt = "none", !.binding.release = "none"]
        \in StatusType
  <2>1. status.binding \in BindingType /\ status \in StatusType
    BY DEF SessionOK, StatusType
  <2>2. [status.binding EXCEPT !.vm = TRUE, !.ready = FALSE, !.attempt = "none",
                         !.release = "none"] \in BindingType
    BY <2>1 DEF BindingType
  <2>3. [status EXCEPT !.binding = [status.binding EXCEPT !.vm = TRUE, !.ready = FALSE,
                                      !.attempt = "none", !.release = "none"]]
          \in StatusType
    BY <2>1, <2>2, StatusWith
  <2>4. [status EXCEPT !.binding.vm = TRUE, !.binding.ready = FALSE,
                       !.binding.attempt = "none", !.binding.release = "none"]
          = [status EXCEPT !.binding = [status.binding EXCEPT !.vm = TRUE,
                                          !.ready = FALSE, !.attempt = "none",
                                          !.release = "none"]]
    BY <2>1 DEF StatusType, BindingType
  <2>. QED  BY <2>3, <2>4
<1>3. worker' \in [Bindings -> WorkerStates]
  BY DEF Assign, AssignmentSkipped, AssignmentRefused, AssignmentPersisted, VmAssigned,
         SessionOK, WorkerStates
<1>4. vm' \in [Bindings -> VmStates]
  BY DEF Assign, AssignmentSkipped, AssignmentRefused, AssignmentPersisted, VmAssigned,
         SessionOK, VmStates
<1>5. status' \in StatusType
  BY <1>1, <1>2 DEF Assign, AssignmentSkipped, AssignmentRefused, AssignmentPersisted,
                    VmAssigned, SessionOK
<1>. QED  BY <1>3, <1>4, <1>5
          DEF Assign, AssignmentSkipped, AssignmentRefused, AssignmentPersisted,
              VmAssigned, SessionOK, PassType, Signals, apiVars

LEMMA ClusterKeepsTypes ==
  ASSUME SessionOK,
         \/ \E b \in Bindings : Cluster(b)
         \/ DesktopReady
         \/ \E state \in {"healthy", "failed"} : HealthProbe(state)
  PROVE  SessionOK'
<1>1. job' \in [Bindings -> JobStates] /\ vm' \in [Bindings -> VmStates]
  BY DEF Cluster, ContainerReady, JobEnds, JobSuspended, PodsGone, JobDeleted, VmReturns,
         SweepOrphan, VmLost, DesktopReady, HealthProbe, SessionOK, JobStates, PodStates,
         LiveStates, VmStates
<1>2. faults' \in 0..MaxFaults
  BY BoundsAssumption
     DEF Cluster, ContainerReady, JobEnds, JobSuspended, PodsGone, JobDeleted, VmReturns,
         SweepOrphan, VmLost, DesktopReady, HealthProbe, SessionOK, Fault
<1>3. signals' \subseteq Signals
  BY DEF Cluster, ContainerReady, JobEnds, JobSuspended, PodsGone, JobDeleted, VmReturns,
         SweepOrphan, VmLost, DesktopReady, HealthProbe, SessionOK, Signals
<1>4. clusterUnchanged
  BY DEF Cluster, ContainerReady, JobEnds, JobSuspended, PodsGone, JobDeleted, VmReturns,
         SweepOrphan, VmLost, DesktopReady, HealthProbe
<1>. QED  BY <1>1, <1>2, <1>3, <1>4 DEF clusterUnchanged, apiVars, SessionOK, Signals

LEMMA KeepsTypes ==
  ASSUME SessionOK, StartNamesOne, [Next]_vars
  PROVE  SessionOK' /\ StartNamesOne'
<1>1. ASSUME NEW r \in Reconcilers, Branch(r)
      PROVE  SessionOK' /\ start' = start
  <2>1. SessionOK'
    BY <1>1, StopKeepsTypes, RenewKeepsTypes, ContainKeepsTypes, EquipKeepsTypes,
       WatchKeepsTypes DEF Branch
  <2>2. Elsewhere
    BY <1>1 DEF Branch, Stop, StopWithoutBinding, StopBinding, Renew,
       RecoverWithoutBinding, ReplaceActivation, ContinueRelease, MintBinding, Contain,
       JobMissing, ClaimJob, AwaitCapacity, JobTerminal, AwaitContainer,
       BootstrapTimeout, Equip, RunWithoutDesktop, AssignmentTimeout, AwaitAssignment,
       QueueAssignment, OwnershipLost, Watch, Healthy, Unhealthy, LivenessFailed,
       AwaitGuest, ReadinessTimeout, AwaitDesktop, GiveUpVm
  <2>. QED  BY <2>1, <2>2 DEF Elsewhere, apiVars
<1>2. ASSUME NEW r \in Reconcilers, Refresh(r) \/ OnSessionChange(r)
      PROVE  SessionOK' /\ start' = start
  BY <1>2, ReadKeepsTypes DEF Refresh, OnSessionChange, Read, apiVars
<1>3. ASSUME NEW r \in Reconcilers, WriteStatus(r) \/ WriteStopped(r) \/ Fail(r)
      PROVE  SessionOK' /\ start' = start
  BY <1>3, WriteKeepsTypes DEF WriteStatus, WriteStopped, Fail, apiVars
<1>4. CASE ControllerCrash
  BY <1>4, CrashKeepsTypes DEF ControllerCrash, apiVars, StartNamesOne
<1>5. ASSUME NEW b \in Bindings, Assign(b)
      PROVE  SessionOK' /\ start' = start
  BY <1>5, AssignKeepsTypes
     DEF Assign, AssignmentSkipped, AssignmentRefused, AssignmentPersisted, VmAssigned,
         apiVars
<1>6. ASSUME \/ \E b \in Bindings : Cluster(b)
             \/ DesktopReady
             \/ \E state \in {"healthy", "failed"} : HealthProbe(state)
      PROVE  SessionOK' /\ start' = start
  <2>1. clusterUnchanged
    BY <1>6 DEF Cluster, ContainerReady, JobEnds, JobSuspended, PodsGone, JobDeleted,
         VmReturns, SweepOrphan, VmLost, DesktopReady, HealthProbe
  <2>. QED  BY <1>6, <2>1, ClusterKeepsTypes DEF clusterUnchanged, apiVars
<1>7. CASE UNCHANGED vars
  BY <1>7 DEF vars, apiVars, SessionOK, StartNamesOne
<1>. QED  BY <1>1, <1>2, <1>3, <1>4, <1>5, <1>6, <1>7, ApiKeepsTypes
          DEF Next, Reconcile, StartNamesOne

(* What is remembered of passes side by side. *)
LEMMA BranchTracks ==
  ASSUME NEW r \in Reconcilers, Branch(r)
  PROVE  Track(r)
BY DEF Branch, Stop, StopWithoutBinding, StopBinding, Renew,
   RecoverWithoutBinding, ReplaceActivation, ContinueRelease, MintBinding, Contain,
   JobMissing, ClaimJob, AwaitCapacity, JobTerminal, AwaitContainer,
   BootstrapTimeout, Equip, RunWithoutDesktop, AssignmentTimeout, AwaitAssignment,
   QueueAssignment, OwnershipLost, Watch, Healthy, Unhealthy, LivenessFailed,
   AwaitGuest, ReadinessTimeout, AwaitDesktop

LEMMA OverlapKeepsTypes ==
  ASSUME OverlapOK, [Next]_vars
  PROVE  OverlapOK'
<1>1. ASSUME NEW r \in Reconcilers, Track(r)
      PROVE  OverlapOK'
  BY <1>1 DEF OverlapOK, Track, Crosses
<1>2. ASSUME NEW r \in Reconcilers, WriteStatus(r) \/ WriteStopped(r) \/ Fail(r)
      PROVE  Track(r)
  BY <1>2 DEF WriteStatus, WriteStopped, Fail
<1>3. ASSUME NEW r \in Reconcilers, Refresh(r) \/ OnSessionChange(r)
      PROVE  OverlapOK'
  BY <1>3 DEF Refresh, OnSessionChange, Read, OverlapOK
<1>4. CASE ControllerCrash
  BY <1>4 DEF ControllerCrash, OverlapOK
<1>5. CASE Api
  BY <1>5 DEF Api, StartRead, StartWrite, StartAbandoned, StopIntent, StopSpec,
     StopAbandoned, overlap, OverlapOK
<1>6. ASSUME NEW b \in Bindings, Assign(b)
      PROVE  OverlapOK'
  BY <1>6 DEF Assign, AssignmentSkipped, AssignmentRefused, AssignmentPersisted,
     VmAssigned, overlap, OverlapOK
<1>7. ASSUME \/ \E b \in Bindings : Cluster(b)
             \/ DesktopReady
             \/ \E state \in {"healthy", "failed"} : HealthProbe(state)
      PROVE  OverlapOK'
  <2>1. clusterUnchanged
    BY <1>7 DEF Cluster, ContainerReady, JobEnds, JobSuspended, PodsGone, JobDeleted,
         VmReturns, SweepOrphan, VmLost, DesktopReady, HealthProbe
  <2>. QED  BY <2>1 DEF clusterUnchanged, overlap, OverlapOK
<1>8. CASE UNCHANGED vars
  BY <1>8 DEF vars, overlap, OverlapOK
<1>. QED  BY <1>1, <1>2, <1>3, <1>4, <1>5, <1>6, <1>7, <1>8, BranchTracks
          DEF Next, Reconcile

LEMMA InitTypes ==
  ASSUME Init
  PROVE  SessionOK /\ StartNamesOne
<1>1. Idle \in PassType
  BY NoSpecType, NoStatusType, PassHasType DEF Idle
<1>2. spec \in SpecType
  BY BoundsAssumption, ModesAssumption DEF Init, SpecType
<1>3. start \in [activation: 0..MaxActivation, desktop: BOOLEAN]
  BY BoundsAssumption DEF Init, NoStart
<1>4. /\ minted \in 0..MaxBinding /\ activations \in 1..MaxActivation
      /\ faults \in 0..MaxFaults
  BY BoundsAssumption DEF Init
<1>. QED  BY <1>1, <1>2, <1>3, <1>4, NoStatusType
          DEF Init, SessionOK, PassType, Signals, StartNamesOne, JobStates, PodStates,
              VmStates, WorkerStates

(* The variables keep their types, whatever the passes, the requests, the workers
   and the cluster do, for any number of passes at once. *)
THEOREM TypeCorrect == Spec => []TypeOK
<1>1. Init => SessionOK /\ StartNamesOne /\ OverlapOK
  BY InitTypes DEF Init, OverlapOK
<1>2. SessionOK /\ StartNamesOne /\ [Next]_vars => SessionOK' /\ StartNamesOne'
  BY KeepsTypes
<1>3. OverlapOK /\ [Next]_vars => OverlapOK'
  BY OverlapKeepsTypes
<1>4. SessionOK /\ OverlapOK => TypeOK
  BY DEF TypeOK
<1>. QED  BY <1>1, <1>2, <1>3, <1>4, PTL DEF Spec

=============================================================================

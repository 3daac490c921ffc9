----------------------- MODULE SessionControllerProofs ----------------------
(***************************************************************************)
(* Safety of the reconcile loop for any number of passes side by side, of  *)
(* bindings, activations, retries and failures.                            *)
(*                                                                         *)
(* The twenty-odd branches of a pass are not told apart by the invariant:  *)
(* each is first shown to do no more than Effects allows (BranchEffects).  *)
(* Likewise every step that is not a pass does no more than Around allows. *)
(* Each part of the invariant is then kept by four kinds of steps: a pass  *)
(* reads, takes a branch, writes; or something else happens.               *)
(*                                                                         *)
(* What a pass knows is only true until another one overtakes it, and the  *)
(* invariant says nothing of a pass from then on (Beside): what such a     *)
(* pass does is only ever done for bindings that are crossed.              *)
(***************************************************************************)
EXTENDS SessionControllerTypes

-----------------------------------------------------------------------------
(* What a branch may do, whichever it is. *)

To(r) == rec[r].status
NoPods == \A b \in Bindings : job[b] \notin PodStates

SameStatus ==
  /\ status'.phase = status.phase /\ status'.observed = status.observed
  /\ status'.boot = status.boot /\ status'.vmr = status.vmr
  /\ status'.binding.id = status.binding.id
  /\ status'.binding.job = status.binding.job
  /\ status'.binding.vm = status.binding.vm

(* It reads no more; and of what is shared it changes the intent, and the attempt
   of a binding whose container runs. *)
Frame(r) ==
  /\ rec[r].pc = "read" /\ rec'[r].pc \in {"idle", "write", "stop"}
  /\ \A q \in Reconcilers \ {r} : rec'[q] = rec[q]
  /\ Elsewhere /\ SameStatus
  /\ \/ status'.binding.attempt = status.binding.attempt /\ worker' = worker
     \/ /\ Serving(r) /\ status.binding.id = Id(r) /\ worker'[Id(r)] # "idle"
        /\ \A b \in Bindings \ {Id(r)} : worker'[b] = worker[b]
  /\ faults' \in {faults, faults + 1} /\ leaked \subseteq leaked'
  /\ \A b \in Bindings : vm[b] = "none" => vm'[b] = "none"

(* Jobs are only suspended, but for the one that it claims. *)
Claims(r, b) ==
  /\ b = Id(r) /\ ClaimJob(r)
  /\ job[b] \in {"none", "missing"} /\ job'[b] = "booting"
Jobs(r) ==
  \A b \in Bindings :
    job'[b] = job[b] \/ (Live(b) /\ job'[b] = "ending") \/ Claims(r, b)

(* The binding that it has read stays, ... *)
Keeps(r) ==
  LET to == To(r)' IN
  /\ to.binding.id = Id(r) /\ minted' = minted
  /\ "binding" \notin rec'[r].fields => Serving(r)
  /\ Bound(r).job => to.binding.job
  /\ to.binding.vm => Bound(r).vm \/ (Id(r) # 0 /\ vm[Id(r)] # "none")
  /\ to.binding.attempt # "none" => Bound(r).attempt # "none"
  /\ \/ to.phase = "Releasing" \/ Id(r) = 0
     \/ ~Bound(r).job /\ Working(r)
     \/ to.binding.job /\ (Booting(r) \/ Serving(r))
  /\ \/ to.phase = "Releasing" \/ Id(r) = 0 \/ to.binding.vm \/ ~Want(r).desktop
     \/ "binding" \notin rec'[r].fields
     \/ Working(r) /\ (~Bound(r).job \/ Booting(r))
(* ... or its Job has been stopped, or has leaked, and none or a new one takes
   its place. *)
Exchanges(r) ==
  LET to == To(r)' IN
  /\ to.binding.id # Id(r) /\ "binding" \in rec'[r].fields
  /\ Id(r) \in Bindings => job'[Id(r)] \notin LiveStates \/ Id(r) \in leaked'
  /\ \/ to.binding = NoBinding /\ minted' = minted
     \/ /\ to.binding = NewBinding(minted + 1) /\ minted' = minted + 1
        /\ minted < MaxBinding
  /\ Id(r) = 0 => Running(r) /\ ~(Orphaned(r) /\ BudgetExhausted(Had(r)))

Outcome(r) ==
  LET to == To(r)' IN
  /\ rec'[r].pc # "write" => minted' = minted
  /\ rec'[r].pc = "write" =>
       /\ "phase" \in rec'[r].fields
       /\ to.observed \in {Had(r).observed, Want(r).activation}
       /\ to.phase = "Released" =>
            NoPods' /\ to.binding.id = 0 /\ "binding" \in rec'[r].fields
       /\ Keeps(r) \/ Exchanges(r)

(* A binding enters the ledger when nothing runs any more, and the pass goes on
   to replace it, if it can. *)
Enters(r) ==
  /\ released' = released \cup {Id(r)} /\ Id(r) \in Bindings
  /\ NoPods'
  /\ rec'[r].pc = "write" => To(r)'.binding.id # Id(r)
  /\ \/ rec'[r].pc = "write" \/ Bound(r).job \/ Had(r).phase = "Releasing"
     \/ Replaced(r)

Effects(r) ==
  /\ Frame(r) /\ Jobs(r) /\ Outcome(r)
  /\ released' = released \/ Enters(r)

(* The ways in which a pass ends. *)
LEMMA PatchMakes ==
  ASSUME SessionOK, NEW r \in Reconcilers, NEW fields, NEW to, NEW consumed,
         Patch(r, fields, to, consumed)
  PROVE  /\ rec'[r].pc = "write" /\ To(r)' = to /\ rec'[r].fields = fields
         /\ \A q \in Reconcilers \ {r} : rec'[q] = rec[q]
BY ReadHasType DEF Patch, Pass, To

LEMMA ReturnMakes ==
  ASSUME SessionOK, NEW r \in Reconcilers, Return(r)
  PROVE  rec'[r].pc = "idle" /\ \A q \in Reconcilers \ {r} : rec'[q] = rec[q]
BY ReadHasType DEF Return, Pass, Idle

LEMMA DeclareMakes ==
  ASSUME SessionOK, NEW r \in Reconcilers, DeclareStopped(r)
  PROVE  rec'[r].pc = "stop" /\ \A q \in Reconcilers \ {r} : rec'[q] = rec[q]
BY ReadHasType DEF DeclareStopped, Pass

(* A pass that has minted a binding, or found the bound on them reached. *)
Minted(r, observed) ==
  /\ \A q \in Reconcilers \ {r} : rec'[q] = rec[q]
  /\ \/ rec'[r].pc = "idle" /\ minted' = minted
     \/ /\ rec'[r].pc = "write" /\ rec'[r].fields = Fields
        /\ minted < MaxBinding /\ minted' = minted + 1
        /\ To(r)'.phase = "PendingJob" /\ To(r)'.observed = observed
        /\ To(r)'.binding = NewBinding(minted + 1)

(* A mint takes the next binding, or finds the bound on them reached. *)
LEMMA MintMakes ==
  ASSUME SessionOK, NEW r \in Reconcilers, NEW to \in StatusType, NEW consumed,
         Mint(r, to, consumed)
  PROVE  Minted(r, to.observed)
<1>1. CASE minted < MaxBinding
  <2> DEFINE fresh == [to EXCEPT !.phase = "PendingJob", !.probes = 0,
                                 !.binding = NewBinding(minted + 1)]
  <2>1. /\ fresh.phase = "PendingJob" /\ fresh.observed = to.observed
        /\ fresh.binding = NewBinding(minted + 1)
    BY DEF StatusType
  <2>2. Patch(r, Fields, fresh, consumed) /\ minted' = minted + 1
    BY <1>1 DEF Mint
  <2> HIDE DEF fresh
  <2>. QED  BY <1>1, <2>1, <2>2, PatchMakes DEF Minted
<1>2. CASE ~(minted < MaxBinding)
  BY <1>2, ReturnMakes DEF Mint, Minted
<1>. QED  BY <1>1, <1>2

(* A pass that restarts its binding, or gives the session up. *)
Restarted(r) ==
  \/ Minted(r, Want(r).activation)
  \/ /\ \A q \in Reconcilers \ {r} : rec'[q] = rec[q]
     /\ rec'[r].pc = "write" /\ rec'[r].fields = Fields /\ minted' = minted
     /\ To(r)'.phase = "Failed" /\ To(r)'.observed = Want(r).activation
     /\ To(r)'.binding = NoBinding

(* So does a restart, unless the retries are used up. *)
LEMMA RestartMakes ==
  ASSUME SessionOK, NEW r \in Reconcilers, NEW consumed,
         RestartBoot(r) \/ RestartVm(r, consumed)
  PROVE  Restarted(r)
<1> DEFINE failed == [Entering(r, "Failed", NoBinding) EXCEPT !.probes = 0]
<1>1. Had(r) \in StatusType /\ Entering(r, "Failed", NoBinding) \in StatusType
  BY ReadHasType, NoBindingType, EnteringHasType DEF Phases
<1>2. failed \in StatusType
  BY <1>1, StatusWith
<1>3. /\ failed.boot = Had(r).boot /\ failed.vmr = Had(r).vmr
      /\ failed.phase = "Failed" /\ failed.observed = Want(r).activation
      /\ failed.binding = NoBinding
  BY <1>1 DEF StatusType, Entering
<1> HIDE DEF failed
<1>4. \/ \E c : Patch(r, Fields, failed, c) /\ minted' = minted
      \/ Had(r).boot < MaxBootstrapRetries /\ Mint(r, [failed EXCEPT !.boot = @ + 1], {})
      \/ \E c : Mint(r, [failed EXCEPT !.vmr = @ + 1], c)
  <2>1. CASE RestartBoot(r)
    <3>1. Had(r).boot \in Nat
      BY <1>1, LimitsAssumption DEF StatusType
    <3>2. Had(r).boot >= MaxBootstrapRetries \/ Had(r).boot < MaxBootstrapRetries
      BY <3>1, LimitsAssumption
    <3>3. CASE Had(r).boot >= MaxBootstrapRetries
      BY <2>1, <3>3 DEF RestartBoot, Restart, failed
    <3>4. CASE Had(r).boot < MaxBootstrapRetries
      <4>1. ~(Had(r).boot >= MaxBootstrapRetries)
        BY <3>1, <3>4, LimitsAssumption
      <4>2. Mint(r, [failed EXCEPT !.boot = @ + 1], {})
        BY <2>1, <4>1 DEF RestartBoot, Restart, failed
      <4>. QED  BY <3>4, <4>2
    <3>. QED  BY <3>2, <3>3, <3>4
  <2>2. CASE RestartVm(r, consumed)
    BY <2>2 DEF RestartVm, Restart, failed
  <2>. QED  BY <2>1, <2>2
<1>5. CASE \E c : Patch(r, Fields, failed, c) /\ minted' = minted
  BY <1>3, <1>5, PatchMakes DEF Restarted
<1>6. CASE /\ Had(r).boot < MaxBootstrapRetries
           /\ Mint(r, [failed EXCEPT !.boot = @ + 1], {})
  <2>1. /\ [failed EXCEPT !.boot = @ + 1] \in StatusType
        /\ [failed EXCEPT !.boot = @ + 1].observed = Want(r).activation
    BY <1>1, <1>2, <1>3, <1>6, LimitsAssumption DEF StatusType
  <2>. QED  BY <1>6, <2>1, MintMakes DEF Restarted
<1>7. CASE \E c : Mint(r, [failed EXCEPT !.vmr = @ + 1], c)
  <2>1. /\ [failed EXCEPT !.vmr = @ + 1] \in StatusType
        /\ [failed EXCEPT !.vmr = @ + 1].observed = Want(r).activation
    BY <1>1, <1>2, <1>3 DEF StatusType
  <2>. QED  BY <1>7, <2>1, MintMakes DEF Restarted
<1>. QED  BY <1>4, <1>5, <1>6, <1>7

(* What a release of the binding, or a suspension of its Job, does on the way. *)
Releases(r) ==
  /\ SameStatus /\ status'.binding.attempt = status.binding.attempt
  /\ worker' = worker /\ faults' \in {faults, faults + 1} /\ leaked' = leaked
  /\ \A b \in Bindings : vm[b] = "none" => vm'[b] = "none"
  /\ \A b \in Bindings : job'[b] = job[b] \/ (Live(b) /\ job'[b] = "ending")

(* The helpers of a release: what they leave of the status, the Jobs and the VMs. *)
LEMMA IntentMakes ==
  ASSUME SessionOK, NEW b, NEW value, IntentRecorded(b, value)
  PROVE  SameStatus /\ status'.binding.attempt = status.binding.attempt
BY DEF IntentRecorded, SessionOK, StatusType, SameStatus

LEMMA SuspendAllMakes ==
  ASSUME SessionOK, SuspendAll
  PROVE  /\ faults' \in {faults, faults + 1} /\ leaked' = leaked
         /\ \A b \in Bindings : job'[b] = job[b] \/ (Live(b) /\ job'[b] = "ending")
BY DEF SuspendAll, Fault

LEMMA SuspendIntentsMake ==
  ASSUME SessionOK, NEW r \in Reconcilers, NEW value, SuspendIntents(r, value)
  PROVE  SameStatus /\ status'.binding.attempt = status.binding.attempt
BY IntentMakes DEF SuspendIntents, SameStatus

LEMMA ReleaseMakes ==
  ASSUME SessionOK, NEW r \in Reconcilers, NEW value, Release(r, value)
  PROVE  /\ Releases(r)
         /\ \/ /\ ReleaseComplete(r) /\ NoPods' /\ released' = released \cup {Id(r)}
            \/ ~ReleaseComplete(r) /\ released' = released
<1>1. \A b \in Bindings : vm[b] = "none" => vm'[b] = "none"
  BY DEF Release, OthersReleasing, HasVm, SessionOK
<1>. QED  BY <1>1, SuspendAllMakes, SuspendIntentsMake
          DEF Release, ReleaseComplete, Quiet, NoPods, Releases

LEMMA ReleaseWithoutBindingMakes ==
  ASSUME SessionOK, NEW r \in Reconcilers, ReleaseWithoutBinding(r)
  PROVE  Releases(r) /\ released' = released
<1>1. \A b \in Bindings : vm[b] = "none" => vm'[b] = "none"
  BY DEF ReleaseWithoutBinding, SessionOK
<1>. QED  BY <1>1, SuspendAllMakes, SuspendIntentsMake DEF ReleaseWithoutBinding, Releases

(* Its Job has been stopped before a restart, or has leaked. *)
LEMMA SuspendOwnMakes ==
  ASSUME SessionOK, NEW r \in Reconcilers, SuspendOwn(r), Booting(r) \/ Serving(r)
  PROVE  /\ SameStatus /\ status'.binding.attempt = status.binding.attempt
         /\ faults' \in {faults, faults + 1} /\ leaked \subseteq leaked'
         /\ \A b \in Bindings : job'[b] = job[b] \/ (Live(b) /\ job'[b] = "ending")
         /\ job'[Id(r)] \notin LiveStates \/ Id(r) \in leaked'
<1>1. Id(r) \in Bindings /\ Live(Id(r))
  BY ReadHasType DEF Bindings, Booting, Serving, Working, Live, LiveStates
<1>2. SameStatus /\ status'.binding.attempt = status.binding.attempt
  BY IntentMakes DEF SuspendOwn
<1>. QED  BY <1>1, <1>2 DEF SuspendOwn, Fault, SessionOK, LiveStates

(* A release that goes on keeps the binding, and no VM that was not there. *)
LEMMA ReleasingKeeps ==
  ASSUME SessionOK, NEW r \in Reconcilers
  PROVE  /\ ReleasingBinding(r).id = Id(r) /\ ReleasingBinding(r).job = Bound(r).job
         /\ ReleasingBinding(r).attempt = "none"
         /\ ReleasingBinding(r).vm => Bound(r).vm \/ (Id(r) # 0 /\ vm[Id(r)] # "none")
<1>1. Bound(r) \in BindingType /\ Id(r) = Bound(r).id
  BY ReadHasType DEF Id, Bound
<1>2. ReleasingBinding(r).vm = KeepsVmRef(r)
  BY <1>1 DEF ReleasingBinding, BindingType
<1>3. KeepsVmRef(r) => Bound(r).vm \/ (Id(r) # 0 /\ vm[Id(r)] # "none")
  BY DEF KeepsVmRef, HasVm, Bindings
<1>. QED  BY <1>1, <1>2, <1>3 DEF ReleasingBinding, BindingType

(* The branches of a session that is to stop. *)
LEMMA StopEffects ==
  ASSUME SessionOK, NEW r \in Reconcilers, Stop(r)
  PROVE  Effects(r)
<1>1. /\ rec[r].pc = "read" /\ Elsewhere /\ minted' = minted
      /\ Had(r) \in StatusType /\ Bound(r) \in BindingType /\ Id(r) \in 0..MaxBinding
      /\ Had(r).binding = Bound(r) /\ Id(r) = Bound(r).id
      /\ FirstObserved(r) \in {Had(r).observed, Want(r).activation}
  BY ReadHasType DEF Stop, StopWithoutBinding, StopBinding, Stopped, FirstObserved, Id,
                     Bound
<1>2. NoBinding.id = 0
  BY DEF NoBinding, NewBinding
<1>3. CASE StopWithoutBinding(r)
  <2>1. PICK phase \in {"Released", "Releasing"} :
          /\ phase = "Released" => Quiet(job', vm')
          /\ Patch(r, BindingFields, [Had(r) EXCEPT !.phase = phase,
                                        !.observed = FirstObserved(r)], {})
    BY <1>3 DEF StopWithoutBinding
  <2> DEFINE to == [Had(r) EXCEPT !.phase = phase, !.observed = FirstObserved(r)]
  <2>2. /\ to.phase = phase /\ to.observed = FirstObserved(r) /\ to.binding = Bound(r)
    BY <1>1 DEF StatusType
  <2> HIDE DEF to
  <2>3. /\ rec'[r].pc = "write" /\ To(r)' = to /\ rec'[r].fields = BindingFields
        /\ \A q \in Reconcilers \ {r} : rec'[q] = rec[q]
    BY <2>1, PatchMakes DEF to
  <2>4. Releases(r) /\ released' = released /\ Id(r) = 0
    BY <1>3, ReleaseWithoutBindingMakes DEF StopWithoutBinding
  <2>5. Frame(r) /\ Jobs(r)
    BY <1>1, <2>3, <2>4 DEF Frame, Jobs, Releases
  <2>6. Outcome(r)
    BY <1>1, <2>1, <2>2, <2>3, <2>4 DEF Outcome, Keeps, BindingFields, Quiet, NoPods
  <2>. QED  BY <2>4, <2>5, <2>6 DEF Effects
<1>4. CASE StopBinding(r)
  <2>1. PICK phase \in {"Released", "Releasing"},
             binding \in {NoBinding, ReleasingBinding(r)} :
          /\ IF ReleaseComplete(r) THEN binding = NoBinding
             ELSE phase = "Releasing" /\ binding = ReleasingBinding(r)
          /\ Patch(r, BindingFields, [Had(r) EXCEPT !.phase = phase, !.binding = binding,
                                     !.observed = FirstObserved(r)], {})
    BY <1>4 DEF StopBinding
  <2> DEFINE to == [Had(r) EXCEPT !.phase = phase, !.binding = binding,
                                  !.observed = FirstObserved(r)]
  <2>2. /\ to.phase = phase /\ to.observed = FirstObserved(r) /\ to.binding = binding
    BY <1>1 DEF StatusType
  <2> HIDE DEF to
  <2>3. /\ rec'[r].pc = "write" /\ To(r)' = to /\ rec'[r].fields = BindingFields
        /\ \A q \in Reconcilers \ {r} : rec'[q] = rec[q]
    BY <2>1, PatchMakes DEF to
  <2>4. /\ Releases(r) /\ Id(r) # 0 /\ Id(r) \in Bindings
        /\ \/ ReleaseComplete(r) /\ NoPods' /\ released' = released \cup {Id(r)}
           \/ ~ReleaseComplete(r) /\ released' = released
    BY <1>1, <1>4, ReleaseMakes DEF StopBinding, Bindings
  <2>5. Frame(r) /\ Jobs(r)
    BY <1>1, <2>3, <2>4 DEF Frame, Jobs, Releases
  <2>6. CASE ReleaseComplete(r)
    <3>1. Exchanges(r) /\ NoPods'
      BY <1>1, <1>2, <2>1, <2>2, <2>3, <2>4, <2>6
         DEF Exchanges, BindingFields, NoPods, PodStates
    <3>2. Enters(r)
      BY <1>2, <2>1, <2>2, <2>3, <2>4, <2>6 DEF Enters
    <3>. QED  BY <1>1, <1>2, <2>1, <2>2, <2>3, <2>5, <2>6, <3>1, <3>2
              DEF Effects, Outcome, BindingFields
  <2>7. CASE ~ReleaseComplete(r)
    <3>1. Keeps(r)
      BY <1>1, <2>1, <2>2, <2>3, <2>4, <2>7, ReleasingKeeps DEF Keeps, BindingFields
    <3>. QED  BY <1>1, <2>1, <2>2, <2>3, <2>4, <2>5, <2>7, <3>1
              DEF Effects, Outcome, BindingFields
  <2>. QED  BY <2>6, <2>7
<1>. QED  BY <1>3, <1>4 DEF Stop

(* The two ways on from a complete release, or without one. *)
LEMMA MintedExchanges ==
  ASSUME SessionOK, NEW r \in Reconcilers, NEW observed, Minted(r, observed),
         observed \in {Had(r).observed, Want(r).activation},
         Id(r) <= minted,
         Id(r) \in Bindings => job'[Id(r)] \notin LiveStates \/ Id(r) \in leaked',
         Id(r) = 0 => Running(r) /\ ~(Orphaned(r) /\ BudgetExhausted(Had(r)))
  PROVE  /\ Outcome(r)
         /\ rec'[r].pc \in {"idle", "write"}
         /\ rec'[r].pc = "write" => To(r)'.binding.id # Id(r)
<1>1. CASE rec'[r].pc = "write"
  <2>1. NewBinding(minted + 1).id = minted + 1 /\ minted \in Nat /\ Id(r) \in Nat
    BY ReadHasType, BoundsAssumption DEF NewBinding, SessionOK
  <2>2. To(r)'.binding.id # Id(r)
    BY <1>1, <2>1 DEF Minted
  <2>3. Exchanges(r)
    BY <1>1, <2>2 DEF Exchanges, Minted, Fields
  <2>. QED  BY <1>1, <2>2, <2>3 DEF Outcome, Minted, Fields
<1>2. CASE rec'[r].pc # "write"
  BY <1>2 DEF Outcome, Minted
<1>. QED  BY <1>1, <1>2 DEF Minted

(* The branches of a session that has no binding to work on. *)
LEMMA RecoverEffects ==
  ASSUME SessionOK, NEW r \in Reconcilers, Id(r) <= minted, RecoverWithoutBinding(r)
  PROVE  Effects(r)
<1>1. /\ rec[r].pc = "read" /\ Running(r) /\ Orphaned(r) /\ Elsewhere /\ Id(r) = 0
      /\ Had(r) \in StatusType /\ Bound(r) \in BindingType
      /\ Had(r).binding = Bound(r) /\ Id(r) = Bound(r).id
  BY ReadHasType DEF RecoverWithoutBinding, Running, Orphaned, Id, Bound
<1>2. Releases(r) /\ released' = released
  BY ReleaseWithoutBindingMakes DEF RecoverWithoutBinding
<1> DEFINE parking == Fields \ {"probes"}
<1>3. \/ /\ \E phase \in {"Releasing", "Failed"} :
              Patch(r, parking, [Had(r) EXCEPT !.phase = phase], {})
         /\ minted' = minted
      \/ (DeclareStopped(r) \/ Return(r)) /\ minted' = minted
      \/ ~BudgetExhausted(Had(r)) /\ Mint(r, Had(r), {})
  BY DEF RecoverWithoutBinding
<1>4. CASE \E phase \in {"Releasing", "Failed"} :
              Patch(r, parking, [Had(r) EXCEPT !.phase = phase], {})
           /\ minted' = minted
  <2>1. PICK phase \in {"Releasing", "Failed"} :
           Patch(r, parking, [Had(r) EXCEPT !.phase = phase], {}) /\ minted' = minted
    BY <1>4
  <2> DEFINE to == [Had(r) EXCEPT !.phase = phase]
  <2>2. to.phase = phase /\ to.observed = Had(r).observed /\ to.binding = Bound(r)
    BY <1>1 DEF StatusType
  <2> HIDE DEF to
  <2>3. /\ rec'[r].pc = "write" /\ To(r)' = to /\ rec'[r].fields = parking
        /\ \A q \in Reconcilers \ {r} : rec'[q] = rec[q]
    BY <2>1, PatchMakes DEF to
  <2>4. Keeps(r)
    BY <1>1, <2>1, <2>2, <2>3 DEF Keeps, Fields
  <2>. QED  BY <1>1, <1>2, <2>1, <2>2, <2>3, <2>4
            DEF Effects, Frame, Jobs, Releases, Outcome, Fields
<1>5. CASE (DeclareStopped(r) \/ Return(r)) /\ minted' = minted
  <2>1. rec'[r].pc \in {"idle", "stop"} /\ \A q \in Reconcilers \ {r} : rec'[q] = rec[q]
    BY <1>5, DeclareMakes, ReturnMakes
  <2>. QED  BY <1>1, <1>2, <1>5, <2>1 DEF Effects, Frame, Jobs, Releases, Outcome
<1>6. CASE ~BudgetExhausted(Had(r)) /\ Mint(r, Had(r), {})
  <2>1. Minted(r, Had(r).observed)
    BY <1>1, <1>6, MintMakes
  <2>2. Outcome(r) /\ rec'[r].pc \in {"idle", "write"}
    BY <1>1, <1>6, <2>1, MintedExchanges DEF Bindings
  <2>. QED  BY <1>1, <1>2, <2>1, <2>2 DEF Effects, Frame, Jobs, Releases, Minted
<1>. QED  BY <1>3, <1>4, <1>5, <1>6

(* A release that goes on keeps the binding; a complete one lets the pass renew
   it, and may then be entered in the ledger. *)
LEMMA ReleaseEffects ==
  ASSUME SessionOK, NEW r \in Reconcilers, Id(r) <= minted, Id(r) # 0, Elsewhere,
         rec[r].pc = "read",
         Bound(r).job \/ Had(r).phase = "Releasing" \/ Replaced(r),
         Release(r, "replace"),
         \/ /\ ~ReleaseComplete(r)
            /\ \E fields, consumed, to :
                 /\ Patch(r, fields, to, consumed) /\ BindingFields \subseteq fields
                 /\ to.phase = "Releasing" /\ to.binding = ReleasingBinding(r)
                 /\ to.observed \in {Had(r).observed, Want(r).activation}
            /\ minted' = minted
         \/ /\ ReleaseComplete(r)
            /\ \/ Restarted(r)
               \/ DeclareStopped(r) /\ minted' = minted
  PROVE  Effects(r)
<1>1. /\ Releases(r) /\ Id(r) \in Bindings
      /\ \/ ReleaseComplete(r) /\ NoPods' /\ released' = released \cup {Id(r)}
         \/ ~ReleaseComplete(r) /\ released' = released
  BY ReadHasType, ReleaseMakes DEF Bindings
<1>2. CASE ~ReleaseComplete(r)
  <2>1. PICK fields, consumed, to :
          /\ Patch(r, fields, to, consumed) /\ BindingFields \subseteq fields
          /\ to.phase = "Releasing" /\ to.binding = ReleasingBinding(r)
          /\ to.observed \in {Had(r).observed, Want(r).activation}
    BY <1>2
  <2>2. /\ rec'[r].pc = "write" /\ To(r)' = to /\ rec'[r].fields = fields
        /\ \A q \in Reconcilers \ {r} : rec'[q] = rec[q]
    BY <2>1, PatchMakes
  <2>3. Keeps(r)
    BY <1>2, <2>1, <2>2, ReleasingKeeps DEF Keeps, BindingFields
  <2>. QED  BY <1>1, <1>2, <2>1, <2>2, <2>3
            DEF Effects, Frame, Jobs, Releases, Outcome, BindingFields
<1>3. CASE ReleaseComplete(r) /\ Minted(r, Want(r).activation)
  <2>1. /\ Outcome(r) /\ rec'[r].pc \in {"idle", "write"}
        /\ rec'[r].pc = "write" => To(r)'.binding.id # Id(r)
    BY <1>1, <1>3, MintedExchanges DEF NoPods, PodStates
  <2>2. Enters(r)
    BY <1>1, <1>3, <2>1 DEF Enters
  <2>. QED  BY <1>1, <1>3, <2>1, <2>2 DEF Effects, Frame, Jobs, Releases, Minted
<1>4. CASE /\ ReleaseComplete(r) /\ ~Minted(r, Want(r).activation)
           /\ Restarted(r)
  <2>1. NoBinding.id = 0
    BY DEF NoBinding, NewBinding
  <2>2. Exchanges(r)
    BY <1>1, <1>4, <2>1 DEF Exchanges, Restarted, Fields, NoPods, PodStates
  <2>3. Enters(r)
    BY <1>1, <1>4, <2>1 DEF Enters, Restarted
  <2>. QED  BY <1>1, <1>4, <2>2, <2>3
            DEF Effects, Frame, Jobs, Releases, Outcome, Restarted, Fields
<1>5. CASE ReleaseComplete(r) /\ DeclareStopped(r) /\ minted' = minted
  <2>1. rec'[r].pc = "stop" /\ \A q \in Reconcilers \ {r} : rec'[q] = rec[q]
    BY <1>5, DeclareMakes
  <2>2. Enters(r)
    BY <1>1, <1>5, <2>1 DEF Enters
  <2>. QED  BY <1>1, <1>5, <2>1, <2>2 DEF Effects, Frame, Jobs, Releases, Outcome
<1>. QED  BY <1>2, <1>3, <1>4, <1>5

LEMMA RenewEffects ==
  ASSUME SessionOK, NEW r \in Reconcilers, Id(r) <= minted, Renew(r)
  PROVE  Effects(r)
<1>1. Had(r) \in StatusType /\ FreshAttempt(r) \in StatusType
      /\ FreshAttempt(r).observed = Want(r).activation
      /\ FirstObserved(r) \in {Had(r).observed, Want(r).activation}
  <2>1. Had(r) \in StatusType /\ FreshAttempt(r) \in StatusType
    BY ReadHasType, FreshAttemptHasType
  <2>. QED  BY <2>1 DEF FreshAttempt, FirstObserved, StatusType
<1>2. CASE ReplaceActivation(r) \/ ContinueRelease(r)
  <2>1. /\ Id(r) # 0 /\ Elsewhere /\ rec[r].pc = "read" /\ Release(r, "replace")
        /\ Had(r).phase = "Releasing" \/ Replaced(r)
    BY <1>2 DEF ReplaceActivation, ContinueRelease, Replaced, Running
  <2>2. CASE ReleaseComplete(r)
    <3>1. Mint(r, FreshAttempt(r), {})
      BY <1>2, <2>2 DEF ReplaceActivation, ContinueRelease
    <3>2. Restarted(r)
      BY <1>1, <3>1, MintMakes DEF Restarted
    <3>. QED  BY <2>1, <2>2, <3>2, ReleaseEffects
  <2>3. CASE ~ReleaseComplete(r)
    <3> DEFINE a == [Had(r) EXCEPT !.phase = "Releasing",
                                   !.binding = ReleasingBinding(r)]
               b == [Had(r) EXCEPT !.phase = "Releasing",
                                   !.binding = ReleasingBinding(r),
                                   !.observed = FirstObserved(r)]
    <3>1. /\ a.phase = "Releasing" /\ a.binding = ReleasingBinding(r)
          /\ a.observed \in {Had(r).observed, Want(r).activation}
          /\ b.phase = "Releasing" /\ b.binding = ReleasingBinding(r)
          /\ b.observed \in {Had(r).observed, Want(r).activation}
      BY <1>1 DEF StatusType
    <3>2. /\ Patch(r, BindingFields, a, {}) \/ Patch(r, BindingFields, b, {})
          /\ minted' = minted
      BY <1>2, <2>3 DEF ReplaceActivation, ContinueRelease
    <3> HIDE DEF a, b
    <3>. QED  BY <2>1, <2>3, <3>1, <3>2, ReleaseEffects
  <2>. QED  BY <2>2, <2>3
<1>3. CASE MintBinding(r)
  <2>1. /\ Id(r) = 0 /\ Running(r) /\ ~Orphaned(r) /\ Elsewhere
        /\ Mint(r, FreshAttempt(r), {}) /\ rec[r].pc = "read"
        /\ UNCHANGED <<status, released, job, vm, worker, faults, leaked>>
    BY <1>3 DEF MintBinding, Running
  <2>2. Minted(r, Want(r).activation)
    BY <1>1, <2>1, MintMakes
  <2>3. Outcome(r) /\ rec'[r].pc \in {"idle", "write"}
    BY <2>1, <2>2, MintedExchanges DEF Bindings
  <2>. QED  BY <2>1, <2>2, <2>3 DEF Effects, Frame, SameStatus, Jobs, Minted
<1>. QED  BY <1>2, <1>3, RecoverEffects DEF Renew

(* A restart after the Job of the binding has been suspended, or has leaked. *)
LEMMA TimeoutEffects ==
  ASSUME SessionOK, NEW r \in Reconcilers, Id(r) <= minted, Booting(r) \/ Serving(r),
         SuspendOwn(r), Restarted(r), Elsewhere, UNCHANGED <<released, vm, worker>>
  PROVE  Effects(r)
<1>1. Id(r) # 0 /\ rec[r].pc = "read"
  BY DEF Booting, Serving, Working, Running
<1>2. /\ SameStatus /\ status'.binding.attempt = status.binding.attempt
      /\ faults' \in {faults, faults + 1} /\ leaked \subseteq leaked'
      /\ \A b \in Bindings : job'[b] = job[b] \/ (Live(b) /\ job'[b] = "ending")
      /\ job'[Id(r)] \notin LiveStates \/ Id(r) \in leaked'
  BY SuspendOwnMakes
<1>3. CASE Minted(r, Want(r).activation)
  <2>1. Outcome(r) /\ rec'[r].pc \in {"idle", "write"}
    BY <1>1, <1>2, <1>3, MintedExchanges
  <2>. QED  BY <1>1, <1>2, <1>3, <2>1 DEF Effects, Frame, Jobs, Minted
<1>4. CASE ~Minted(r, Want(r).activation)
  <2>1. NoBinding.id = 0
    BY DEF NoBinding, NewBinding
  <2>2. Exchanges(r)
    BY <1>1, <1>2, <1>4, <2>1 DEF Exchanges, Restarted, Fields
  <2>. QED  BY <1>1, <1>2, <1>4, <2>2
            DEF Effects, Frame, Jobs, Outcome, Restarted, Fields
<1>. QED  BY <1>3, <1>4

(* A pass that works on the binding and only writes it back. *)
LEMMA KeepEffects ==
  ASSUME SessionOK, NEW r \in Reconcilers, NEW fields, NEW to, NEW consumed,
         Working(r), Patch(r, fields, to, consumed), "phase" \in fields,
         to.phase # "Released", to.observed = Want(r).activation,
         to.binding.id = Id(r), Bound(r).job => to.binding.job,
         to.binding.vm => Bound(r).vm,
         to.binding.attempt # "none" => Bound(r).attempt # "none",
         "binding" \notin fields => Serving(r),
         ~Bound(r).job \/ (to.binding.job /\ (Booting(r) \/ Serving(r))),
         \/ to.binding.vm \/ ~Want(r).desktop \/ "binding" \notin fields
         \/ ~Bound(r).job \/ Booting(r),
         Jobs(r),
         \/ status' = status /\ worker' = worker
         \/ /\ SameStatus /\ Serving(r) /\ status.binding.id = Id(r)
            /\ worker'[Id(r)] # "idle"
            /\ \A b \in Bindings \ {Id(r)} : worker'[b] = worker[b],
         \A b \in Bindings : vm[b] = "none" => vm'[b] = "none",
         Elsewhere, UNCHANGED <<released, minted, faults, leaked>>
  PROVE  Effects(r)
<1>1. /\ rec'[r].pc = "write" /\ To(r)' = to /\ rec'[r].fields = fields
      /\ \A q \in Reconcilers \ {r} : rec'[q] = rec[q]
  BY PatchMakes
<1>2. rec[r].pc = "read" /\ Id(r) # 0
  BY DEF Working, Running
<1>3. Keeps(r)
  BY <1>1, <1>2 DEF Keeps
<1>4. Frame(r)
  BY <1>1, <1>2 DEF Frame, SameStatus
<1>. QED  BY <1>1, <1>3, <1>4 DEF Effects, Outcome

(* What it writes. *)
LEMMA EnteringIs ==
  ASSUME SessionOK, NEW r \in Reconcilers, NEW phase, NEW binding
  PROVE  /\ Entering(r, phase, binding).phase = phase
         /\ Entering(r, phase, binding).observed = Want(r).activation
         /\ Entering(r, phase, binding).binding = binding
         /\ [Entering(r, phase, binding) EXCEPT !.probes = 0].phase = phase
         /\ [Entering(r, phase, binding) EXCEPT !.probes = 0].observed
              = Want(r).activation
         /\ [Entering(r, phase, binding) EXCEPT !.probes = 0].binding = binding
BY ReadHasType DEF Entering, StatusType

(* The branches of the container, of its desktop and of the guest. *)
LEMMA ContainEffects ==
  ASSUME SessionOK, NEW r \in Reconcilers, Id(r) <= minted, Contain(r)
  PROVE  Effects(r)
<1>1. /\ Working(r) /\ Elsewhere /\ Id(r) # 0 /\ rec[r].pc = "read"
      /\ Id(r) \in Bindings /\ Had(r) \in StatusType /\ Bound(r) \in BindingType
      /\ Bound(r).id = Id(r)
  <2>1. Working(r) /\ Elsewhere
    BY DEF Contain, JobMissing, ClaimJob, AwaitCapacity, JobTerminal, AwaitContainer,
           BootstrapTimeout, Booting
  <2>. QED  BY <2>1, ReadHasType DEF Working, Running, Bindings, Id, Bound
<1>2. CASE JobMissing(r) \/ JobTerminal(r)
  <2>1. PICK waiting \in {Had(r), [Had(r) EXCEPT !.probes = 0]},
             fields \in {Fields, BindingFields} :
          IF ReleaseComplete(r)
            THEN RestartBoot(r) \/ (DeclareStopped(r) /\ minted' = minted)
            ELSE /\ Patch(r, fields, [waiting EXCEPT !.phase = "Releasing",
                                   !.observed = Want(r).activation,
                                   !.binding = ReleasingBinding(r)], {})
                 /\ minted' = minted
    BY <1>2 DEF JobMissing, JobTerminal, ReleaseThen
  <2> DEFINE to == [waiting EXCEPT !.phase = "Releasing",
                                   !.observed = Want(r).activation,
                                   !.binding = ReleasingBinding(r)]
  <2>2. waiting \in StatusType
    BY <1>1, StatusWith
  <2>3. /\ to.phase = "Releasing" /\ to.observed = Want(r).activation
        /\ to.binding = ReleasingBinding(r)
    BY <2>2 DEF StatusType
  <2>4. Release(r, "replace") /\ Bound(r).job
    BY <1>2 DEF JobMissing, JobTerminal, ReleaseThen
  <2>5. BindingFields \subseteq fields
    BY DEF Fields, BindingFields
  <2> HIDE DEF to
  <2>6. ReleaseComplete(r) =>
          Restarted(r) \/ (DeclareStopped(r) /\ minted' = minted)
    BY <2>1, RestartMakes
  <2>7. ~ReleaseComplete(r) => Patch(r, fields, to, {}) /\ minted' = minted
    BY <2>1 DEF to
  <2>8. CASE ReleaseComplete(r)
    BY <1>1, <2>4, <2>6, <2>8, ReleaseEffects
  <2>9. CASE ~ReleaseComplete(r)
    BY <1>1, <2>3, <2>4, <2>5, <2>7, <2>9, ReleaseEffects
  <2>. QED  BY <2>8, <2>9
<1>3. CASE ClaimJob(r)
  <2> DEFINE held == [Bound(r) EXCEPT !.job = TRUE]
             to == [Entering(r, "PendingContainer", held) EXCEPT !.probes = 0]
  <2>1. /\ held.id = Id(r) /\ held.job /\ held.vm = Bound(r).vm
        /\ held.attempt = Bound(r).attempt
    BY <1>1 DEF BindingType
  <2>2. /\ to.phase = "PendingContainer" /\ to.observed = Want(r).activation
        /\ to.binding = held
    BY EnteringIs
  <2>3. Patch(r, Fields, to, {})
    BY <1>3 DEF ClaimJob
  <2>4. Jobs(r)
    BY <1>1, <1>3 DEF Jobs, Claims, ClaimJob, SessionOK
  <2>5. ~Bound(r).job
    BY <1>3 DEF ClaimJob
  <2> HIDE DEF held, to
  <2>. QED  BY <1>1, <1>3, <2>1, <2>2, <2>3, <2>4, <2>5, KeepEffects DEF ClaimJob, Fields
<1>4. CASE AwaitCapacity(r) \/ AwaitContainer(r)
  <2>1. PICK phase \in {"PendingJob", "PendingContainer"} :
          Patch(r, BindingFields, Entering(r, phase, Bound(r)), {})
    BY <1>4 DEF AwaitCapacity, AwaitContainer
  <2>2. ~Bound(r).job \/ (Booting(r) /\ Bound(r).job)
    BY <1>4 DEF AwaitCapacity, AwaitContainer, Booting
  <2>3. UNCHANGED <<status, released, job, vm, worker, minted, faults, leaked>>
    BY <1>4 DEF AwaitCapacity, AwaitContainer
  <2>4. Jobs(r)
    BY <2>3 DEF Jobs
  <2>. QED  BY <1>1, <2>1, <2>2, <2>3, <2>4, EnteringIs, KeepEffects DEF BindingFields
<1>5. CASE BootstrapTimeout(r)
  <2>1. Restarted(r)
    BY <1>5, RestartMakes DEF BootstrapTimeout
  <2>. QED  BY <1>1, <1>5, <2>1, TimeoutEffects DEF BootstrapTimeout
<1>. QED  BY <1>2, <1>3, <1>4, <1>5 DEF Contain

LEMMA EquipEffects ==
  ASSUME SessionOK, NEW r \in Reconcilers, Id(r) <= minted, Equip(r)
  PROVE  Effects(r)
<1>1. /\ Serving(r) /\ Working(r) /\ Elsewhere /\ Bound(r).job
      /\ Id(r) \in Bindings /\ Had(r) \in StatusType /\ Bound(r) \in BindingType
      /\ Bound(r).id = Id(r)
  <2>1. Serving(r) /\ Elsewhere
    BY DEF Equip, RunWithoutDesktop, AssignmentTimeout, AwaitAssignment,
           QueueAssignment, OwnershipLost, Assigning, Assigned
  <2>. QED  BY <2>1, ReadHasType DEF Serving, Working, Bindings, Id, Bound
<1>2. CASE RunWithoutDesktop(r)
  <2> DEFINE bare == [Bound(r) EXCEPT !.vm = FALSE, !.ready = FALSE,
                        !.attempt = IF Bound(r).vm THEN "none" ELSE @,
                        !.release = IF Bound(r).vm THEN "asked" ELSE @]
             to == [Entering(r, "Active", bare) EXCEPT !.probes = 0]
  <2>1. /\ bare.id = Id(r) /\ bare.job /\ ~bare.vm
        /\ bare.attempt # "none" => Bound(r).attempt # "none"
    BY <1>1 DEF BindingType
  <2>2. /\ to.phase = "Active" /\ to.observed = Want(r).activation
        /\ to.binding = bare
    BY EnteringIs
  <2>3. /\ Patch(r, BindingFields \cup {"probes"}, to, {}) /\ ~Want(r).desktop
        /\ UNCHANGED <<status, released, job, worker, minted, faults, leaked>>
    BY <1>2 DEF RunWithoutDesktop
  <2>4. Jobs(r)
    BY <2>3 DEF Jobs
  <2>5. \A b \in Bindings : vm[b] = "none" => vm'[b] = "none"
    BY <1>1, <1>2 DEF RunWithoutDesktop, HasVm, SessionOK
  <2> HIDE DEF bare, to
  <2>. QED  BY <1>1, <2>1, <2>2, <2>3, <2>4, <2>5, KeepEffects DEF BindingFields
<1>3. CASE AssignmentTimeout(r) \/ OwnershipLost(r)
  <2>1. Restarted(r)
    BY <1>3, RestartMakes DEF AssignmentTimeout, OwnershipLost
  <2>. QED  BY <1>1, <1>3, <2>1, TimeoutEffects DEF AssignmentTimeout, OwnershipLost
<1>4. CASE AwaitAssignment(r)
  <2>1. Jobs(r)
    BY <1>4 DEF Jobs, AwaitAssignment
  <2>. QED  BY <1>1, <1>4, <2>1, EnteringIs, KeepEffects DEF AwaitAssignment
<1>5. CASE QueueAssignment(r)
  <2>1. Jobs(r)
    BY <1>5 DEF Jobs, QueueAssignment
  <2>2. CASE AttemptClaimed(r)
    <3>1. /\ Patch(r, {"phase", "observed"}, Entering(r, "PendingVM", Bound(r)), {})
          /\ status.binding.id = Id(r)
          /\ UNCHANGED <<released, job, vm, minted, faults, leaked>>
      BY <1>5, <2>2 DEF QueueAssignment, AttemptClaimed
    <3>2. SameStatus
      BY <1>5, <2>2 DEF QueueAssignment, SameStatus, SessionOK, StatusType, BindingType
    <3>3. /\ \A b \in Bindings \ {Id(r)} : worker'[b] = worker[b]
          /\ worker'[Id(r)] # "idle"
      BY <1>1, <1>5, <2>2 DEF QueueAssignment, SessionOK
    <3>. QED  BY <1>1, <2>1, <3>1, <3>2, <3>3, EnteringIs, KeepEffects
  <2>3. CASE ~AttemptClaimed(r)
    <3>1. Return(r) /\ UNCHANGED <<status, worker, released, job, vm, minted, faults,
                                   leaked>>
      BY <1>5, <2>3 DEF QueueAssignment
    <3>. QED  BY <1>1, <2>1, <3>1, ReturnMakes
              DEF Effects, Frame, SameStatus, Outcome, Working, Running
  <2>. QED  BY <2>2, <2>3
<1>. QED  BY <1>2, <1>3, <1>4, <1>5 DEF Equip

LEMMA WatchEffects ==
  ASSUME SessionOK, NEW r \in Reconcilers, Id(r) <= minted, Watch(r)
  PROVE  Effects(r)
<1>1. /\ Serving(r) /\ Working(r) /\ Elsewhere /\ Bound(r).job /\ Bound(r).vm
      /\ Id(r) \in Bindings /\ Had(r) \in StatusType /\ Bound(r) \in BindingType
      /\ Bound(r).id = Id(r) /\ rec[r].pc = "read" /\ Id(r) # 0
  <2>1. Serving(r) /\ Bound(r).vm /\ Elsewhere
    BY DEF Watch, Healthy, Unhealthy, LivenessFailed, AwaitGuest, ReadinessTimeout,
           AwaitDesktop, GiveUpVm, Probed, Unprobed, Guest, Assigned
  <2>. QED  BY <2>1, ReadHasType DEF Serving, Working, Running, Bindings, Id, Bound
<1>2. CASE Healthy(r) \/ Unhealthy(r) \/ AwaitGuest(r) \/ AwaitDesktop(r)
  <2>1. /\ Observed(r).id = Id(r) /\ Observed(r).job /\ Observed(r).vm
        /\ Observed(r).attempt = "none"
    BY <1>1 DEF Observed, BindingType
  <2>2. PICK phase \in {"Active", "PendingGuest"}, consumed \in {{}, rec[r].signals} :
          \/ Patch(r, Fields, Entering(r, phase, Observed(r)), consumed)
          \/ Patch(r, Fields, [Entering(r, phase, Observed(r)) EXCEPT !.probes = 0],
                   consumed)
          \/ Patch(r, Fields, [Entering(r, phase, Observed(r)) EXCEPT !.probes = @ + 1],
                   consumed)
    BY <1>2 DEF Healthy, Unhealthy, AwaitGuest, AwaitDesktop
  <2>3. \E to : /\ Patch(r, Fields, to, consumed)
                /\ to.phase = phase /\ to.observed = Want(r).activation
                /\ to.binding = Observed(r)
    <3> DEFINE active == Entering(r, phase, Observed(r))
               worse == [active EXCEPT !.probes = @ + 1]
               better == [active EXCEPT !.probes = 0]
    <3>1. worse.phase = phase /\ worse.observed = Want(r).activation
          /\ worse.binding = Observed(r)
      BY <1>1 DEF Entering, StatusType
    <3>2. better.phase = phase /\ better.observed = Want(r).activation
          /\ better.binding = Observed(r)
      BY EnteringIs
    <3>3. active.phase = phase /\ active.observed = Want(r).activation
          /\ active.binding = Observed(r)
      BY EnteringIs
    <3>4. \/ Patch(r, Fields, active, consumed) \/ Patch(r, Fields, better, consumed)
          \/ Patch(r, Fields, worse, consumed)
      BY <2>2
    <3> HIDE DEF active, worse, better
    <3>. QED  BY <3>1, <3>2, <3>3, <3>4
  <2>6. PICK to : /\ Patch(r, Fields, to, consumed)
                  /\ to.phase = phase /\ to.observed = Want(r).activation
                  /\ to.binding = Observed(r)
    BY <2>3
  <2>4. UNCHANGED <<status, released, job, vm, worker, minted, faults, leaked>>
    BY <1>2 DEF Healthy, Unhealthy, AwaitGuest, AwaitDesktop
  <2>5. Jobs(r)
    BY <2>4 DEF Jobs
  <2>. QED  BY <1>1, <2>1, <2>6, <2>4, <2>5, KeepEffects DEF Fields
<1>3. CASE LivenessFailed(r) \/ ReadinessTimeout(r)
  <2> DEFINE waiting == [Had(r) EXCEPT !.vmr = @ + 1, !.probes = 0]
             to == [waiting EXCEPT !.phase = "Releasing",
                                   !.observed = Want(r).activation,
                                   !.binding = ReleasingBinding(r)]
  <2>1. PICK consumed \in {{}, rec[r].signals} : GiveUpVm(r, consumed)
    BY <1>3 DEF LivenessFailed, ReadinessTimeout
  <2>2. /\ Release(r, "replace")
        /\ ReleaseComplete(r) => RestartVm(r, consumed)
        /\ ~ReleaseComplete(r) => Patch(r, Fields, to, consumed) /\ minted' = minted
    BY <2>1 DEF GiveUpVm, ReleaseThen
  <2>3. /\ to.phase = "Releasing" /\ to.observed = Want(r).activation
        /\ to.binding = ReleasingBinding(r)
    BY <1>1 DEF StatusType
  <2>4. BindingFields \subseteq Fields
    BY DEF Fields, BindingFields
  <2> HIDE DEF waiting, to
  <2>5. ReleaseComplete(r) => Restarted(r)
    BY <2>2, RestartMakes
  <2>. QED  BY <1>1, <2>2, <2>3, <2>4, <2>5, ReleaseEffects
<1>. QED  BY <1>2, <1>3 DEF Watch

(* What any branch does. *)
LEMMA BranchEffects ==
  ASSUME SessionOK, NEW r \in Reconcilers, Id(r) <= minted, Branch(r)
  PROVE  Effects(r)
BY StopEffects, RenewEffects, ContainEffects, EquipEffects, WatchEffects DEF Branch

-----------------------------------------------------------------------------
(* What every other step may do. *)

Reads(r) == rec[r].pc = "read"
Writes(r) == rec[r].pc = "write"

(* The passes that have not been overtaken. *)
Ahead == Reconcilers \ overtaken

(* A step of a pass overtakes the others when it changes what they may have read;
   one that has been overtaken itself crosses the bindings it acts for. *)
Beside(r) ==
  /\ crossed \subseteq crossed' /\ (r \notin overtaken => crossed' = crossed)
  /\ \A q \in overtaken : q \in overtaken' \/ rec'[q].pc = "idle"
  /\ \A q \in Reconcilers \ {r} :
       Overtakes(r) /\ rec[q].pc # "idle" => q \in overtaken'
  /\ r \in overtaken => \A b \in Bindings :
       /\ job'[b] = "booting" /\ job[b] # "booting" => b \in crossed'
       /\ worker'[b] # worker[b] => b \in crossed'
       /\ Writes(r) /\ status' # status /\ (HasPods(b) \/ b = status'.binding.id)
            => b \in crossed'

(* The course of the session: all of its status that only a pass may write. *)
SameCourse ==
  /\ status'.phase = status.phase /\ status'.observed = status.observed
  /\ status'.boot = status.boot /\ status'.vmr = status.vmr
  /\ status'.binding.id = status.binding.id
  /\ status'.binding.job = status.binding.job

(* A pass has read the session. *)
Begins(r) ==
  /\ rec[r].pc = "idle" /\ Reads(r)' /\ Want(r)' = spec /\ Had(r)' = status
  /\ \A q \in Reconcilers \ {r} : rec'[q] = rec[q]
  /\ overtaken \subseteq overtaken'
  /\ (\E q \in Reconcilers : ExchangePending(q)) => r \in overtaken'
  /\ UNCHANGED <<spec, status, released, job, vm, worker, minted, apiVars, faults,
                 leaked, crossed>>

(* It has written the status. *)
Finishes(r) ==
  LET f == rec[r].fields IN
  /\ Writes(r) /\ rec'[r].pc = "idle"
  /\ \A q \in Reconcilers \ {r} : rec'[q] = rec[q]
  /\ status'.phase = IF "phase" \in f THEN To(r).phase ELSE status.phase
  /\ status'.observed = IF "observed" \in f THEN To(r).observed ELSE status.observed
  /\ status'.binding = IF "binding" \in f THEN To(r).binding ELSE status.binding
  /\ Beside(r)
  /\ UNCHANGED <<spec, released, job, vm, worker, minted, apiVars, faults, leaked>>

(* Passes die, requests arrive, workers, pods and VMs go on: the status keeps its
   course, Jobs only end, and a VM only comes to a binding for which a worker has
   been started. *)
Asked ==
  /\ activations' \in {activations, activations + 1}
  /\ \/ spec'.activation = spec.activation /\ spec'.desktop = spec.desktop
     \/ /\ start # NoStart /\ start' = NoStart /\ activations' = activations
        /\ spec'.activation = start.activation /\ spec'.desktop = start.desktop
  /\ start' # NoStart =>
       /\ spec'.activation = spec.activation
       /\ \/ start' = start
          \/ /\ start'.activation \in {spec.activation, activations'}
             /\ Desktops = {TRUE} => start'.desktop
Supplied ==
  /\ status.binding.vm => status'.binding.vm
  /\ status.binding.attempt # "none" => status'.binding.attempt # "none"
                                        \/ status'.binding.vm
  /\ status'.binding.vm \/ status'.binding.attempt # "none" =>
       status.binding.vm \/ status.binding.attempt # "none"
  /\ status.binding.id = 0 => status'.binding.vm = status.binding.vm
  /\ \A b \in Bindings : /\ vm[b] = "none" => vm'[b] = "none" \/ worker[b] # "idle"
                         /\ worker[b] = "idle" => worker'[b] = "idle"
Ended ==
  /\ \A b \in Bindings : /\ job'[b] \in LiveStates => job[b] \in LiveStates
                         /\ job'[b] \in PodStates => job[b] \in PodStates
                         /\ job[b] # "booting" => job'[b] # "booting"
                         /\ job[b] = "none" => job'[b] = "none"
  /\ \A r \in Reconcilers : rec'[r] = rec[r] \/ rec'[r].pc = "idle"
  /\ faults' # 0 \/ (faults = 0 /\ \A r \in Reconcilers : Writes(r) => rec'[r] = rec[r])
  /\ \A r \in overtaken : r \in overtaken' \/ rec'[r].pc = "idle"
Around ==
  /\ SameCourse /\ Asked /\ Supplied /\ Ended
  /\ UNCHANGED <<released, minted, leaked, crossed>>

(* Each of the steps makes what its contract says. *)
LEMMA ReadMakes ==
  ASSUME SessionOK, NEW r \in Reconcilers, Read(r)
  PROVE  Begins(r)
BY ReadHasType DEF Read, Begins, Reads, Want, Had, Pass, apiVars

LEMMA TrackMakes ==
  ASSUME NEW r \in Reconcilers, Track(r)
  PROVE  Beside(r)
BY DEF Track, Crosses, Beside, Writes

LEMMA WriteMakes ==
  ASSUME SessionOK, NEW r \in Reconcilers, WriteStatus(r)
  PROVE  Finishes(r)
<1>1. rec'[r].pc = "idle" /\ \A q \in Reconcilers \ {r} : rec'[q] = rec[q]
  BY ReturnMakes DEF WriteStatus
<1>2. Beside(r)
  BY TrackMakes DEF WriteStatus
<1>. QED  BY <1>1, <1>2 DEF WriteStatus, Finishes, Writes, Written, To, apiVars

LEMMA DeathsMake ==
  ASSUME SessionOK, OverlapOK, ControllerCrash \/ \E r \in Reconcilers : Fail(r) \/ WriteStopped(r)
  PROVE  Around
<1>1. \A r \in Reconcilers : rec'[r] = rec[r] \/ rec'[r].pc = "idle"
  BY ReturnMakes DEF ControllerCrash, Fail, WriteStopped, Idle, Pass
<1>2. faults' # 0 \/ (faults = 0 /\ \A r \in Reconcilers : Writes(r) => rec'[r] = rec[r])
  BY ReturnMakes, BoundsAssumption
     DEF ControllerCrash, Fail, WriteStopped, Fault, SessionOK, Writes
<1>3. \A b \in Bindings : worker[b] = "idle" => worker'[b] = "idle"
  BY DEF ControllerCrash, Fail, WriteStopped
<1>4. spec'.activation = spec.activation /\ spec'.desktop = spec.desktop
  BY DEF ControllerCrash, Fail, WriteStopped, SessionOK, SpecType
<1>5. UNCHANGED <<status, released, job, vm, minted, apiVars, leaked>>
  BY DEF ControllerCrash, Fail, WriteStopped
<1>6. ASSUME NEW r \in Reconcilers, Fail(r) \/ WriteStopped(r)
      PROVE  crossed' = crossed
             /\ \A q \in overtaken : q \in overtaken' \/ rec'[q].pc = "idle"
  <2>1. Track(r) /\ UNCHANGED <<status, job, worker>>
    BY <1>6 DEF Fail, WriteStopped
  <2>2. crossed' = crossed
    BY <2>1 DEF Track, Crosses
  <2>. QED  BY <2>1, <2>2, TrackMakes DEF Beside
<1>7. CASE ControllerCrash
  <2>1. crossed' = crossed /\ \A q \in Reconcilers : rec'[q].pc = "idle"
    BY <1>7 DEF ControllerCrash, Idle, Pass
  <2>. QED  BY <1>1, <1>2, <1>3, <1>4, <1>5, <2>1
            DEF Around, SameCourse, Asked, Supplied, Ended, apiVars, OverlapOK
<1>. QED  BY <1>1, <1>2, <1>3, <1>4, <1>5, <1>6, <1>7
          DEF Around, SameCourse, Asked, Supplied, Ended, apiVars

LEMMA ApiMakes ==
  ASSUME SessionOK, Api
  PROVE  Around
<1>1. UNCHANGED <<released, job, vm, worker, minted, rec, leaked, overtaken, crossed>>
  BY DEF Api, StartRead, StartWrite, StartAbandoned, StopIntent, StopSpec, StopAbandoned,
         overlap
<1>2. faults' # 0 \/ (faults = 0 /\ \A r \in Reconcilers : Writes(r) => rec'[r] = rec[r])
  BY <1>1, BoundsAssumption
     DEF Api, StartRead, StartWrite, StartAbandoned, StopIntent, StopSpec, StopAbandoned,
         Fault, SessionOK
<1>3. /\ SameCourse /\ status'.binding.vm = status.binding.vm
      /\ status'.binding.attempt = status.binding.attempt
  <2>1. CASE StopIntent
    BY <2>1, IntentMakes DEF StopIntent, SameStatus, SameCourse
  <2>2. CASE ~StopIntent
    <3>1. status' = status
      BY <2>2 DEF Api, StartRead, StartWrite, StartAbandoned, StopSpec, StopAbandoned
    <3>. QED  BY <3>1 DEF SameCourse
  <2>. QED  BY <2>1, <2>2
<1>4. Asked
  <2>1. ASSUME NEW d \in Desktops, StartRead(d)
        PROVE  Asked
    <3>0. PICK entitled \in BOOLEAN :
            start' = [activation |-> NextActivation,
                      desktop |-> d \/ (entitled /\ DesktopEstablished)]
      BY <2>1 DEF StartRead
    <3>1. activations' \in {activations, activations + 1} /\ spec' = spec
          /\ start'.activation \in {spec.activation, activations'}
      BY <2>1, <3>0 DEF StartRead, NextActivation
    <3>2. ASSUME Desktops = {TRUE}
          PROVE  start'.desktop
      <4>1. d = TRUE
        BY <3>2
      <4>2. start'.desktop = (d \/ (entitled /\ DesktopEstablished))
        BY <3>0
      <4>. QED  BY <4>1, <4>2
    <3>. QED  BY <3>1, <3>2 DEF Asked
  <2>2. CASE StartWrite
    BY <2>2 DEF StartWrite, Asked
  <2>3. CASE StartAbandoned \/ StopIntent \/ StopAbandoned
    BY <2>3 DEF StartAbandoned, StopIntent, StopAbandoned, Asked
  <2>4. CASE StopSpec
    BY <2>4 DEF StopSpec, Asked, SessionOK, SpecType
  <2>. QED  BY <2>1, <2>2, <2>3, <2>4 DEF Api
<1>. QED  BY <1>1, <1>2, <1>3, <1>4 DEF Around, Supplied, Ended

LEMMA AssignMakes ==
  ASSUME SessionOK, NEW b \in Bindings, Assign(b)
  PROVE  Around
<1>1. UNCHANGED <<spec, released, job, minted, rec, apiVars, faults, leaked, overtaken,
                  crossed>>
  BY DEF Assign, AssignmentSkipped, AssignmentRefused, AssignmentPersisted, VmAssigned,
         overlap
<1>2. \A c \in Bindings : /\ vm[c] = "none" => vm'[c] = "none" \/ worker[c] # "idle"
                          /\ worker[c] = "idle" => worker'[c] = "idle"
  BY DEF Assign, AssignmentSkipped, AssignmentRefused, AssignmentPersisted, VmAssigned,
         SessionOK
<1>3. b # 0
  BY DEF Bindings
<1>4. ASSUME status' # status
      PROVE  /\ SameCourse /\ Awaited(b)
             /\ status'.binding.vm => status.binding.vm \/ status.binding.attempt # "none"
             /\ status.binding.vm => status'.binding.vm
             /\ status'.binding.attempt # "none" \/ status'.binding.vm
  <2>1. status \in StatusType /\ status.binding \in BindingType
    BY DEF SessionOK, StatusType
  <2>2. Awaited(b) /\ status.binding.attempt = "running"
    BY <1>4 DEF Assign, AssignmentSkipped, AssignmentRefused, AssignmentPersisted,
                VmAssigned, Awaited
  <2>3. CASE status' = [status EXCEPT !.binding.attempt = "refused"]
    <3>1. /\ status'.binding = [status.binding EXCEPT !.attempt = "refused"]
          /\ status'.phase = status.phase /\ status'.observed = status.observed
          /\ status'.boot = status.boot /\ status'.vmr = status.vmr
      BY <2>1, <2>3 DEF StatusType
    <3>2. /\ status'.binding.id = status.binding.id
          /\ status'.binding.job = status.binding.job
          /\ status'.binding.vm = status.binding.vm
          /\ status'.binding.attempt = "refused"
      BY <2>1, <3>1 DEF BindingType
    <3>. QED  BY <2>2, <3>1, <3>2 DEF SameCourse
  <2>4. CASE status' = [status EXCEPT !.binding.vm = TRUE, !.binding.ready = FALSE,
                                      !.binding.attempt = "none",
                                      !.binding.release = "none"]
    <3> DEFINE held == [status.binding EXCEPT !.vm = TRUE, !.ready = FALSE,
                                              !.attempt = "none", !.release = "none"]
    <3>1. /\ status'.binding = held
          /\ status'.phase = status.phase /\ status'.observed = status.observed
          /\ status'.boot = status.boot /\ status'.vmr = status.vmr
      BY <2>1, <2>4 DEF StatusType, BindingType
    <3>2. held.id = status.binding.id /\ held.job = status.binding.job /\ held.vm
      BY <2>1 DEF BindingType
    <3> HIDE DEF held
    <3>. QED  BY <2>2, <3>1, <3>2 DEF SameCourse
  <2>. QED  BY <1>4, <2>3, <2>4
            DEF Assign, AssignmentSkipped, AssignmentRefused, AssignmentPersisted,
                VmAssigned
<1>5. SameCourse
  BY <1>4 DEF SameCourse
<1>6. Supplied
  BY <1>2, <1>3, <1>4 DEF Supplied, Awaited, Current
<1>7. Asked /\ Ended
  BY <1>1, BoundsAssumption DEF Asked, Ended, apiVars, SessionOK
<1>. QED  BY <1>1, <1>5, <1>6, <1>7 DEF Around

LEMMA ClusterMakes ==
  ASSUME SessionOK,
         \/ \E b \in Bindings : Cluster(b)
         \/ DesktopReady
         \/ \E state \in {"healthy", "failed"} : HealthProbe(state)
  PROVE  Around
<1>1. \A b \in Bindings : /\ job'[b] \in LiveStates => job[b] \in LiveStates
                          /\ job'[b] \in PodStates => job[b] \in PodStates
                          /\ job[b] # "booting" => job'[b] # "booting"
                          /\ job[b] = "none" => job'[b] = "none"
                          /\ vm[b] = "none" => vm'[b] = "none"
  BY DEF Cluster, ContainerReady, JobEnds, JobSuspended, PodsGone, JobDeleted, VmReturns,
         SweepOrphan, VmLost, DesktopReady, HealthProbe, SessionOK, PodStates, LiveStates,
         Live
<1>2. faults' # 0 \/ faults = 0
  BY BoundsAssumption
     DEF Cluster, ContainerReady, JobEnds, JobSuspended, PodsGone, JobDeleted, VmReturns,
         SweepOrphan, VmLost, DesktopReady, HealthProbe, SessionOK, Fault
<1>3. clusterUnchanged
  BY DEF Cluster, ContainerReady, JobEnds, JobSuspended, PodsGone, JobDeleted, VmReturns,
         SweepOrphan, VmLost, DesktopReady, HealthProbe
<1>. QED  BY <1>1, <1>2, <1>3
          DEF clusterUnchanged, apiVars, overlap, Around, SameCourse, Asked, Supplied,
              Ended

(* Every step. *)
LEMMA StepMakes ==
  ASSUME SessionOK, OverlapOK, [Next]_vars
  PROVE  \/ Around
         \/ \E r \in Reconcilers : Begins(r) \/ Branch(r) \/ Finishes(r)
<1>1. CASE UNCHANGED vars
  BY <1>1, BoundsAssumption
     DEF vars, apiVars, overlap, Around, SameCourse, Asked, Supplied, Ended, SessionOK
<1>. QED  BY <1>1, ReadMakes, WriteMakes, DeathsMake, ApiMakes, AssignMakes, ClusterMakes
          DEF Next, Reconcile, Refresh, OnSessionChange

-----------------------------------------------------------------------------
(* The inductive invariant, in parts. *)

(* It is about to write the binding. *)
Rebinds(r) == Writes(r) /\ "binding" \in rec[r].fields

(* Activations only grow, from the status over the spec to what has been asked. *)
Monotone ==
  /\ spec.activation <= activations
  /\ start # NoStart =>
       spec.activation <= start.activation /\ start.activation <= activations
  /\ status.observed <= spec.activation
  /\ \A r \in Reconcilers :
       /\ Reads(r) => /\ Want(r).activation <= spec.activation
                      /\ Had(r).observed <= Want(r).activation
       /\ Writes(r) => To(r).observed <= spec.activation

(* Nothing exists of a binding that has not been minted. *)
Fresh ==
  /\ \A b \in Bindings : b > minted => /\ job[b] = "none" /\ vm[b] = "none"
                                       /\ worker[b] = "idle" /\ b \notin released
  /\ status.binding.id <= minted
  /\ \A r \in Reconcilers : Reads(r) \/ Writes(r) => Id(r) <= minted

(* A pass that is about to exchange the binding has overtaken all the others. *)
Lone ==
  \A q, r \in Reconcilers :
    ExchangePending(q) /\ q # r /\ rec[r].pc # "idle" => r \in overtaken

(* What a pass has read is still so, but for what a worker has supplied. *)
ReadIsCurrent ==
  \A r \in Ahead : Reads(r) =>
    /\ Id(r) = status.binding.id /\ Bound(r).job = status.binding.job
    /\ Had(r).phase = status.phase /\ Had(r).observed = status.observed
    /\ Had(r).boot = status.boot /\ Had(r).vmr = status.vmr
    /\ Bound(r).vm => status.binding.vm
    /\ Bound(r).attempt # "none" => status.binding.attempt # "none" \/ status.binding.vm

(* Only the Job of the current binding is live, and not when it is about to be
   exchanged, but for Jobs that have leaked or are crossed. *)
OthersStopped ==
  /\ \A b \in Bindings : Live(b) /\ b # status.binding.id => b \in leaked \cup crossed
  /\ \A r \in Ahead :
       ExchangePending(r) /\ Live(status.binding.id)
         => status.binding.id \in leaked \cup crossed

(* There are no pods when the session is, or is about to be, released, except
   those of a binding that is crossed. *)
OnlyCrossed == \A b \in Bindings \ crossed : job[b] \notin PodStates

ReleasedQuiet ==
  /\ status.phase = "Released" /\ status.binding.id = 0 => OnlyCrossed
  /\ \A r \in Reconcilers : Writes(r) => "phase" \in rec[r].fields
  /\ \A r \in Ahead : Writes(r) /\ To(r).phase = "Released" =>
       OnlyCrossed /\ To(r).binding.id = 0 /\ Rebinds(r)

(* What is compared in the invariant are numbers. *)
LEMMA Numbers ==
  ASSUME SessionOK
  PROVE  /\ spec.activation \in Nat /\ activations \in Nat /\ status.observed \in Nat
         /\ start.activation \in Nat /\ minted \in Nat /\ status.binding.id \in Nat
         /\ \A r \in Reconcilers :
              /\ Want(r).activation \in Nat /\ Had(r).observed \in Nat
              /\ To(r).observed \in Nat /\ Id(r) \in Nat
<1>1. ASSUME NEW r \in Reconcilers
      PROVE  /\ Want(r).activation \in Nat /\ Had(r).observed \in Nat
             /\ To(r).observed \in Nat /\ Id(r) \in Nat
  <2>1. Want(r) \in SpecType /\ Had(r) \in StatusType /\ Id(r) \in 0..MaxBinding
    BY ReadHasType
  <2>. QED  BY <2>1, BoundsAssumption DEF SpecType, StatusType, To, Had
<1>. QED  BY <1>1, BoundsAssumption DEF SessionOK, SpecType, StatusType, BindingType

LEMMA NumbersNext ==
  ASSUME SessionOK'
  PROVE  /\ spec'.activation \in Nat /\ activations' \in Nat /\ status'.observed \in Nat
         /\ start'.activation \in Nat /\ minted' \in Nat /\ status'.binding.id \in Nat
BY BoundsAssumption DEF SessionOK, SpecType, StatusType, BindingType

(* A branch, and what it makes of the passes beside it. *)
LEMMA BranchMakes ==
  ASSUME SessionOK, Fresh, NEW r \in Reconcilers, Branch(r)
  PROVE  /\ Effects(r) /\ Beside(r) /\ Reads(r)
         /\ \A q \in Reconcilers \ {r} : rec'[q] = rec[q]
<1>1. rec[r].pc = "read"
  BY DEF Branch, Stop, StopWithoutBinding, StopBinding, Stopped, Renew,
     RecoverWithoutBinding, ReplaceActivation, ContinueRelease, MintBinding, Contain,
     JobMissing, ClaimJob, AwaitCapacity, JobTerminal, AwaitContainer,
     BootstrapTimeout, Equip, RunWithoutDesktop, AssignmentTimeout, AwaitAssignment,
     QueueAssignment, OwnershipLost, Watch, Healthy, Unhealthy, LivenessFailed,
     AwaitGuest, ReadinessTimeout, AwaitDesktop, Assigning, Assigned, Guest, Probed,
     Unprobed, Serving, Booting, Working, Running
<1>2. Effects(r)
  BY <1>1, BranchEffects DEF Fresh, Reads
<1>. QED  BY <1>1, <1>2, BranchTracks, TrackMakes DEF Effects, Frame, Reads

(* A pass that is not overtaken by the step of another one still knows the status,
   and the other one does not exchange the binding. *)
LEMMA StillAhead ==
  ASSUME NEW r \in Reconcilers, Beside(r), NEW q \in Ahead', q # r,
         rec[q].pc # "idle", rec'[q] = rec[q]
  PROVE  /\ q \in Ahead /\ status' = status /\ released' = released
         /\ ~ExchangePending(r)'
BY DEF Beside, Ahead, Overtakes

(* Nor has it been overtaken when it takes a step itself. *)
LEMMA WasAhead ==
  ASSUME NEW r \in Ahead', Beside(r), rec'[r].pc # "idle"
  PROVE  r \in Ahead
BY DEF Beside, Ahead

(* Around the passes no pass comes ahead, either. *)
LEMMA AroundAhead ==
  ASSUME Around, NEW r \in Ahead', rec'[r].pc # "idle"
  PROVE  r \in Ahead /\ rec'[r] = rec[r]
BY DEF Around, Ended, Ahead

(* Every part of the invariant is kept by every step. *)
LEMMA MonotoneKept ==
  ASSUME SessionOK, SessionOK', OverlapOK, Monotone, Fresh, [Next]_vars
  PROVE  Monotone'
<1>1. ASSUME NEW r \in Reconcilers, Branch(r)
      PROVE  Monotone'
  <2>1. /\ UNCHANGED <<spec, start, activations>> /\ status'.observed = status.observed
        /\ ~Reads(r)'
        /\ Writes(r)' => To(r)'.observed \in {Had(r).observed, Want(r).activation}
        /\ Reads(r)
        /\ \A q \in Reconcilers \ {r} : rec'[q] = rec[q]
    BY <1>1, BranchMakes
       DEF Effects, Frame, SameStatus, Elsewhere, apiVars, Outcome, Reads, Writes
  <2>2. Writes(r)' => To(r)'.observed <= spec.activation
    BY <2>1, Numbers DEF Monotone
  <2>. QED  BY <2>1, <2>2 DEF Monotone, Reads, Writes, Want, Had, To
<1>2. ASSUME NEW r \in Reconcilers, Begins(r)
      PROVE  Monotone'
  <2>1. ~Writes(r)' /\ Had(r)'.observed <= Want(r)'.activation
    BY <1>2 DEF Begins, Reads, Writes, Monotone
  <2>2. Want(r)'.activation <= spec'.activation
    BY <1>2, Numbers DEF Begins
  <2>. QED  BY <1>2, <2>1, <2>2
            DEF Begins, Monotone, apiVars, Reads, Writes, Want, Had, To
<1>3. ASSUME NEW r \in Reconcilers, Finishes(r)
      PROVE  Monotone'
  BY <1>3 DEF Finishes, Monotone, apiVars, Reads, Writes, Want, Had, To
<1>4. CASE Around
  <2>1. spec.activation <= spec'.activation /\ spec'.activation <= activations'
    BY <1>4, Numbers DEF Around, Asked, Monotone
  <2>2. start' # NoStart =>
          spec'.activation <= start'.activation /\ start'.activation <= activations'
    <3>1. activations <= activations' /\ spec.activation <= activations'
      BY <1>4, Numbers DEF Around, Asked, Monotone
    <3>2. start' # NoStart =>
            /\ spec'.activation = spec.activation
            /\ start' = start \/ start'.activation \in {spec.activation, activations'}
      BY <1>4 DEF Around, Asked
    <3>. QED  BY <3>1, <3>2, Numbers, NumbersNext DEF Monotone
  <2>3. status'.observed <= spec'.activation
    BY <1>4, <2>1, Numbers, NumbersNext DEF Around, SameCourse, Monotone
  <2>4. ASSUME NEW r \in Reconcilers
        PROVE  /\ Reads(r)' => /\ Want(r)'.activation <= spec'.activation
                               /\ Had(r)'.observed <= Want(r)'.activation
               /\ Writes(r)' => To(r)'.observed <= spec'.activation
    <3>1. rec'[r] = rec[r] \/ rec'[r].pc = "idle"
      BY <1>4 DEF Around, Ended
    <3>. QED  BY <2>1, <3>1, Numbers, NumbersNext
              DEF Monotone, Reads, Writes, Want, Had, To
  <2>. QED  BY <2>1, <2>2, <2>3, <2>4 DEF Monotone
<1>. QED  BY <1>1, <1>2, <1>3, <1>4, StepMakes

LEMMA FreshKept ==
  ASSUME SessionOK, SessionOK', OverlapOK, Fresh, [Next]_vars
  PROVE  Fresh'
<1>1. ASSUME NEW r \in Reconcilers, Branch(r)
      PROVE  Fresh'
  <2>1. Effects(r) /\ Reads(r) /\ \A q \in Reconcilers \ {r} : rec'[q] = rec[q]
    BY <1>1, BranchMakes
  <2>2. Id(r) <= minted /\ minted <= minted'
    BY <2>1, Numbers DEF Fresh, Effects, Outcome, Keeps, Exchanges
  <2>3. ASSUME NEW b \in Bindings, b > minted'
        PROVE  /\ job'[b] = "none" /\ vm'[b] = "none"
               /\ worker'[b] = "idle" /\ b \notin released'
    <3>1. b > minted /\ b # Id(r)
      BY <2>2, <2>3, Numbers, NumbersNext DEF Bindings
    <3>2. /\ job[b] = "none" /\ vm[b] = "none" /\ worker[b] = "idle" /\ b \notin released
      BY <3>1 DEF Fresh
    <3>3. job'[b] = "none"
      BY <2>1, <3>1, <3>2 DEF Effects, Jobs, Claims, Live, LiveStates
    <3>. QED  BY <2>1, <3>1, <3>2, <3>3 DEF Effects, Frame, Enters
  <2>4. status'.binding.id <= minted'
    BY <2>1, <2>2, Numbers, NumbersNext DEF Fresh, Effects, Frame, SameStatus
  <2>5. Reads(r)' \/ Writes(r)' => Id(r)' <= minted'
    <3>1. ASSUME Writes(r)'
          PROVE  Id(r)' \in {Id(r), 0} \/ Id(r)' = minted'
      <4>1. Keeps(r) \/ Exchanges(r)
        BY <2>1, <3>1 DEF Effects, Outcome, Writes
      <4>2. Id(r)' = To(r)'.binding.id
        BY DEF Id, To
      <4>. QED  BY <4>1, <4>2, Numbers DEF Keeps, Exchanges, NewBinding, NoBinding
    <3>. QED  BY <2>1, <2>2, <3>1, Numbers, NumbersNext DEF Effects, Frame, Reads
  <2>6. \A q \in Reconcilers \ {r} : Reads(q)' \/ Writes(q)' => Id(q)' <= minted'
    BY <2>1, <2>2, Numbers, NumbersNext DEF Fresh, Reads, Writes, Id
  <2>. QED  BY <2>3, <2>4, <2>5, <2>6 DEF Fresh
<1>2. ASSUME NEW r \in Reconcilers, Begins(r)
      PROVE  Fresh'
  BY <1>2 DEF Begins, Fresh, Reads, Writes, Id, Had
<1>3. ASSUME NEW r \in Reconcilers, Finishes(r)
      PROVE  Fresh'
  <2>1. status'.binding.id \in {status.binding.id, Id(r)}
    BY <1>3 DEF Finishes, Id, To
  <2>. QED  BY <1>3, <2>1 DEF Finishes, Fresh, Reads, Writes, Id
<1>4. CASE Around
  <2>1. ASSUME NEW r \in Reconcilers, Reads(r)' \/ Writes(r)'
        PROVE  rec'[r] = rec[r]
    BY <1>4, <2>1 DEF Around, Ended, Reads, Writes
  <2>. QED  BY <1>4, <2>1
            DEF Around, Ended, Supplied, SameCourse, Fresh, Reads, Writes, Id
<1>. QED  BY <1>1, <1>2, <1>3, <1>4, StepMakes

LEMMA LoneKept ==
  ASSUME SessionOK, OverlapOK, Fresh, Lone, [Next]_vars
  PROVE  Lone'
<1> SUFFICES ASSUME NEW q \in Reconcilers, NEW p \in Reconcilers \ {q},
                    ExchangePending(q)', rec'[p].pc # "idle"
             PROVE  p \in overtaken'
  BY DEF Lone
<1>1. ASSUME NEW r \in Reconcilers, Branch(r)
      PROVE  p \in overtaken'
  <2>1. /\ Beside(r) /\ Reads(r) /\ status'.binding.id = status.binding.id
        /\ \A c \in Reconcilers \ {r} : rec'[c] = rec[c]
    BY <1>1, BranchMakes DEF Effects, Frame, SameStatus
  <2>2. CASE q = r
    BY <2>1, <2>2 DEF Beside, Overtakes
  <2>3. CASE q # r
    <3>1. ExchangePending(q) /\ rec[p].pc # "idle"
      BY <2>1, <2>3 DEF ExchangePending, Reads
    <3>. QED  BY <2>1, <3>1 DEF Lone, Beside
  <2>. QED  BY <2>2, <2>3
<1>2. ASSUME NEW r \in Reconcilers, Begins(r)
      PROVE  p \in overtaken'
  <2>1. q # r /\ ExchangePending(q)
    BY <1>2 DEF Begins, ExchangePending, Reads
  <2>. QED  BY <1>2, <2>1 DEF Begins, Lone
<1>3. ASSUME NEW r \in Reconcilers, Finishes(r)
      PROVE  p \in overtaken'
  <2>1. q # r /\ p # r /\ rec'[q] = rec[q] /\ rec'[p] = rec[p] /\ Beside(r)
    BY <1>3 DEF Finishes, ExchangePending
  <2>2. CASE status' = status
    <3>1. ExchangePending(q)
      BY <2>1, <2>2 DEF ExchangePending
    <3>. QED  BY <2>1, <3>1 DEF Lone, Beside
  <2>3. CASE status' # status
    BY <2>1, <2>3 DEF Beside, Overtakes
  <2>. QED  BY <2>2, <2>3
<1>4. CASE Around
  <2>1. rec'[q] = rec[q] /\ rec'[p] = rec[p] /\ status'.binding.id = status.binding.id
    BY <1>4 DEF Around, Ended, SameCourse, ExchangePending
  <2>2. ExchangePending(q)
    BY <2>1 DEF ExchangePending
  <2>. QED  BY <1>4, <2>1, <2>2 DEF Lone, Around, Ended
<1>. QED  BY <1>1, <1>2, <1>3, <1>4, StepMakes

LEMMA ReadIsCurrentKept ==
  ASSUME SessionOK, OverlapOK, Fresh, ReadIsCurrent, [Next]_vars
  PROVE  ReadIsCurrent'
<1>1. ASSUME NEW r \in Reconcilers, Branch(r) \/ Finishes(r)
      PROVE  ReadIsCurrent'
  <2>1. /\ Beside(r) /\ ~Reads(r)'
        /\ \A q \in Reconcilers \ {r} : rec'[q] = rec[q]
    BY <1>1, BranchMakes DEF Effects, Frame, Finishes, Reads
  <2>2. ASSUME NEW q \in Ahead', Reads(q)'
        PROVE  q \in Ahead /\ Reads(q) /\ rec'[q] = rec[q] /\ status' = status
    <3>1. q \in Reconcilers \ {r}
      BY <2>1, <2>2 DEF Ahead
    <3>2. rec'[q] = rec[q] /\ rec[q].pc # "idle"
      BY <2>1, <2>2, <3>1 DEF Reads
    <3>. QED  BY <2>1, <2>2, <3>1, <3>2, StillAhead DEF Reads
  <2>. QED  BY <2>2 DEF ReadIsCurrent, Id, Bound, Had
<1>2. ASSUME NEW r \in Reconcilers, Begins(r)
      PROVE  ReadIsCurrent'
  <2>1. Ahead' \subseteq Ahead /\ status' = status
        /\ \A q \in Reconcilers \ {r} : rec'[q] = rec[q]
    BY <1>2 DEF Begins, Ahead
  <2>. QED  BY <1>2, <2>1 DEF Begins, ReadIsCurrent, Reads, Id, Bound, Had, Ahead
<1>3. CASE Around
  <2>1. ASSUME NEW r \in Ahead', Reads(r)'
        PROVE  rec'[r] = rec[r] /\ Reads(r) /\ r \in Ahead
    BY <1>3, <2>1, AroundAhead DEF Reads
  <2>. QED  BY <1>3, <2>1
            DEF Around, SameCourse, Supplied, ReadIsCurrent, Id, Bound, Had
<1>. QED  BY <1>1, <1>2, <1>3, StepMakes

LEMMA OthersStoppedKept ==
  ASSUME SessionOK, OverlapOK, Fresh, Lone, ReadIsCurrent, OthersStopped, [Next]_vars
  PROVE  OthersStopped'
<1>1. ASSUME NEW r \in Reconcilers, Branch(r)
      PROVE  OthersStopped'
  <2>1. /\ Effects(r) /\ Beside(r) /\ Reads(r) /\ status'.binding.id = status.binding.id
        /\ \A q \in Reconcilers \ {r} : rec'[q] = rec[q]
    BY <1>1, BranchMakes DEF Effects, Frame, SameStatus
  <2>2. ASSUME NEW b \in Bindings, Live(b)', ~Live(b)
        PROVE  b = Id(r) /\ (r \in overtaken => b \in crossed')
    <3>1. Claims(r, b)
      BY <2>1, <2>2 DEF Effects, Jobs, Live, LiveStates
    <3>. QED  BY <2>1, <3>1 DEF Claims, Beside
  <2>3. ASSUME NEW b \in Bindings, Live(b)', b # status'.binding.id
        PROVE  b \in leaked' \cup crossed'
    <3>1. CASE Live(b)
      BY <2>1, <2>3, <3>1 DEF OthersStopped, Effects, Frame, Beside
    <3>2. CASE ~Live(b)
      BY <2>1, <2>2, <2>3, <3>2 DEF ReadIsCurrent, Ahead
    <3>. QED  BY <3>1, <3>2
  <2>4. ASSUME NEW q \in Ahead', ExchangePending(q)', Live(status.binding.id)'
        PROVE  status.binding.id \in leaked' \cup crossed'
    <3>1. CASE q = r
      <4>1. r \in Ahead /\ Id(r) = status.binding.id
        BY <2>1, <2>4, <3>1, WasAhead DEF ReadIsCurrent, ExchangePending
      <4>2. Exchanges(r)
        BY <2>1, <2>4, <3>1, <4>1 DEF ExchangePending, Effects, Outcome, Keeps, To
      <4>. QED  BY <2>1, <2>4, <4>1, <4>2 DEF Exchanges, Live
    <3>2. CASE q # r
      <4>1. q \in Ahead /\ ExchangePending(q)
        BY <2>1, <2>4, <3>2, StillAhead DEF ExchangePending, Ahead
      <4>2. r \in overtaken
        BY <2>1, <3>2, <4>1 DEF Lone, Reads, Ahead
      <4>3. CASE Live(status.binding.id)
        BY <2>1, <4>1, <4>3 DEF OthersStopped, Effects, Frame, Beside
      <4>4. CASE ~Live(status.binding.id)
        BY <2>1, <2>2, <2>4, <4>2, <4>4 DEF Live
      <4>. QED  BY <4>3, <4>4
    <3>. QED  BY <3>1, <3>2
  <2>. QED  BY <2>1, <2>3, <2>4 DEF OthersStopped
<1>2. ASSUME NEW r \in Reconcilers, Begins(r)
      PROVE  OthersStopped'
  <2>1. UNCHANGED <<status, job, leaked, crossed>> /\ Ahead' \subseteq Ahead
        /\ \A q \in Reconcilers : ExchangePending(q)' => ExchangePending(q)
    BY <1>2 DEF Begins, ExchangePending, Reads, Ahead
  <2>. QED  BY <2>1 DEF OthersStopped, Live, Ahead
<1>3. ASSUME NEW r \in Reconcilers, Finishes(r)
      PROVE  OthersStopped'
  <2>1. /\ UNCHANGED <<job, leaked>> /\ Beside(r) /\ Writes(r) /\ ~ExchangePending(r)'
        /\ \A q \in Reconcilers \ {r} : rec'[q] = rec[q]
        /\ \/ status'.binding.id = status.binding.id
           \/ ExchangePending(r)
    BY <1>3 DEF Finishes, ExchangePending, Writes, To
  <2>2. ASSUME NEW b \in Bindings, Live(b), b # status'.binding.id
        PROVE  b \in leaked \cup crossed'
    <3>1. CASE status' = status
      BY <2>1, <2>2, <3>1 DEF OthersStopped, Beside
    <3>2. CASE status' # status /\ r \in overtaken
      BY <2>1, <2>2, <3>2 DEF Beside, HasPods, Live, PodStates
    <3>3. CASE r \in Ahead
      BY <2>1, <2>2, <3>3 DEF OthersStopped, Beside
    <3>. QED  BY <3>1, <3>2, <3>3 DEF Ahead
  <2>3. ASSUME NEW q \in Ahead', ExchangePending(q)'
        PROVE  q \in Ahead /\ ExchangePending(q) /\ status' = status
    <3>1. q \in Reconcilers /\ q # r /\ rec'[q] = rec[q] /\ rec[q].pc # "idle"
      BY <2>1, <2>3 DEF ExchangePending, Ahead
    <3>. QED  BY <2>1, <2>3, <3>1, StillAhead DEF ExchangePending
  <2>. QED  BY <2>1, <2>2, <2>3 DEF OthersStopped, Live, Beside
<1>4. CASE Around
  <2>1. ASSUME NEW r \in Ahead', ExchangePending(r)'
        PROVE  r \in Ahead /\ ExchangePending(r)
    BY <1>4, <2>1, AroundAhead DEF ExchangePending, Around, SameCourse
  <2>2. \A b : Live(b)' => Live(b)
    BY <1>4 DEF Around, Ended, Live
  <2>3. UNCHANGED <<leaked, crossed>> /\ status'.binding.id = status.binding.id
    BY <1>4 DEF Around, SameCourse
  <2>. QED  BY <2>1, <2>2, <2>3 DEF OthersStopped
<1>. QED  BY <1>1, <1>2, <1>3, <1>4, StepMakes

LEMMA ReleasedQuietKept ==
  ASSUME SessionOK, SessionOK', OverlapOK, Fresh, Lone, ReadIsCurrent, ReleasedQuiet,
         [Next]_vars
  PROVE  ReleasedQuiet'
<1>1. ASSUME NEW r \in Reconcilers, Branch(r)
      PROVE  ReleasedQuiet'
  <2>1. /\ Effects(r) /\ Beside(r) /\ Reads(r)
        /\ status'.binding.id = status.binding.id /\ status'.phase = status.phase
        /\ \A q \in Reconcilers \ {r} : rec'[q] = rec[q]
    BY <1>1, BranchMakes DEF Effects, Frame, SameStatus
  <2>2. Id(r) = 0 => \A b \in Bindings : ~Claims(r, b)
    BY DEF Claims, Bindings
  <2>3. r \in overtaken \/ Id(r) = 0 => (OnlyCrossed => OnlyCrossed')
    BY <2>1, <2>2 DEF Effects, Jobs, Claims, Beside, OnlyCrossed, Live, PodStates
  <2>4. status.phase = "Released" /\ status.binding.id = 0 => OnlyCrossed'
    BY <2>1, <2>3 DEF ReleasedQuiet, ReadIsCurrent, Ahead
  <2>5. \A q \in Reconcilers : Writes(q)' => "phase" \in rec'[q].fields
    BY <2>1 DEF ReleasedQuiet, Effects, Outcome, Writes
  <2>6. ASSUME NEW q \in Ahead', Writes(q)', To(q)'.phase = "Released"
        PROVE  OnlyCrossed' /\ To(q)'.binding.id = 0 /\ Rebinds(q)'
    <3>1. CASE q = r
      <4>1. NoPods' /\ To(q)'.binding.id = 0 /\ Rebinds(q)'
        BY <2>1, <2>6, <3>1 DEF Effects, Outcome, Writes, Rebinds
      <4>. QED  BY <4>1 DEF NoPods, OnlyCrossed
    <3>2. CASE q # r
      <4>1. q \in Ahead /\ rec'[q] = rec[q] /\ Writes(q) /\ To(q)' = To(q)
            /\ Rebinds(q)' = Rebinds(q)
        BY <2>1, <2>6, <3>2, StillAhead DEF Writes, Ahead, To, Rebinds
      <4>2. OnlyCrossed /\ To(q).binding.id = 0 /\ Rebinds(q)
        BY <2>6, <4>1 DEF ReleasedQuiet
      <4>3. status.binding.id = 0 \/ r \in overtaken
        BY <2>1, <3>2, <4>1, <4>2 DEF Lone, Reads, ExchangePending, Rebinds, Writes, To,
                                      Ahead
      <4>4. r \in overtaken \/ Id(r) = 0
        BY <2>1, <4>3 DEF ReadIsCurrent, Ahead
      <4>. QED  BY <2>3, <4>1, <4>2, <4>4
    <3>. QED  BY <3>1, <3>2
  <2>. QED  BY <2>1, <2>4, <2>5, <2>6 DEF ReleasedQuiet
<1>2. ASSUME NEW r \in Reconcilers, Begins(r)
      PROVE  ReleasedQuiet'
  <2>1. UNCHANGED <<status, job, crossed>> /\ Ahead' \subseteq Ahead
        /\ \A q \in Reconcilers : Writes(q)' => Writes(q) /\ rec'[q] = rec[q]
    BY <1>2 DEF Begins, Reads, Writes, Ahead
  <2>. QED  BY <2>1 DEF ReleasedQuiet, OnlyCrossed, To, Rebinds, Writes, Ahead
<1>3. ASSUME NEW r \in Reconcilers, Finishes(r)
      PROVE  ReleasedQuiet'
  <2>1. /\ job' = job /\ Beside(r) /\ Writes(r) /\ ~Writes(r)'
        /\ \A q \in Reconcilers \ {r} : rec'[q] = rec[q]
        /\ status'.phase = To(r).phase
    BY <1>3 DEF Finishes, Writes, ReleasedQuiet
  <2>2. OnlyCrossed => OnlyCrossed'
    BY <2>1 DEF OnlyCrossed, Beside
  <2>3. ASSUME status'.phase = "Released", status'.binding.id = 0
        PROVE  OnlyCrossed'
    <3>1. CASE status' = status
      BY <2>2, <2>3, <3>1 DEF ReleasedQuiet
    <3>2. CASE status' # status /\ r \in overtaken
      BY <2>1, <3>2 DEF Beside, HasPods, OnlyCrossed
    <3>3. CASE r \in Ahead
      BY <2>1, <2>2, <2>3, <3>3 DEF ReleasedQuiet
    <3>. QED  BY <3>1, <3>2, <3>3 DEF Ahead
  <2>4. ASSUME NEW q \in Ahead', Writes(q)'
        PROVE  q \in Ahead /\ Writes(q) /\ To(q)' = To(q) /\ Rebinds(q)' = Rebinds(q)
    <3>1. q \in Reconcilers /\ q # r /\ rec'[q] = rec[q] /\ rec[q].pc # "idle"
      BY <2>1, <2>4 DEF Writes, Ahead
    <3>. QED  BY <2>1, <2>4, <3>1, StillAhead DEF Writes, To, Rebinds
  <2>. QED  BY <2>1, <2>2, <2>3, <2>4 DEF ReleasedQuiet, Writes
<1>4. CASE Around
  <2>1. ASSUME NEW r \in Ahead', Writes(r)'
        PROVE  r \in Ahead /\ rec'[r] = rec[r] /\ Writes(r)
    BY <1>4, <2>1, AroundAhead DEF Writes
  <2>2. OnlyCrossed => OnlyCrossed'
    BY <1>4 DEF Around, Ended, OnlyCrossed
  <2>3. status'.phase = status.phase /\ status'.binding.id = status.binding.id
    BY <1>4 DEF Around, SameCourse
  <2>4. \A r \in Reconcilers : Writes(r)' => rec'[r] = rec[r] /\ Writes(r)
    BY <1>4 DEF Around, Ended, Writes
  <2>. QED  BY <2>1, <2>2, <2>3, <2>4 DEF ReleasedQuiet, To, Rebinds
<1>. QED  BY <1>1, <1>2, <1>3, <1>4, StepMakes

(* Another activation has been asked for than the one that is observed. *)
Superseded(observed, activation) == observed # 0 /\ observed # activation

(* No Job is claimed for the binding of such a session: it has one, or the binding
   is being released, or will be, for the sake of another activation. *)
Standing(st, activation) ==
  st.binding.job \/ st.phase = "Releasing" \/ Superseded(st.observed, activation)

(* It stays so when activations move on. *)
LEMMA StandingKept ==
  ASSUME SessionOK, SessionOK', Monotone, Around
  PROVE  /\ Standing(status, spec.activation) => Standing(status', spec'.activation)
         /\ \A n \in Nat : n <= spec.activation =>
              (Superseded(n, spec.activation) => Superseded(n, spec'.activation))
<1>1. /\ spec.activation <= spec'.activation /\ status.observed <= spec.activation
      /\ spec.activation \in Nat /\ spec'.activation \in Nat /\ status.observed \in Nat
  BY Numbers, NumbersNext DEF Around, Asked, Monotone
<1>2. \A n \in Nat : n <= spec.activation =>
         (Superseded(n, spec.activation) => Superseded(n, spec'.activation))
  BY <1>1 DEF Superseded
<1>. QED  BY <1>1, <1>2 DEF Around, SameCourse, Standing

(* Nobody has seen the binding that a pass is about to bring. *)
Unseen ==
  \A r \in Ahead : ExchangePending(r) /\ To(r).binding.id # 0 =>
    \A q \in Reconcilers \ {r} : Reads(q) \/ Writes(q) => Id(q) # To(r).binding.id

(* What a pass is about to leave of the observed activation. *)
ToObserved(r) ==
  IF "observed" \in rec[r].fields THEN To(r).observed ELSE status.observed

(* A pass does not undo that no Job is claimed for the binding. *)
Standfast ==
  \A r \in Ahead : Writes(r) =>
    /\ status.observed # 0 => To(r).observed # 0
    /\ ~ExchangePending(r) /\ status.binding.id # 0 /\ Standing(status, spec.activation)
         => \/ IF Rebinds(r) THEN To(r).binding.job ELSE status.binding.job
            \/ To(r).phase = "Releasing"
            \/ Superseded(ToObserved(r), spec.activation)

(* So even one that has been overtaken is right about that. *)
Stale ==
  \A r \in Reconcilers :
    /\ Reads(r) /\ Id(r) \in Bindings \ crossed /\ Id(r) = status.binding.id
    /\ Standing(Had(r), Want(r).activation)
    => Standing(status, spec.activation)

LEMMA UnseenKept ==
  ASSUME SessionOK, OverlapOK, Fresh, ReadIsCurrent, Unseen, [Next]_vars
  PROVE  Unseen'
<1> SUFFICES ASSUME NEW p \in Ahead', ExchangePending(p)', To(p)'.binding.id # 0,
                    NEW q \in Reconcilers \ {p}, Reads(q)' \/ Writes(q)'
             PROVE  Id(q)' # To(p)'.binding.id
  BY DEF Unseen
<1>1. ASSUME NEW r \in Reconcilers, Branch(r)
      PROVE  Id(q)' # To(p)'.binding.id
  <2>1. /\ Effects(r) /\ Beside(r) /\ Reads(r) /\ status'.binding.id = status.binding.id
        /\ \A c \in Reconcilers \ {r} : rec'[c] = rec[c]
    BY <1>1, BranchMakes DEF Effects, Frame, SameStatus
  <2>2. CASE p = r
    <3>1. r \in Ahead /\ Id(r) = status.binding.id
      BY <2>1, <2>2, WasAhead DEF ReadIsCurrent, ExchangePending
    <3>2. Exchanges(r)
      BY <2>1, <2>2, <3>1 DEF ExchangePending, Effects, Outcome, Keeps, To
    <3>3. To(p)'.binding.id = minted + 1
      BY <2>2, <3>2 DEF Exchanges, NewBinding, NoBinding
    <3>4. Id(q)' = Id(q) /\ Id(q) <= minted
      BY <2>1, <2>2 DEF Fresh, Reads, Writes, Id
    <3>. QED  BY <3>3, <3>4, Numbers
  <2>3. CASE p # r
    <3>1. p \in Ahead /\ ExchangePending(p) /\ To(p)' = To(p) /\ Writes(p)
          /\ p \in Reconcilers
      BY <2>1, <2>3, StillAhead DEF ExchangePending, Ahead, To, Writes
    <3>2. CASE q # r
      BY <2>1, <3>1, <3>2 DEF Unseen, Reads, Writes, Id
    <3>3. CASE q = r
      <4>1. Id(r) # To(p).binding.id /\ To(p).binding.id <= minted
        BY <2>1, <2>3, <3>1, <3>3 DEF Unseen, Fresh, Id, To
      <4>2. Id(r)' \in {Id(r), 0, minted + 1}
        <5>1. Keeps(r) \/ Exchanges(r)
          BY <2>1, <3>3 DEF Effects, Outcome, Reads, Writes, Frame
        <5>2. Id(r)' = To(r)'.binding.id
          BY DEF Id, To
        <5>. QED  BY <5>1, <5>2 DEF Keeps, Exchanges, NewBinding, NoBinding
      <4>3. To(p).binding.id \in Nat /\ minted \in Nat /\ To(p).binding.id # 0
        BY <3>1, Numbers DEF Id, To
      <4>. QED  BY <3>1, <3>3, <4>1, <4>2, <4>3
    <3>. QED  BY <3>2, <3>3
  <2>. QED  BY <2>2, <2>3
<1>2. ASSUME NEW r \in Reconcilers, Begins(r)
      PROVE  Id(q)' # To(p)'.binding.id
  <2>1. p \in Ahead /\ p # r /\ ExchangePending(p) /\ To(p)' = To(p)
        /\ p \in Reconcilers
    BY <1>2 DEF Begins, ExchangePending, Reads, Ahead, To
  <2>2. CASE q = r
    <3>1. Id(q)' = status.binding.id
      BY <1>2, <2>2 DEF Begins, Id, Had
    <3>. QED  BY <2>1, <3>1 DEF ExchangePending, To
  <2>3. CASE q # r
    BY <1>2, <2>1, <2>3 DEF Begins, Unseen, Reads, Writes, Id
  <2>. QED  BY <2>2, <2>3
<1>3. ASSUME NEW r \in Reconcilers, Finishes(r)
      PROVE  Id(q)' # To(p)'.binding.id
  <2>1. p # r /\ q # r /\ p \in Reconcilers /\ rec'[p] = rec[p] /\ rec'[q] = rec[q]
        /\ Beside(r)
    BY <1>3 DEF Finishes, ExchangePending, Reads, Writes, Ahead
  <2>2. p \in Ahead /\ status' = status
    BY <2>1, StillAhead DEF ExchangePending
  <2>3. ExchangePending(p)
    BY <2>1, <2>2 DEF ExchangePending
  <2>. QED  BY <2>1, <2>2, <2>3 DEF Unseen, Reads, Writes, Id, To
<1>4. CASE Around
  <2>1. p \in Ahead /\ rec'[p] = rec[p] /\ rec'[q] = rec[q]
        /\ status'.binding.id = status.binding.id
    BY <1>4, AroundAhead DEF ExchangePending, Around, Ended, SameCourse, Reads, Writes
  <2>. QED  BY <2>1 DEF Unseen, ExchangePending, Reads, Writes, Id, To
<1>. QED  BY <1>1, <1>2, <1>3, <1>4, StepMakes

LEMMA StandfastKept ==
  ASSUME SessionOK, SessionOK', OverlapOK, Monotone, Fresh, ReadIsCurrent, Standfast,
         [Next]_vars
  PROVE  Standfast'
<1> SUFFICES ASSUME NEW p \in Ahead', Writes(p)'
             PROVE  /\ status'.observed # 0 => To(p)'.observed # 0
                    /\ /\ ~ExchangePending(p)' /\ status'.binding.id # 0
                       /\ Standing(status', spec'.activation)
                       => \/ IF Rebinds(p)' THEN To(p)'.binding.job
                             ELSE status'.binding.job
                          \/ To(p)'.phase = "Releasing"
                          \/ Superseded(ToObserved(p)', spec'.activation)
  BY DEF Standfast
<1>0. p \in Reconcilers
  BY DEF Ahead
<1>1. ASSUME NEW r \in Reconcilers, Branch(r), p = r
      PROVE  /\ status'.observed # 0 => To(p)'.observed # 0
             /\ /\ ~ExchangePending(p)' /\ status'.binding.id # 0
                /\ Standing(status', spec'.activation)
                => \/ IF Rebinds(p)' THEN To(p)'.binding.job
                      ELSE status'.binding.job
                   \/ To(p)'.phase = "Releasing"
                   \/ Superseded(ToObserved(p)', spec'.activation)
  <2>1. /\ Effects(r) /\ Beside(r) /\ Reads(r) /\ SameStatus /\ spec' = spec
    BY <1>1, BranchMakes DEF Effects, Frame, Elsewhere
  <2>2. r \in Ahead
    BY <1>1, <2>1, WasAhead DEF Writes
  <2>3. /\ Id(r) = status.binding.id /\ Bound(r).job = status.binding.job
        /\ Had(r).phase = status.phase /\ Had(r).observed = status.observed
    BY <2>1, <2>2 DEF ReadIsCurrent
  <2>4. To(r)'.observed \in {Had(r).observed, Want(r).activation}
        /\ Want(r).activation # 0 /\ (Keeps(r) \/ Exchanges(r))
    BY <1>1, <2>1, ReadHasType DEF Effects, Outcome, Writes, SpecType
  <2>5. status'.observed # 0 => To(r)'.observed # 0
    BY <2>1, <2>3, <2>4 DEF SameStatus
  <2>6. ASSUME ~ExchangePending(r)', status'.binding.id # 0,
               Standing(status', spec'.activation)
        PROVE  \/ IF Rebinds(r)' THEN To(r)'.binding.job ELSE status'.binding.job
               \/ To(r)'.phase = "Releasing"
               \/ Superseded(ToObserved(r)', spec'.activation)
    <3>1. Keeps(r) /\ Id(r) # 0
      BY <1>1, <2>1, <2>3, <2>4, <2>6
         DEF Exchanges, ExchangePending, Rebinds, Writes, To, SameStatus
    <3>2. Standing(status, spec.activation)
      BY <2>1, <2>6 DEF SameStatus, Standing
    <3>3. CASE status.binding.job
      BY <2>1, <2>3, <3>1, <3>3 DEF Keeps, SameStatus
    <3>4. CASE status.phase = "Releasing"
      BY <2>3, <3>1, <3>4 DEF Keeps, Working, Booting, Serving
    <3>5. CASE Superseded(status.observed, spec.activation)
      <4>1. CASE Had(r).observed = Want(r).activation
        <5>1. ToObserved(r)' = status.observed
          BY <2>1, <2>3, <2>4, <4>1 DEF ToObserved, SameStatus
        <5>. QED  BY <2>1, <3>5, <5>1
      <4>2. CASE Had(r).observed # Want(r).activation
        <5>1. Replaced(r)
          BY <2>3, <3>1, <3>5, <4>2 DEF Superseded, Replaced
        <5>. QED  BY <3>1, <5>1 DEF Keeps, Working, Booting, Serving
      <4>. QED  BY <4>1, <4>2
    <3>. QED  BY <3>2, <3>3, <3>4, <3>5 DEF Standing
  <2>. QED  BY <1>1, <2>5, <2>6
<1>2. ASSUME NEW r \in Reconcilers, Branch(r) \/ Finishes(r) \/ Begins(r), p # r
      PROVE  UNCHANGED <<status, spec>> /\ p \in Ahead /\ rec'[p] = rec[p]
  <2>1. CASE Branch(r) \/ Finishes(r)
    <3>1. Beside(r) /\ rec'[p] = rec[p] /\ spec' = spec
      BY <1>0, <1>2, <2>1, BranchMakes DEF Effects, Frame, Elsewhere, Finishes
    <3>. QED  BY <1>2, <3>1, StillAhead DEF Writes
  <2>2. CASE Begins(r)
    BY <1>0, <1>2, <2>2 DEF Begins, Ahead
  <2>. QED  BY <1>2, <2>1, <2>2
<1>3. ASSUME NEW r \in Reconcilers, Finishes(r) \/ Begins(r)
      PROVE  p # r
  BY <1>3 DEF Finishes, Begins, Reads, Writes
<1>4. ASSUME Around
      PROVE  /\ status'.observed # 0 => To(p)'.observed # 0
             /\ /\ ~ExchangePending(p)' /\ status'.binding.id # 0
                /\ Standing(status', spec'.activation)
                => \/ IF Rebinds(p)' THEN To(p)'.binding.job
                      ELSE status'.binding.job
                   \/ To(p)'.phase = "Releasing"
                   \/ Superseded(ToObserved(p)', spec'.activation)
  <2>0. spec.activation <= spec'.activation
    BY <1>4, Numbers DEF Around, Asked, Monotone
  <2>1. /\ p \in Ahead /\ rec'[p] = rec[p] /\ SameCourse
        /\ spec.activation <= spec'.activation
    BY <1>4, <2>0, AroundAhead DEF Around, Writes
  <2>2. /\ To(p)' = To(p) /\ ToObserved(p)' = ToObserved(p) /\ Writes(p)
        /\ Rebinds(p)' = Rebinds(p) /\ ExchangePending(p)' = ExchangePending(p)
    BY <2>1 DEF To, ToObserved, Writes, Rebinds, ExchangePending, SameCourse
  <2>3. ToObserved(p) \in Nat /\ ToObserved(p) <= spec.activation
    BY <1>0, <2>2, Numbers DEF ToObserved, Monotone
  <2>4. Superseded(ToObserved(p), spec.activation)
          => Superseded(ToObserved(p), spec'.activation)
    BY <1>4, <2>3, StandingKept
  <2>5. status'.observed # 0 => To(p)'.observed # 0
    BY <2>1, <2>2 DEF Standfast, SameCourse
  <2>6. ASSUME ~ExchangePending(p), status.binding.id # 0,
               Standing(status', spec'.activation)
        PROVE  \/ IF Rebinds(p) THEN To(p).binding.job ELSE status.binding.job
               \/ To(p).phase = "Releasing"
               \/ Superseded(ToObserved(p), spec'.activation)
    <3>1. CASE Standing(status, spec.activation)
      BY <2>1, <2>2, <2>4, <2>6, <3>1 DEF Standfast
    <3>2. CASE ~Standing(status, spec.activation)
      <4>1. status.observed # 0 /\ spec'.activation # spec.activation
        BY <2>1, <2>6, <3>2 DEF Standing, Superseded, SameCourse
      <4>2. ToObserved(p) # 0
        BY <2>1, <2>2, <4>1 DEF Standfast, ToObserved
      <4>3. ToObserved(p) # spec'.activation
        BY <2>1, <2>3, <4>1, Numbers, NumbersNext
      <4>. QED  BY <4>2, <4>3 DEF Superseded
    <3>. QED  BY <3>1, <3>2
  <2>. QED  BY <2>1, <2>2, <2>5, <2>6 DEF SameCourse
<1>5. ASSUME UNCHANGED <<status, spec>>, p \in Ahead, rec'[p] = rec[p]
      PROVE  /\ status'.observed # 0 => To(p)'.observed # 0
             /\ /\ ~ExchangePending(p)' /\ status'.binding.id # 0
                /\ Standing(status', spec'.activation)
                => \/ IF Rebinds(p)' THEN To(p)'.binding.job
                      ELSE status'.binding.job
                   \/ To(p)'.phase = "Releasing"
                   \/ Superseded(ToObserved(p)', spec'.activation)
  <2>1. /\ To(p)' = To(p) /\ ToObserved(p)' = ToObserved(p) /\ Writes(p)
        /\ Rebinds(p)' = Rebinds(p) /\ ExchangePending(p)' = ExchangePending(p)
    BY <1>5 DEF To, ToObserved, Writes, Rebinds, ExchangePending
  <2>. QED  BY <1>5, <2>1 DEF Standfast
<1>. QED  BY <1>1, <1>2, <1>3, <1>4, <1>5, StepMakes

LEMMA StaleKept ==
  ASSUME SessionOK, SessionOK', OverlapOK, Monotone, Fresh, ReleasedQuiet, Unseen,
         Standfast, Stale, [Next]_vars
  PROVE  Stale'
<1> SUFFICES ASSUME NEW p \in Reconcilers, Reads(p)', Id(p)' \in Bindings \ crossed',
                    Id(p)' = status'.binding.id,
                    Standing(Had(p)', Want(p)'.activation)
             PROVE  Standing(status', spec'.activation)
  BY DEF Stale
<1>1. ASSUME NEW r \in Reconcilers, Branch(r)
      PROVE  Standing(status', spec'.activation)
  <2>1. /\ SameStatus /\ spec' = spec /\ crossed \subseteq crossed' /\ p # r
        /\ rec'[p] = rec[p]
    BY <1>1, BranchMakes DEF Effects, Frame, Elsewhere, Beside, Reads
  <2>2. Reads(p) /\ Id(p)' = Id(p) /\ Had(p)' = Had(p) /\ Want(p)' = Want(p)
    BY <2>1 DEF Reads, Id, Had, Want
  <2>3. Standing(status, spec.activation)
    BY <2>1, <2>2 DEF Stale, SameStatus
  <2>. QED  BY <2>1, <2>3 DEF SameStatus, Standing
<1>2. ASSUME NEW r \in Reconcilers, Begins(r)
      PROVE  Standing(status', spec'.activation)
  <2>1. CASE p = r
    BY <1>2, <2>1 DEF Begins, Standing, Had, Want
  <2>2. CASE p # r
    BY <1>2, <2>2 DEF Begins, Stale, Reads, Id, Had, Want
  <2>. QED  BY <2>1, <2>2
<1>3. ASSUME NEW r \in Reconcilers, Finishes(r)
      PROVE  Standing(status', spec'.activation)
  <2>1. p # r /\ rec'[p] = rec[p] /\ Beside(r) /\ Writes(r) /\ spec' = spec
        /\ "phase" \in rec[r].fields
    BY <1>3 DEF Finishes, Reads, ReleasedQuiet
  <2>2. Reads(p) /\ Id(p)' = Id(p) /\ Had(p)' = Had(p) /\ Want(p)' = Want(p)
        /\ Id(p) \in Bindings \ crossed
    BY <2>1 DEF Reads, Id, Had, Want, Beside
  <2>3. CASE status' = status
    BY <2>1, <2>2, <2>3 DEF Stale
  <2>4. CASE status' # status
    <3>1. r \in Ahead
      BY <2>1, <2>2, <2>4 DEF Beside, Ahead
    <3>2. Id(p) # 0
      BY <2>2 DEF Bindings
    <3>3. ~ExchangePending(r)
      <4>1. ExchangePending(r) => status'.binding.id = To(r).binding.id
        BY <1>3 DEF Finishes, ExchangePending
      <4>. QED  BY <2>1, <2>2, <3>1, <3>2, <4>1 DEF Unseen
    <3>4. status'.binding.id = status.binding.id
      <4>1. status'.binding = IF Rebinds(r) THEN To(r).binding ELSE status.binding
        BY <1>3, <2>1 DEF Finishes, Rebinds
      <4>2. Rebinds(r) => To(r).binding.id = status.binding.id
        BY <3>3 DEF Rebinds, ExchangePending, Writes, To
      <4>. QED  BY <4>1, <4>2
    <3>5. Standing(status, spec.activation)
      BY <2>2, <3>4 DEF Stale
    <3>6. \/ IF Rebinds(r) THEN To(r).binding.job ELSE status.binding.job
          \/ To(r).phase = "Releasing"
          \/ Superseded(ToObserved(r), spec.activation)
      BY <2>1, <2>2, <3>1, <3>2, <3>3, <3>4, <3>5 DEF Standfast
    <3>. QED  BY <1>3, <2>1, <3>6 DEF Finishes, Standing, ToObserved, Rebinds
  <2>. QED  BY <2>3, <2>4
<1>4. CASE Around
  <2>1. rec'[p] = rec[p] /\ crossed' = crossed /\ SameCourse
    BY <1>4 DEF Around, Ended, Reads
  <2>2. Reads(p) /\ Id(p)' = Id(p) /\ Had(p)' = Had(p) /\ Want(p)' = Want(p)
    BY <2>1 DEF Reads, Id, Had, Want
  <2>3. Standing(status, spec.activation)
    BY <2>1, <2>2 DEF Stale, SameCourse
  <2>. QED  BY <1>4, <2>3, StandingKept
<1>. QED  BY <1>1, <1>2, <1>3, <1>4, StepMakes


(* What the ledger says is true, and stays so: while nothing fails, a released
   binding has no pods, and none of the passes claims a Job for it. *)
Done ==
  faults = 0 =>
    /\ \A b \in released \ crossed : job[b] \notin PodStates
    /\ status.binding.id \in released \ crossed =>
         \/ Standing(status, spec.activation)
         \/ \E r \in Reconcilers : ExchangePending(r)
    /\ \A r \in Ahead :
         /\ Reads(r) /\ Id(r) \in released \ crossed => Standing(Had(r), Want(r).activation)
         /\ Rebinds(r) /\ To(r).binding.id \in released \ crossed =>
              To(r).binding.job \/ To(r).phase = "Releasing"
         /\ Writes(r) /\ ~Rebinds(r) /\ status.binding.id \in released \ crossed =>
              status.binding.job

LEMMA DoneKept ==
  ASSUME SessionOK, SessionOK', OverlapOK, Monotone, Fresh, ReadIsCurrent, ReleasedQuiet,
         Stale, Done, [Next]_vars
  PROVE  Done'
<1>1. ASSUME NEW r \in Reconcilers, Branch(r), faults' = 0
      PROVE  Done'
  <2>1. /\ Effects(r) /\ Beside(r) /\ Reads(r) /\ SameStatus /\ spec' = spec
        /\ \A q \in Reconcilers \ {r} : rec'[q] = rec[q]
    BY <1>1, BranchMakes DEF Effects, Frame, Elsewhere
  <2>2. faults = 0
    BY <1>1, <2>1, BoundsAssumption DEF Effects, Frame, SessionOK
  <2>3. crossed \subseteq crossed'
    BY <2>1 DEF Beside
  <2>4. r \in Ahead /\ Id(r) \in released \ crossed => Standing(Had(r), Want(r).activation)
    BY <2>1, <2>2 DEF Done
  <2>5. ASSUME NEW b \in released \ crossed'
        PROVE  ~Claims(r, b)
    <3>1. b \in Bindings
      BY DEF SessionOK
    <3>2. CASE r \in Ahead
      <4>1. b = Id(r) => Standing(Had(r), Want(r).activation)
        BY <2>3, <2>4, <3>2
      <4>. QED  BY <4>1 DEF Claims, ClaimJob, Working, Replaced, Standing, Superseded,
                            Bound, Had
    <3>3. CASE r \notin Ahead
      BY <2>1, <3>1, <3>3 DEF Beside, Claims, Ahead
    <3>. QED  BY <3>2, <3>3
  <2>6. ASSUME NEW b \in released' \ crossed'
        PROVE  job'[b] \notin PodStates
    <3>1. CASE Enters(r)
      BY <2>6, <3>1 DEF Enters, NoPods, SessionOK
    <3>2. CASE ~Enters(r)
      <4>1. b \in released \ crossed' /\ b \in Bindings
        BY <2>1, <2>6, <3>2 DEF Effects, SessionOK
      <4>2. job'[b] = job[b] \/ (Live(b) /\ job'[b] = "ending")
        BY <2>1, <2>5, <4>1 DEF Effects, Jobs
      <4>3. job[b] \notin PodStates
        BY <2>2, <2>3, <4>1 DEF Done
      <4>. QED  BY <4>2, <4>3 DEF Live, PodStates
    <3>. QED  BY <3>1, <3>2
  <2>7. ASSUME status'.binding.id \in released' \ crossed'
        PROVE  \/ Standing(status', spec'.activation)
               \/ \E q \in Reconcilers : ExchangePending(q)'
    <3>1. status'.binding.id = status.binding.id /\ status.binding.id \notin crossed
      BY <2>1, <2>3, <2>7 DEF SameStatus
    <3>2. CASE status.binding.id \in released
      <4>1. CASE Standing(status, spec.activation)
        BY <2>1, <4>1 DEF SameStatus, Standing
      <4>2. CASE \E q \in Reconcilers : ExchangePending(q)
        BY <2>1, <3>1, <4>2 DEF ExchangePending, Reads
      <4>. QED  BY <2>2, <3>1, <3>2, <4>1, <4>2 DEF Done
    <3>3. CASE status.binding.id \notin released
      <4>1. Enters(r) /\ Id(r) = status.binding.id /\ Id(r) \in Bindings
        BY <2>1, <2>7, <3>1, <3>3 DEF Effects, Enters
      <4>2. CASE rec'[r].pc = "write"
        <5>1. Exchanges(r)
          BY <2>1, <4>1, <4>2 DEF Effects, Enters, Outcome, Keeps
        <5>2. ExchangePending(r)'
          BY <3>1, <4>1, <4>2, <5>1 DEF Exchanges, ExchangePending, To
        <5>. QED  BY <5>2
      <4>3. CASE rec'[r].pc # "write"
        <5>1. Standing(Had(r), Want(r).activation)
          BY <4>1, <4>3 DEF Enters, Replaced, Standing, Superseded, Bound, Had
        <5>2. Standing(status, spec.activation)
          BY <2>1, <3>1, <4>1, <5>1 DEF Stale
        <5>. QED  BY <2>1, <5>2 DEF SameStatus, Standing
      <4>. QED  BY <4>2, <4>3
    <3>. QED  BY <3>2, <3>3
  <2>8. ASSUME NEW p \in Ahead', p # r
        PROVE  /\ Reads(p)' /\ Id(p)' \in released' \ crossed'
                    => Standing(Had(p)', Want(p)'.activation)
               /\ Rebinds(p)' /\ To(p)'.binding.id \in released' \ crossed' =>
                    To(p)'.binding.job \/ To(p)'.phase = "Releasing"
               /\ Writes(p)' /\ ~Rebinds(p)' /\ status'.binding.id \in released' \ crossed'
                    => status'.binding.job
    <3>1. p \in Reconcilers /\ rec'[p] = rec[p]
      BY <2>1, <2>8 DEF Ahead
    <3>2. CASE rec[p].pc # "idle"
      <4>1. p \in Ahead /\ status' = status /\ released' = released
        BY <2>1, <2>8, <3>1, <3>2, StillAhead
      <4>. QED  BY <2>2, <2>3, <3>1, <4>1
                DEF Done, Reads, Rebinds, Writes, Id, Had, Want, To
    <3>3. CASE rec[p].pc = "idle"
      BY <3>1, <3>3 DEF Reads, Rebinds, Writes
    <3>. QED  BY <3>2, <3>3
  <2>9. ASSUME r \in Ahead', Writes(r)'
        PROVE  /\ Rebinds(r)' /\ To(r)'.binding.id \in released' \ crossed' =>
                    To(r)'.binding.job \/ To(r)'.phase = "Releasing"
               /\ ~Rebinds(r)' => status'.binding.job
    <3>1. r \in Ahead /\ Id(r) = status.binding.id /\ Bound(r).job = status.binding.job
      BY <2>1, <2>9, WasAhead DEF ReadIsCurrent, Writes
    <3>2. ASSUME Rebinds(r)', To(r)'.binding.id \in released' \ crossed'
          PROVE  To(r)'.binding.job \/ To(r)'.phase = "Releasing"
      <4>1. CASE Exchanges(r)
        <5>1. To(r)'.binding.id \in {0, minted + 1} /\ To(r)'.binding.id # Id(r)
          BY <4>1 DEF Exchanges, NewBinding, NoBinding
        <5>2. To(r)'.binding.id \in Bindings /\ To(r)'.binding.id \notin released
          BY <3>2, <5>1, Numbers DEF SessionOK, Bindings, Fresh
        <5>. QED  BY <2>1, <3>2, <5>1, <5>2 DEF Effects, Enters
      <4>2. CASE Keeps(r)
        <5>1. To(r)'.binding.id = Id(r) /\ Id(r) # 0
          BY <3>2, <4>2 DEF Keeps, SessionOK, Bindings
        <5>2. released' = released
          BY <2>1, <2>9, <5>1 DEF Effects, Enters, Writes
        <5>3. Standing(Had(r), Want(r).activation)
          BY <2>3, <2>4, <3>1, <3>2, <5>1, <5>2
        <5>4. Bound(r).job = Had(r).binding.job
          BY DEF Bound, Had
        <5>. QED  BY <4>2, <5>1, <5>3, <5>4
                  DEF Keeps, Working, Booting, Serving, Replaced, Standing, Superseded
      <4>. QED  BY <2>1, <2>9, <4>1, <4>2 DEF Effects, Outcome, Writes
    <3>3. ASSUME ~Rebinds(r)'
          PROVE  status'.binding.job
      <4>1. Serving(r)
        BY <2>1, <2>9, <3>3 DEF Effects, Outcome, Keeps, Exchanges, Writes, Rebinds
      <4>. QED  BY <2>1, <3>1, <4>1 DEF Serving, SameStatus
    <3>. QED  BY <3>2, <3>3
  <2>10. ~Reads(r)'
    BY <2>1 DEF Effects, Frame, Reads
  <2>. QED  BY <2>6, <2>7, <2>8, <2>9, <2>10 DEF Done, Rebinds
<1>2. ASSUME NEW r \in Reconcilers, Begins(r), faults' = 0
      PROVE  Done'
  <2>1. /\ UNCHANGED <<spec, status, job, released, crossed>> /\ faults = 0
        /\ \A q \in Reconcilers \ {r} : rec'[q] = rec[q]
    BY <1>2 DEF Begins
  <2>2. \A q \in Reconcilers : ExchangePending(q) => ExchangePending(q)'
    BY <1>2, <2>1 DEF Begins, ExchangePending
  <2>3. status.binding.id \in released \ crossed =>
          \/ Standing(status, spec.activation)
          \/ \E q \in Reconcilers : ExchangePending(q)
    BY <2>1 DEF Done
  <2>4. ASSUME r \in Ahead'
        PROVE  /\ ~Writes(r)'
               /\ Id(r)' \in released \ crossed => Standing(Had(r)', Want(r)'.activation)
    <3>1. ~\E q \in Reconcilers : ExchangePending(q)
      BY <1>2, <2>4 DEF Begins, Ahead
    <3>2. Had(r)' = status /\ Want(r)' = spec /\ Id(r)' = status.binding.id
      BY <1>2 DEF Begins, Id, Had
    <3>. QED  BY <1>2, <2>3, <3>1, <3>2 DEF Begins, Reads, Writes
  <2>5. ASSUME NEW p \in Ahead', p # r
        PROVE  p \in Ahead /\ rec'[p] = rec[p]
    BY <1>2, <2>1, <2>5 DEF Begins, Ahead
  <2>6. ASSUME NEW p \in Ahead', p # r
        PROVE  /\ Reads(p)' /\ Id(p)' \in released \ crossed
                    => Standing(Had(p)', Want(p)'.activation)
               /\ Rebinds(p)' /\ To(p)'.binding.id \in released \ crossed =>
                    To(p)'.binding.job \/ To(p)'.phase = "Releasing"
               /\ Writes(p)' /\ ~Rebinds(p)' /\ status.binding.id \in released \ crossed
                    => status.binding.job
    BY <2>1, <2>5, <2>6 DEF Done, Reads, Rebinds, Writes, Id, Had, Want, To
  <2>7. \A b \in released \ crossed : job[b] \notin PodStates
    BY <2>1 DEF Done
  <2>. QED  BY <2>1, <2>2, <2>3, <2>4, <2>6, <2>7 DEF Done, Rebinds
<1>3. ASSUME NEW r \in Reconcilers, Finishes(r), faults' = 0
      PROVE  Done'
  <2>1. /\ UNCHANGED <<job, released, spec>> /\ faults = 0 /\ Beside(r) /\ Writes(r)
        /\ \A q \in Reconcilers \ {r} : rec'[q] = rec[q]
        /\ rec'[r].pc = "idle" /\ crossed \subseteq crossed'
        /\ "phase" \in rec[r].fields
    BY <1>3 DEF Finishes, ReleasedQuiet, Beside
  <2>2. /\ status'.phase = To(r).phase
        /\ status'.binding = IF Rebinds(r) THEN To(r).binding ELSE status.binding
    BY <1>3, <2>1 DEF Finishes, Rebinds
  <2>3. ASSUME status'.binding.id \in released \ crossed'
        PROVE  \/ Standing(status', spec.activation)
               \/ \E q \in Reconcilers : ExchangePending(q)'
    <3>1. CASE status' = status
      <4>1. CASE Standing(status, spec.activation)
        BY <3>1, <4>1
      <4>2. ASSUME NEW q \in Reconcilers, ExchangePending(q)
            PROVE  ExchangePending(q)'
        <5>1. q # r
          BY <2>2, <3>1, <4>2 DEF ExchangePending, Rebinds, Writes, To
        <5>. QED  BY <2>1, <3>1, <4>2, <5>1 DEF ExchangePending
      <4>. QED  BY <2>1, <2>3, <3>1, <4>1, <4>2 DEF Done
    <3>2. CASE status' # status /\ r \in overtaken
      BY <2>1, <2>3, <3>2 DEF Beside, SessionOK
    <3>3. CASE r \in Ahead
      BY <2>1, <2>2, <2>3, <3>3 DEF Done, Standing
    <3>. QED  BY <3>1, <3>2, <3>3 DEF Ahead
  <2>4. ASSUME NEW p \in Ahead', Reads(p)' \/ Writes(p)'
        PROVE  p \in Ahead /\ rec'[p] = rec[p] /\ status' = status
    <3>1. p \in Reconcilers /\ p # r /\ rec'[p] = rec[p] /\ rec[p].pc # "idle"
      BY <2>1, <2>4 DEF Reads, Writes, Ahead
    <3>. QED  BY <2>1, <3>1, StillAhead
  <2>5. ASSUME NEW p \in Ahead', Reads(p)' \/ Writes(p)'
        PROVE  /\ Reads(p)' /\ Id(p)' \in released \ crossed'
                    => Standing(Had(p)', Want(p)'.activation)
               /\ Rebinds(p)' /\ To(p)'.binding.id \in released \ crossed' =>
                    To(p)'.binding.job \/ To(p)'.phase = "Releasing"
               /\ Writes(p)' /\ ~Rebinds(p)' /\ status'.binding.id \in released \ crossed'
                    => status'.binding.job
    BY <2>1, <2>4, <2>5 DEF Done, Reads, Rebinds, Writes, Id, Had, Want, To
  <2>6. \A b \in released \ crossed' : job[b] \notin PodStates
    BY <2>1 DEF Done
  <2>. QED  BY <2>1, <2>3, <2>5, <2>6 DEF Done, Rebinds
<1>4. ASSUME Around, faults' = 0
      PROVE  Done'
  <2>1. /\ faults = 0 /\ UNCHANGED <<released, crossed>> /\ SameCourse
        /\ \A r \in Reconcilers : Writes(r) => rec'[r] = rec[r]
    BY <1>4 DEF Around, Ended
  <2>2. \A b \in released \ crossed : job'[b] \notin PodStates
    BY <1>4, <2>1 DEF Around, Ended, Done, SessionOK
  <2>3. Standing(status, spec.activation) => Standing(status', spec'.activation)
    BY <1>4, StandingKept
  <2>4. (\E r \in Reconcilers : ExchangePending(r))
          => \E r \in Reconcilers : ExchangePending(r)'
    BY <2>1 DEF ExchangePending, Writes, SameCourse
  <2>5. ASSUME NEW p \in Ahead', Reads(p)' \/ Writes(p)'
        PROVE  p \in Ahead /\ rec'[p] = rec[p]
    BY <1>4, <2>5, AroundAhead DEF Reads, Writes
  <2>6. ASSUME NEW p \in Ahead', Reads(p)' \/ Writes(p)'
        PROVE  /\ Reads(p)' /\ Id(p)' \in released \ crossed
                    => Standing(Had(p)', Want(p)'.activation)
               /\ Rebinds(p)' /\ To(p)'.binding.id \in released \ crossed =>
                    To(p)'.binding.job \/ To(p)'.phase = "Releasing"
               /\ Writes(p)' /\ ~Rebinds(p)' /\ status'.binding.id \in released \ crossed
                    => status'.binding.job
    BY <2>1, <2>5, <2>6
       DEF Done, Reads, Rebinds, Writes, Id, Had, Want, To, SameCourse
  <2>. QED  BY <2>1, <2>2, <2>3, <2>4, <2>6 DEF Done, SameCourse, Rebinds
<1>. QED  BY <1>1, <1>2, <1>3, <1>4, StepMakes DEF Done

(* Its retries are used up, and its cleanup, if it needs one, is under way. *)
Spent ==
  /\ status.phase \in {"Failed", "Releasing"}
  /\ spec.activation = status.observed /\ BudgetExhausted(status)

(* Such a session is not about to get a binding. *)
NoMint ==
  \A r \in Ahead :
    Writes(r) /\ To(r).binding.id # 0 /\ status.binding.id = 0 => ~Spent

(* The passes ahead that a step of another pass leaves ahead. *)
LEMMA OthersAhead ==
  ASSUME SessionOK, Fresh, NEW r \in Reconcilers,
         Branch(r) \/ Finishes(r) \/ Begins(r),
         NEW p \in Ahead', p # r, Reads(p)' \/ Writes(p)'
  PROVE  /\ p \in Ahead /\ rec'[p] = rec[p] /\ status' = status
         /\ spec' = spec /\ crossed \subseteq crossed'
<1>1. p \in Reconcilers
  BY DEF Ahead
<1>2. CASE Branch(r) \/ Finishes(r)
  <2>1. Beside(r) /\ rec'[p] = rec[p] /\ spec' = spec
    BY <1>1, <1>2, BranchMakes DEF Effects, Frame, Elsewhere, Finishes
  <2>2. rec[p].pc # "idle"
    BY <2>1 DEF Reads, Writes
  <2>. QED  BY <1>1, <2>1, <2>2, StillAhead DEF Beside
<1>3. CASE Begins(r)
  BY <1>1, <1>3 DEF Begins, Ahead
<1>. QED  BY <1>2, <1>3

LEMMA NoMintKept ==
  ASSUME SessionOK, SessionOK', OverlapOK, Monotone, Fresh, ReadIsCurrent, NoMint,
         [Next]_vars
  PROVE  NoMint'
<1> SUFFICES ASSUME NEW p \in Ahead', Writes(p)', To(p)'.binding.id # 0,
                    status'.binding.id = 0
             PROVE  ~Spent'
  BY DEF NoMint
<1>1. ASSUME NEW r \in Reconcilers, Branch(r), p = r
      PROVE  ~Spent'
  <2>1. Effects(r) /\ Beside(r) /\ Reads(r) /\ SameStatus /\ spec' = spec
    BY <1>1, BranchMakes DEF Effects, Frame, Elsewhere
  <2>2. r \in Ahead
    BY <1>1, <2>1, WasAhead DEF Writes
  <2>3. /\ Id(r) = 0 /\ Had(r).phase = status.phase /\ Had(r).observed = status.observed
        /\ Had(r).boot = status.boot /\ Had(r).vmr = status.vmr
    BY <2>1, <2>2 DEF ReadIsCurrent, SameStatus
  <2>4. Running(r) /\ ~(Orphaned(r) /\ BudgetExhausted(Had(r)))
    BY <1>1, <2>1, <2>3 DEF Effects, Outcome, Keeps, Exchanges, Writes
  <2>5. spec.activation = status.observed => Had(r).observed = Want(r).activation
    BY <2>1, <2>3, Numbers DEF Monotone
  <2>6. ~Spent
    BY <2>3, <2>4, <2>5 DEF Spent, Orphaned, BudgetExhausted
  <2>. QED  BY <2>1, <2>6 DEF Spent, SameStatus, BudgetExhausted
<1>2. ASSUME NEW r \in Reconcilers, Branch(r) \/ Finishes(r) \/ Begins(r), p # r
      PROVE  ~Spent'
  BY <1>2, OthersAhead DEF NoMint, Spent, BudgetExhausted, Writes, To
<1>3. ASSUME NEW r \in Reconcilers, Finishes(r) \/ Begins(r)
      PROVE  p # r
  BY <1>3 DEF Finishes, Begins, Reads, Writes
<1>4. CASE Around
  <2>1. Spent' => Spent
    <3>1. spec'.activation = status.observed => spec.activation = status.observed
      BY <1>4, Numbers DEF Around, Asked, Monotone
    <3>. QED  BY <1>4, <3>1 DEF Around, SameCourse, Spent, BudgetExhausted
  <2>2. p \in Ahead /\ rec'[p] = rec[p] /\ SameCourse
    BY <1>4, AroundAhead DEF Around, Writes
  <2>. QED  BY <2>1, <2>2 DEF SameCourse, NoMint, Writes, To
<1>. QED  BY <1>1, <1>2, <1>3, <1>4, StepMakes

-----------------------------------------------------------------------------
(* Every start asks for a desktop, and so does what has been read. *)
Wanting ==
  Desktops = {TRUE} =>
    /\ spec.desktop /\ (start # NoStart => start.desktop)
    /\ \A r \in Reconcilers : Reads(r) => Want(r).desktop

LEMMA WantingKept ==
  ASSUME SessionOK, OverlapOK, Fresh, Wanting, [Next]_vars
  PROVE  Wanting'
<1>1. ASSUME NEW r \in Reconcilers, Branch(r)
      PROVE  Wanting'
  BY <1>1, BranchMakes DEF Effects, Frame, Elsewhere, apiVars, Wanting, Reads, Want
<1>2. ASSUME NEW r \in Reconcilers, Begins(r)
      PROVE  Wanting'
  BY <1>2 DEF Begins, apiVars, Wanting, Reads, Want
<1>3. ASSUME NEW r \in Reconcilers, Finishes(r)
      PROVE  Wanting'
  BY <1>3 DEF Finishes, apiVars, Wanting, Reads, Want
<1>4. CASE Around
  BY <1>4 DEF Around, Asked, Ended, Wanting, Reads, Want
<1>. QED  BY <1>1, <1>2, <1>3, <1>4, StepMakes

(* There is no VM where there is no binding. *)
BareWithoutId ==
  /\ status.binding.id = 0 => ~status.binding.vm
  /\ \A r \in Reconcilers : Reads(r) \/ Rebinds(r) => (Id(r) = 0 => ~Bound(r).vm)

LEMMA BareWithoutIdKept ==
  ASSUME SessionOK, OverlapOK, Fresh, BareWithoutId, [Next]_vars
  PROVE  BareWithoutId'
<1>1. ASSUME NEW r \in Reconcilers, Branch(r)
      PROVE  BareWithoutId'
  <2>1. /\ Effects(r) /\ Reads(r) /\ SameStatus /\ ~Reads(r)'
        /\ \A q \in Reconcilers \ {r} : rec'[q] = rec[q]
    BY <1>1, BranchMakes DEF Effects, Frame, Reads
  <2>2. ASSUME Rebinds(r)', Id(r)' = 0
        PROVE  ~Bound(r)'.vm
    <3>1. Bound(r)' = To(r)'.binding /\ Id(r)' = To(r)'.binding.id
      BY DEF Bound, Id, To, Had
    <3>2. CASE Keeps(r)
      BY <2>1, <2>2, <3>1, <3>2 DEF Keeps, BareWithoutId
    <3>3. CASE Exchanges(r)
      BY <3>1, <3>3 DEF Exchanges, NoBinding, NewBinding
    <3>. QED  BY <2>1, <2>2, <3>2, <3>3 DEF Effects, Outcome, Rebinds, Writes
  <2>. QED  BY <2>1, <2>2 DEF BareWithoutId, SameStatus, Reads, Rebinds, Writes, Id, Bound,
                              Had
<1>2. ASSUME NEW r \in Reconcilers, Begins(r)
      PROVE  BareWithoutId'
  BY <1>2 DEF Begins, BareWithoutId, Reads, Rebinds, Writes, Id, Bound, Had
<1>3. ASSUME NEW r \in Reconcilers, Finishes(r)
      PROVE  BareWithoutId'
  <2>1. status'.binding.id = 0 => ~status'.binding.vm
    <3>1. \/ status'.binding = status.binding
          \/ Rebinds(r) /\ status'.binding = Bound(r) /\ Bound(r).id = Id(r)
      BY <1>3 DEF Finishes, Rebinds, To, Bound, Had, Id
    <3>. QED  BY <3>1 DEF BareWithoutId
  <2>. QED  BY <1>3, <2>1 DEF Finishes, BareWithoutId, Reads, Rebinds, Writes, Id, Bound,
                              Had
<1>4. CASE Around
  BY <1>4 DEF Around, SameCourse, Supplied, Ended, BareWithoutId, Reads, Rebinds, Writes,
              Id, Bound, Had
<1>. QED  BY <1>1, <1>2, <1>3, <1>4, StepMakes

(* A VM, or an attempt to get one, is about a binding that has a Job, and the Job is
   past its boot. *)
Equipped(binding) == binding.vm \/ binding.attempt # "none"
Supplying(b) == worker[b] # "idle" \/ vm[b] # "none"

EquippedServes ==
  LET b == status.binding.id IN
  /\ b \notin {0} \cup crossed /\ (Equipped(status.binding) \/ Supplying(b)) =>
       status.binding.job /\ job[b] # "booting"
  /\ \A r \in Ahead : Rebinds(r) =>
       LET to == To(r).binding IN
       /\ to.id # 0 /\ to.id # b => ~Equipped(to) /\ ~Supplying(to.id)
       /\ to.id = b /\ b \notin {0} \cup crossed =>
            /\ status.binding.job => to.job
            /\ Equipped(to) => to.job /\ status.binding.job /\ job[b] # "booting"

LEMMA EquippedServesKept ==
  ASSUME SessionOK, SessionOK', OverlapOK, Fresh, Lone, ReadIsCurrent, Unseen,
         EquippedServes, [Next]_vars
  PROVE  EquippedServes'
<1> DEFINE b == status.binding.id
<1>0. /\ status.binding \in BindingType /\ (b # 0 => b \in Bindings)
      /\ \A r \in Reconcilers :
           /\ To(r).binding \in BindingType
           /\ To(r).binding.id # 0 => To(r).binding.id \in Bindings
  <2>1. \A binding \in BindingType : binding.id # 0 => binding.id \in Bindings
    BY DEF BindingType, Bindings
  <2>2. status.binding \in BindingType
    BY DEF SessionOK, StatusType
  <2>3. \A r \in Reconcilers : To(r).binding = Bound(r) /\ Bound(r) \in BindingType
    BY ReadHasType DEF To, Bound, Had
  <2>. QED  BY <2>1, <2>2, <2>3
<1>1. ASSUME NEW r \in Reconcilers, Branch(r)
      PROVE  EquippedServes'
  <2>1. /\ Effects(r) /\ Beside(r) /\ Reads(r)
        /\ \A q \in Reconcilers \ {r} : rec'[q] = rec[q]
        /\ status'.binding.id = b /\ status'.binding.job = status.binding.job
        /\ status'.binding.vm = status.binding.vm
        /\ \A c \in Bindings : vm[c] = "none" => vm'[c] = "none"
        /\ \/ status'.binding.attempt = status.binding.attempt /\ worker' = worker
           \/ /\ Serving(r) /\ b = Id(r) /\ worker'[b] # "idle"
              /\ \A c \in Bindings \ {b} : worker'[c] = worker[c]
        /\ crossed \subseteq crossed'
    BY <1>1, BranchMakes DEF Effects, Frame, SameStatus, Beside
  <2>2. r \in Ahead => Id(r) = b /\ Bound(r).job = status.binding.job
    BY <2>1 DEF ReadIsCurrent
  <2>3. ASSUME NEW c \in Bindings \ crossed', r \notin Ahead
        PROVE  worker'[c] = worker[c] /\ (job'[c] = "booting" => job[c] = "booting")
    BY <2>1, <2>3 DEF Beside, Ahead
  <2>4. ASSUME b \notin {0} \cup crossed', status.binding.job, job[b] # "booting"
        PROVE  job'[b] # "booting"
    <3>1. CASE r \in Ahead
      BY <1>0, <2>1, <2>2, <2>4, <3>1 DEF Effects, Jobs, Claims, ClaimJob
    <3>2. CASE r \notin Ahead
      BY <1>0, <2>3, <2>4, <3>2
    <3>. QED  BY <3>1, <3>2
  <2>5. ASSUME b \notin {0} \cup crossed',
               Equipped(status.binding)' \/ Supplying(b)'
        PROVE  status.binding.job /\ job[b] # "booting"
    <3>1. CASE r \in Ahead /\ Serving(r)
      BY <2>2, <3>1 DEF Serving
    <3>2. CASE ~(r \in Ahead /\ Serving(r))
      <4>1. worker'[b] # "idle" => worker[b] # "idle"
        BY <1>0, <2>1, <2>3, <2>5, <3>2
      <4>2. Equipped(status.binding) \/ Supplying(b)
        BY <1>0, <2>1, <2>5, <4>1 DEF Equipped, Supplying
      <4>. QED  BY <2>1, <2>5, <4>2 DEF EquippedServes
    <3>. QED  BY <3>1, <3>2
  <2>6. ASSUME r \in Ahead', Rebinds(r)', NEW to, to = To(r)'.binding
        PROVE  /\ to.id # 0 /\ to.id # b => ~Equipped(to) /\ ~Supplying(to.id)'
               /\ to.id = b /\ b \notin {0} \cup crossed' =>
                    /\ status.binding.job => to.job
                    /\ Equipped(to) => to.job /\ status.binding.job /\ job'[b] # "booting"
    <3>1. r \in Ahead /\ crossed' = crossed
      BY <2>1, <2>6, WasAhead DEF Rebinds, Writes, Beside, Ahead
    <3>2. /\ Id(r) = b /\ Bound(r).job = status.binding.job
          /\ Bound(r).vm => status.binding.vm
          /\ Bound(r).attempt # "none" => Equipped(status.binding)
      BY <2>1, <3>1 DEF ReadIsCurrent, Equipped
    <3>3. CASE Keeps(r)
      <4>1. to.id = b /\ (Bound(r).job => to.job)
        BY <2>6, <3>2, <3>3 DEF Keeps
      <4>2. /\ to.vm => Bound(r).vm \/ (b # 0 /\ vm[b] # "none")
            /\ to.attempt # "none" => Bound(r).attempt # "none"
        BY <2>6, <3>2, <3>3 DEF Keeps
      <4>3. Equipped(to) /\ b # 0 => Equipped(status.binding) \/ Supplying(b)
        BY <3>2, <4>2 DEF Equipped, Supplying
      <4>4. Equipped(to) /\ b \notin {0} \cup crossed
              => status.binding.job /\ job[b] # "booting"
        BY <4>3 DEF EquippedServes
      <4>. QED  BY <2>4, <3>1, <3>2, <4>1, <4>4
    <3>4. CASE Exchanges(r)
      <4>1. \/ to = NoBinding
            \/ to = NewBinding(minted + 1) /\ minted < MaxBinding
        BY <2>6, <3>4 DEF Exchanges
      <4>2. ~Equipped(to) /\ (to.id = 0 \/ to.id = minted + 1) /\ to.id # b
        BY <2>6, <3>2, <3>4, <4>1 DEF NoBinding, NewBinding, Equipped, Exchanges
      <4>3. ASSUME to.id # 0
            PROVE  ~Supplying(to.id)'
        <5>1. to.id \in Bindings /\ to.id > minted
          BY <4>1, <4>2, <4>3, Numbers, BoundsAssumption
             DEF Bindings, NoBinding, NewBinding
        <5>2. worker[to.id] = "idle" /\ vm[to.id] = "none"
          BY <5>1 DEF Fresh
        <5>3. worker'[to.id] = "idle"
          BY <2>1, <4>2, <5>1, <5>2
        <5>4. vm'[to.id] = "none"
          BY <2>1, <5>1, <5>2
        <5>. QED  BY <2>6, <5>3, <5>4 DEF Supplying
      <4>. QED  BY <4>2, <4>3
    <3>. QED  BY <2>1, <2>6, <3>3, <3>4 DEF Effects, Outcome, Rebinds, Writes
  <2>7. ASSUME NEW p \in Ahead', p # r, Rebinds(p)', NEW to, to = To(p)'.binding
        PROVE  /\ to.id # 0 /\ to.id # b => ~Equipped(to) /\ ~Supplying(to.id)'
               /\ to.id = b /\ b \notin {0} \cup crossed' =>
                    /\ status.binding.job => to.job
                    /\ Equipped(to) => to.job /\ status.binding.job /\ job'[b] # "booting"
    <3>1. p \in Ahead /\ rec'[p] = rec[p] /\ p \in Reconcilers
      BY <1>1, <2>7, OthersAhead DEF Rebinds, Writes, Ahead
    <3>2. Rebinds(p) /\ to = To(p).binding
      BY <2>7, <3>1 DEF Rebinds, Writes, To
    <3>3. ASSUME to.id # 0, to.id # b
          PROVE  ~Equipped(to) /\ ~Supplying(to.id)'
      <4>1. ~Equipped(to) /\ ~Supplying(to.id) /\ to.id \in Bindings
        BY <1>0, <3>1, <3>2, <3>3 DEF EquippedServes
      <4>2. worker'[to.id] = worker[to.id]
        BY <2>1, <3>3, <4>1
      <4>3. vm'[to.id] = "none"
        BY <2>1, <4>1 DEF Supplying
      <4>. QED  BY <2>7, <4>1, <4>2, <4>3 DEF Supplying
    <3>4. ASSUME to.id = b, b \notin {0} \cup crossed'
          PROVE  /\ status.binding.job => to.job
                 /\ Equipped(to) => to.job /\ status.binding.job /\ job'[b] # "booting"
      <4>1. /\ status.binding.job => to.job
            /\ Equipped(to) => to.job /\ status.binding.job /\ job[b] # "booting"
        BY <2>1, <3>1, <3>2, <3>4 DEF EquippedServes
      <4>. QED  BY <2>4, <3>4, <4>1
    <3>. QED  BY <3>3, <3>4
  <2>8. ASSUME NEW p \in Ahead', Rebinds(p)', NEW to, to = To(p)'.binding
        PROVE  /\ to.id # 0 /\ to.id # b =>
                    ~Equipped(to) /\ worker'[to.id] = "idle" /\ vm'[to.id] = "none"
               /\ to.id = b /\ b \notin {0} \cup crossed' =>
                    /\ status.binding.job => to.job
                    /\ Equipped(to) => to.job /\ status.binding.job /\ job'[b] # "booting"
    <3>1. CASE p = r
      BY <2>6, <2>8, <3>1 DEF Supplying
    <3>2. CASE p # r
      BY <2>7, <2>8, <3>2 DEF Supplying
    <3>. QED  BY <3>1, <3>2
  <2>9. status'.binding.id \notin {0} \cup crossed'
          /\ (Equipped(status.binding)' \/ Supplying(status.binding.id)')
          => status'.binding.job /\ job'[status'.binding.id] # "booting"
    BY <2>1, <2>4, <2>5
  <2>. QED  BY <2>1, <2>8, <2>9 DEF EquippedServes, Equipped, Supplying
<1>2. ASSUME NEW r \in Reconcilers, Begins(r)
      PROVE  EquippedServes'
  <2>1. \A p \in Ahead' : Rebinds(p)' => p \in Ahead /\ Rebinds(p) /\ To(p)' = To(p)
    BY <1>2 DEF Begins, Ahead, Reads, Rebinds, Writes, To
  <2>. QED  BY <1>2, <2>1 DEF Begins, EquippedServes, Equipped, Supplying
<1>3. ASSUME NEW r \in Reconcilers, Finishes(r)
      PROVE  EquippedServes'
  <2>1. /\ UNCHANGED <<job, vm, worker>> /\ Beside(r) /\ crossed \subseteq crossed'
        /\ status'.binding = IF Rebinds(r) THEN To(r).binding ELSE status.binding
    BY <1>3 DEF Finishes, Rebinds, Beside
  <2>2. ASSUME NEW p \in Ahead', Rebinds(p)'
        PROVE  p \in Ahead /\ Rebinds(p) /\ To(p)' = To(p) /\ status' = status
    <3>1. p # r
      BY <1>3, <2>2 DEF Finishes, Rebinds, Writes
    <3>. QED  BY <1>3, <2>2, <3>1, OthersAhead DEF Rebinds, Writes, To
  <2>3. ASSUME status'.binding.id \notin {0} \cup crossed',
               Equipped(status'.binding) \/ Supplying(status'.binding.id)
        PROVE  status'.binding.job /\ job[status'.binding.id] # "booting"
    <3>1. CASE status'.binding = status.binding
      BY <2>1, <2>3, <3>1 DEF EquippedServes
    <3>2. CASE status'.binding # status.binding /\ r \notin Ahead
      <4>1. status'.binding.id \in Bindings
        <5>1. status'.binding \in BindingType
          BY DEF SessionOK, StatusType
        <5>. QED  BY <2>3, <5>1 DEF BindingType, Bindings
      <4>. QED  BY <1>3, <2>1, <2>3, <3>2, <4>1 DEF Beside, Finishes, Ahead
    <3>3. CASE status'.binding # status.binding /\ r \in Ahead
      <4>1. Rebinds(r) /\ status'.binding = To(r).binding
        BY <2>1, <3>3
      <4>2. CASE To(r).binding.id # b
        BY <2>3, <3>3, <4>1, <4>2 DEF EquippedServes
      <4>3. CASE To(r).binding.id = b
        <5>1. b \notin {0} \cup crossed
          BY <2>1, <2>3, <4>1, <4>3
        <5>2. /\ status.binding.job => To(r).binding.job
              /\ Equipped(To(r).binding) => To(r).binding.job /\ job[b] # "booting"
              /\ Supplying(b) => status.binding.job /\ job[b] # "booting"
          BY <3>3, <4>1, <4>3, <5>1 DEF EquippedServes
        <5>. QED  BY <2>3, <4>1, <4>3, <5>2
      <4>. QED  BY <4>2, <4>3
    <3>. QED  BY <3>1, <3>2, <3>3
  <2>4. \A c : Supplying(c)' = Supplying(c)
    BY <2>1 DEF Supplying
  <2>. QED  BY <2>1, <2>2, <2>3, <2>4 DEF EquippedServes, Equipped, Supplying
<1>4. CASE Around
  <2>1. ASSUME NEW p \in Ahead', Rebinds(p)'
        PROVE  p \in Ahead /\ Rebinds(p) /\ To(p)' = To(p) /\ p \in Reconcilers
    BY <1>4, <2>1, AroundAhead DEF Rebinds, Writes, To, Ahead
  <2>2. /\ status'.binding.id = b /\ status'.binding.job = status.binding.job
        /\ Equipped(status'.binding) => Equipped(status.binding)
        /\ crossed' = crossed
    BY <1>4 DEF Around, SameCourse, Supplied, Equipped
  <2>3. \A c \in Bindings : /\ job[c] # "booting" => job'[c] # "booting"
                            /\ worker'[c] # "idle" \/ vm'[c] # "none" => Supplying(c)
    BY <1>4 DEF Around, Ended, Supplied, Supplying
  <2>4. b \notin {0} \cup crossed
          /\ (Equipped(status'.binding) \/ worker'[b] # "idle" \/ vm'[b] # "none")
          => status.binding.job /\ job'[b] # "booting"
    BY <1>0, <2>2, <2>3 DEF EquippedServes
  <2>5. ASSUME NEW p \in Ahead, Rebinds(p), p \in Reconcilers, NEW to, to = To(p).binding
        PROVE  /\ to.id # 0 /\ to.id # b =>
                    ~Equipped(to) /\ worker'[to.id] = "idle" /\ vm'[to.id] = "none"
               /\ to.id = b /\ b \notin {0} \cup crossed =>
                    /\ status.binding.job => to.job
                    /\ Equipped(to) => to.job /\ status.binding.job /\ job'[b] # "booting"
    BY <1>0, <2>3, <2>5 DEF EquippedServes
  <2>. QED  BY <2>1, <2>2, <2>4, <2>5 DEF EquippedServes, Equipped, Supplying
<1>. QED  BY <1>1, <1>2, <1>3, <1>4, StepMakes

(* A pass writes back the VM of the binding, unless it releases the binding, or
   there is none, and none on its way. *)
RefKept ==
  Desktops = {TRUE} =>
    \A r \in Ahead :
      LET to == To(r) IN
      Rebinds(r) /\ to.binding.id = status.binding.id
        /\ to.binding.id \notin {0} \cup crossed =>
        \/ to.phase = "Releasing" \/ to.binding.vm
        \/ ~Equipped(status.binding)

LEMMA RefKeptKept ==
  ASSUME SessionOK, OverlapOK, Fresh, ReadIsCurrent, EquippedServes, Wanting, RefKept,
         [Next]_vars
  PROVE  RefKept'
<1> SUFFICES ASSUME Desktops = {TRUE}, NEW p \in Ahead', Rebinds(p)',
                    To(p)'.binding.id = status'.binding.id,
                    To(p)'.binding.id \notin {0} \cup crossed',
                    To(p)'.phase # "Releasing", ~To(p)'.binding.vm
             PROVE  ~Equipped(status'.binding)
  BY DEF RefKept, Equipped
<1>1. ASSUME NEW r \in Reconcilers, Branch(r), p = r
      PROVE  ~Equipped(status'.binding)
  <2>1. Effects(r) /\ Beside(r) /\ Reads(r) /\ SameStatus
    BY <1>1, BranchMakes DEF Effects, Frame
  <2>2. r \in Ahead /\ crossed' = crossed
    BY <1>1, <2>1, WasAhead DEF Rebinds, Writes, Beside, Ahead
  <2>3. /\ Id(r) = status.binding.id /\ Bound(r).job = status.binding.job
        /\ Want(r).desktop
    BY <2>1, <2>2 DEF ReadIsCurrent, Wanting
  <2>4. ~Bound(r).job \/ Booting(r)
    BY <1>1, <2>1, <2>3 DEF Effects, Outcome, Keeps, Exchanges, Rebinds, Writes, SameStatus
  <2>5. ~Equipped(status.binding)
    <3>1. status.binding.id \notin {0} \cup crossed
      BY <2>1, <2>2 DEF SameStatus
    <3>. QED  BY <2>3, <2>4, <3>1 DEF EquippedServes, Booting
  <2>6. ~Serving(r)
    BY <2>4 DEF Serving, Booting
  <2>. QED  BY <2>1, <2>5, <2>6 DEF Effects, Frame, SameStatus, Equipped
<1>2. ASSUME NEW r \in Reconcilers, Branch(r) \/ Finishes(r) \/ Begins(r), p # r
      PROVE  ~Equipped(status'.binding)
  <2>1. /\ p \in Ahead /\ rec'[p] = rec[p] /\ status' = status /\ crossed \subseteq crossed'
    BY <1>2, OthersAhead DEF Rebinds, Writes
  <2>. QED  BY <2>1 DEF RefKept, Rebinds, Writes, To
<1>3. ASSUME NEW r \in Reconcilers, Finishes(r) \/ Begins(r)
      PROVE  p # r
  BY <1>3 DEF Finishes, Begins, Reads, Rebinds, Writes
<1>4. CASE Around
  <2>1. p \in Ahead /\ rec'[p] = rec[p]
    BY <1>4, AroundAhead DEF Rebinds, Writes
  <2>2. /\ status'.binding.id = status.binding.id /\ crossed' = crossed
        /\ Equipped(status'.binding) => Equipped(status.binding)
    BY <1>4 DEF Around, SameCourse, Supplied, Equipped
  <2>. QED  BY <2>1, <2>2 DEF RefKept, Rebinds, Writes, To
<1>. QED  BY <1>1, <1>2, <1>3, <1>4, StepMakes

SafetyInv ==
  /\ Monotone /\ Fresh /\ Lone /\ ReadIsCurrent /\ OthersStopped /\ ReleasedQuiet
  /\ Unseen /\ Standfast /\ Stale /\ Done
  /\ NoMint /\ Wanting /\ BareWithoutId /\ EquippedServes /\ RefKept

(* The invariant holds at first, ... *)
LEMMA InitSafe ==
  ASSUME Init
  PROVE  SafetyInv
<1>1. \A r \in Reconcilers : /\ ~Reads(r) /\ ~Writes(r) /\ ~Rebinds(r)
                             /\ ~ExchangePending(r)
  BY DEF Init, Idle, Pass, Reads, Writes, Rebinds, ExchangePending
<1>2. /\ status.phase = "None" /\ status.observed = 0 /\ status.binding.id = 0
      /\ ~status.binding.vm
  BY DEF Init, NoStatus, NoBinding, NewBinding
<1>3. spec.activation = 1 /\ spec.desktop \in Desktops
  BY DEF Init
<1>4. ASSUME Desktops = {TRUE}
      PROVE  spec.desktop
  <2>1. spec.desktop = TRUE
    BY <1>3, <1>4
  <2>. QED  BY <2>1
<1>5. activations = 1 /\ start = NoStart
  BY DEF Init
<1>6. Ahead \subseteq Reconcilers
  BY DEF Ahead
<1>7. Monotone
  BY <1>1, <1>2, <1>3, <1>5 DEF Monotone
<1>8. ReadIsCurrent /\ NoMint /\ Wanting /\ RefKept /\ Lone /\ Unseen /\ Standfast /\ Stale
  BY <1>1, <1>4, <1>5, <1>6
     DEF ReadIsCurrent, NoMint, Wanting, RefKept, Lone, Unseen, Standfast, Stale
<1>9. Fresh /\ OthersStopped /\ ReleasedQuiet /\ Done /\ BareWithoutId /\ EquippedServes
  BY <1>1, <1>2, <1>6
     DEF Init, Fresh, OthersStopped, Live, LiveStates, ReleasedQuiet, Done, BareWithoutId,
         EquippedServes
<1>. QED  BY <1>7, <1>8, <1>9 DEF SafetyInv

(* ... is inductive, ... *)
LEMMA StaysSafe ==
  ASSUME SessionOK, SessionOK', OverlapOK, SafetyInv, [Next]_vars
  PROVE  SafetyInv'
BY MonotoneKept, FreshKept, LoneKept, ReadIsCurrentKept, OthersStoppedKept,
   ReleasedQuietKept, UnseenKept, StandfastKept, StaleKept, DoneKept, NoMintKept,
   WantingKept, BareWithoutIdKept, EquippedServesKept, RefKeptKept
   DEF SafetyInv

(* ... and so holds always. *)
LEMMA Safe == Spec => []SafetyInv
<1>1. Init => SafetyInv
  BY InitSafe
<1>2. TypeOK /\ TypeOK' /\ SafetyInv /\ [Next]_vars => SafetyInv'
  BY StaysSafe DEF TypeOK
<1>. QED  BY <1>1, <1>2, TypeCorrect, PTL DEF Spec

(* Two containers of the assistant never run at once, unless one of the Jobs is one
   that a restart has failed to suspend, or that a pass has claimed or written back
   without knowing what another pass had done since it had read the session.  However
   many passes run side by side, nothing else brings a second container. *)
THEOREM OneContainer == Spec => []OneLiveContainer
<1>1. SafetyInv => OneLiveContainer
  BY DEF SafetyInv, OthersStopped, OneLiveContainer
<1>. QED  BY <1>1, Safe, PTL

(* Unless a call has failed, a binding in the ledger of released bindings has no pods,
   and gets none any more, but from a pass that has been overtaken: it may still be the
   current one, but no pass that knows the session claims a Job for it
   (record_released_binding). *)
THEOREM LedgerIsTrue == Spec => []ReleasedIsCleanUnlessFaults
<1>1. SafetyInv => ReleasedIsCleanUnlessFaults
  BY DEF SafetyInv, Done, ReleasedIsCleanUnlessFaults, ReleasedIsClean, HasPods
<1>. QED  BY <1>1, Safe, PTL

(* Nothing of the assistant runs once its session is stopped and released, when the
   timer no longer looks at it (_is_terminally_released), but for the bindings that an
   overtaken pass has acted for; calls to the API that fail leave it Releasing. *)
THEOREM ReleasedMeansQuiet == Spec => []QuietWhenReleased
<1>1. SafetyInv => QuietWhenReleased
  BY DEF SafetyInv, ReleasedQuiet, OnlyCrossed, QuietWhenReleased, HasPods
<1>. QED  BY <1>1, Safe, PTL

(* The binding of the status is only exchanged by the write of a pass. *)
LEMMA OnlyWritesExchange ==
  ASSUME SessionOK, OverlapOK, Fresh, [Next]_vars
  PROVE  \/ /\ status'.binding.id = status.binding.id
            /\ status.binding.vm => status'.binding.vm
         \/ \E r \in Reconcilers : Finishes(r)
<1>1. ASSUME NEW r \in Reconcilers, Branch(r)
      PROVE  status'.binding.id = status.binding.id
             /\ status'.binding.vm = status.binding.vm
  BY <1>1, BranchMakes DEF Effects, Frame, SameStatus
<1>. QED  BY <1>1, StepMakes DEF Begins, Around, SameCourse, Supplied

(* A pass that has been overtaken crosses the binding that it writes. *)
LEMMA OvertakenCrosses ==
  ASSUME SessionOK', NEW r \in Reconcilers \ Ahead, Finishes(r), status' # status
  PROVE  status'.binding.id \in {0} \cup crossed'
<1>1. status'.binding.id \in {0} \cup Bindings
  BY DEF SessionOK, StatusType, BindingType, Bindings
<1>. QED  BY <1>1 DEF Finishes, Beside, Ahead

(* A session whose retries are used up gets no binding before somebody changes what is
   asked of it: no write that is under way brings one either, unless its pass has been
   overtaken (_recover_failed_running_session_without_binding). *)
THEOREM ParkedIsFinal == Spec => ParkedStaysParked
<1>1. ASSUME SessionOK, SessionOK', OverlapOK, SafetyInv, [Next]_vars, Parked, spec' = spec
      PROVE  status'.binding.id \in {0} \cup crossed'
  <2>1. ASSUME NEW r \in Reconcilers, Finishes(r)
        PROVE  status'.binding.id \in {0} \cup crossed'
    <3>1. Spent /\ status.binding.id = 0
      BY <1>1 DEF Parked, Spent
    <3>2. CASE r \in Ahead
      BY <1>1, <2>1, <3>1, <3>2 DEF SafetyInv, NoMint, Finishes
    <3>3. CASE r \notin Ahead
      BY <1>1, <2>1, <3>1, <3>3, OvertakenCrosses
    <3>. QED  BY <3>2, <3>3
  <2>. QED  BY <1>1, <2>1, OnlyWritesExchange DEF SafetyInv, Parked
<1>2. TypeOK /\ TypeOK' /\ SafetyInv /\ [Next]_vars
        => [Parked /\ spec' = spec => status'.binding.id \in {0} \cup crossed']_vars
  BY <1>1 DEF TypeOK
<1>. QED  BY <1>2, Safe, TypeCorrect, PTL DEF Spec, ParkedStaysParked

(* Where every start asks for a desktop, the VM that the assignment worker has written
   to the binding survives the write of a pass that has read the binding before
   (persist_binding_vm_assignment_result against patch_assistant_session_status),
   unless another pass has overtaken it in between. *)
THEOREM RefIsKept ==
  Desktops = {TRUE} => (Spec => VmRefIsKept)
<1>1. ASSUME Desktops = {TRUE}, SessionOK, SessionOK', OverlapOK, SafetyInv, [Next]_vars,
             status.binding.vm, status'.binding.id = status.binding.id
      PROVE  \/ status'.binding.vm \/ status'.phase = "Releasing"
             \/ status.binding.id \in crossed'
  <2>1. ASSUME NEW r \in Reconcilers, Finishes(r)
        PROVE  \/ status'.binding.vm \/ status'.phase = "Releasing"
               \/ status.binding.id \in crossed'
    <3>1. status.binding.id # 0 /\ Equipped(status.binding)
      BY <1>1 DEF SafetyInv, BareWithoutId, Equipped
    <3>2. crossed \subseteq crossed'
      BY <2>1 DEF Finishes, Beside
    <3>3. CASE r \notin Ahead
      BY <1>1, <2>1, <3>1, <3>3, OvertakenCrosses
    <3>4. CASE r \in Ahead /\ Rebinds(r)
      <4>1. status'.binding = To(r).binding /\ To(r).binding.id = status.binding.id
        BY <1>1, <2>1, <3>4 DEF Finishes, Rebinds
      <4>2. \/ To(r).phase = "Releasing" \/ To(r).binding.vm
            \/ status.binding.id \in crossed
        BY <1>1, <3>1, <3>4, <4>1 DEF SafetyInv, RefKept
      <4>3. status'.phase = To(r).phase
        BY <1>1, <2>1, <3>4 DEF SafetyInv, ReleasedQuiet, Rebinds, Finishes
      <4>. QED  BY <3>2, <4>1, <4>2, <4>3
    <3>5. CASE ~Rebinds(r)
      BY <1>1, <2>1, <3>5 DEF Finishes, Rebinds
    <3>. QED  BY <3>3, <3>4, <3>5
  <2>. QED  BY <1>1, <2>1, OnlyWritesExchange DEF SafetyInv
<1>2. ASSUME Desktops = {TRUE}
      PROVE  Spec => VmRefIsKept
  <2>1. TypeOK /\ TypeOK' /\ SafetyInv /\ [Next]_vars
          => [status.binding.vm /\ status'.binding.id = status.binding.id
                => \/ status'.binding.vm \/ status'.phase = "Releasing"
                   \/ status.binding.id \in crossed']_vars
    BY <1>1, <1>2 DEF TypeOK
  <2>. QED  BY <2>1, Safe, TypeCorrect, PTL DEF Spec, VmRefIsKept
<1>. QED  BY <1>2

=============================================================================

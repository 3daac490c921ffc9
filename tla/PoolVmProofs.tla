---------------------------- MODULE PoolVmProofs ----------------------------
(***************************************************************************)
(* What holds of PoolVm for any VMs, bindings, assistants and bounds: its  *)
(* types, and that its labels implement VmOwnership.  Both rest on one     *)
(* inductive invariant: a step that names a VM or an assistant names one   *)
(* that exists, and a VM in a role without an owner has none.              *)
(***************************************************************************)
EXTENDS PoolVm, TLAPS

(* The key in the metadata is that of a binding. *)
KeyHasBinding == \A v \in Vms : meta[v].key => meta[v].binding # None

(* A task that works on a VM names it. *)
TasksNameVm ==
  \A b \in Bindings :
    /\ assign[b].pc \in {"attach", "configure"} => assign[b].vm # None
    /\ release[b].pc = "signal" => release[b].vm # None

(* Only a VM that is assigned, released or quarantined has an owner. *)
FreeHasNoOwner == \A v \in Vms : role[v] \notin Held => owner[v] = None

IInv == TypeOK /\ KeyHasBinding /\ TasksNameVm /\ FreeHasNoOwner

(* The watcher restarts, and ends a release, in a state of its type. *)
LEMMA GuestRestarts ==
  ASSUME IInv, NEW v \in Vms, Restarted(v)
  PROVE  guest' \in [Vms -> GuestType]
<1>1. guest[v] \in GuestType /\ NoToken \in TokenType
  BY BoundsAssumption DEF IInv, TypeOK, NoToken, TokenType
<1>2. [guest[v] EXCEPT !.pc = "watch", !.prev = None, !.token = NoToken] \in GuestType
  BY <1>1 DEF GuestType
<1>. QED  BY <1>2 DEF IInv, TypeOK, Restarted

FinishType ==
  [pc: {"idle", "clear", "mark"}, binding: Bindings \cup {None}]

LEMMA FinishChanges ==
  ASSUME IInv, NEW c \in Completers, NEW v \in Vms, NEW task \in FinishType,
         finish' = [finish EXCEPT ![c][v] = task] \/ finish' = finish
  PROVE  finish' \in [Completers -> [Vms -> FinishType]]
<1>1. finish \in [Completers -> [Vms -> FinishType]]
  BY DEF IInv, TypeOK, FinishType
<1>2. [finish[c] EXCEPT ![v] = task] \in [Vms -> FinishType]
  BY <1>1
<1>3. [finish EXCEPT ![c] = [finish[c] EXCEPT ![v] = task]]
        \in [Completers -> [Vms -> FinishType]]
  BY <1>1, <1>2
<1>. QED  BY <1>1, <1>3

LEMMA GuestFinishes ==
  ASSUME IInv, NEW v \in Vms, NEW token \in TokenType, GuestDone(v, token)
  PROVE  guest' \in [Vms -> GuestType]
<1>1. guest[v] \in GuestType /\ NoToken \in TokenType
  BY BoundsAssumption DEF IInv, TypeOK, NoToken, TokenType
<1> DEFINE acked == IF token.binding = meta[v].binding THEN token ELSE NoToken
<1>2. acked \in TokenType
  BY <1>1
<1>3. [guest[v] EXCEPT !.pc = "watch", !.token = NoToken, !.acked = acked] \in GuestType
  <2> HIDE DEF acked
  <2>. QED  BY <1>1, <1>2 DEF GuestType
<1>. QED  BY <1>3 DEF IInv, TypeOK, GuestDone

-----------------------------------------------------------------------------
(* The bindings and their assignments *)

LEMMA KeepsBindingStarts ==
  ASSUME IInv, NEW b \in Bindings, BindingStarts(b)
  PROVE  IInv'
BY SMTT(30) DEF IInv, TypeOK, KeyHasBinding, TasksNameVm, FreeHasNoOwner,
       labels, files, actors, BindingStarts

LEMMA KeepsBindingEnds ==
  ASSUME IInv, NEW b \in Bindings, BindingEnds(b)
  PROVE  IInv'
BY SMTT(30) DEF IInv, TypeOK, KeyHasBinding, TasksNameVm, FreeHasNoOwner,
       labels, files, actors, BindingEnds

LEMMA KeepsAssignBegins ==
  ASSUME IInv, NEW b \in Bindings, AssignBegins(b)
  PROVE  IInv'
<1>1. disk[assistant[b]] \in Vms \cup {None}
  BY DEF IInv, TypeOK
<1>2. assign' \in [Bindings ->
        [pc: {"idle", "claim", "attach", "configure"}, vm: Vms \cup {None}]]
      /\ TasksNameVm'
  <2>1. \/ assign' = [assign EXCEPT ![b] = [pc |-> "claim", vm |-> None]]
        \/ assign' = assign
    BY DEF AssignBegins
  <2>2. release' = release
    BY DEF AssignBegins
  <2>3. [pc |-> "claim", vm |-> None] \in
          [pc: {"idle", "claim", "attach", "configure"}, vm: Vms \cup {None}]
    OBVIOUS
  <2>4. assign' \in [Bindings ->
          [pc: {"idle", "claim", "attach", "configure"}, vm: Vms \cup {None}]]
    BY <2>1, <2>3 DEF IInv, TypeOK
  <2>5. TasksNameVm'
    <3>1. CASE assign' = assign
      BY <2>2, <3>1 DEF IInv, TasksNameVm
    <3>2. CASE assign' = [assign EXCEPT ![b] = [pc |-> "claim", vm |-> None]]
      <4>1. ASSUME NEW d \in Bindings, d # b
            PROVE  assign'[d] = assign[d]
        BY <3>2, <4>1 DEF IInv, TypeOK
      <4>2. assign'[b].pc = "claim"
        BY <3>2 DEF IInv, TypeOK
      <4>. QED  BY <2>2, <4>1, <4>2 DEF IInv, TasksNameVm
    <3>. QED  BY <2>1, <3>1, <3>2
  <2>. QED  BY <2>4, <2>5
<1>3. ref' \in [Bindings -> Vms \cup {None}]
  BY <1>1 DEF AssignBegins, Recorded, IInv, TypeOK
<1>4. disk' \in [Assistants -> Vms \cup {None}]
  BY DEF AssignBegins, IInv, TypeOK
<1>5. TypeOK'
  BY <1>2, <1>3, <1>4 DEF IInv, TypeOK, AssignBegins, labels
<1>6. KeyHasBinding' /\ FreeHasNoOwner'
  BY DEF IInv, KeyHasBinding, FreeHasNoOwner, AssignBegins, labels
<1>. QED  BY <1>2, <1>5, <1>6 DEF IInv

LEMMA KeepsClaim ==
  ASSUME IInv, NEW b \in Bindings, NEW v \in Vms, Claim(b, v)
  PROVE  IInv'
<1>1. assign' \in [Bindings ->
        [pc: {"idle", "claim", "attach", "configure"}, vm: Vms \cup {None}]]
  BY DEF Claim, IInv, TypeOK
<1>2. TypeOK'
  BY <1>1 DEF IInv, TypeOK, Claim, session, files, Roles
<1>3. KeyHasBinding' /\ FreeHasNoOwner'
  BY DEF IInv, TypeOK, KeyHasBinding, FreeHasNoOwner, Claim, Held
<1>4. TasksNameVm'
  BY NoneAssumption DEF IInv, TypeOK, TasksNameVm, Claim
<1>. QED  BY <1>2, <1>3, <1>4 DEF IInv

LEMMA KeepsAssignRefused ==
  ASSUME IInv, NEW b \in Bindings, AssignRefused(b)
  PROVE  IInv'
BY NoneAssumption, SMTT(30) DEF IInv, TypeOK, KeyHasBinding, TasksNameVm,
       FreeHasNoOwner, session, labels, files, AssignEnds, Idle, NoTask,
       AssignRefused

LEMMA KeepsAttach ==
  ASSUME IInv, NEW b \in Bindings, Attach(b)
  PROVE  IInv'
BY NoneAssumption, SMTT(30) DEF IInv, TypeOK, KeyHasBinding, TasksNameVm,
       FreeHasNoOwner, session, labels, Taint, Attach

LEMMA KeepsAttachFails ==
  ASSUME IInv, NEW b \in Bindings, AttachFails(b)
  PROVE  IInv'
BY NoneAssumption, SMTT(30) DEF IInv, TypeOK, KeyHasBinding, TasksNameVm,
       FreeHasNoOwner, session, labels, files, AssignEnds, NoTask, AttachFails

LEMMA KeepsConfigure ==
  ASSUME IInv, NEW b \in Bindings, Configure(b)
  PROVE  IInv'
<1> DEFINE v == assign[b].vm
<1>1. v \in Vms /\ b # None
  BY NoneAssumption DEF Configure, IInv, TypeOK, TasksNameVm
<1>2. [binding |-> b, key |-> TRUE, gen |-> 0] \in MetaType
  BY BoundsAssumption DEF MetaType
<1>3. meta' = [meta EXCEPT ![v] = [binding |-> b, key |-> TRUE, gen |-> 0]]
  BY DEF Configure
<1>4. meta' \in [Vms -> MetaType] /\ KeyHasBinding'
  BY <1>1, <1>2, <1>3 DEF KeyHasBinding, IInv, TypeOK
<1>5. ref' \in [Bindings -> Vms \cup {None}]
  BY <1>1 DEF Configure, Recorded, IInv, TypeOK
<1>6. assign' \in [Bindings ->
        [pc: {"idle", "claim", "attach", "configure"}, vm: Vms \cup {None}]]
  BY DEF Configure, AssignEnds, NoTask, IInv, TypeOK
<1>7. tainted' \subseteq Vms /\ expired' \subseteq Bindings
  BY <1>1 DEF Configure, AssignEnds, Taint, IInv, TypeOK
<1>8. TasksNameVm'
  BY DEF Configure, AssignEnds, NoTask, TasksNameVm, IInv, TypeOK
<1>. QED  BY <1>4, <1>5, <1>6, <1>7, <1>8
          DEF Configure, IInv, TypeOK, FreeHasNoOwner, labels, files

LEMMA KeepsAssignTorn ==
  ASSUME IInv, NEW b \in Bindings, AssignTorn(b)
  PROVE  IInv'
BY BoundsAssumption, NoneAssumption, SMTT(30) DEF IInv, TypeOK, KeyHasBinding,
       TasksNameVm, FreeHasNoOwner, session, labels, files, Fault, AssignEnds,
       NoTask, AssignTorn

LEMMA KeepsAssignUndone ==
  ASSUME IInv, NEW b \in Bindings, AssignUndone(b)
  PROVE  IInv'
<1>1. assign' \in [Bindings ->
        [pc: {"idle", "claim", "attach", "configure"}, vm: Vms \cup {None}]]
  BY DEF AssignUndone, AssignEnds, NoTask, IInv, TypeOK
<1>2. role' \in [Vms -> Roles] /\ owner' \in [Vms -> Bindings \cup {None}]
  BY DEF AssignUndone, IInv, TypeOK, Roles
<1>6. tainted' \subseteq Vms
  BY DEF AssignUndone, Taint, IInv, TypeOK, TasksNameVm
<1>3. TypeOK'
  BY <1>1, <1>2, <1>6, BoundsAssumption DEF IInv, TypeOK, AssignUndone, AssignEnds,
     Fault, session, files
<1>4. KeyHasBinding' /\ FreeHasNoOwner'
  BY DEF IInv, TypeOK, KeyHasBinding, FreeHasNoOwner, AssignUndone, Held
<1>5. TasksNameVm'
  BY DEF IInv, TypeOK, TasksNameVm, AssignUndone, AssignEnds, NoTask
<1>. QED  BY <1>3, <1>4, <1>5 DEF IInv

LEMMA KeepsLeaseExpires ==
  ASSUME IInv, NEW b \in Bindings, LeaseExpires(b)
  PROVE  IInv'
BY BoundsAssumption, SMTT(30) DEF IInv, TypeOK, KeyHasBinding, TasksNameVm,
       FreeHasNoOwner, session, labels, files, Fault, LeaseExpires

-----------------------------------------------------------------------------
(* Release *)

LEMMA KeepsReleaseBegins ==
  ASSUME IInv, NEW b \in Bindings, NEW v \in Vms, ReleaseBegins(b, v)
  PROVE  IInv'
BY NoneAssumption, SMTT(30) DEF IInv, TypeOK, KeyHasBinding, TasksNameVm,
       FreeHasNoOwner, session, files, Roles, Held, ReleaseBegins

LEMMA KeepsReleaseSignalled ==
  ASSUME IInv, NEW b \in Bindings, ReleaseSignalled(b)
  PROVE  IInv'
<1> DEFINE v == release[b].vm
<1>1. v \in Vms
  BY DEF IInv, TypeOK, TasksNameVm, ReleaseSignalled
<1>2. meta[v] \in MetaType /\ 1 \in 0..MaxGeneration
  BY <1>1, BoundsAssumption DEF IInv, TypeOK
<1>3. [meta[v] EXCEPT !.key = FALSE, !.gen = 1] \in MetaType
  BY <1>2 DEF MetaType
<1>4. \/ meta' = [meta EXCEPT ![v] = [meta[v] EXCEPT !.key = FALSE, !.gen = 1]]
      \/ meta' = meta
  BY DEF ReleaseSignalled, Signalled
<1>5. meta' \in [Vms -> MetaType]
  BY <1>3, <1>4 DEF IInv, TypeOK
<1>6. KeyHasBinding'
  <2>1. CASE meta' = meta
    BY <2>1 DEF IInv, KeyHasBinding
  <2>2. CASE meta' = [meta EXCEPT ![v] = [meta[v] EXCEPT !.key = FALSE, !.gen = 1]]
    <3> SUFFICES ASSUME NEW w \in Vms, meta'[w].key
                 PROVE  meta'[w].binding # None
      BY DEF KeyHasBinding
    <3>1. CASE w = v
      BY <1>1, <1>2, <2>2, <3>1 DEF IInv, TypeOK, MetaType
    <3>2. CASE w # v
      BY <1>1, <2>2, <3>2 DEF IInv, TypeOK, KeyHasBinding
    <3>. QED  BY <3>1, <3>2
  <2>. QED  BY <1>4, <2>1, <2>2
<1>7. tainted' \subseteq Vms
  BY <1>1 DEF IInv, TypeOK, ReleaseSignalled, Taint
<1>8. release' \in [Bindings -> [pc: {"idle", "signal"}, vm: Vms \cup {None}]]
  BY DEF IInv, TypeOK, ReleaseSignalled, NoTask
<1>9. TasksNameVm'
  BY NoneAssumption DEF IInv, TypeOK, TasksNameVm, ReleaseSignalled, NoTask
<1>. QED  BY <1>5, <1>6, <1>7, <1>8, <1>9 DEF IInv, TypeOK, FreeHasNoOwner,
            session, labels, files, ReleaseSignalled

LEMMA KeepsReleaseTorn ==
  ASSUME IInv, NEW b \in Bindings, ReleaseTorn(b)
  PROVE  IInv'
BY BoundsAssumption, NoneAssumption, SMTT(30) DEF IInv, TypeOK, KeyHasBinding,
       TasksNameVm, FreeHasNoOwner, session, labels, files, Fault, NoTask,
       ReleaseTorn

LEMMA KeepsRearm ==
  ASSUME IInv, NEW b \in Bindings, NEW v \in Vms, Rearm(b, v)
  PROVE  IInv'
<1>1. meta[v] \in MetaType /\ meta[v].gen + 1 \in 0..MaxGeneration
  BY BoundsAssumption DEF IInv, TypeOK, MetaType, Rearm
<1>2. [meta[v] EXCEPT !.key = FALSE, !.gen = meta[v].gen + 1] \in MetaType
  BY <1>1 DEF MetaType
<1>3. meta' \in [Vms -> MetaType]
  BY <1>2 DEF IInv, TypeOK, Rearm, Signalled
<1>4. KeyHasBinding'
  BY <1>1 DEF IInv, TypeOK, KeyHasBinding, Rearm, Signalled, MetaType
<1>. QED  BY <1>3, <1>4 DEF IInv, TypeOK, TasksNameVm,
            FreeHasNoOwner, session, labels, files, actors, Rearm

LEMMA KeepsRetire ==
  ASSUME IInv, NEW b \in Bindings, NEW v \in Vms, Retire(b, v)
  PROVE  IInv'
BY BoundsAssumption, SMTT(30) DEF IInv, TypeOK, KeyHasBinding, TasksNameVm,
       FreeHasNoOwner, Delete, session, actors, NoMeta, NewGuest,
       DetachedFrom, NoToken, MetaType, GuestType, TokenType, Roles, Held,
       Retire

-----------------------------------------------------------------------------
(* Completion *)

LEMMA KeepsFinishClear ==
  ASSUME IInv, NEW c \in Completers, NEW v \in Vms, FinishClear(c, v)
  PROVE  IInv'
<1>1. finish[c][v] \in FinishType
  BY DEF IInv, TypeOK, FinishType
<1>2. [finish[c][v] EXCEPT !.pc = "mark"] \in FinishType
  BY <1>1 DEF FinishType
<1>3. finish' = [finish EXCEPT ![c][v] = [finish[c][v] EXCEPT !.pc = "mark"]]
  BY DEF FinishClear
<1>4. finish' \in [Completers -> [Vms -> FinishType]]
  BY <1>2, <1>3, FinishChanges
<1>5. meta' \in [Vms -> MetaType]
  BY BoundsAssumption DEF FinishClear, NoMeta, MetaType, IInv, TypeOK
<1>6. disk' \in [Assistants -> Vms \cup {None}]
  BY DEF FinishClear, DetachedFrom, IInv, TypeOK
<1>7. KeyHasBinding' /\ tainted' \subseteq Vms
  BY DEF FinishClear, NoMeta, Taint, KeyHasBinding, IInv, TypeOK
<1>. QED  BY <1>4, <1>5, <1>6, <1>7 DEF FinishClear, FinishType, IInv, TypeOK,
            TasksNameVm, FreeHasNoOwner, session, labels

LEMMA KeepsFinishMark ==
  ASSUME IInv, NEW c \in Completers, NEW v \in Vms, FinishMark(c, v)
  PROVE  IInv'
<1>1. role' \in [Vms -> Roles] /\ owner' \in [Vms -> Bindings \cup {None}]
  BY DEF FinishMark, IInv, TypeOK, Roles
<1>2. finish' \in [Completers -> [Vms -> FinishType]]
  BY DEF FinishMark, FinishEnds, NoFinish, IInv, TypeOK, FinishType
<1>3. tainted' \subseteq Vms
  BY DEF FinishMark, Taint, IInv, TypeOK
<1>4. FreeHasNoOwner'
  BY DEF FinishMark, IInv, TypeOK, FreeHasNoOwner, Held
<1>. QED  BY <1>1, <1>2, <1>3, <1>4
          DEF FinishMark, FinishType, IInv, TypeOK, KeyHasBinding, TasksNameVm, session, files

LEMMA KeepsFinishGone ==
  ASSUME IInv, NEW c \in Completers, NEW v \in Vms, FinishGone(c, v)
  PROVE  IInv'
BY SMTT(30) DEF IInv, TypeOK, KeyHasBinding, TasksNameVm, FreeHasNoOwner,
       session, labels, files, FinishEnds, NoFinish, FinishGone

LEMMA KeepsFinishTorn ==
  ASSUME IInv, NEW c \in Completers, NEW v \in Vms, FinishTorn(c, v)
  PROVE  IInv'
BY BoundsAssumption, SMTT(30) DEF IInv, TypeOK, KeyHasBinding, TasksNameVm,
       FreeHasNoOwner, session, labels, files, Fault, FinishEnds, NoFinish,
       FinishTorn

LEMMA KeepsFinishUnconfirmed ==
  ASSUME IInv, NEW v \in Vms, FinishUnconfirmed(v)
  PROVE  IInv'
<1>1. "session" \in Completers /\ owner[v] \in Bindings \cup {None}
  BY DEF Completers, IInv, TypeOK
<1>2. [pc |-> "clear", binding |-> owner[v]] \in FinishType
  BY <1>1 DEF FinishType
<1>3. finish' = [finish EXCEPT !["session"][v] =
                  [pc |-> "clear", binding |-> owner[v]]]
  BY DEF FinishUnconfirmed
<1>4. finish' \in [Completers -> [Vms -> FinishType]]
  BY <1>1, <1>2, <1>3, FinishChanges
<1>. QED  BY <1>4, BoundsAssumption DEF IInv, TypeOK, KeyHasBinding,
            TasksNameVm, FreeHasNoOwner, session, labels, files, Fault,
            FinishUnconfirmed, FinishType

LEMMA KeepsFinishStopped ==
  ASSUME IInv, NEW v \in Vms, FinishStopped(v)
  PROVE  IInv'
BY BoundsAssumption, SMTT(30) DEF IInv, TypeOK, KeyHasBinding, TasksNameVm,
       FreeHasNoOwner, Delete, session, actors, NoMeta, NewGuest,
       DetachedFrom, NoToken, MetaType, GuestType, TokenType, Roles, Held,
       FinishStopped

-----------------------------------------------------------------------------
(* The guest *)

LEMMA KeepsGuestAssigns ==
  ASSUME IInv, NEW v \in Vms, GuestAssigns(v)
  PROVE  IInv'
<1> DEFINE a == CurrentKey(v)
<1>1. a \in Assistants
  BY DEF GuestAssigns, CurrentKey, IInv, TypeOK, KeyHasBinding, MetaType
<1>2. guest' \in [Vms -> GuestType]
  <2>1. guest[v] \in GuestType /\ NoToken \in TokenType
    BY BoundsAssumption DEF IInv, TypeOK, NoToken, TokenType
  <2>2. guest[v].home \cup {a} \in SUBSET Assistants
    BY <1>1, <2>1 DEF GuestType
  <2>3. [guest[v] EXCEPT !.pc = "restoring", !.prev = a, !.acked = NoToken,
           !.home = guest[v].home \cup {a}, !.whole = FALSE, !.flag = TRUE] \in GuestType
    <3> HIDE DEF a
    <3>. QED  BY <1>1, <2>1, <2>2 DEF GuestType
  <2>. QED  BY <2>3 DEF IInv, TypeOK, GuestAssigns
<1>3. content' \in [Assistants -> {"empty", "restoring", "partial", "whole"}]
  BY DEF GuestAssigns, IInv, TypeOK
<1>. QED  BY <1>2, <1>3 DEF IInv, TypeOK, KeyHasBinding, TasksNameVm,
            FreeHasNoOwner, NoFault, guestOnly, session, labels, actors,
            GuestAssigns

LEMMA KeepsGuestRestored ==
  ASSUME IInv, NEW v \in Vms, GuestRestored(v)
  PROVE  IInv'
<1>1. guest' \in [Vms -> GuestType]
  <2>1. guest[v] \in GuestType
    BY DEF IInv, TypeOK
  <2>2. [guest[v] EXCEPT !.pc = "watch", !.whole = TRUE, !.flag = FALSE] \in GuestType
    BY <2>1 DEF GuestType
  <2>. QED  BY <2>2 DEF IInv, TypeOK, GuestRestored
<1>2. content' \in [Assistants -> {"empty", "restoring", "partial", "whole"}]
  BY DEF GuestRestored, IInv, TypeOK
<1>3. archive' \in [Assistants -> {"own", "truncated", "foreign"}]
  BY DEF GuestRestored, Archived, IInv, TypeOK
<1>. QED  BY <1>1, <1>2, <1>3 DEF IInv, TypeOK, KeyHasBinding, TasksNameVm,
            FreeHasNoOwner, NoFault, guestOnly, session, labels, actors,
            GuestRestored

LEMMA KeepsGuestReleases ==
  ASSUME IInv, NEW v \in Vms, GuestReleases(v)
  PROVE  IInv'
<1>1. guest' \in [Vms -> GuestType]
  <2>1. guest[v] \in GuestType
    BY DEF IInv, TypeOK
  <2>2. Token(v) \in TokenType
    BY BoundsAssumption DEF IInv, TypeOK, Token, TokenType, NoToken, MetaType
  <2>3. [guest[v] EXCEPT !.pc = "archiving", !.prev = None, !.token = Token(v)] \in GuestType
    BY <2>1, <2>2 DEF GuestType
  <2>. QED  BY <2>3 DEF IInv, TypeOK, GuestReleases
<1>2. content' \in [Assistants -> {"empty", "restoring", "partial", "whole"}]
  BY DEF GuestReleases, IInv, TypeOK
<1>3. archive' \in [Assistants -> {"own", "truncated", "foreign"}]
  BY DEF GuestReleases, Archived, IInv, TypeOK
<1>. QED  BY <1>1, <1>2, <1>3 DEF IInv, TypeOK, KeyHasBinding, TasksNameVm,
            FreeHasNoOwner, NoFault, guestOnly, session, labels, actors,
            GuestReleases

LEMMA KeepsGuestArchives ==
  ASSUME IInv, NEW v \in Vms, GuestArchives(v)
  PROVE  IInv'
<1>1. guest' \in [Vms -> GuestType]
  <2>1. guest[v] \in GuestType
    BY DEF IInv, TypeOK
  <2>2. [guest[v] EXCEPT !.pc = "scrubbing", !.flag = FALSE] \in GuestType
    BY <2>1 DEF GuestType
  <2>. QED  BY <2>2 DEF IInv, TypeOK, GuestArchives
<1>2. content' \in [Assistants -> {"empty", "restoring", "partial", "whole"}]
  BY DEF GuestArchives, IInv, TypeOK
<1>3. archive' \in [Assistants -> {"own", "truncated", "foreign"}]
  BY DEF GuestArchives, Archived, IInv, TypeOK
<1>. QED  BY <1>1, <1>2, <1>3 DEF IInv, TypeOK, KeyHasBinding, TasksNameVm,
            FreeHasNoOwner, NoFault, guestOnly, session, labels, actors,
            GuestArchives

LEMMA KeepsGuestScrubs ==
  ASSUME IInv, NEW v \in Vms, GuestScrubs(v)
  PROVE  IInv'
<1>1. guest' \in [Vms -> GuestType]
  <2>1. guest[v] \in GuestType
    BY DEF IInv, TypeOK
  <2>2. [guest[v] EXCEPT !.pc = "reporting", !.home = {}, !.whole = TRUE] \in GuestType
    BY <2>1 DEF GuestType
  <2>. QED  BY <2>2 DEF IInv, TypeOK, GuestScrubs
<1>2. content' \in [Assistants -> {"empty", "restoring", "partial", "whole"}]
  BY DEF GuestScrubs, IInv, TypeOK
<1>3. archive' \in [Assistants -> {"own", "truncated", "foreign"}]
  BY DEF GuestScrubs, Archived, IInv, TypeOK
<1>. QED  BY <1>1, <1>2, <1>3 DEF IInv, TypeOK, KeyHasBinding, TasksNameVm,
            FreeHasNoOwner, NoFault, guestOnly, session, labels, actors,
            GuestScrubs

LEMMA KeepsGuestReports ==
  ASSUME IInv, NEW v \in Vms, GuestReports(v)
  PROVE  IInv'
<1>1. guest[v] \in GuestType
  BY DEF IInv, TypeOK
<1>2. guest[v].token \in TokenType /\ guest[v].acked \in TokenType
  BY <1>1 DEF GuestType
<1>3. [guest[v] EXCEPT !.pc = "waiting"] \in GuestType
  BY <1>1 DEF GuestType
<1>4. \/ GuestDone(v, guest[v].acked)
      \/ GuestDone(v, guest[v].token)
      \/ guest' = [guest EXCEPT ![v] = [guest[v] EXCEPT !.pc = "waiting"]]
  BY DEF GuestReports
<1>5. guest' \in [Vms -> GuestType]
  BY <1>2, <1>3, <1>4, GuestFinishes DEF IInv, TypeOK
<1>6. finish' \in [Completers -> [Vms -> FinishType]]
  <2>1. "guest" \in Completers /\ meta[v].binding \in Bindings \cup {None}
    BY DEF Completers, IInv, TypeOK, MetaType
  <2>2. [pc |-> "clear", binding |-> meta[v].binding] \in FinishType
    BY <2>1 DEF FinishType
  <2>3. \/ finish' = finish
        \/ finish' = [finish EXCEPT !["guest"][v] =
                       [pc |-> "clear", binding |-> meta[v].binding]]
    BY DEF GuestReports
  <2>. QED  BY <2>1, <2>2, <2>3, FinishChanges
<1>. QED  BY <1>5, <1>6 DEF IInv, TypeOK, KeyHasBinding, TasksNameVm,
            FreeHasNoOwner, session, labels, files, GuestReports, FinishType

LEMMA KeepsGuestAnswered ==
  ASSUME IInv, NEW v \in Vms, GuestAnswered(v)
  PROVE  IInv'
<1>1. guest[v].token \in TokenType
  BY DEF IInv, TypeOK, GuestType
<1>2. guest' \in [Vms -> GuestType]
  BY <1>1, GuestFinishes DEF GuestAnswered
<1>. QED  BY <1>2 DEF IInv, TypeOK, KeyHasBinding, TasksNameVm,
            FreeHasNoOwner, NoFault, guestOnly, session, labels, actors,
            GuestAnswered

LEMMA KeepsGuestGivesUp ==
  ASSUME IInv, NEW v \in Vms, GuestGivesUp(v)
  PROVE  IInv'
<1>1. guest[v].acked \in TokenType
  BY DEF IInv, TypeOK, GuestType
<1>2. guest' \in [Vms -> GuestType]
  BY <1>1, GuestFinishes DEF GuestGivesUp
<1>. QED  BY <1>2, BoundsAssumption DEF IInv, TypeOK, KeyHasBinding,
            TasksNameVm, FreeHasNoOwner, Fault, guestOnly, session, labels,
            actors, GuestGivesUp

LEMMA KeepsWatcherCrash ==
  ASSUME IInv, NEW v \in Vms, WatcherCrash(v)
  PROVE  IInv'
<1>1. guest' \in [Vms -> GuestType]
  BY GuestRestarts DEF WatcherCrash
<1>. QED  BY <1>1, BoundsAssumption DEF IInv, TypeOK, KeyHasBinding,
            TasksNameVm, FreeHasNoOwner, Fault, guestOnly, session, labels,
            actors, WatcherCrash

-----------------------------------------------------------------------------
(* The pool *)

LEMMA KeepsProvision ==
  ASSUME IInv, NEW v \in Vms, Provision(v)
  PROVE  IInv'
BY SMTT(30) DEF IInv, TypeOK, KeyHasBinding, TasksNameVm, FreeHasNoOwner,
       Completers, poolOnly, session, files, actors, Roles, Held, Provision

LEMMA KeepsStartStopped ==
  ASSUME IInv, NEW v \in Vms, StartStopped(v)
  PROVE  IInv'
BY SMTT(30) DEF IInv, TypeOK, KeyHasBinding, TasksNameVm, FreeHasNoOwner,
       poolOnly, session, files, actors, Roles, Held, StartStopped

LEMMA KeepsPowerOn ==
  ASSUME IInv, NEW v \in Vms, PowerOn(v)
  PROVE  IInv'
BY SMTT(30) DEF IInv, TypeOK, KeyHasBinding, TasksNameVm, FreeHasNoOwner,
       poolOnly, session, files, actors, PowerOn

LEMMA KeepsMarkIdle ==
  ASSUME IInv, NEW v \in Vms, MarkIdle(v)
  PROVE  IInv'
BY SMTT(30) DEF IInv, TypeOK, KeyHasBinding, TasksNameVm, FreeHasNoOwner,
       poolOnly, session, files, actors, Roles, Held, MarkIdle

LEMMA KeepsTrim ==
  ASSUME IInv, NEW v \in Vms, Trim(v)
  PROVE  IInv'
BY SMTT(30) DEF IInv, TypeOK, KeyHasBinding, TasksNameVm, FreeHasNoOwner,
       poolOnly, Idle, session, files, actors, Roles, Held, Trim

LEMMA KeepsPowerOff ==
  ASSUME IInv, NEW v \in Vms, PowerOff(v)
  PROVE  IInv'
<1>1. guest' \in [Vms -> GuestType]
  BY GuestRestarts DEF PowerOff
<1>. QED  BY <1>1 DEF IInv, TypeOK, KeyHasBinding, TasksNameVm,
            FreeHasNoOwner, poolOnly, session, files, actors, PowerOff

LEMMA KeepsTrimReverts ==
  ASSUME IInv, NEW v \in Vms, TrimReverts(v)
  PROVE  IInv'
BY BoundsAssumption, SMTT(30) DEF IInv, TypeOK, KeyHasBinding, TasksNameVm,
       FreeHasNoOwner, Fault, poolOnly, session, files, actors, Roles, Held,
       TrimReverts

LEMMA KeepsScrubStopped ==
  ASSUME IInv, NEW v \in Vms, ScrubStopped(v)
  PROVE  IInv'
BY SMTT(30) DEF IInv, TypeOK, KeyHasBinding, TasksNameVm, FreeHasNoOwner,
       poolOnly, session, files, actors, Roles, Held, ScrubStopped

LEMMA KeepsQuarantineDead ==
  ASSUME IInv, NEW v \in Vms, QuarantineDead(v)
  PROVE  IInv'
<1>1. guest' \in [Vms -> GuestType]
  BY GuestRestarts DEF QuarantineDead, Quarantined
<1>. QED  BY <1>1 DEF IInv, TypeOK, KeyHasBinding, TasksNameVm,
            FreeHasNoOwner, poolOnly, session, files, actors, QuarantineDead,
            Quarantined, Roles, Held

LEMMA KeepsQuarantineAged ==
  ASSUME IInv, NEW v \in Vms, QuarantineAged(v)
  PROVE  IInv'
<1>1. guest' \in [Vms -> GuestType]
  BY GuestRestarts DEF QuarantineAged, Quarantined
<1>. QED  BY <1>1 DEF IInv, TypeOK, KeyHasBinding, TasksNameVm,
            FreeHasNoOwner, poolOnly, session, files, actors, QuarantineAged,
            Quarantined, InFlight, Roles, Held

LEMMA KeepsPurge ==
  ASSUME IInv, NEW v \in Vms, Purge(v)
  PROVE  IInv'
BY BoundsAssumption, SMTT(30) DEF IInv, TypeOK, KeyHasBinding, TasksNameVm,
       FreeHasNoOwner, Delete, session, actors, NoMeta, NewGuest,
       DetachedFrom, NoToken, MetaType, GuestType, TokenType, Roles, Held,
       Purge

LEMMA KeepsPowerLoss ==
  ASSUME IInv, NEW v \in Vms, PowerLoss(v)
  PROVE  IInv'
<1>1. guest' \in [Vms -> GuestType]
  BY GuestRestarts DEF PowerLoss
<1>2. faults' \in 0..MaxFaults /\ on' \in [Vms -> BOOLEAN]
  BY BoundsAssumption DEF PowerLoss, Fault, IInv, TypeOK
<1>. QED  BY <1>1, <1>2 DEF IInv, TypeOK, KeyHasBinding, TasksNameVm,
            FreeHasNoOwner, PowerLoss, poolOnly, session, files, actors

-----------------------------------------------------------------------------
(* The invariant *)

LEMMA InitEstablishes == Init => IInv
<1> SUFFICES ASSUME Init
             PROVE  IInv
  OBVIOUS
<1>1. \A v \in Vms : role[v] = "absent" /\ owner[v] = None /\ ~meta[v].key
  BY DEF Init, NoMeta
<1>2. NewGuest \in GuestType /\ NoMeta \in MetaType
  BY BoundsAssumption DEF NewGuest, GuestType, NoToken, TokenType, NoMeta, MetaType
<1>3. /\ guest \in [Vms -> GuestType]
      /\ meta \in [Vms -> MetaType]
  BY <1>2 DEF Init
<1>4. /\ assign \in [Bindings -> [pc: {"idle", "claim", "attach", "configure"},
                                  vm: Vms \cup {None}]]
      /\ release \in [Bindings -> [pc: {"idle", "signal"}, vm: Vms \cup {None}]]
      /\ TasksNameVm
  BY DEF Init, NoTask, TasksNameVm
<1>5. finish \in [Completers -> [Vms ->
        [pc: {"idle", "clear", "mark"}, binding: Bindings \cup {None}]]]
  BY DEF Init, NoFinish
<1>6. assistant \in [Bindings -> Assistants] /\ faults \in 0..MaxFaults
  BY OwnersAssumption, BoundsAssumption DEF Init
<1>7. TypeOK
  BY <1>3, <1>4, <1>5, <1>6 DEF Init, TypeOK, Roles
<1>. QED  BY <1>1, <1>4, <1>7 DEF IInv, KeyHasBinding, FreeHasNoOwner

(* Every step keeps the invariant, whatever fails in it. *)
LEMMA StepKeepsInvariant == IInv /\ [Next]_vars => IInv'
<1> SUFFICES ASSUME IInv, [Next]_vars
             PROVE  IInv'
  OBVIOUS
<1>1. ASSUME NEW b \in Bindings, Assigning(b)
      PROVE  IInv'
  BY <1>1, KeepsAssignBegins, KeepsClaim, KeepsAssignRefused, KeepsAttach,
     KeepsAttachFails, KeepsConfigure DEF Assigning
<1>2. ASSUME NEW b \in Bindings, Releasing(b)
      PROVE  IInv'
  BY <1>2, KeepsReleaseBegins, KeepsReleaseSignalled DEF Releasing
<1>3. ASSUME NEW b \in Bindings, NEW v \in Vms, Recovering(b, v)
      PROVE  IInv'
  BY <1>3, KeepsRearm, KeepsRetire DEF Recovering
<1>4. ASSUME NEW c \in Completers, NEW v \in Vms, Finishing(c, v)
      PROVE  IInv'
  BY <1>4, KeepsFinishClear, KeepsFinishMark, KeepsFinishGone DEF Finishing
<1>5. ASSUME NEW v \in Vms, Guest(v)
      PROVE  IInv'
  BY <1>5, KeepsGuestAssigns, KeepsGuestRestored, KeepsGuestReleases,
     KeepsGuestArchives, KeepsGuestScrubs, KeepsGuestReports, KeepsGuestAnswered
     DEF Guest
<1>6. ASSUME NEW v \in Vms, Keep(v)
      PROVE  IInv'
  BY <1>6, KeepsFinishStopped, KeepsPowerOn, KeepsMarkIdle, KeepsPowerOff,
     KeepsScrubStopped, KeepsQuarantineDead, KeepsPurge DEF Keep
<1>7. ASSUME NEW v \in Vms, Grow(v) \/ Trim(v) \/ QuarantineAged(v)
      PROVE  IInv'
  BY <1>7, KeepsProvision, KeepsStartStopped, KeepsTrim, KeepsQuarantineAged
     DEF Grow
<1>8. CASE Failing
  BY <1>8, KeepsAssignTorn, KeepsAssignUndone, KeepsLeaseExpires,
     KeepsReleaseTorn, KeepsFinishTorn, KeepsGuestGivesUp, KeepsWatcherCrash,
     KeepsTrimReverts, KeepsPowerLoss, KeepsFinishUnconfirmed DEF Failing
<1>9. CASE UNCHANGED vars
  BY <1>9 DEF vars, session, labels, files, actors, IInv, TypeOK, KeyHasBinding,
     TasksNameVm, FreeHasNoOwner
<1>. QED  BY <1>1, <1>2, <1>3, <1>4, <1>5, <1>6, <1>7, <1>8, <1>9,
             KeepsBindingStarts, KeepsBindingEnds DEF Next

(* The invariant is inductive, from which everything else follows. *)
THEOREM Inductive == Spec => []IInv
BY InitEstablishes, StepKeepsInvariant, PTL DEF Spec

(* Every variable keeps its type: in particular no release generation passes
   MAX_RELEASE_GENERATION (retire_pool_vm_release). *)
THEOREM TypeCorrect == Spec => []TypeOK
<1>1. IInv => TypeOK
  BY DEF IInv
<1>. QED  BY Inductive, <1>1, PTL

-----------------------------------------------------------------------------
(* The labels implement VmOwnership: a step changes those of one VM at most,
   and in one of four ways. *)

Others(v) ==
  \A w \in Vms \ {v} : role'[w] = role[w] /\ owner'[w] = owner[w]

Moves(v) ==
  \/ /\ owner[v] = None /\ owner'[v] \in Bindings        \* taken
     /\ role'[v] = "assigned"
  \/ /\ role[v] = "assigned" /\ role'[v] # "assigned"    \* given back
     /\ owner'[v] = owner[v]
  \/ /\ owner[v] # None /\ owner'[v] = None              \* free
     /\ role'[v] # "assigned"
  \/ /\ owner'[v] = owner[v]                             \* neither
     /\ (role'[v] = "assigned") = (role[v] = "assigned")

LEMMA OneVmMoves ==
  ASSUME TypeOK, NEW v \in Vms, Others(v), Moves(v)
  PROVE  [Ownership!Next]_(Ownership!vars)
<1> DEFINE held == [w \in Vms |-> owner[w]]
           used == [w \in Vms |-> role[w] = "assigned"]
<1>1. CASE owner[v] = None /\ owner'[v] \in Bindings /\ role'[v] = "assigned"
  <2>1. held' = [held EXCEPT ![v] = owner'[v]] /\ used' = [used EXCEPT ![v] = TRUE]
    BY <1>1 DEF Others
  <2>. QED  BY <1>1, <2>1 DEF Ownership!Next, Ownership!Take
<1>2. CASE role[v] = "assigned" /\ role'[v] # "assigned" /\ owner'[v] = owner[v]
  <2>1. held' = held /\ used' = [used EXCEPT ![v] = FALSE]
    BY <1>2 DEF Others
  <2>. QED  BY <1>2, <2>1 DEF Ownership!Next, Ownership!GiveBack
<1>3. CASE owner[v] # None /\ owner'[v] = None /\ role'[v] # "assigned"
  <2>1. held' = [held EXCEPT ![v] = None] /\ used' = [used EXCEPT ![v] = FALSE]
    BY <1>3 DEF Others
  <2>. QED  BY <1>3, <2>1 DEF Ownership!Next, Ownership!Free
<1>4. CASE /\ owner'[v] = owner[v]
           /\ (role'[v] = "assigned") = (role[v] = "assigned")
  <2>1. held' = held /\ used' = used
    BY <1>4 DEF Others
  <2>. QED  BY <2>1 DEF Ownership!vars
<1>. QED  BY <1>1, <1>2, <1>3, <1>4 DEF Moves

LEMMA LabelsStay ==
  ASSUME UNCHANGED <<role, owner>>
  PROVE  [Ownership!Next]_(Ownership!vars)
BY DEF Ownership!vars

LEMMA StepImplements ==
  ASSUME IInv, Next
  PROVE  [Ownership!Next]_(Ownership!vars)
<1>. USE DEF IInv, Others, Moves
<1>1. ASSUME NEW v \in Vms, Delete(v)
      PROVE  [Ownership!Next]_(Ownership!vars)
  <2>1. Others(v) /\ owner'[v] = None /\ role'[v] = "absent"
    BY <1>1 DEF Delete, TypeOK
  <2>. QED  BY <2>1, OneVmMoves
<1>2. ASSUME NEW b \in Bindings, NEW v \in Vms, Claim(b, v)
      PROVE  [Ownership!Next]_(Ownership!vars)
  <2>1. owner[v] = None
    BY <1>2 DEF Claim, Idle, FreeHasNoOwner, Held
  <2>2. Others(v) /\ owner'[v] = b /\ role'[v] = "assigned"
    BY <1>2 DEF Claim, TypeOK
  <2>. QED  BY <2>1, <2>2, OneVmMoves
<1>3. ASSUME NEW b \in Bindings, AssignUndone(b)
      PROVE  [Ownership!Next]_(Ownership!vars)
  <2> DEFINE v == assign[b].vm
  <2>1. v \in Vms
    BY <1>3 DEF AssignUndone, TasksNameVm, TypeOK
  <2>2. CASE role[v] = "assigned"
    <3>1. Others(v) /\ owner'[v] = None /\ role'[v] = "idle"
      BY <1>3, <2>1, <2>2 DEF AssignUndone, TypeOK
    <3>. QED  BY <2>1, <2>2, <3>1, OneVmMoves
  <2>3. CASE role[v] # "assigned"
    BY <1>3, <2>3, LabelsStay DEF AssignUndone
  <2>. QED  BY <2>2, <2>3
<1>4. ASSUME NEW b \in Bindings, NEW v \in Vms, ReleaseBegins(b, v)
      PROVE  [Ownership!Next]_(Ownership!vars)
  <2>1. Others(v) /\ owner'[v] = owner[v] /\ role'[v] = "releasing"
    BY <1>4 DEF ReleaseBegins, TypeOK
  <2>. QED  BY <1>4, <2>1, OneVmMoves DEF ReleaseBegins
<1>5. ASSUME NEW c \in Completers, NEW v \in Vms, FinishMark(c, v)
      PROVE  [Ownership!Next]_(Ownership!vars)
  <2>1. CASE role[v] = "releasing"
    <3>1. Others(v) /\ owner'[v] = None /\ role'[v] = "idle"
      BY <1>5, <2>1 DEF FinishMark, TypeOK
    <3>. QED  BY <2>1, <3>1, OneVmMoves
  <2>2. CASE role[v] # "releasing"
    BY <1>5, <2>2, LabelsStay DEF FinishMark
  <2>. QED  BY <2>1, <2>2
<1>6. ASSUME NEW v \in Vms,
             \/ Provision(v) \/ StartStopped(v) \/ MarkIdle(v) \/ Trim(v)
             \/ TrimReverts(v) \/ ScrubStopped(v)
      PROVE  [Ownership!Next]_(Ownership!vars)
  <2>1. /\ Others(v) /\ owner'[v] = owner[v]
        /\ role[v] # "assigned" /\ role'[v] # "assigned"
    BY <1>6 DEF Provision, StartStopped, MarkIdle, Trim, TrimReverts, ScrubStopped,
       Idle, TypeOK
  <2>. QED  BY <2>1, OneVmMoves
<1>7. ASSUME NEW v \in Vms, Quarantined(v)
      PROVE  [Ownership!Next]_(Ownership!vars)
  <2>1. Others(v) /\ owner'[v] = owner[v] /\ role'[v] = "quarantined"
    BY <1>7 DEF Quarantined, TypeOK
  <2>. QED  BY <2>1, OneVmMoves
<1>8. ASSUME NEW b \in Bindings,
             \/ BindingStarts(b) \/ BindingEnds(b) \/ Assigning(b)
             \/ Releasing(b) \/ \E v \in Vms : Recovering(b, v)
      PROVE  [Ownership!Next]_(Ownership!vars)
  <2>1. CASE BindingStarts(b) \/ BindingEnds(b) \/ AssignBegins(b)
             \/ AssignRefused(b) \/ Attach(b) \/ AttachFails(b) \/ Configure(b)
             \/ ReleaseSignalled(b) \/ \E v \in Vms : Rearm(b, v)
    BY <2>1, LabelsStay DEF BindingStarts, BindingEnds, AssignBegins,
       AssignRefused, Attach, AttachFails, Configure, ReleaseSignalled, Rearm, labels
  <2>2. CASE \E v \in Vms : Retire(b, v)
    BY <1>1, <2>2 DEF Retire
  <2>. QED  BY <1>2, <1>4, <1>8, <2>1, <2>2 DEF Assigning, Releasing, Recovering
<1>9. ASSUME NEW c \in Completers, NEW v \in Vms, Finishing(c, v)
      PROVE  [Ownership!Next]_(Ownership!vars)
  <2>1. CASE FinishClear(c, v) \/ FinishGone(c, v)
    BY <2>1, LabelsStay DEF FinishClear, FinishGone, labels
  <2>. QED  BY <1>5, <1>9, <2>1 DEF Finishing
<1>10. ASSUME NEW v \in Vms, Guest(v)
       PROVE  [Ownership!Next]_(Ownership!vars)
  BY <1>10, LabelsStay DEF Guest, GuestAssigns, GuestRestored, GuestReleases,
     GuestArchives, GuestScrubs, GuestReports, GuestAnswered, guestOnly, labels
<1>11. ASSUME NEW v \in Vms, Keep(v)
       PROVE  [Ownership!Next]_(Ownership!vars)
  <2>1. CASE PowerOn(v) \/ PowerOff(v)
    BY <2>1, LabelsStay DEF PowerOn, PowerOff
  <2>2. CASE FinishStopped(v) \/ Purge(v)
    BY <1>1, <2>2 DEF FinishStopped, Purge
  <2>3. CASE QuarantineDead(v)
    BY <1>7, <2>3 DEF QuarantineDead
  <2>. QED  BY <1>6, <1>11, <2>1, <2>2, <2>3 DEF Keep
<1>12. CASE Failing
  <2>1. CASE \E b \in Bindings : AssignTorn(b) \/ LeaseExpires(b) \/ ReleaseTorn(b)
    BY <2>1, LabelsStay DEF AssignTorn, LeaseExpires, ReleaseTorn, labels
  <2>2. CASE \E c \in Completers, v \in Vms : FinishTorn(c, v)
    BY <2>2, LabelsStay DEF FinishTorn, labels
  <2>3. CASE \E v \in Vms : GuestGivesUp(v) \/ WatcherCrash(v) \/ PowerLoss(v)
                            \/ FinishUnconfirmed(v)
    BY <2>3, LabelsStay DEF GuestGivesUp, WatcherCrash, PowerLoss,
       FinishUnconfirmed, guestOnly, labels
  <2>. QED  BY <1>3, <1>6, <1>12, <2>1, <2>2, <2>3 DEF Failing
<1>. QED  BY <1>6, <1>7, <1>8, <1>9, <1>10, <1>11, <1>12
          DEF Next, Grow, QuarantineAged

(* A VM is held by at most one binding, is free before another one gets it, and
   is not taken into use again by the one that gave it back: for any number of
   VMs and bindings, and whatever fails (claim_idle_vm, _release_pool_vm,
   _complete_pool_vm_release, the sweepers and the scrub). *)
THEOREM LabelsImplementOwnership == Spec => HeldByOne
<1>1. Init => Ownership!Init
  <2> SUFFICES ASSUME Init
               PROVE  Ownership!Init
    OBVIOUS
  <2>1. \A v \in Vms : owner[v] = None /\ (role[v] = "assigned") = FALSE
    BY DEF Init
  <2>. QED  BY <2>1 DEF Ownership!Init
<1>2. IInv /\ [Next]_vars => [Ownership!Next]_(Ownership!vars)
  <2>1. CASE UNCHANGED vars
    BY <2>1, LabelsStay DEF vars, labels
  <2>. QED  BY <2>1, StepImplements
<1>. QED  BY <1>1, <1>2, Inductive, PTL DEF Spec, HeldByOne, Ownership!Spec
=============================================================================

---------------------------- MODULE PoolVmSafety ----------------------------
(***************************************************************************)
(* That VMs are clean when they are idle, that a session keeps its disk,   *)
(* and that archives are not mixed up: for any number of VMs, bindings,    *)
(* assistants, generations and failures.                                   *)
(*                                                                         *)
(* The invariant says who may still write a VM: as long as nobody has done *)
(* what was no longer due (tainted), only its owner's assignment and the   *)
(* completion of its owner's release do, and never both.  That rests on    *)
(* bindings that are gone: they have ended, and will not claim a VM again. *)
(***************************************************************************)
EXTENDS PoolVmProofs

Gone(b) == life[b] = "over" /\ assign[b].pc # "claim"
Works(b, v) == assign[b].pc \in {"attach", "configure"} /\ assign[b].vm = v

(* The watcher is in a release. *)
Cleaning(v) == guest[v].pc \in {"archiving", "scrubbing", "reporting", "waiting"}

-----------------------------------------------------------------------------
(* The invariant: of the bindings, ... *)

OneLive ==
  \A b, c \in Bindings :
    life[b] = "live" /\ life[c] = "live" /\ assistant[b] = assistant[c] => b = c

(* An assignment that has its lease is for a binding that has no VM yet. *)
LeaseKnows ==
  \A b \in Bindings :
    /\ b \in expired => assign[b].pc \in {"attach", "configure"}
    /\ assign[b].pc # "idle" => life[b] # "new"
    /\ assign[b].pc # "idle" /\ b \notin expired /\ life[b] = "live" => ref[b] = None

SessionInv == OneLive /\ LeaseKnows

(* ... of the labels and of what is done for a binding that ended, ... *)
OwnedInUse == \A v \in Vms : role[v] \in {"assigned", "releasing"} => owner[v] # None
OwnerGone == \A v \in Vms : role[v] = "releasing" => Gone(owner[v])
SignalForGone ==
  \A b \in Bindings : release[b].pc = "signal" =>
    Gone(b) /\ \A v \in Vms : release[b].vm = v /\ owner[v] = b => role[v] # "assigned"
FinishForGone ==
  \A c \in Completers, v \in Vms : finish[c][v].pc # "idle" =>
    finish[c][v].binding # None /\ Gone(finish[c][v].binding)
OffWhenOut == \A v \in Vms : role[v] \in {"absent", "quarantined"} => ~on[v]
LabelInv == OwnedInUse /\ OwnerGone /\ SignalForGone /\ FinishForGone /\ OffWhenOut

(* ... of the watcher, whatever it is told, ... *)
GuestKnows(v) ==
  /\ Cleaning(v) => guest[v].prev = None
  /\ guest[v].pc \in {"reporting", "waiting"} => guest[v].home = {}
  /\ guest[v].home # {} => guest[v].acked = NoToken
  /\ guest[v].prev # None => guest[v].prev \in guest[v].home
  /\ meta[v].key => meta[v].gen = 0
GuestInv == \A v \in Vms : GuestKnows(v)

(* ... and of a VM on which nobody has done what was no longer due. *)
Sound(v) == v \notin tainted /\ role[v] # "quarantined"

Tidy(v) ==
  /\ meta[v].binding \in {None, owner[v]}
  /\ \A a \in Assistants : disk[a] = v => owner[v] # None /\ a = assistant[owner[v]]
  /\ \A a \in guest[v].home : meta[v].binding # None /\ a = assistant[meta[v].binding]
  /\ role[v] = "assigned" /\ meta[v].binding # None => meta[v].key

(* Its owner's assignment comes before anything else. *)
Early(b, v) ==
  Works(b, v) /\ owner[v] = b =>
    /\ role[v] = "assigned" /\ b \notin expired /\ meta[v].binding = None
    /\ assign[b].pc = "attach" => \A a \in Assistants : disk[a] # v
    /\ assign[b].pc = "configure" /\ life[b] = "live" => disk[assistant[b]] = v

(* A release that is at work is its owner's, or is left over from one before. *)
Leftover(v) ==
  Cleaning(v) /\ guest[v].token.binding # None =>
    /\ Gone(guest[v].token.binding)
    /\ guest[v].token.binding = owner[v] => role[v] = "releasing" /\ ~meta[v].key

(* The completion of its owner's release finds the files gone. *)
Confirmed(c, v) ==
  finish[c][v].pc # "idle" /\ finish[c][v].binding = owner[v] =>
    /\ role[v] = "releasing" /\ ~meta[v].key /\ guest[v].home = {}
    /\ finish[c][v].pc = "mark" =>
         meta[v].binding = None /\ \A a \in Assistants : disk[a] # v

Local(v) ==
  Sound(v) =>
    /\ Tidy(v) /\ Leftover(v)
    /\ \A b \in Bindings : Early(b, v)
    /\ \A c \in Completers : Confirmed(c, v)
VmInv == \A v \in Vms : Local(v)

-----------------------------------------------------------------------------
(* The bindings: those that are gone stay so. *)

GoneStays == assistant' = assistant /\ \A b \in Bindings : Gone(b) => Gone(b)'

LEMMA SessionKept ==
  ASSUME IInv, SessionInv, Next
  PROVE  SessionInv' /\ GoneStays
<1>. USE DEF SessionInv, GoneStays, OneLive, LeaseKnows, Gone
<1>1. ASSUME UNCHANGED <<assistant, life, ref, assign, expired>>
      PROVE  SessionInv' /\ GoneStays
  BY <1>1
<1>2. ASSUME NEW b \in Bindings, BindingStarts(b)
      PROVE  SessionInv' /\ GoneStays
  BY <1>2 DEF BindingStarts, IInv, TypeOK, actors
<1>3. ASSUME NEW b \in Bindings, BindingEnds(b)
      PROVE  SessionInv' /\ GoneStays
  BY <1>3 DEF BindingEnds, IInv, TypeOK, actors
<1>4. ASSUME NEW b \in Bindings, AssignBegins(b)
      PROVE  SessionInv' /\ GoneStays
  <2>1. life[b] = "live" /\ life' = life /\ assistant' = assistant
    BY <1>4 DEF AssignBegins, Waiting
  <2>2. CASE /\ assign' = [assign EXCEPT ![b] = [pc |-> "claim", vm |-> None]]
             /\ expired' = expired \ {b} /\ ref' = ref
    BY <1>4, <2>1, <2>2 DEF AssignBegins, IInv, TypeOK, Waiting
  <2>3. CASE Recorded(b, disk[assistant[b]]) /\ UNCHANGED <<assign, expired>>
    <3>1. assign[b].pc = "idle" \/ b \in expired
      BY <1>4 DEF AssignBegins, LeaseFree
    <3>2. \A c \in Bindings \ {b} : ref'[c] = ref[c]
      BY <2>3 DEF Recorded, IInv, TypeOK
    <3>. QED  BY <2>1, <2>3, <3>1, <3>2
  <2>. QED  BY <1>4, <2>2, <2>3 DEF AssignBegins
<1>5. ASSUME NEW b \in Bindings, NEW v \in Vms, Claim(b, v)
      PROVE  SessionInv' /\ GoneStays
  BY <1>5 DEF Claim, IInv, TypeOK, session
<1>6. ASSUME NEW b \in Bindings, AssignEnds(b), UNCHANGED <<assistant, life>>,
             ref' = ref \/ Recorded(b, assign[b].vm)
      PROVE  SessionInv' /\ GoneStays
  BY <1>6 DEF AssignEnds, Recorded, NoTask, IInv, TypeOK
<1>7. ASSUME NEW b \in Bindings, Attach(b)
      PROVE  SessionInv' /\ GoneStays
  BY <1>7 DEF Attach, IInv, TypeOK, session
<1>8. ASSUME NEW b \in Bindings, LeaseExpires(b)
      PROVE  SessionInv' /\ GoneStays
  BY <1>8 DEF LeaseExpires, IInv, TypeOK, session
<1>9. ASSUME NEW b \in Bindings,
             AssignRefused(b) \/ AttachFails(b) \/ Configure(b) \/ AssignTorn(b)
             \/ AssignUndone(b)
      PROVE  SessionInv' /\ GoneStays
  BY <1>6, <1>9 DEF AssignRefused, AttachFails, Configure, AssignTorn, AssignUndone,
     session
<1>10. ASSUME NEW b \in Bindings, Releasing(b) \/ ReleaseTorn(b)
       PROVE  SessionInv' /\ GoneStays
  BY <1>1, <1>10 DEF Releasing, ReleaseBegins, ReleaseSignalled, ReleaseTorn, session
<1>11. ASSUME NEW v \in Vms, Delete(v)
       PROVE  SessionInv' /\ GoneStays
  BY <1>1, <1>11 DEF Delete, session, actors
<1>12. ASSUME NEW b \in Bindings, NEW v \in Vms, Recovering(b, v)
       PROVE  SessionInv' /\ GoneStays
  BY <1>1, <1>11, <1>12 DEF Recovering, Rearm, Retire, session, actors
<1>13. ASSUME NEW c \in Completers, NEW v \in Vms, Finishing(c, v) \/ FinishTorn(c, v)
       PROVE  SessionInv' /\ GoneStays
  BY <1>1, <1>13 DEF Finishing, FinishClear, FinishMark, FinishGone, FinishTorn, session
<1>14. ASSUME NEW v \in Vms, Guest(v) \/ GuestGivesUp(v) \/ WatcherCrash(v)
       PROVE  SessionInv' /\ GoneStays
  BY <1>1, <1>14 DEF Guest, GuestAssigns, GuestRestored, GuestReleases, GuestArchives,
     GuestScrubs, GuestReports, GuestAnswered, GuestGivesUp, WatcherCrash, guestOnly,
     session, actors
<1>15. ASSUME NEW v \in Vms,
              Keep(v) \/ Grow(v) \/ Trim(v) \/ QuarantineAged(v) \/ TrimReverts(v)
              \/ PowerLoss(v) \/ FinishUnconfirmed(v)
       PROVE  SessionInv' /\ GoneStays
  <2>1. CASE FinishStopped(v) \/ Purge(v)
    BY <1>11, <2>1 DEF FinishStopped, Purge
  <2>. QED  BY <1>1, <1>15, <2>1 DEF Keep, PowerOn, MarkIdle, PowerOff, ScrubStopped,
            QuarantineDead, Quarantined, Grow, Provision, StartStopped, Trim,
            QuarantineAged, TrimReverts, PowerLoss, FinishUnconfirmed, poolOnly,
            session, actors
<1>. QED  BY <1>2, <1>3, <1>4, <1>5, <1>7, <1>8, <1>9, <1>10, <1>12, <1>13, <1>14,
             <1>15 DEF Next, Assigning, Failing

-----------------------------------------------------------------------------
(* The labels, the signals and the completions: what any step does to them. *)

Labelled(w) ==
  \/ role'[w] = role[w] /\ owner'[w] = owner[w] /\ (on'[w] => on[w])
  \/ role'[w] \in {"provisioning", "starting", "idle", "stopped"}
  \/ role'[w] \in {"absent", "quarantined"} /\ ~on'[w]
  \/ role'[w] = "assigned" /\ owner'[w] \in Bindings /\ ~Gone(owner'[w])
  \/ role'[w] = "releasing" /\ owner'[w] \in Bindings /\ Gone(owner'[w])

Signalling(b) ==
  \/ release'[b] = release[b]
  \/ release'[b].pc = "idle"
  \/ Gone(b) /\ role'[release'[b].vm] = "releasing"

Completing(c, w) ==
  \/ finish'[c][w] = finish[c][w]
  \/ finish'[c][w].pc = "idle"
  \/ finish[c][w].pc # "idle" /\ finish'[c][w].binding = finish[c][w].binding
  \/ role[w] = "releasing" /\ finish'[c][w].binding = owner[w]

Moving ==
  /\ \A w \in Vms : Labelled(w)
  /\ \A b \in Bindings : Signalling(b)
  /\ \A c \in Completers, w \in Vms : Completing(c, w)

LEMMA FinishEndsAt ==
  ASSUME IInv, NEW c \in Completers, NEW v \in Vms, FinishEnds(c, v)
  PROVE  /\ finish'[c][v] = NoFinish
         /\ \A d \in Completers, w \in Vms :
              d # c \/ w # v => finish'[d][w] = finish[d][w]
BY DEF FinishEnds, IInv, TypeOK

LEMMA StepMoves ==
  ASSUME IInv, SessionInv, LabelInv, Next
  PROVE  Moving
<1>. USE DEF Moving, Labelled, Signalling, Completing
<1>1. ASSUME UNCHANGED <<labels, release, finish>>
      PROVE  Moving
  BY <1>1 DEF labels
<1>2. ASSUME NEW v \in Vms, Delete(v)
      PROVE  Moving
  BY <1>2 DEF Delete, IInv, TypeOK, actors
<1>3. ASSUME NEW v \in Vms, Quarantined(v)
      PROVE  Moving
  BY <1>3 DEF Quarantined, IInv, TypeOK, poolOnly, actors
<1>4. ASSUME NEW b \in Bindings,
             BindingStarts(b) \/ BindingEnds(b) \/ AssignBegins(b) \/ AssignRefused(b)
             \/ Attach(b) \/ AttachFails(b) \/ Configure(b) \/ AssignTorn(b)
             \/ LeaseExpires(b)
      PROVE  Moving
  BY <1>1, <1>4 DEF BindingStarts, BindingEnds, AssignBegins, AssignRefused, Attach,
     AttachFails, Configure, AssignTorn, LeaseExpires, actors
<1>5. ASSUME NEW b \in Bindings, NEW v \in Vms, Claim(b, v)
      PROVE  Moving
  BY <1>5 DEF Claim, IInv, TypeOK, Gone
<1>6. ASSUME NEW b \in Bindings, AssignUndone(b)
      PROVE  Moving
  BY <1>6 DEF AssignUndone, IInv, TypeOK, TasksNameVm
<1>7. ASSUME NEW b \in Bindings, NEW v \in Vms, ReleaseBegins(b, v)
      PROVE  Moving
  <2>1. Gone(b)
    BY <1>7 DEF ReleaseBegins, LeaseFree, Gone, SessionInv, LeaseKnows
  <2>. QED  BY <1>7, <2>1 DEF ReleaseBegins, IInv, TypeOK
<1>8. ASSUME NEW b \in Bindings, ReleaseSignalled(b) \/ ReleaseTorn(b)
      PROVE  Moving
  BY <1>8 DEF ReleaseSignalled, ReleaseTorn, NoTask, labels, IInv, TypeOK
<1>9. ASSUME NEW b \in Bindings, NEW v \in Vms, Recovering(b, v)
      PROVE  Moving
  BY <1>1, <1>2, <1>9 DEF Recovering, Rearm, Retire, actors
<1>10. ASSUME NEW c \in Completers, NEW v \in Vms, FinishClear(c, v)
       PROVE  Moving
  <2>1. /\ finish'[c][v].binding = finish[c][v].binding /\ finish[c][v].pc # "idle"
        /\ \A d \in Completers, w \in Vms :
             d # c \/ w # v => finish'[d][w] = finish[d][w]
    BY <1>10 DEF FinishClear, IInv, TypeOK
  <2>. QED  BY <1>10, <2>1 DEF FinishClear, labels
<1>11. ASSUME NEW c \in Completers, NEW v \in Vms,
              FinishMark(c, v) \/ FinishGone(c, v) \/ FinishTorn(c, v)
       PROVE  Moving
  <2>1. \A d \in Completers, w \in Vms : Completing(d, w)
    BY <1>11, FinishEndsAt DEF FinishMark, FinishGone, FinishTorn, NoFinish
  <2>2. \A w \in Vms : Labelled(w)
    BY <1>11 DEF FinishMark, FinishGone, FinishTorn, IInv, TypeOK, labels
  <2>. QED  BY <1>11, <2>1, <2>2 DEF FinishMark, FinishGone, FinishTorn
<1>12. ASSUME NEW v \in Vms, FinishUnconfirmed(v)
       PROVE  Moving
  <2>1. \A d \in Completers, w \in Vms : Completing(d, w)
    BY <1>12 DEF FinishUnconfirmed, IInv, TypeOK, Completers
  <2>. QED  BY <1>12, <2>1 DEF FinishUnconfirmed, labels
<1>13. ASSUME NEW v \in Vms, GuestReports(v)
       PROVE  Moving
  <2>1. \A d \in Completers, w \in Vms : Completing(d, w)
    BY <1>13 DEF GuestReports, IInv, TypeOK, Completers
  <2>. QED  BY <1>13, <2>1 DEF GuestReports, labels
<1>14. ASSUME NEW v \in Vms, Guest(v) \/ GuestGivesUp(v) \/ WatcherCrash(v)
       PROVE  Moving
  BY <1>1, <1>13, <1>14 DEF Guest, GuestAssigns, GuestRestored, GuestReleases,
     GuestArchives, GuestScrubs, GuestAnswered, GuestGivesUp, WatcherCrash, guestOnly,
     actors
<1>15. ASSUME NEW v \in Vms,
              Provision(v) \/ StartStopped(v) \/ PowerOn(v) \/ MarkIdle(v) \/ Trim(v)
              \/ PowerOff(v) \/ TrimReverts(v) \/ ScrubStopped(v) \/ PowerLoss(v)
       PROVE  Moving
  BY <1>15 DEF Provision, StartStopped, PowerOn, MarkIdle, Trim, PowerOff, TrimReverts,
     ScrubStopped, PowerLoss, poolOnly, actors, IInv, TypeOK
<1>. QED  BY <1>2, <1>3, <1>4, <1>5, <1>6, <1>7, <1>8, <1>9, <1>10, <1>11, <1>12,
             <1>14, <1>15
          DEF Next, Assigning, Releasing, Finishing, Keep, FinishStopped, Purge,
             QuarantineDead, Grow, QuarantineAged, Failing

LEMMA LabelsKept ==
  ASSUME IInv, IInv', LabelInv, Moving, GoneStays
  PROVE  LabelInv'
<1>. USE DEF LabelInv
<1>1. OwnedInUse'
  BY NoneAssumption DEF Moving, Labelled, OwnedInUse
<1>2. OwnerGone'
  <2> SUFFICES ASSUME NEW w \in Vms, role'[w] = "releasing"
               PROVE  Gone(owner[w])'
    BY DEF OwnerGone
  <2>1. Labelled(w)
    BY DEF Moving
  <2>2. owner'[w] \in Bindings /\ Gone(owner'[w])
    BY <2>1 DEF Labelled, OwnedInUse, OwnerGone, IInv, TypeOK
  <2>. QED  BY <2>2 DEF GoneStays, Gone
<1>3. SignalForGone'
  <2> SUFFICES ASSUME NEW b \in Bindings, release'[b].pc = "signal"
               PROVE  /\ Gone(b)'
                      /\ \A w \in Vms : release'[b].vm = w /\ owner'[w] = b
                                          => role'[w] # "assigned"
    BY DEF SignalForGone
  <2>1. Gone(b)
    BY DEF Moving, Signalling, SignalForGone
  <2>2. ASSUME NEW w \in Vms, release'[b].vm = w, owner'[w] = b, role'[w] = "assigned"
        PROVE  FALSE
    <3>1. release'[b] = release[b]
      BY <2>2 DEF Moving, Signalling
    <3>2. role[w] = "assigned" /\ owner[w] = b
      BY <2>1, <2>2 DEF Moving, Labelled
    <3>. QED  BY <2>2, <3>1, <3>2 DEF SignalForGone
  <2>. QED  BY <2>1, <2>2 DEF GoneStays
<1>4. FinishForGone'
  <2> SUFFICES ASSUME NEW c \in Completers, NEW w \in Vms, finish'[c][w].pc # "idle"
               PROVE  finish'[c][w].binding # None /\ Gone(finish[c][w].binding)'
    BY DEF FinishForGone
  <2>1. Completing(c, w)
    BY DEF Moving
  <2>2. finish'[c][w].binding # None /\ Gone(finish'[c][w].binding)
    BY <2>1 DEF Completing, FinishForGone, OwnedInUse, OwnerGone
  <2>3. finish'[c][w].binding \in Bindings
    BY <2>2 DEF IInv, TypeOK
  <2>. QED  BY <2>2, <2>3 DEF GoneStays, Gone
<1>5. OffWhenOut'
  BY DEF Moving, Labelled, OffWhenOut
<1>. QED  BY <1>1, <1>2, <1>3, <1>4, <1>5

-----------------------------------------------------------------------------
(* The watcher: what each of its steps makes of its fields. *)

OtherGuests(v) == \A w \in Vms \ {v} : guest'[w] = guest[w]

LEMMA AssignsMakes ==
  ASSUME IInv, NEW v \in Vms, GuestAssigns(v)
  PROVE  /\ guest'[v].pc = "restoring" /\ guest'[v].prev = CurrentKey(v)
         /\ guest'[v].home = guest[v].home \cup {CurrentKey(v)}
         /\ guest'[v].acked = NoToken /\ OtherGuests(v)
<1>1. guest[v] \in GuestType
  BY DEF IInv, TypeOK
<1>. QED  BY <1>1 DEF GuestAssigns, GuestType, IInv, TypeOK, OtherGuests

LEMMA RestoredMakes ==
  ASSUME IInv, NEW v \in Vms, GuestRestored(v)
  PROVE  /\ guest'[v].pc = "watch" /\ guest'[v].prev = guest[v].prev
         /\ guest'[v].home = guest[v].home /\ guest'[v].acked = guest[v].acked
         /\ OtherGuests(v)
<1>1. guest[v] \in GuestType
  BY DEF IInv, TypeOK
<1>. QED  BY <1>1 DEF GuestRestored, GuestType, IInv, TypeOK, OtherGuests

LEMMA ReleasesMakes ==
  ASSUME IInv, NEW v \in Vms, GuestReleases(v)
  PROVE  /\ guest'[v].pc = "archiving" /\ guest'[v].prev = None
         /\ guest'[v].home = guest[v].home /\ guest'[v].acked = guest[v].acked
         /\ guest'[v].token = Token(v) /\ OtherGuests(v)
<1>1. guest[v] \in GuestType
  BY DEF IInv, TypeOK
<1>. QED  BY <1>1 DEF GuestReleases, GuestType, IInv, TypeOK, OtherGuests

LEMMA ArchivesMakes ==
  ASSUME IInv, NEW v \in Vms, GuestArchives(v)
  PROVE  /\ guest'[v].pc = "scrubbing" /\ guest'[v].prev = guest[v].prev
         /\ guest'[v].home = guest[v].home /\ guest'[v].acked = guest[v].acked
         /\ guest'[v].token = guest[v].token /\ OtherGuests(v)
<1>1. guest[v] \in GuestType
  BY DEF IInv, TypeOK
<1>. QED  BY <1>1 DEF GuestArchives, GuestType, IInv, TypeOK, OtherGuests

LEMMA ScrubsMakes ==
  ASSUME IInv, NEW v \in Vms, GuestScrubs(v)
  PROVE  /\ guest'[v].pc = "reporting" /\ guest'[v].prev = guest[v].prev
         /\ guest'[v].home = {} /\ guest'[v].acked = guest[v].acked
         /\ guest'[v].token = guest[v].token /\ OtherGuests(v)
<1>1. guest[v] \in GuestType
  BY DEF IInv, TypeOK
<1>. QED  BY <1>1 DEF GuestScrubs, GuestType, IInv, TypeOK, OtherGuests

LEMMA DoneMakes ==
  ASSUME IInv, NEW v \in Vms, NEW token, GuestDone(v, token)
  PROVE  /\ guest'[v].pc = "watch" /\ guest'[v].prev = guest[v].prev
         /\ guest'[v].home = guest[v].home /\ OtherGuests(v)
<1>1. guest[v] \in GuestType
  BY DEF IInv, TypeOK
<1>. QED  BY <1>1 DEF GuestDone, GuestType, IInv, TypeOK, OtherGuests

LEMMA WaitsMakes ==
  ASSUME IInv, NEW v \in Vms, guest' = [guest EXCEPT ![v].pc = "waiting"]
  PROVE  /\ guest'[v].pc = "waiting" /\ guest'[v].prev = guest[v].prev
         /\ guest'[v].home = guest[v].home /\ guest'[v].acked = guest[v].acked
         /\ guest'[v].token = guest[v].token /\ OtherGuests(v)
<1>1. guest[v] \in GuestType
  BY DEF IInv, TypeOK
<1>. QED  BY <1>1 DEF GuestType, IInv, TypeOK, OtherGuests

LEMMA RestartedMakes ==
  ASSUME IInv, NEW v \in Vms, Restarted(v)
  PROVE  /\ guest'[v].pc = "watch" /\ guest'[v].prev = None
         /\ guest'[v].home = guest[v].home /\ guest'[v].acked = guest[v].acked
         /\ OtherGuests(v)
<1>1. guest[v] \in GuestType
  BY DEF IInv, TypeOK
<1>. QED  BY <1>1 DEF Restarted, GuestType, IInv, TypeOK, OtherGuests

LEMMA DeleteMakes ==
  ASSUME IInv, NEW v \in Vms, Delete(v)
  PROVE  /\ role'[v] = "absent" /\ owner'[v] = None /\ meta'[v] = NoMeta
         /\ guest'[v] = NewGuest /\ OtherGuests(v)
         /\ \A w \in Vms \ {v} : /\ role'[w] = role[w] /\ owner'[w] = owner[w]
                                 /\ meta'[w] = meta[w]
                                 /\ w \in tainted' <=> w \in tainted
         /\ disk' = DetachedFrom(v) /\ UNCHANGED <<session, actors>>
BY DEF Delete, IInv, TypeOK, OtherGuests

(* ... and of the metadata. *)
OtherMeta(v) == \A w \in Vms \ {v} : meta'[w] = meta[w]

LEMMA SignalledMakes ==
  ASSUME IInv, NEW v \in Vms, NEW gen \in 0..MaxGeneration, Signalled(v, gen)
  PROVE  /\ meta'[v].key = FALSE /\ meta'[v].binding = meta[v].binding /\ OtherMeta(v)
<1>1. meta[v] \in MetaType
  BY DEF IInv, TypeOK
<1>. QED  BY <1>1 DEF Signalled, MetaType, IInv, TypeOK, OtherMeta

LEMMA GuestKept ==
  ASSUME IInv, GuestInv, Next
  PROVE  GuestInv'
<1>. USE DEF GuestKnows, Cleaning
<1>1. ASSUME UNCHANGED <<guest, meta>>
      PROVE  GuestInv'
  BY <1>1 DEF GuestInv
<1>2. ASSUME NEW v \in Vms, OtherGuests(v), OtherMeta(v), GuestKnows(v)'
      PROVE  GuestInv'
  BY <1>2 DEF GuestInv, OtherGuests, OtherMeta
<1>3. ASSUME NEW v \in Vms, Delete(v)
      PROVE  GuestInv'
  BY <1>2, <1>3, DeleteMakes DEF NewGuest, NoMeta, OtherMeta
<1>4. ASSUME NEW v \in Vms, Restarted(v), meta' = meta
      PROVE  GuestInv'
  BY <1>2, <1>4, RestartedMakes DEF GuestInv, OtherMeta
<1>5. ASSUME NEW v \in Vms, NEW gen \in 0..MaxGeneration, Signalled(v, gen),
             guest' = guest
      PROVE  GuestInv'
  BY <1>2, <1>5, SignalledMakes DEF GuestInv, OtherGuests
<1>6. ASSUME NEW v \in Vms, guest[v].pc \in {"reporting", "waiting"}, meta' = meta,
             NEW token, GuestDone(v, token)
      PROVE  GuestInv'
  BY <1>2, <1>6, DoneMakes DEF GuestInv, OtherMeta
<1>7. ASSUME NEW b \in Bindings, Assigning(b)
      PROVE  GuestInv'
  <2>1. CASE Configure(b)
    <3>1. assign[b].vm \in Vms
      BY <2>1 DEF Configure, IInv, TypeOK, TasksNameVm
    <3>2. meta'[assign[b].vm].gen = 0 /\ OtherMeta(assign[b].vm) /\ guest' = guest
      BY <2>1, <3>1 DEF Configure, OtherMeta, IInv, TypeOK
    <3>. QED  BY <1>2, <3>1, <3>2 DEF GuestInv, OtherGuests
  <2>. QED  BY <1>1, <1>7, <2>1 DEF Assigning, AssignBegins, Claim, AssignRefused, Attach,
            AttachFails
<1>8. ASSUME NEW b \in Bindings, Releasing(b)
      PROVE  GuestInv'
  <2>1. CASE ReleaseSignalled(b)
    <3>1. release[b].vm \in Vms /\ 1 \in 0..MaxGeneration
      BY <2>1, BoundsAssumption DEF ReleaseSignalled, IInv, TypeOK, TasksNameVm
    <3>. QED  BY <1>1, <1>5, <2>1, <3>1 DEF ReleaseSignalled
  <2>. QED  BY <1>1, <1>8, <2>1 DEF Releasing, ReleaseBegins
<1>9. ASSUME NEW b \in Bindings, NEW v \in Vms, Recovering(b, v)
      PROVE  GuestInv'
  <2>1. CASE Rearm(b, v)
    <3>1. meta[v].gen + 1 \in 0..MaxGeneration
      BY <2>1, BoundsAssumption DEF Rearm, IInv, TypeOK, MetaType
    <3>. QED  BY <1>5, <2>1, <3>1 DEF Rearm
  <2>. QED  BY <1>3, <1>9, <2>1 DEF Recovering, Retire
<1>10. ASSUME NEW c \in Completers, NEW v \in Vms, Finishing(c, v)
       PROVE  GuestInv'
  <2>1. CASE FinishClear(c, v)
    <3>1. ~meta'[v].key /\ OtherMeta(v) /\ guest' = guest
      BY <2>1 DEF FinishClear, OtherMeta, NoMeta, IInv, TypeOK
    <3>. QED  BY <1>2, <3>1 DEF GuestInv, OtherGuests
  <2>. QED  BY <1>1, <1>10, <2>1 DEF Finishing, FinishMark, FinishGone
<1>11. ASSUME NEW v \in Vms, Guest(v)
       PROVE  GuestInv'
  <2>1. meta' = meta /\ OtherMeta(v) /\ GuestKnows(v)
    BY <1>11 DEF Guest, GuestAssigns, GuestRestored, GuestReleases, GuestArchives,
       GuestScrubs, GuestReports, GuestAnswered, guestOnly, OtherMeta, GuestInv
  <2>2. CASE GuestAssigns(v)
    BY <1>2, <2>1, <2>2, AssignsMakes
  <2>3. CASE GuestRestored(v)
    BY <1>2, <2>1, <2>3, RestoredMakes
  <2>4. CASE GuestReleases(v)
    BY <1>2, <2>1, <2>4, ReleasesMakes
  <2>5. CASE GuestArchives(v)
    BY <1>2, <2>1, <2>5, ArchivesMakes DEF GuestArchives
  <2>6. CASE GuestScrubs(v)
    BY <1>2, <2>1, <2>6, ScrubsMakes DEF GuestScrubs
  <2>7. CASE GuestReports(v)
    <3>1. guest[v].pc = "reporting"
      BY <2>7 DEF GuestReports
    <3>2. CASE guest' = [guest EXCEPT ![v].pc = "waiting"]
      BY <1>2, <2>1, <3>1, <3>2, WaitsMakes
    <3>. QED  BY <1>6, <2>1, <2>7, <3>1, <3>2 DEF GuestReports
  <2>8. CASE GuestAnswered(v)
    BY <1>6, <2>1, <2>8 DEF GuestAnswered
  <2>. QED  BY <1>11, <2>2, <2>3, <2>4, <2>5, <2>6, <2>7, <2>8 DEF Guest
<1>12. ASSUME NEW v \in Vms, Keep(v) \/ Grow(v) \/ Trim(v) \/ QuarantineAged(v)
       PROVE  GuestInv'
  BY <1>1, <1>3, <1>4, <1>12 DEF Keep, FinishStopped, PowerOn, MarkIdle, PowerOff,
     ScrubStopped, QuarantineDead, Quarantined, Purge, Grow, Provision, StartStopped,
     Trim, QuarantineAged, poolOnly
<1>13. CASE Failing
  <2>1. ASSUME NEW v \in Vms, GuestGivesUp(v)
        PROVE  GuestInv'
    BY <1>6, <2>1 DEF GuestGivesUp, guestOnly
  <2>2. ASSUME NEW v \in Vms, WatcherCrash(v) \/ PowerLoss(v)
        PROVE  GuestInv'
    BY <1>4, <2>2 DEF WatcherCrash, PowerLoss, guestOnly, poolOnly
  <2>. QED  BY <1>1, <1>13, <2>1, <2>2 DEF Failing, AssignTorn, AssignUndone,
            LeaseExpires, ReleaseTorn, FinishTorn, TrimReverts, poolOnly,
            FinishUnconfirmed
<1>14. ASSUME NEW b \in Bindings, BindingStarts(b) \/ BindingEnds(b)
       PROVE  GuestInv'
  BY <1>1, <1>14 DEF BindingStarts, BindingEnds
<1>. QED  BY <1>7, <1>8, <1>9, <1>10, <1>11, <1>12, <1>13, <1>14 DEF Next

-----------------------------------------------------------------------------
(* A VM that a step has nothing to do with, or does no harm to: it only gives up. *)

Undisturbed(w) ==
  /\ \A a \in Assistants : disk'[a] = w => disk[a] = w
  /\ \A b \in Bindings : Works(b, w)' =>
       /\ Works(b, w) /\ assign'[b].pc = assign[b].pc
       /\ b \in expired' => b \in expired
       /\ life'[b] = "live" =>
            life[b] = "live" /\ (disk[assistant[b]] = w => disk'[assistant[b]] = w)

Steady(w) ==
  w \notin tainted' /\ role'[w] # "quarantined" =>
    /\ w \notin tainted /\ role[w] # "quarantined"
    /\ owner'[w] = owner[w] /\ meta'[w] = meta[w]
    /\ role'[w] = role[w] \/ (role[w] \notin Held /\ role'[w] \notin Held)
    /\ guest'[w].home \subseteq guest[w].home
    /\ Cleaning(w)' =>
         Cleaning(w) /\ guest'[w].token.binding = guest[w].token.binding
    /\ \A c \in Completers : finish'[c][w] = finish[c][w] \/ finish'[c][w].pc = "idle"
    /\ Undisturbed(w)

LEMMA SteadyKeeps ==
  ASSUME IInv, IInv', LabelInv, GoneStays, NEW w \in Vms, Local(w), Steady(w)
  PROVE  Local(w)'
<1> SUFFICES ASSUME Sound(w)'
             PROVE  /\ Tidy(w)' /\ Leftover(w)'
                    /\ \A b \in Bindings : Early(b, w)'
                    /\ \A c \in Completers : Confirmed(c, w)'
  BY DEF Local
<1>1. /\ Sound(w) /\ Tidy(w) /\ Leftover(w)
      /\ \A b \in Bindings : Early(b, w)
      /\ \A c \in Completers : Confirmed(c, w)
  BY DEF Local, Steady, Sound
<1>2. role'[w] = role[w]
      \/ (role[w] \notin Held /\ role'[w] \notin Held /\ owner[w] = None)
  BY DEF Steady, Sound, IInv, FreeHasNoOwner
<1>3. /\ owner'[w] = owner[w] /\ meta'[w] = meta[w] /\ assistant' = assistant
      /\ guest'[w].home \subseteq guest[w].home /\ Undisturbed(w)
  BY DEF Steady, Sound, GoneStays
<1>4. Tidy(w)'
  BY <1>1, <1>2, <1>3 DEF Tidy, Undisturbed, Held
<1>5. Leftover(w)'
  <2> SUFFICES ASSUME Cleaning(w)', guest'[w].token.binding # None
               PROVE  /\ Gone(guest[w].token.binding)'
                      /\ guest'[w].token.binding = owner[w]
                           => role'[w] = "releasing" /\ ~meta[w].key
    BY <1>3 DEF Leftover
  <2>1. Cleaning(w) /\ guest'[w].token.binding = guest[w].token.binding
    BY DEF Steady, Sound
  <2>2. guest'[w].token.binding \in Bindings
    BY DEF IInv, TypeOK, GuestType, TokenType
  <2>3. Gone(guest'[w].token.binding)
    BY <1>1, <2>1 DEF Leftover
  <2>4. Gone(guest[w].token.binding)'
    BY <2>2, <2>3 DEF GoneStays, Gone
  <2>. QED  BY <1>1, <1>2, <2>1, <2>4 DEF Leftover
<1>6. ASSUME NEW b \in Bindings
      PROVE  Early(b, w)'
  <2> SUFFICES ASSUME Works(b, w)', owner[w] = b
               PROVE  Early(b, w)'
    BY <1>3 DEF Early
  <2>1. role'[w] = role[w]
    BY <1>2, NoneAssumption
  <2>. QED  BY <1>1, <1>3, <2>1 DEF Early, Undisturbed
<1>7. ASSUME NEW c \in Completers
      PROVE  Confirmed(c, w)'
  <2> SUFFICES ASSUME finish'[c][w].pc # "idle", finish'[c][w].binding = owner[w]
               PROVE  Confirmed(c, w)'
    BY <1>3 DEF Confirmed
  <2>1. finish'[c][w] = finish[c][w]
    BY DEF Steady, Sound
  <2>2. role'[w] = role[w]
    BY <1>2, <2>1 DEF LabelInv, FinishForGone
  <2>. QED  BY <1>1, <1>3, <2>1, <2>2 DEF Confirmed, Undisturbed
<1>. QED  BY <1>4, <1>5, <1>6, <1>7

SameVm(w) ==
  /\ role'[w] = role[w] /\ owner'[w] = owner[w] /\ meta'[w] = meta[w]
  /\ guest'[w] = guest[w] /\ (w \in tainted => w \in tainted')
  /\ \A c \in Completers : finish'[c][w] = finish[c][w]

LEMMA SameSteady ==
  ASSUME NEW w \in Vms, SameVm(w), Undisturbed(w)
  PROVE  Steady(w)
BY DEF Steady, SameVm, Cleaning

LEMMA NothingDisturbs ==
  ASSUME UNCHANGED <<life, disk, assign, expired>>
  PROVE  \A w \in Vms : Undisturbed(w)
BY DEF Undisturbed, Works

(* The steps of bindings and workers that disturb no VM. *)
LEMMA SessionSteady ==
  ASSUME IInv, SessionInv, NEW b \in Bindings,
         BindingStarts(b) \/ BindingEnds(b) \/ AssignBegins(b) \/ AssignRefused(b)
         \/ AttachFails(b) \/ AssignTorn(b) \/ LeaseExpires(b) \/ ReleaseTorn(b)
  PROVE  \A w \in Vms : Steady(w)
<1>1. ASSUME UNCHANGED <<labels, meta, guest, finish, tainted>>,
             \A w \in Vms : Undisturbed(w)
      PROVE  \A w \in Vms : Steady(w)
  BY <1>1, SameSteady DEF SameVm, labels
<1>2. CASE BindingStarts(b) \/ BindingEnds(b)
  <2>1. UNCHANGED <<disk, assign, expired>>
    BY <1>2 DEF BindingStarts, BindingEnds, actors, files
  <2>2. \A c \in Bindings : life[c] # "new" /\ life'[c] = "live" => life[c] = "live"
    BY <1>2 DEF BindingStarts, BindingEnds, IInv, TypeOK
  <2>3. \A w \in Vms : Undisturbed(w)
    BY <2>1, <2>2 DEF Undisturbed, Works, SessionInv, LeaseKnows
  <2>. QED  BY <1>1, <1>2, <2>3 DEF BindingStarts, BindingEnds, actors
<1>3. CASE AssignBegins(b)
  <2>1. /\ life[b] = "live" /\ life' = life
        /\ \A c \in Bindings : c \in expired' => c \in expired
    BY <1>3 DEF AssignBegins, Waiting
  <2>2. ASSUME disk' = [disk EXCEPT ![assistant[b]] = None],
               assign' = [assign EXCEPT ![b] = [pc |-> "claim", vm |-> None]]
        PROVE  \A w \in Vms : Undisturbed(w)
    <3>1. \A c \in Bindings \ {b} : assign'[c] = assign[c]
      BY <2>2 DEF IInv, TypeOK
    <3>2. assign'[b].pc = "claim"
      BY <2>2 DEF IInv, TypeOK
    <3>3. \A c \in Bindings \ {b} :
            life[c] = "live" => disk'[assistant[c]] = disk[assistant[c]]
      BY <2>1, <2>2 DEF SessionInv, OneLive, IInv, TypeOK
    <3>4. \A a \in Assistants : disk'[a] # None => disk'[a] = disk[a]
      BY <2>2 DEF IInv, TypeOK
    <3>. QED  BY <2>1, <3>1, <3>2, <3>3, <3>4, NoneAssumption DEF Undisturbed, Works
  <2>3. ASSUME UNCHANGED <<disk, assign>>
        PROVE  \A w \in Vms : Undisturbed(w)
    BY <2>1, <2>3 DEF Undisturbed, Works
  <2>4. \A w \in Vms : Undisturbed(w)
    BY <1>3, <2>2, <2>3 DEF AssignBegins
  <2>. QED  BY <1>1, <1>3, <2>4 DEF AssignBegins
<1>4. CASE AssignRefused(b) \/ AttachFails(b) \/ AssignTorn(b)
  <2>1. /\ UNCHANGED <<life, disk>> /\ AssignEnds(b)
        /\ UNCHANGED <<labels, meta, guest, finish, tainted>>
    BY <1>4 DEF AssignRefused, AttachFails, AssignTorn, session, files
  <2>2. \A w \in Vms : Undisturbed(w)
    BY <2>1 DEF AssignEnds, NoTask, Undisturbed, Works, IInv, TypeOK
  <2>. QED  BY <1>1, <2>1, <2>2
<1>5. CASE LeaseExpires(b)
  <2>1. /\ UNCHANGED <<life, disk, assign>> /\ expired' = expired \cup {b}
        /\ tainted' = tainted \cup {assign[b].vm}
        /\ UNCHANGED <<labels, meta, guest, finish>>
    BY <1>5 DEF LeaseExpires, session, files
  <2>2. ASSUME NEW w \in Vms, w # assign[b].vm
        PROVE  Steady(w)
    <3>1. Undisturbed(w)
      BY <2>1, <2>2 DEF Undisturbed, Works
    <3>. QED  BY <2>1, <3>1, SameSteady DEF SameVm, labels
  <2>3. ASSUME NEW w \in Vms, w = assign[b].vm
        PROVE  Steady(w)
    BY <2>1, <2>3 DEF Steady
  <2>. QED  BY <2>2, <2>3
<1>6. CASE ReleaseTorn(b)
  <2>1. UNCHANGED <<life, disk, assign, expired>>
    BY <1>6 DEF ReleaseTorn, session, files
  <2>. QED  BY <1>1, <1>6, <2>1, NothingDisturbs DEF ReleaseTorn
<1>. QED  BY <1>2, <1>3, <1>4, <1>5, <1>6

(* The steps of a VM, of its completions and of its watcher that do it no harm. *)
LEMMA VmSteady ==
  ASSUME IInv, NEW v \in Vms,
         \/ \E c \in Completers : FinishGone(c, v) \/ FinishTorn(c, v)
         \/ GuestRestored(v) \/ GuestArchives(v) \/ GuestScrubs(v) \/ GuestAnswered(v)
         \/ GuestGivesUp(v) \/ WatcherCrash(v)
         \/ GuestReports(v) /\ finish' = finish
         \/ Provision(v) \/ StartStopped(v) \/ PowerOn(v) \/ MarkIdle(v) \/ Trim(v)
         \/ PowerOff(v) \/ TrimReverts(v) \/ ScrubStopped(v) \/ PowerLoss(v)
         \/ Quarantined(v)
  PROVE  \A w \in Vms : Steady(w)
<1>1. UNCHANGED <<life, disk, assign, expired>>
  BY DEF FinishGone, FinishTorn, GuestRestored, GuestArchives, GuestScrubs,
     GuestAnswered, GuestGivesUp, WatcherCrash, GuestReports, Provision, StartStopped,
     PowerOn, MarkIdle, Trim, PowerOff, TrimReverts, ScrubStopped, PowerLoss,
     Quarantined, guestOnly, poolOnly, session, files, actors
<1>2. \A w \in Vms : Undisturbed(w)
  BY <1>1, NothingDisturbs
<1>3. CASE \E c \in Completers : FinishGone(c, v) \/ FinishTorn(c, v)
  <2>1. PICK c \in Completers : FinishGone(c, v) \/ FinishTorn(c, v)
    BY <1>3
  <2>2. \A d \in Completers, w \in Vms :
          finish'[d][w] = finish[d][w] \/ finish'[d][w].pc = "idle"
    BY <2>1, FinishEndsAt DEF FinishGone, FinishTorn, NoFinish
  <2>3. UNCHANGED <<labels, meta, guest, tainted>>
    BY <2>1 DEF FinishGone, FinishTorn
  <2>. QED  BY <1>2, <2>2, <2>3 DEF Steady, labels, Cleaning
<1>4. ASSUME UNCHANGED <<labels, meta, finish, tainted>>, OtherGuests(v),
             guest'[v].home \subseteq guest[v].home,
             Cleaning(v)' => Cleaning(v) /\ guest'[v].token.binding = guest[v].token.binding
      PROVE  \A w \in Vms : Steady(w)
  BY <1>2, <1>4 DEF Steady, labels, Cleaning, OtherGuests
<1>5. CASE GuestRestored(v) \/ GuestArchives(v) \/ GuestScrubs(v)
  <2>1. UNCHANGED <<labels, meta, finish, tainted>>
    BY <1>5 DEF GuestRestored, GuestArchives, GuestScrubs, guestOnly, actors
  <2>2. CASE GuestRestored(v)
    BY <1>4, <2>1, <2>2, RestoredMakes DEF Cleaning
  <2>3. CASE GuestArchives(v)
    BY <1>4, <2>1, <2>3, ArchivesMakes DEF Cleaning, GuestArchives
  <2>4. CASE GuestScrubs(v)
    BY <1>4, <2>1, <2>4, ScrubsMakes DEF Cleaning, GuestScrubs
  <2>. QED  BY <1>5, <2>2, <2>3, <2>4
<1>6. CASE GuestAnswered(v) \/ GuestGivesUp(v) \/ (GuestReports(v) /\ finish' = finish)
  <2>1. UNCHANGED <<labels, meta, finish>> /\ tainted \subseteq tainted'
    BY <1>6 DEF GuestAnswered, GuestGivesUp, GuestReports, guestOnly, actors
  <2>2. CASE \E token : GuestDone(v, token)
    <3>1. /\ OtherGuests(v) /\ guest'[v].home = guest[v].home /\ ~Cleaning(v)'
      BY <2>2, DoneMakes DEF Cleaning
    <3>. QED  BY <1>2, <2>1, <3>1 DEF Steady, labels, Cleaning, OtherGuests
  <2>3. CASE GuestReports(v) /\ guest' = [guest EXCEPT ![v].pc = "waiting"]
    <3>1. /\ OtherGuests(v) /\ guest'[v].home = guest[v].home /\ Cleaning(v)
          /\ guest'[v].token = guest[v].token
      BY <2>3, WaitsMakes DEF Cleaning, GuestReports
    <3>. QED  BY <1>2, <2>1, <3>1 DEF Steady, labels, Cleaning, OtherGuests
  <2>. QED  BY <1>6, <2>2, <2>3 DEF GuestAnswered, GuestGivesUp, GuestReports
<1>7. CASE WatcherCrash(v)
  BY <1>4, <1>7, RestartedMakes DEF WatcherCrash, guestOnly, actors, Cleaning
<1>8. ASSUME UNCHANGED <<meta, owner, finish>>, tainted \subseteq tainted',
             guest' = guest \/ Restarted(v), role' = [role EXCEPT ![v] = role'[v]],
             \/ role'[v] = role[v] \/ role'[v] = "quarantined"
             \/ (role[v] \notin Held /\ role'[v] \notin Held)
      PROVE  \A w \in Vms : Steady(w)
  <2>1. /\ OtherGuests(v) /\ guest'[v].home = guest[v].home
        /\ guest'[v] = guest[v] \/ ~Cleaning(v)'
    BY <1>8, RestartedMakes DEF OtherGuests, Cleaning
  <2>2. \A w \in Vms \ {v} : role'[w] = role[w]
    BY <1>8 DEF IInv, TypeOK
  <2>. QED  BY <1>2, <1>8, <2>1, <2>2 DEF Steady, Cleaning, OtherGuests, Held
<1>9. CASE Provision(v) \/ StartStopped(v) \/ MarkIdle(v) \/ Trim(v) \/ TrimReverts(v)
           \/ ScrubStopped(v) \/ Quarantined(v)
  BY <1>8, <1>9 DEF Provision, StartStopped, MarkIdle, Trim, TrimReverts, ScrubStopped,
     Quarantined, poolOnly, actors, Held, Idle, IInv, TypeOK
<1>10. CASE PowerOn(v) \/ PowerOff(v) \/ PowerLoss(v)
  <2>1. role' = role /\ role' = [role EXCEPT ![v] = role'[v]]
    BY <1>10 DEF PowerOn, PowerOff, PowerLoss, IInv, TypeOK
  <2>. QED  BY <1>8, <1>10, <2>1 DEF PowerOn, PowerOff, PowerLoss, poolOnly, actors
<1>. QED  BY <1>3, <1>5, <1>6, <1>7, <1>9, <1>10

-----------------------------------------------------------------------------
(* The steps that change hands; each is due, or it taints its VM. *)

Before == IInv /\ SessionInv /\ LabelInv /\ GuestInv /\ VmInv

LEMMA OneDisturbed ==
  ASSUME Before, IInv', GoneStays, NEW v \in Vms, Local(v)',
         \A w \in Vms \ {v} : Steady(w)
  PROVE  VmInv'
BY SteadyKeeps DEF Before, VmInv

LEMMA NoneDisturbed ==
  ASSUME Before, IInv', GoneStays, \A w \in Vms : Steady(w)
  PROVE  VmInv'
BY SteadyKeeps DEF Before, VmInv

LEMMA KnownOf ==
  ASSUME Before, NEW v \in Vms, Sound(v)
  PROVE  /\ Tidy(v) /\ Leftover(v)
         /\ \A b \in Bindings : Early(b, v)
         /\ \A c \in Completers : Confirmed(c, v)
BY DEF Before, VmInv, Local

LEMMA ClaimKeeps ==
  ASSUME Before, IInv', GoneStays, NEW b \in Bindings, NEW v \in Vms, Claim(b, v)
  PROVE  VmInv'
<1>1. /\ role[v] = "idle" /\ owner[v] = None /\ role'[v] = "assigned" /\ owner'[v] = b
      /\ \A w \in Vms \ {v} : role'[w] = role[w] /\ owner'[w] = owner[w]
      /\ assign[b].pc = "claim" /\ assign'[b] = [pc |-> "attach", vm |-> v]
      /\ \A c \in Bindings \ {b} : assign'[c] = assign[c]
      /\ UNCHANGED <<session, meta, files, guest, finish, expired, tainted>>
  <2>1. role[v] = "idle" /\ owner[v] = None
    BY DEF Claim, Idle, Before, IInv, FreeHasNoOwner, Held
  <2>2. /\ role'[v] = "assigned" /\ owner'[v] = b
        /\ \A w \in Vms \ {v} : role'[w] = role[w] /\ owner'[w] = owner[w]
    BY DEF Claim, Before, IInv, TypeOK
  <2>3. /\ assign[b].pc = "claim" /\ assign'[b] = [pc |-> "attach", vm |-> v]
        /\ \A c \in Bindings \ {b} : assign'[c] = assign[c]
    BY DEF Claim, Before, IInv, TypeOK
  <2>. QED  BY <2>1, <2>2, <2>3 DEF Claim
<1>2. ASSUME NEW w \in Vms \ {v}
      PROVE  Steady(w)
  <2>1. Undisturbed(w)
    BY <1>1 DEF Undisturbed, Works, session, files
  <2>. QED  BY <1>1, <2>1, SameSteady DEF SameVm
<1>3. ASSUME Sound(v)'
      PROVE  /\ Tidy(v)' /\ Leftover(v)'
             /\ \A c \in Bindings : Early(c, v)'
             /\ \A c \in Completers : Confirmed(c, v)'
  <2>1. Sound(v)
    BY <1>1, <1>3 DEF Sound
  <2>2. Tidy(v) /\ Leftover(v) /\ \A c \in Completers : Confirmed(c, v)
    BY <2>1, KnownOf
  <2>3. ~Gone(b) /\ b \notin expired
    BY <1>1 DEF Gone, Before, SessionInv, LeaseKnows
  <2>4. Tidy(v)'
    BY <1>1, <2>2 DEF Tidy, session, files
  <2>5. Leftover(v)'
    <3> SUFFICES ASSUME Cleaning(v), guest[v].token.binding # None
                 PROVE  Gone(guest[v].token.binding)' /\ guest[v].token.binding # b
      BY <1>1 DEF Leftover, Cleaning
    <3>1. Gone(guest[v].token.binding) /\ guest[v].token.binding \in Bindings
      BY <2>2 DEF Leftover, Before, IInv, TypeOK, GuestType, TokenType
    <3>2. Gone(guest[v].token.binding)'
      BY <1>1, <3>1 DEF GoneStays, Gone
    <3>. QED  BY <2>3, <3>1, <3>2
  <2>6. \A c \in Bindings : Early(c, v)'
    BY <1>1, <2>2, <2>3 DEF Early, Works, Tidy, session, files
  <2>7. \A c \in Completers : Confirmed(c, v)'
    BY <1>1, <2>3 DEF Confirmed, Before, LabelInv, FinishForGone
  <2>. QED  BY <2>4, <2>5, <2>6, <2>7
<1>4. Local(v)'
  BY <1>3 DEF Local
<1>. QED  BY <1>2, <1>4, OneDisturbed

LEMMA AttachKeeps ==
  ASSUME Before, IInv', GoneStays, NEW b \in Bindings, Attach(b)
  PROVE  VmInv'
<1>1. PICK v \in Vms : v = assign[b].vm
  BY DEF Attach, Before, IInv, TypeOK, TasksNameVm
<1>2. /\ disk[assistant[b]] = None /\ disk'[assistant[b]] = v
      /\ \A a \in Assistants : disk'[a] # disk[a] => a = assistant[b]
      /\ assign[b].pc = "attach" /\ assign'[b].pc = "configure" /\ assign'[b].vm = v
      /\ \A c \in Bindings \ {b} : assign'[c] = assign[c]
      /\ UNCHANGED <<session, labels, meta, guest, finish, expired>>
      /\ Taint(v, b)
  BY <1>1 DEF Attach, Before, IInv, TypeOK
<1>3. Works(b, v) /\ \A w \in Vms \ {v} : ~Works(b, w)' /\ w # disk'[assistant[b]]
  BY <1>1, <1>2 DEF Works
<1>4. ASSUME NEW w \in Vms \ {v}
      PROVE  Steady(w)
  <2>2. \A a \in Assistants :
          (disk'[a] = w => disk[a] = w) /\ (disk[a] = w => disk'[a] = w)
    BY <1>2, <1>3, NoneAssumption
  <2>3. \A c \in Bindings : assistant[c] \in Assistants
    BY DEF Before, IInv, TypeOK
  <2>1. Undisturbed(w)
    BY <1>2, <1>3, <2>2, <2>3 DEF Undisturbed, Works, session
  <2>. QED  BY <1>2, <2>1, SameSteady DEF SameVm, labels, Taint
<1>5. ASSUME Sound(v)'
      PROVE  /\ Tidy(v)' /\ Leftover(v)'
             /\ \A c \in Bindings : Early(c, v)'
             /\ \A c \in Completers : Confirmed(c, v)'
  <2>1. Sound(v) /\ owner[v] = b
    BY <1>2, <1>3, <1>5 DEF Sound, Taint, labels
  <2>2. /\ Tidy(v) /\ Leftover(v) /\ Early(b, v)
        /\ \A c \in Completers : Confirmed(c, v)
    BY <1>3, <2>1, KnownOf
  <2>3. role[v] = "assigned" /\ b \notin expired /\ meta[v].binding = None
    BY <1>3, <2>1, <2>2 DEF Early
  <2>4. Tidy(v)'
    BY <1>2, <2>1, <2>2, NoneAssumption DEF Tidy, session, labels
  <2>5. Leftover(v)'
    <3> SUFFICES ASSUME Cleaning(v), guest[v].token.binding # None
                 PROVE  Gone(guest[v].token.binding)' /\ guest[v].token.binding # b
      BY <1>2, <2>1 DEF Leftover, Cleaning, labels
    <3>1. Gone(guest[v].token.binding) /\ guest[v].token.binding \in Bindings
      BY <1>3, <2>2 DEF Leftover, Before, IInv, TypeOK, GuestType, TokenType
    <3>2. Gone(guest[v].token.binding)'
      BY <1>2, <3>1 DEF GoneStays, Gone
    <3>. QED  BY <2>1, <2>2, <2>3, <3>2 DEF Leftover
  <2>6. \A c \in Bindings : Early(c, v)'
    BY <1>2, <2>1, <2>3 DEF Early, session, labels
  <2>7. \A c \in Completers : Confirmed(c, v)'
    BY <1>2, <2>1, <2>2, <2>3 DEF Confirmed, labels
  <2>. QED  BY <2>4, <2>5, <2>6, <2>7
<1>6. Local(v)'
  BY <1>5 DEF Local
<1>. QED  BY <1>3, <1>4, <1>6, OneDisturbed

LEMMA LeftoverKept ==
  ASSUME Before, GoneStays, NEW v \in Vms, Leftover(v),
         Cleaning(v)' =>
           Cleaning(v) /\ guest'[v].token.binding = guest[v].token.binding,
         (/\ Cleaning(v) /\ guest[v].token.binding # None
          /\ Gone(guest[v].token.binding) /\ guest[v].token.binding = owner'[v])
           => role'[v] = "releasing" /\ ~meta'[v].key
  PROVE  Leftover(v)'
<1> SUFFICES ASSUME Cleaning(v)', guest'[v].token.binding # None
             PROVE  /\ Gone(guest[v].token.binding)'
                    /\ guest'[v].token.binding = owner'[v]
                         => role'[v] = "releasing" /\ ~meta'[v].key
  BY DEF Leftover
<1>1. Gone(guest[v].token.binding) /\ guest[v].token.binding \in Bindings
  BY DEF Leftover, Before, IInv, TypeOK, GuestType, TokenType
<1>2. Gone(guest[v].token.binding)'
  BY <1>1 DEF GoneStays, Gone
<1>. QED  BY <1>1, <1>2

LEMMA ConfigureKeeps ==
  ASSUME Before, IInv', GoneStays, NEW b \in Bindings, Configure(b)
  PROVE  VmInv'
<1>1. PICK v \in Vms : v = assign[b].vm
  BY DEF Configure, Before, IInv, TypeOK, TasksNameVm
<1>2. /\ assign[b].pc = "configure" /\ assign'[b].pc = "idle"
      /\ \A c \in Bindings \ {b} : assign'[c] = assign[c]
      /\ meta'[v] = [binding |-> b, key |-> TRUE, gen |-> 0] /\ OtherMeta(v)
      /\ UNCHANGED <<assistant, life, labels, files, guest, finish>>
      /\ expired' \subseteq expired /\ Taint(v, b)
  BY <1>1 DEF Configure, AssignEnds, NoTask, OtherMeta, Before, IInv, TypeOK
<1>3. Works(b, v)
  BY <1>1, <1>2 DEF Works
<1>4. ASSUME NEW w \in Vms \ {v}
      PROVE  Steady(w)
  <2>1. Undisturbed(w)
    BY <1>2 DEF Undisturbed, Works, files
  <2>. QED  BY <1>2, <2>1, SameSteady DEF SameVm, labels, Taint, OtherMeta
<1>5. ASSUME Sound(v)'
      PROVE  /\ Tidy(v)' /\ Leftover(v)'
             /\ \A c \in Bindings : Early(c, v)'
             /\ \A c \in Completers : Confirmed(c, v)'
  <2>1. Sound(v) /\ owner[v] = b
    BY <1>2, <1>5 DEF Sound, Taint, labels
  <2>2. /\ Tidy(v) /\ Leftover(v) /\ Early(b, v)
        /\ \A c \in Completers : Confirmed(c, v)
    BY <2>1, KnownOf
  <2>3. role[v] = "assigned" /\ meta[v].binding = None
    BY <1>3, <2>1, <2>2 DEF Early
  <2>4. Tidy(v)'
    BY <1>2, <2>1, <2>2, <2>3, NoneAssumption DEF Tidy, labels, files
  <2>5. Leftover(v)'
    BY <1>2, <2>1, <2>2, <2>3, LeftoverKept DEF Leftover, Cleaning, labels
  <2>6. \A c \in Bindings : Early(c, v)'
    BY <1>2, <2>1 DEF Early, Works, labels
  <2>7. \A c \in Completers : Confirmed(c, v)'
    BY <1>2, <2>1, <2>2, <2>3 DEF Confirmed, labels
  <2>. QED  BY <2>4, <2>5, <2>6, <2>7
<1>6. Local(v)'
  BY <1>5 DEF Local
<1>. QED  BY <1>4, <1>6, OneDisturbed

LEMMA AssignUndoneKeeps ==
  ASSUME Before, IInv', LabelInv', GoneStays, NEW b \in Bindings, AssignUndone(b)
  PROVE  VmInv'
<1>1. PICK v \in Vms : v = assign[b].vm
  BY DEF AssignUndone, Before, IInv, TypeOK, TasksNameVm
<1>2. /\ assign[b].pc = "attach" /\ assign'[b].pc = "idle"
      /\ \A c \in Bindings \ {b} : assign'[c] = assign[c]
      /\ UNCHANGED <<session, on, meta, files, guest, finish>>
      /\ \A c \in Bindings : c \in expired' => c \in expired
  BY <1>1 DEF AssignUndone, AssignEnds, NoTask, Before, IInv, TypeOK
<1>3. \A w \in Vms : Undisturbed(w)
  BY <1>2 DEF Undisturbed, Works, session, files
<1>4. CASE role[v] # "assigned"
  <2>1. UNCHANGED <<role, owner, tainted>>
    BY <1>1, <1>4 DEF AssignUndone
  <2>. QED  BY <1>2, <1>3, <2>1, SameSteady, NoneDisturbed DEF SameVm
<1>5. CASE role[v] = "assigned"
  <2>1. /\ role'[v] = "idle" /\ owner'[v] = None /\ Taint(v, b)
        /\ \A w \in Vms \ {v} : role'[w] = role[w] /\ owner'[w] = owner[w]
    BY <1>1, <1>5 DEF AssignUndone, Before, IInv, TypeOK
  <2>2. ASSUME NEW w \in Vms \ {v}
        PROVE  Steady(w)
    BY <1>2, <1>3, <2>1, SameSteady DEF SameVm, Taint
  <2>3. ASSUME Sound(v)'
        PROVE  /\ Tidy(v)' /\ Leftover(v)'
               /\ \A c \in Bindings : Early(c, v)'
               /\ \A c \in Completers : Confirmed(c, v)'
    <3>1. Sound(v) /\ owner[v] = b /\ Works(b, v)
      BY <1>1, <1>2, <1>5, <2>1, <2>3 DEF Sound, Taint, Works
    <3>2. Tidy(v) /\ Leftover(v) /\ Early(b, v)
      BY <3>1, KnownOf
    <3>3. meta[v].binding = None /\ \A a \in Assistants : disk[a] # v
      BY <1>2, <3>1, <3>2 DEF Early
    <3>4. Tidy(v)'
      BY <1>2, <2>1, <3>2, <3>3 DEF Tidy, session, files
    <3>5. Leftover(v)'
      <4>1. Cleaning(v)' => Cleaning(v) /\ guest'[v].token.binding = guest[v].token.binding
        BY <1>2 DEF Cleaning
      <4>. QED  BY <2>1, <3>2, <4>1, LeftoverKept
    <3>6. \A c \in Bindings : Early(c, v)'
      BY <2>1, NoneAssumption DEF Early
    <3>7. \A c \in Completers : Confirmed(c, v)'
      BY <2>1 DEF Confirmed, LabelInv, FinishForGone
    <3>. QED  BY <3>4, <3>5, <3>6, <3>7
  <2>4. Local(v)'
    BY <2>3 DEF Local
  <2>. QED  BY <2>2, <2>4, OneDisturbed
<1>. QED  BY <1>4, <1>5

LEMMA ReleaseBeginsKeeps ==
  ASSUME Before, IInv', GoneStays, NEW b \in Bindings, NEW v \in Vms,
         ReleaseBegins(b, v)
  PROVE  VmInv'
<1>1. /\ owner[v] = b /\ role[v] = "assigned" /\ role'[v] = "releasing"
      /\ \A w \in Vms \ {v} : role'[w] = role[w]
      /\ UNCHANGED <<session, owner, on, meta, files, guest, assign, finish, expired,
                     tainted>>
      /\ assign[b].pc = "idle" \/ b \in expired
  BY DEF ReleaseBegins, LeaseFree, Before, IInv, TypeOK
<1>2. \A w \in Vms : Undisturbed(w)
  BY <1>1, NothingDisturbs DEF session, files
<1>3. ASSUME NEW w \in Vms \ {v}
      PROVE  Steady(w)
  BY <1>1, <1>2, SameSteady DEF SameVm
<1>4. ASSUME Sound(v)'
      PROVE  /\ Tidy(v)' /\ Leftover(v)'
             /\ \A c \in Bindings : Early(c, v)'
             /\ \A c \in Completers : Confirmed(c, v)'
  <2>1. Sound(v)
    BY <1>1, <1>4 DEF Sound
  <2>2. /\ Tidy(v) /\ Leftover(v) /\ Early(b, v)
        /\ \A c \in Completers : Confirmed(c, v)
    BY <2>1, KnownOf
  <2>3. ~Works(b, v)
    BY <1>1, <2>2 DEF Early, Works
  <2>4. Tidy(v)'
    BY <1>1, <2>2 DEF Tidy, session, files
  <2>5. Leftover(v)'
    BY <1>1, <2>2, LeftoverKept DEF Leftover, Cleaning
  <2>6. \A c \in Bindings : Early(c, v)'
    BY <1>1, <2>3 DEF Early, Works
  <2>7. \A c \in Completers : Confirmed(c, v)'
    BY <1>1, <2>2 DEF Confirmed
  <2>. QED  BY <2>4, <2>5, <2>6, <2>7
<1>5. Local(v)'
  BY <1>4 DEF Local
<1>. QED  BY <1>3, <1>5, OneDisturbed

(* A release that is signalled, at first or again. *)
LEMMA SignalKeeps ==
  ASSUME Before, IInv', GoneStays, NEW v \in Vms, NEW gen \in 0..MaxGeneration,
         Signalled(v, gen), UNCHANGED <<session, labels, files, guest, assign, finish,
                                        expired>>,
         v \notin tainted' => v \notin tainted /\ role[v] # "assigned",
         \A w \in Vms \ {v} : w \in tainted => w \in tainted'
  PROVE  VmInv'
<1>1. meta'[v].key = FALSE /\ meta'[v].binding = meta[v].binding /\ OtherMeta(v)
  BY SignalledMakes DEF Before
<1>2. \A w \in Vms : Undisturbed(w)
  BY NothingDisturbs DEF session, files
<1>3. ASSUME NEW w \in Vms \ {v}
      PROVE  Steady(w)
  BY <1>1, <1>2, SameSteady DEF SameVm, OtherMeta, labels
<1>4. ASSUME Sound(v)'
      PROVE  /\ Tidy(v)' /\ Leftover(v)'
             /\ \A c \in Bindings : Early(c, v)'
             /\ \A c \in Completers : Confirmed(c, v)'
  <2>1. Sound(v) /\ role[v] # "assigned"
    BY <1>4 DEF Sound, labels
  <2>2. /\ Tidy(v) /\ Leftover(v) /\ \A c \in Bindings : Early(c, v)
        /\ \A c \in Completers : Confirmed(c, v)
    BY <2>1, KnownOf
  <2>4. Tidy(v)'
    BY <1>1, <2>1, <2>2 DEF Tidy, session, files, labels
  <2>5. Leftover(v)'
    BY <1>1, <2>2, LeftoverKept DEF Leftover, Cleaning, labels
  <2>6. \A c \in Bindings : Early(c, v)'
    BY <2>1, <2>2 DEF Early, Works, labels
  <2>7. \A c \in Completers : Confirmed(c, v)'
    BY <1>1, <2>2 DEF Confirmed, labels, files
  <2>. QED  BY <2>4, <2>5, <2>6, <2>7
<1>5. Local(v)'
  BY <1>4 DEF Local
<1>. QED  BY <1>3, <1>5, OneDisturbed

LEMMA ReleaseSignalledKeeps ==
  ASSUME Before, IInv', GoneStays, NEW b \in Bindings, ReleaseSignalled(b)
  PROVE  VmInv'
<1>1. PICK v \in Vms : v = release[b].vm
  BY DEF ReleaseSignalled, Before, IInv, TypeOK, TasksNameVm
<1>2. UNCHANGED <<session, labels, files, guest, assign, finish, expired>>
  BY DEF ReleaseSignalled
<1>3. CASE role[v] = "absent"
  <2>1. UNCHANGED <<meta, tainted>>
    BY <1>1, <1>3 DEF ReleaseSignalled
  <2>2. \A w \in Vms : Undisturbed(w)
    BY <1>2, NothingDisturbs DEF session, files
  <2>. QED  BY <1>2, <2>1, <2>2, SameSteady, NoneDisturbed DEF SameVm, labels
<1>4. CASE role[v] # "absent"
  <2>1. Signalled(v, 1) /\ Taint(v, b) /\ 1 \in 0..MaxGeneration
    BY <1>1, <1>4, BoundsAssumption DEF ReleaseSignalled
  <2>2. v \notin tainted' => v \notin tainted /\ role[v] # "assigned"
    BY <1>1, <2>1 DEF Taint, ReleaseSignalled, Before, LabelInv, SignalForGone
  <2>. QED  BY <1>2, <2>1, <2>2, SignalKeeps DEF Taint
<1>. QED  BY <1>3, <1>4

LEMMA RearmKeeps ==
  ASSUME Before, IInv', GoneStays, NEW b \in Bindings, NEW v \in Vms, Rearm(b, v)
  PROVE  VmInv'
<1>1. meta[v].gen + 1 \in 0..MaxGeneration
  BY BoundsAssumption DEF Rearm, Before, IInv, TypeOK, MetaType
<1>2. UNCHANGED <<session, labels, files, guest, assign, finish, expired, tainted>>
  BY DEF Rearm, actors
<1>. QED  BY <1>1, <1>2, SignalKeeps DEF Rearm

LEMMA DeleteKeeps ==
  ASSUME Before, IInv', LabelInv', GoneStays, NEW v \in Vms, Delete(v)
  PROVE  VmInv'
<1>1. /\ role'[v] = "absent" /\ owner'[v] = None /\ meta'[v] = NoMeta
      /\ guest'[v] = NewGuest /\ disk' = DetachedFrom(v)
      /\ UNCHANGED <<session, actors>>
  BY DeleteMakes DEF Before
<1>2. ASSUME NEW w \in Vms \ {v}
      PROVE  Steady(w)
  <2>1. \A a \in Assistants :
          (disk'[a] = w => disk[a] = w) /\ (disk[a] = w => disk'[a] = w)
    BY <1>1, NoneAssumption DEF DetachedFrom
  <2>2. Undisturbed(w)
    BY <1>1, <2>1 DEF Undisturbed, Works, session, actors, Before, IInv, TypeOK
  <2>3. SameVm(w)
    BY <1>1, DeleteMakes DEF Before, SameVm, OtherGuests, actors
  <2>. QED  BY <2>2, <2>3, SameSteady
<1>3. \A a \in Assistants : disk'[a] # v
  BY <1>1, NoneAssumption DEF DetachedFrom
<1>4. Tidy(v)' /\ Leftover(v)'
  BY <1>1, <1>3 DEF Tidy, Leftover, Cleaning, NoMeta, NewGuest
<1>5. \A c \in Bindings : Early(c, v)'
  BY <1>1, NoneAssumption DEF Early
<1>6. \A c \in Completers : Confirmed(c, v)'
  BY <1>1 DEF Confirmed, LabelInv, FinishForGone
<1>7. Local(v)'
  BY <1>4, <1>5, <1>6 DEF Local
<1>. QED  BY <1>2, <1>7, OneDisturbed

LEMMA FinishUnconfirmedKeeps ==
  ASSUME Before, IInv', GoneStays, NEW v \in Vms, FinishUnconfirmed(v)
  PROVE  VmInv'
<1>1. /\ role[v] = "releasing" /\ finish'["session"][v].pc = "clear"
      /\ \A c \in Completers, w \in Vms :
           (c # "session" \/ w # v) => finish'[c][w] = finish[c][w]
      /\ UNCHANGED <<session, labels, meta, files, guest, assign, expired>>
      /\ tainted \subseteq tainted'
      /\ v \notin tainted' => Token(v) # NoToken /\ Token(v) = guest[v].acked
  BY DEF FinishUnconfirmed, Before, IInv, TypeOK, Completers
<1>2. \A w \in Vms : Undisturbed(w)
  BY <1>1, NothingDisturbs DEF session, files
<1>3. ASSUME NEW w \in Vms \ {v}
      PROVE  Steady(w)
  BY <1>1, <1>2, SameSteady DEF SameVm, labels
<1>4. ASSUME Sound(v)'
      PROVE  /\ Tidy(v)' /\ Leftover(v)'
             /\ \A c \in Bindings : Early(c, v)'
             /\ \A c \in Completers : Confirmed(c, v)'
  <2>1. Sound(v) /\ Token(v) # NoToken /\ Token(v) = guest[v].acked
    BY <1>1, <1>4 DEF Sound, labels
  <2>2. /\ Tidy(v) /\ Leftover(v) /\ \A c \in Bindings : Early(c, v)
        /\ \A c \in Completers : Confirmed(c, v)
    BY <2>1, KnownOf
  <2>3. guest[v].home = {} /\ ~meta[v].key
    <3>1. meta[v].gen > 0 /\ GuestKnows(v)
      BY <2>1 DEF Token, Before, GuestInv
    <3>2. meta[v].gen # 0
      BY <3>1 DEF Before, IInv, TypeOK, MetaType
    <3>. QED  BY <2>1, <3>1, <3>2 DEF GuestKnows
  <2>4. Tidy(v)'
    BY <1>1, <2>2 DEF Tidy, session, labels, files
  <2>5. Leftover(v)'
    BY <1>1, <2>2, LeftoverKept DEF Leftover, Cleaning, labels
  <2>6. \A c \in Bindings : Early(c, v)'
    BY <1>1, <2>2 DEF Early, Works, session, labels, files
  <2>7. \A c \in Completers : Confirmed(c, v)'
    BY <1>1, <2>2, <2>3 DEF Confirmed, labels, files
  <2>. QED  BY <2>4, <2>5, <2>6, <2>7
<1>5. Local(v)'
  BY <1>4 DEF Local
<1>. QED  BY <1>3, <1>5, OneDisturbed

LEMMA FinishClearKeeps ==
  ASSUME Before, IInv', GoneStays, NEW c \in Completers, NEW v \in Vms,
         FinishClear(c, v)
  PROVE  VmInv'
<1>1. /\ finish[c][v].pc = "clear" /\ finish'[c][v].pc = "mark"
      /\ finish'[c][v].binding = finish[c][v].binding
      /\ \A d \in Completers, w \in Vms :
           (d # c \/ w # v) => finish'[d][w] = finish[d][w]
      /\ disk' = DetachedFrom(v) /\ Taint(v, finish[c][v].binding)
      /\ UNCHANGED <<session, labels, guest, assign, expired>>
      /\ meta'[v] = NoMeta /\ OtherMeta(v)
  BY DEF FinishClear, Before, IInv, TypeOK, OtherMeta
<1>2. ASSUME NEW w \in Vms \ {v}
      PROVE  Steady(w)
  <2>1. \A a \in Assistants :
          (disk'[a] = w => disk[a] = w) /\ (disk[a] = w => disk'[a] = w)
    BY <1>1, NoneAssumption DEF DetachedFrom
  <2>2. Undisturbed(w)
    BY <1>1, <2>1 DEF Undisturbed, Works, session, Before, IInv, TypeOK
  <2>. QED  BY <1>1, <2>2, SameSteady DEF SameVm, OtherMeta, labels, Taint
<1>3. \A a \in Assistants : disk'[a] # v
  BY <1>1, NoneAssumption DEF DetachedFrom
<1>4. ASSUME Sound(v)'
      PROVE  /\ Tidy(v)' /\ Leftover(v)'
             /\ \A b \in Bindings : Early(b, v)'
             /\ \A d \in Completers : Confirmed(d, v)'
  <2>1. Sound(v) /\ owner[v] = finish[c][v].binding
    BY <1>1, <1>4 DEF Sound, labels, Taint
  <2>2. /\ Leftover(v) /\ \A b \in Bindings : Early(b, v)
        /\ \A d \in Completers : Confirmed(d, v)
    BY <2>1, KnownOf
  <2>3. role[v] = "releasing" /\ guest[v].home = {}
    BY <1>1, <2>1, <2>2 DEF Confirmed
  <2>4. Tidy(v)'
    BY <1>1, <1>3, <2>3 DEF Tidy, NoMeta, labels
  <2>5. Leftover(v)'
    BY <1>1, <2>2, <2>3, LeftoverKept DEF Leftover, Cleaning, NoMeta, labels
  <2>6. \A b \in Bindings : Early(b, v)'
    BY <1>1, <2>2, <2>3 DEF Early, Works, labels
  <2>7. \A d \in Completers : Confirmed(d, v)'
    BY <1>1, <1>3, <2>3 DEF Confirmed, NoMeta, labels
  <2>. QED  BY <2>4, <2>5, <2>6, <2>7
<1>5. Local(v)'
  BY <1>4 DEF Local
<1>. QED  BY <1>2, <1>5, OneDisturbed

LEMMA FinishMarkKeeps ==
  ASSUME Before, IInv', LabelInv', GoneStays, NEW c \in Completers, NEW v \in Vms,
         FinishMark(c, v)
  PROVE  VmInv'
<1>1. /\ finish[c][v].pc = "mark" /\ finish'[c][v].pc = "idle"
      /\ \A d \in Completers, w \in Vms :
           (d # c \/ w # v) => finish'[d][w] = finish[d][w]
      /\ UNCHANGED <<session, on, meta, files, guest, assign, expired>>
  BY FinishEndsAt DEF FinishMark, Before, NoFinish
<1>2. \A w \in Vms : Undisturbed(w)
  BY <1>1, NothingDisturbs DEF session, files
<1>3. CASE role[v] # "releasing"
  <2>1. UNCHANGED <<role, owner, tainted>>
    BY <1>3 DEF FinishMark
  <2>2. \A w \in Vms : Steady(w)
    BY <1>1, <1>2, <2>1 DEF Steady, Cleaning
  <2>. QED  BY <2>2, NoneDisturbed
<1>4. CASE role[v] = "releasing"
  <2>1. /\ role'[v] = "idle" /\ owner'[v] = None /\ Taint(v, finish[c][v].binding)
        /\ \A w \in Vms \ {v} : role'[w] = role[w] /\ owner'[w] = owner[w]
    BY <1>4 DEF FinishMark, Before, IInv, TypeOK
  <2>2. ASSUME NEW w \in Vms \ {v}
        PROVE  Steady(w)
    BY <1>1, <1>2, <2>1, SameSteady DEF SameVm, Taint
  <2>3. ASSUME Sound(v)'
        PROVE  /\ Tidy(v)' /\ Leftover(v)'
               /\ \A b \in Bindings : Early(b, v)'
               /\ \A d \in Completers : Confirmed(d, v)'
    <3>1. Sound(v) /\ owner[v] = finish[c][v].binding
      BY <1>4, <2>1, <2>3 DEF Sound, Taint
    <3>2. Leftover(v) /\ Confirmed(c, v)
      BY <3>1, KnownOf
    <3>3. /\ guest[v].home = {} /\ meta[v].binding = None
          /\ \A a \in Assistants : disk[a] # v
      BY <1>1, <3>1, <3>2 DEF Confirmed
    <3>4. Tidy(v)'
      BY <1>1, <2>1, <3>3 DEF Tidy, files
    <3>5. Leftover(v)'
      BY <1>1, <2>1, <3>2, LeftoverKept DEF Cleaning
    <3>6. \A b \in Bindings : Early(b, v)'
      BY <2>1, NoneAssumption DEF Early
    <3>7. \A d \in Completers : Confirmed(d, v)'
      BY <2>1 DEF Confirmed, LabelInv, FinishForGone
    <3>. QED  BY <3>4, <3>5, <3>6, <3>7
  <2>4. Local(v)'
    BY <2>3 DEF Local
  <2>. QED  BY <2>2, <2>4, OneDisturbed
<1>. QED  BY <1>3, <1>4

LEMMA GuestAssignsKeeps ==
  ASSUME Before, IInv', GoneStays, NEW v \in Vms, GuestAssigns(v)
  PROVE  VmInv'
<1>1. /\ UNCHANGED <<session, labels, meta, disk, actors, tainted>>
      /\ OtherGuests(v) /\ guest'[v].pc = "restoring"
      /\ guest'[v].home = guest[v].home \cup {CurrentKey(v)}
  BY AssignsMakes DEF GuestAssigns, guestOnly, Before
<1>2. meta[v].key /\ CurrentKey(v) = assistant[meta[v].binding] /\ meta[v].binding # None
  BY DEF GuestAssigns, CurrentKey, Before, IInv, KeyHasBinding
<1>3. \A w \in Vms : Undisturbed(w)
  BY <1>1, NothingDisturbs DEF session, actors
<1>4. ASSUME NEW w \in Vms \ {v}
      PROVE  Steady(w)
  BY <1>1, <1>3, SameSteady DEF SameVm, OtherGuests, labels, actors
<1>5. ASSUME Sound(v)'
      PROVE  /\ Tidy(v)' /\ Leftover(v)'
             /\ \A c \in Bindings : Early(c, v)'
             /\ \A c \in Completers : Confirmed(c, v)'
  <2>1. Sound(v)
    BY <1>1, <1>5 DEF Sound, labels
  <2>2. /\ Tidy(v) /\ \A c \in Bindings : Early(c, v)
        /\ \A c \in Completers : Confirmed(c, v)
    BY <2>1, KnownOf
  <2>3. Tidy(v)'
    BY <1>1, <1>2, <2>2 DEF Tidy, session, labels
  <2>4. Leftover(v)'
    BY <1>1 DEF Leftover, Cleaning
  <2>5. \A c \in Bindings : Early(c, v)'
    BY <1>1, <2>2 DEF Early, Works, session, labels, actors
  <2>6. \A c \in Completers : Confirmed(c, v)'
    BY <1>1, <1>2, <2>2 DEF Confirmed, labels, actors
  <2>. QED  BY <2>3, <2>4, <2>5, <2>6
<1>6. Local(v)'
  BY <1>5 DEF Local
<1>. QED  BY <1>4, <1>6, OneDisturbed

LEMMA GuestReleasesKeeps ==
  ASSUME Before, IInv', GoneStays, NEW v \in Vms, GuestReleases(v)
  PROVE  VmInv'
<1>1. /\ UNCHANGED <<session, labels, meta, disk, actors, tainted>>
      /\ OtherGuests(v) /\ guest'[v].home = guest[v].home
      /\ guest'[v].token = Token(v) /\ ~meta[v].key
  BY ReleasesMakes DEF GuestReleases, ReleaseDue, guestOnly, Before
<1>2. \A w \in Vms : Undisturbed(w)
  BY <1>1, NothingDisturbs DEF session, actors
<1>3. ASSUME NEW w \in Vms \ {v}
      PROVE  Steady(w)
  BY <1>1, <1>2, SameSteady DEF SameVm, OtherGuests, labels, actors
<1>4. ASSUME Sound(v)'
      PROVE  /\ Tidy(v)' /\ Leftover(v)'
             /\ \A c \in Bindings : Early(c, v)'
             /\ \A c \in Completers : Confirmed(c, v)'
  <2>1. Sound(v)
    BY <1>1, <1>4 DEF Sound, labels
  <2>2. /\ Tidy(v) /\ \A c \in Bindings : Early(c, v)
        /\ \A c \in Completers : Confirmed(c, v)
    BY <2>1, KnownOf
  <2>3. Tidy(v)'
    BY <1>1, <2>2 DEF Tidy, session, labels
  <2>4. ASSUME guest'[v].token.binding # None
        PROVE  /\ role[v] = "releasing" /\ Gone(owner[v])
               /\ owner[v] = guest'[v].token.binding
    <3>1. meta[v].binding # None /\ guest'[v].token.binding = meta[v].binding
      BY <1>1, <2>4 DEF Token, NoToken
    <3>2. owner[v] = meta[v].binding /\ role[v] # "assigned"
      BY <1>1, <2>2, <3>1 DEF Tidy
    <3>3. role[v] = "releasing"
      BY <2>1, <3>1, <3>2 DEF Sound, Held, Before, IInv, FreeHasNoOwner
    <3>. QED  BY <3>1, <3>2, <3>3 DEF Before, LabelInv, OwnerGone
  <2>5. Leftover(v)'
    BY <1>1, <2>4 DEF Leftover, labels, session, actors, Gone
  <2>6. \A c \in Bindings : Early(c, v)'
    BY <1>1, <2>2 DEF Early, Works, session, labels, actors
  <2>7. \A c \in Completers : Confirmed(c, v)'
    BY <1>1, <2>2 DEF Confirmed, labels, actors
  <2>. QED  BY <2>3, <2>5, <2>6, <2>7
<1>5. Local(v)'
  BY <1>4 DEF Local
<1>. QED  BY <1>3, <1>5, OneDisturbed

LEMMA GuestReportsKeeps ==
  ASSUME Before, IInv', GoneStays, NEW v \in Vms, GuestReports(v), finish' # finish
  PROVE  VmInv'
<1>1. /\ guest[v].pc = "reporting" /\ guest' = [guest EXCEPT ![v].pc = "waiting"]
      /\ finish' = [finish EXCEPT !["guest"][v] =
                      [pc |-> "clear", binding |-> meta[v].binding]]
      /\ owner[v] = meta[v].binding /\ role[v] = "releasing" /\ meta[v].binding # None
      /\ UNCHANGED <<session, labels, meta, files, assign, expired>>
      /\ tainted \subseteq tainted'
      /\ v \notin tainted' => guest[v].token.binding = meta[v].binding
  BY DEF GuestReports
<1>2. /\ OtherGuests(v) /\ guest'[v].home = guest[v].home
      /\ guest'[v].token = guest[v].token
  BY <1>1, WaitsMakes DEF Before
<1>3. /\ finish'["guest"][v].pc = "clear"
      /\ \A c \in Completers, w \in Vms :
           (c # "guest" \/ w # v) => finish'[c][w] = finish[c][w]
  BY <1>1 DEF Before, IInv, TypeOK, Completers
<1>4. \A w \in Vms : Undisturbed(w)
  BY <1>1, NothingDisturbs DEF session, files
<1>5. ASSUME NEW w \in Vms \ {v}
      PROVE  Steady(w)
  BY <1>1, <1>2, <1>3, <1>4, SameSteady DEF SameVm, OtherGuests, labels
<1>6. ASSUME Sound(v)'
      PROVE  /\ Tidy(v)' /\ Leftover(v)'
             /\ \A c \in Bindings : Early(c, v)'
             /\ \A c \in Completers : Confirmed(c, v)'
  <2>1. Sound(v) /\ guest[v].token.binding = owner[v]
    BY <1>1, <1>6 DEF Sound, labels
  <2>2. /\ Tidy(v) /\ Leftover(v) /\ \A c \in Bindings : Early(c, v)
        /\ \A c \in Completers : Confirmed(c, v)
    BY <2>1, KnownOf
  <2>3. ~meta[v].key /\ guest[v].home = {}
    BY <1>1, <2>1, <2>2 DEF Leftover, Cleaning, Before, GuestInv, GuestKnows
  <2>4. Tidy(v)'
    BY <1>1, <1>2, <2>2 DEF Tidy, session, labels, files
  <2>5. Leftover(v)'
    BY <1>1, <1>2, <2>2, LeftoverKept DEF Leftover, Cleaning, labels
  <2>6. \A c \in Bindings : Early(c, v)'
    BY <1>1, <2>2 DEF Early, Works, session, labels, files
  <2>7. \A c \in Completers : Confirmed(c, v)'
    BY <1>1, <1>2, <1>3, <2>2, <2>3 DEF Confirmed, labels, files
  <2>. QED  BY <2>4, <2>5, <2>6, <2>7
<1>7. Local(v)'
  BY <1>6 DEF Local
<1>. QED  BY <1>5, <1>7, OneDisturbed

-----------------------------------------------------------------------------
(* Together *)

LEMMA VmInvKept ==
  ASSUME Before, IInv', LabelInv', GoneStays, Next
  PROVE  VmInv'
<1>1. ASSUME \A w \in Vms : Steady(w)
      PROVE  VmInv'
  BY <1>1, NoneDisturbed
<1>2. ASSUME NEW b \in Bindings,
             BindingStarts(b) \/ BindingEnds(b) \/ AssignBegins(b) \/ AssignRefused(b)
             \/ AttachFails(b) \/ AssignTorn(b) \/ LeaseExpires(b) \/ ReleaseTorn(b)
      PROVE  VmInv'
  BY <1>1, <1>2, SessionSteady DEF Before
<1>3. ASSUME NEW b \in Bindings, Assigning(b)
      PROVE  VmInv'
  BY <1>2, <1>3, ClaimKeeps, AttachKeeps, ConfigureKeeps DEF Assigning
<1>4. ASSUME NEW b \in Bindings, Releasing(b)
      PROVE  VmInv'
  BY <1>4, ReleaseBeginsKeeps, ReleaseSignalledKeeps DEF Releasing
<1>5. ASSUME NEW b \in Bindings, NEW v \in Vms, Recovering(b, v)
      PROVE  VmInv'
  BY <1>5, RearmKeeps, DeleteKeeps DEF Recovering, Retire
<1>6. ASSUME NEW c \in Completers, NEW v \in Vms, Finishing(c, v) \/ FinishTorn(c, v)
      PROVE  VmInv'
  <2>1. CASE FinishGone(c, v) \/ FinishTorn(c, v)
    BY <1>1, <2>1, VmSteady DEF Before
  <2>. QED  BY <1>6, <2>1, FinishClearKeeps, FinishMarkKeeps DEF Finishing
<1>7. ASSUME NEW v \in Vms, Guest(v)
      PROVE  VmInv'
  <2>1. CASE GuestRestored(v) \/ GuestArchives(v) \/ GuestScrubs(v) \/ GuestAnswered(v)
             \/ (GuestReports(v) /\ finish' = finish)
    BY <1>1, <2>1, VmSteady DEF Before
  <2>. QED  BY <1>7, <2>1, GuestAssignsKeeps, GuestReleasesKeeps, GuestReportsKeeps
            DEF Guest
<1>8. ASSUME NEW v \in Vms,
             \/ GuestGivesUp(v) \/ WatcherCrash(v) \/ Provision(v) \/ StartStopped(v)
             \/ PowerOn(v) \/ MarkIdle(v) \/ Trim(v) \/ PowerOff(v) \/ TrimReverts(v)
             \/ ScrubStopped(v) \/ PowerLoss(v) \/ Quarantined(v)
      PROVE  VmInv'
  BY <1>1, <1>8, VmSteady DEF Before
<1>9. ASSUME NEW v \in Vms, Keep(v) \/ Grow(v) \/ Trim(v) \/ QuarantineAged(v)
      PROVE  VmInv'
  BY <1>8, <1>9, DeleteKeeps DEF Keep, FinishStopped, Purge, QuarantineDead, Grow,
     QuarantineAged
<1>10. CASE Failing
  BY <1>2, <1>6, <1>8, <1>10, AssignUndoneKeeps, FinishUnconfirmedKeeps DEF Failing
<1>. QED  BY <1>2, <1>3, <1>4, <1>5, <1>6, <1>7, <1>9, <1>10 DEF Next

SafetyInv == SessionInv /\ LabelInv /\ GuestInv /\ VmInv

LEMMA InitSafe ==
  ASSUME Init
  PROVE  SafetyInv
<1>1. /\ \A b \in Bindings : /\ life[b] = "new" /\ assign[b].pc = "idle"
                             /\ release[b].pc = "idle" /\ b \notin expired
      /\ \A v \in Vms : /\ role[v] = "absent" /\ owner[v] = None /\ ~on[v]
                        /\ meta[v] = NoMeta /\ guest[v] = NewGuest
      /\ \A a \in Assistants : disk[a] = None
      /\ \A c \in Completers, v \in Vms : finish[c][v].pc = "idle"
  BY DEF Init, NoTask, NoFinish
<1>2. SessionInv /\ LabelInv
  BY <1>1 DEF SessionInv, OneLive, LeaseKnows, LabelInv, OwnedInUse, OwnerGone,
     SignalForGone, FinishForGone, OffWhenOut
<1>3. GuestInv
  BY <1>1 DEF GuestInv, GuestKnows, Cleaning, NewGuest, NoMeta
<1>4. VmInv
  BY <1>1, NoneAssumption DEF VmInv, Local, Tidy, Leftover, Early, Confirmed, Works,
     Cleaning, NewGuest, NoMeta
<1>. QED  BY <1>2, <1>3, <1>4 DEF SafetyInv

LEMMA StaysSafe ==
  ASSUME IInv, IInv', SafetyInv, [Next]_vars
  PROVE  SafetyInv'
<1>1. CASE Next
  <2>1. SessionInv' /\ GoneStays
    BY <1>1, SessionKept DEF SafetyInv
  <2>2. Moving
    BY <1>1, StepMoves DEF SafetyInv
  <2>3. LabelInv'
    BY <2>1, <2>2, LabelsKept DEF SafetyInv
  <2>4. GuestInv'
    BY <1>1, GuestKept DEF SafetyInv
  <2>5. VmInv'
    BY <1>1, <2>1, <2>3, VmInvKept DEF SafetyInv, Before
  <2>. QED  BY <2>1, <2>3, <2>4, <2>5 DEF SafetyInv
<1>2. CASE UNCHANGED vars
  BY <1>2 DEF vars, session, labels, files, actors, SafetyInv, SessionInv, OneLive,
     LeaseKnows, LabelInv, OwnedInUse, OwnerGone, SignalForGone, FinishForGone,
     OffWhenOut, GuestInv, GuestKnows, VmInv, Local, Sound, Tidy, Leftover, Early,
     Confirmed, Works, Cleaning, Gone
<1>. QED  BY <1>1, <1>2

LEMMA Safe == Spec => []SafetyInv
<1>1. Init => SafetyInv
  BY InitSafe
<1>2. IInv /\ IInv' /\ SafetyInv /\ [Next]_vars => SafetyInv'
  BY StaysSafe
<1>. QED  BY <1>1, <1>2, Inductive, PTL DEF Spec

-----------------------------------------------------------------------------
(* What follows. *)

(* A VM that may be claimed carries nothing of a session before, in whatever
   order its labels, its disk, its metadata and its files were given up, and
   whatever failed on the way: unless somebody worked on it who no longer had
   it (claim_idle_vm, _complete_pool_vm_release, unity-pool-watcher). *)
THEOREM IdleStaysClean == Spec => []IdleIsClean
<1>1. ASSUME IInv, SafetyInv, NEW v \in Vms, role[v] = "idle", v \notin tainted
      PROVE  /\ owner[v] = None /\ DisksOn(v) = {} /\ ~meta[v].key
             /\ guest[v].home = {}
  <2>1. owner[v] = None
    BY <1>1 DEF IInv, FreeHasNoOwner, Held
  <2>2. Tidy(v)
    BY <1>1 DEF SafetyInv, VmInv, Local, Sound
  <2>3. ~meta[v].key
    BY <2>1, <2>2, <1>1 DEF Tidy, IInv, KeyHasBinding
  <2>4. guest[v].home \subseteq Assistants
    BY <1>1 DEF IInv, TypeOK, GuestType
  <2>. QED  BY <2>1, <2>2, <2>3, <2>4 DEF Tidy, DisksOn
<1>2. IInv /\ SafetyInv => IdleIsClean
  BY <1>1 DEF IdleIsClean
<1>. QED  BY <1>2, Inductive, Safe, PTL

-----------------------------------------------------------------------------
(* The disk of a session: only what it has recorded is in question. *)

OnlyLiveHasRef == \A b \in Bindings : life[b] # "live" => ref[b] = None
DiskInv == OnlyLiveHasRef /\ InUseKeepsDisk

LEMMA RefsKept ==
  ASSUME IInv, OnlyLiveHasRef, Next
  PROVE  OnlyLiveHasRef'
<1>. USE DEF OnlyLiveHasRef
<1>1. ASSUME UNCHANGED <<life, ref>>
      PROVE  OnlyLiveHasRef'
  BY <1>1
<1>2. ASSUME NEW b \in Bindings, BindingStarts(b) \/ BindingEnds(b)
      PROVE  OnlyLiveHasRef'
  BY <1>2 DEF BindingStarts, BindingEnds, IInv, TypeOK
<1>3. ASSUME NEW b \in Bindings, NEW v, life' = life, Recorded(b, v)
      PROVE  OnlyLiveHasRef'
  BY <1>3 DEF Recorded, IInv, TypeOK
<1>4. ASSUME NEW b \in Bindings, Assigning(b)
      PROVE  OnlyLiveHasRef'
  BY <1>1, <1>3, <1>4 DEF Assigning, AssignBegins, Claim, AssignRefused, Attach,
     AttachFails, Configure, session
<1>5. ASSUME NEW b \in Bindings, Releasing(b) \/ \E v \in Vms : Recovering(b, v)
      PROVE  OnlyLiveHasRef'
  BY <1>1, <1>5 DEF Releasing, ReleaseBegins, ReleaseSignalled, Recovering, Rearm,
     Retire, Delete, session
<1>6. ASSUME NEW c \in Completers, NEW v \in Vms, Finishing(c, v)
      PROVE  OnlyLiveHasRef'
  BY <1>1, <1>6 DEF Finishing, FinishClear, FinishMark, FinishGone, session
<1>7. ASSUME NEW v \in Vms, Guest(v)
      PROVE  OnlyLiveHasRef'
  BY <1>1, <1>7 DEF Guest, GuestAssigns, GuestRestored, GuestReleases, GuestArchives,
     GuestScrubs, GuestReports, GuestAnswered, guestOnly, session
<1>8. ASSUME NEW v \in Vms, Keep(v) \/ Grow(v) \/ Trim(v) \/ QuarantineAged(v)
      PROVE  OnlyLiveHasRef'
  BY <1>1, <1>8 DEF Keep, FinishStopped, PowerOn, MarkIdle, PowerOff, ScrubStopped,
     QuarantineDead, Quarantined, Purge, Delete, Grow, Provision, StartStopped, Trim,
     QuarantineAged, poolOnly, session
<1>9. CASE Failing
  BY <1>1, <1>9 DEF Failing, AssignTorn, AssignUndone, LeaseExpires, ReleaseTorn,
     FinishTorn, GuestGivesUp, WatcherCrash, TrimReverts, PowerLoss,
     FinishUnconfirmed, guestOnly, poolOnly, session
<1>. QED  BY <1>2, <1>4, <1>5, <1>6, <1>7, <1>8, <1>9 DEF Next

InUse(b, w) ==
  life[b] = "live" /\ ref[b] = w /\ role[w] = "assigned" /\ owner[w] = b
  /\ w \notin tainted

LEMMA DiskKept ==
  ASSUME Before, DiskInv, Next
  PROVE  InUseKeepsDisk'
<1>. USE DEF DiskInv
<1>1. ASSUME assistant' = assistant,
             \A b \in Bindings, w \in Vms :
               InUse(b, w)' =>
                 \/ disk'[assistant[b]] = w
                 \/ InUse(b, w) /\ disk'[assistant[b]] = disk[assistant[b]]
      PROVE  InUseKeepsDisk'
  BY <1>1 DEF InUseKeepsDisk, InUse
<1>2. ASSUME UNCHANGED <<session, role, owner, disk>>, tainted \subseteq tainted'
      PROVE  InUseKeepsDisk'
  BY <1>1, <1>2 DEF session, InUse
<1>3. ASSUME NEW v \in Vms, UNCHANGED session, tainted \subseteq tainted' \cup {v},
             role'[v] # "assigned", disk' = disk \/ disk' = DetachedFrom(v),
             \A w \in Vms \ {v} : role'[w] = role[w] /\ owner'[w] = owner[w]
      PROVE  InUseKeepsDisk'
  <2>1. ASSUME NEW b \in Bindings, NEW w \in Vms, InUse(b, w)'
        PROVE  disk'[assistant[b]] = w
    <3>1. w # v /\ InUse(b, w)
      BY <1>3, <2>1 DEF InUse, session
    <3>2. disk[assistant[b]] = w /\ assistant[b] \in Assistants
      BY <3>1 DEF InUse, InUseKeepsDisk, Before, IInv, TypeOK
    <3>. QED  BY <1>3, <3>1, <3>2 DEF DetachedFrom
  <2>. QED  BY <1>1, <1>3, <2>1 DEF session
<1>4. ASSUME NEW b \in Bindings, BindingStarts(b) \/ BindingEnds(b)
      PROVE  InUseKeepsDisk'
  <2>1. ASSUME NEW c \in Bindings, NEW w \in Vms, InUse(c, w)'
        PROVE  InUse(c, w)
    <3>1. CASE c = b
      BY <1>4, <2>1, <3>1, NoneAssumption
         DEF InUse, BindingStarts, BindingEnds, OnlyLiveHasRef, Before, IInv, TypeOK
    <3>2. CASE c # b
      BY <1>4, <2>1, <3>2
         DEF InUse, BindingStarts, BindingEnds, labels, Before, IInv, TypeOK
    <3>. QED  BY <3>1, <3>2
  <2>. QED  BY <1>1, <1>4, <2>1 DEF BindingStarts, BindingEnds, files
<1>5. ASSUME NEW b \in Bindings, AssignBegins(b)
      PROVE  InUseKeepsDisk'
  <2>1. /\ life[b] = "live" /\ ref[b] = None
        /\ UNCHANGED <<assistant, life, role, owner, tainted>>
    BY <1>5 DEF AssignBegins, Waiting, labels
  <2>2. CASE disk' = [disk EXCEPT ![assistant[b]] = None] /\ ref' = ref
    <3>1. ASSUME NEW c \in Bindings, NEW w \in Vms, InUse(c, w)'
          PROVE  InUse(c, w) /\ assistant[c] # assistant[b]
      BY <2>1, <2>2, <3>1, NoneAssumption DEF InUse, Before, SessionInv, OneLive
    <3>2. \A c \in Bindings : assistant[c] \in Assistants
      BY DEF Before, IInv, TypeOK
    <3>. QED  BY <1>1, <2>1, <2>2, <3>1, <3>2 DEF Before, IInv, TypeOK
  <2>3. CASE Recorded(b, disk[assistant[b]]) /\ disk' = disk
    <3>1. ASSUME NEW c \in Bindings, NEW w \in Vms, InUse(c, w)'
          PROVE  disk'[assistant[c]] = w \/ InUse(c, w)
      BY <2>1, <2>3, <3>1 DEF InUse, Recorded, Before, IInv, TypeOK
    <3>. QED  BY <1>1, <2>1, <2>3, <3>1
  <2>. QED  BY <1>5, <2>2, <2>3 DEF AssignBegins
<1>6. ASSUME NEW b \in Bindings, NEW v \in Vms, Claim(b, v)
      PROVE  InUseKeepsDisk'
  <2>1. life[b] = "live" => ref[b] = None
    BY <1>6 DEF Claim, Before, SessionInv, LeaseKnows
  <2>2. ASSUME NEW c \in Bindings, NEW w \in Vms, InUse(c, w)'
        PROVE  InUse(c, w)
    BY <1>6, <2>1, <2>2, NoneAssumption DEF Claim, InUse, session, Before, IInv, TypeOK
  <2>. QED  BY <1>1, <1>6, <2>2 DEF Claim, session, files
<1>7. ASSUME NEW b \in Bindings, Attach(b)
      PROVE  InUseKeepsDisk'
  <2>1. /\ disk[assistant[b]] = None
        /\ disk' = [disk EXCEPT ![assistant[b]] = assign[b].vm]
        /\ tainted \subseteq tainted' /\ UNCHANGED <<assistant, life, ref, role, owner>>
    BY <1>7 DEF Attach, Taint, session, labels
  <2>2. ASSUME NEW c \in Bindings, NEW w \in Vms, InUse(c, w)'
        PROVE  InUse(c, w) /\ disk[assistant[c]] = w
    BY <2>1, <2>2 DEF InUse, InUseKeepsDisk
  <2>3. \A c \in Bindings : assistant[c] \in Assistants
    BY DEF Before, IInv, TypeOK
  <2>. QED  BY <1>1, <2>1, <2>2, <2>3, NoneAssumption DEF Before, IInv, TypeOK
<1>8. ASSUME NEW b \in Bindings, Configure(b)
      PROVE  InUseKeepsDisk'
  <2> PICK v \in Vms : v = assign[b].vm
    BY <1>8 DEF Configure, Before, IInv, TypeOK, TasksNameVm
  <2>1. /\ Works(b, v) /\ assign[b].pc = "configure" /\ Recorded(b, v) /\ Taint(v, b)
        /\ UNCHANGED <<assistant, life, role, owner, disk>>
    BY <1>8 DEF Configure, Works, labels, files
  <2>2. ASSUME NEW c \in Bindings, NEW w \in Vms, InUse(c, w)'
        PROVE  disk'[assistant[c]] = w \/ InUse(c, w)
    <3>1. CASE c = b /\ w = v
      <4>1. life[b] = "live" /\ owner[v] = b /\ Sound(v)
        BY <2>1, <2>2, <3>1 DEF InUse, Taint, Sound
      <4>2. Early(b, v)
        BY <4>1 DEF Before, VmInv, Local
      <4>. QED  BY <2>1, <3>1, <4>1, <4>2 DEF Early
    <3>2. CASE c # b
      BY <2>1, <2>2, <3>2 DEF InUse, Recorded, Taint, Before, IInv, TypeOK
    <3>3. CASE c = b /\ w # v
      BY <2>1, <2>2, <3>3 DEF InUse, Recorded, Taint, Before, IInv, TypeOK
    <3>. QED  BY <3>1, <3>2, <3>3
  <2>. QED  BY <1>1, <2>1, <2>2
<1>9. ASSUME NEW b \in Bindings, AssignRefused(b) \/ AttachFails(b)
      PROVE  InUseKeepsDisk'
  BY <1>2, <1>9 DEF AssignRefused, AttachFails, labels, files
<1>10. ASSUME NEW b \in Bindings,
              Releasing(b) \/ \E v \in Vms : Rearm(b, v)
       PROVE  InUseKeepsDisk'
  <2>1. ASSUME NEW v \in Vms, ReleaseBegins(b, v)
        PROVE  InUseKeepsDisk'
    BY <1>3, <2>1 DEF ReleaseBegins, files, Before, IInv, TypeOK
  <2>2. CASE ReleaseSignalled(b) \/ \E v \in Vms : Rearm(b, v)
    BY <1>2, <2>2 DEF ReleaseSignalled, Rearm, Taint, labels, files
  <2>. QED  BY <1>10, <2>1, <2>2 DEF Releasing
<1>11. ASSUME NEW v \in Vms, Delete(v)
       PROVE  InUseKeepsDisk'
  BY <1>3, <1>11 DEF Delete, Before, IInv, TypeOK
<1>12. ASSUME NEW c \in Completers, NEW v \in Vms, FinishClear(c, v)
       PROVE  InUseKeepsDisk'
  <2>1. /\ finish[c][v].pc = "clear" /\ disk' = DetachedFrom(v)
        /\ Taint(v, finish[c][v].binding) /\ UNCHANGED <<session, role, owner>>
    BY <1>12 DEF FinishClear, labels
  <2>2. ASSUME NEW b \in Bindings, NEW w \in Vms, InUse(b, w)'
        PROVE  w # v /\ InUse(b, w)
    <3>1. CASE w = v
      <4>1. Sound(v) /\ finish[c][v].binding = owner[v]
        BY <2>1, <2>2, <3>1 DEF InUse, Taint, Sound
      <4>2. Confirmed(c, v)
        BY <4>1 DEF Before, VmInv, Local
      <4>. QED  BY <2>1, <2>2, <3>1, <4>1, <4>2 DEF Confirmed, InUse
    <3>. QED  BY <2>1, <2>2, <3>1 DEF InUse, Taint, session
  <2>3. ASSUME NEW b \in Bindings, NEW w \in Vms, InUse(b, w)'
        PROVE  disk'[assistant[b]] = w
    <3>1. w # v /\ InUse(b, w)
      BY <2>2, <2>3
    <3>2. disk[assistant[b]] = w /\ assistant[b] \in Assistants
      BY <3>1 DEF InUse, InUseKeepsDisk, Before, IInv, TypeOK
    <3>. QED  BY <2>1, <3>1, <3>2 DEF DetachedFrom
  <2>. QED  BY <1>1, <2>1, <2>3 DEF session
<1>13. ASSUME NEW c \in Completers, NEW v \in Vms, FinishMark(c, v) \/ FinishGone(c, v)
       PROVE  InUseKeepsDisk'
  <2>1. CASE FinishMark(c, v) /\ role[v] = "releasing"
    BY <1>3, <2>1 DEF FinishMark, Taint, files, Before, IInv, TypeOK
  <2>. QED  BY <1>2, <1>13, <2>1 DEF FinishMark, FinishGone, labels, files
<1>14. ASSUME NEW v \in Vms, Guest(v)
       PROVE  InUseKeepsDisk'
  BY <1>2, <1>14 DEF Guest, GuestAssigns, GuestRestored, GuestReleases, GuestArchives,
     GuestScrubs, GuestReports, GuestAnswered, guestOnly, labels, files
<1>15. ASSUME NEW v \in Vms, Provision(v) \/ StartStopped(v) \/ MarkIdle(v) \/ Trim(v)
                             \/ TrimReverts(v) \/ ScrubStopped(v) \/ Quarantined(v)
       PROVE  InUseKeepsDisk'
  BY <1>3, <1>15 DEF Provision, StartStopped, MarkIdle, Trim, TrimReverts, ScrubStopped,
     Quarantined, poolOnly, files, Before, IInv, TypeOK
<1>16. ASSUME NEW v \in Vms, PowerOn(v) \/ PowerOff(v)
       PROVE  InUseKeepsDisk'
  BY <1>2, <1>16 DEF PowerOn, PowerOff, poolOnly, files
<1>17. ASSUME NEW b \in Bindings, AssignUndone(b)
       PROVE  InUseKeepsDisk'
  <2> PICK v \in Vms : v = assign[b].vm
    BY <1>17 DEF AssignUndone, Before, IInv, TypeOK, TasksNameVm
  <2>1. CASE role[v] = "assigned"
    BY <1>3, <1>17, <2>1 DEF AssignUndone, Taint, files, Before, IInv, TypeOK
  <2>2. CASE role[v] # "assigned"
    BY <1>2, <1>17, <2>2 DEF AssignUndone, files
  <2>. QED  BY <2>1, <2>2
<1>18. CASE Failing
  <2>1. ASSUME NEW b \in Bindings, AssignTorn(b) \/ LeaseExpires(b) \/ ReleaseTorn(b)
        PROVE  InUseKeepsDisk'
    BY <1>2, <2>1 DEF AssignTorn, LeaseExpires, ReleaseTorn, labels, files
  <2>2. ASSUME NEW c \in Completers, NEW v \in Vms, FinishTorn(c, v)
        PROVE  InUseKeepsDisk'
    BY <1>2, <2>2 DEF FinishTorn, labels, files
  <2>3. ASSUME NEW v \in Vms, GuestGivesUp(v) \/ WatcherCrash(v) \/ PowerLoss(v)
                              \/ FinishUnconfirmed(v)
        PROVE  InUseKeepsDisk'
    BY <1>2, <2>3 DEF GuestGivesUp, WatcherCrash, PowerLoss, FinishUnconfirmed,
       guestOnly, poolOnly, labels, files
  <2>. QED  BY <1>15, <1>17, <1>18, <2>1, <2>2, <2>3 DEF Failing
<1>. QED  BY <1>4, <1>5, <1>6, <1>7, <1>8, <1>9, <1>10, <1>11, <1>12, <1>13, <1>14,
             <1>15, <1>16, <1>18
          DEF Next, Assigning, Recovering, Retire, Finishing, Keep, FinishStopped,
              Purge, QuarantineDead, Grow, QuarantineAged

(* A session keeps the disk of its assistant in the VM it was given, whatever is
   reclaimed, completed or swept for the bindings before: unless somebody who
   no longer had the VM worked on it (_ensure_disk_ready_for_binding,
   reclaim_orphaned_assistant_disk, _complete_pool_vm_release). *)
THEOREM DisksKept == Spec => []InUseKeepsDisk
<1>1. Init => DiskInv
  BY DEF Init, DiskInv, OnlyLiveHasRef, InUseKeepsDisk
<1>2. IInv /\ SafetyInv /\ DiskInv /\ [Next]_vars => DiskInv'
  <2>1. CASE Next
    BY <2>1, RefsKept, DiskKept DEF DiskInv, SafetyInv, Before
  <2>2. CASE UNCHANGED vars
    BY <2>2 DEF vars, session, labels, files, DiskInv, OnlyLiveHasRef, InUseKeepsDisk
  <2>. QED  BY <2>1, <2>2
<1>3. DiskInv => InUseKeepsDisk
  BY DEF DiskInv
<1>. QED  BY <1>1, <1>2, <1>3, Inductive, Safe, PTL DEF Spec

-----------------------------------------------------------------------------
(* An archive changes only when a watcher archives, and only to what that VM
   holds: on a VM that nobody has tampered with, the files of its binding. *)
LEMMA ArchivedIsOwn ==
  ASSUME IInv, SafetyInv, NEW v \in Vms, GuestArchives(v), v \notin tainted,
         NEW a \in Assistants, archive'[a] = "foreign"
  PROVE  archive[a] = "foreign"
<1>1. Tidy(v)
  BY DEF GuestArchives, SafetyInv, LabelInv, OffWhenOut, VmInv, Local, Sound
<1>2. meta[v].binding \in Bindings \cup {None}
  BY DEF IInv, TypeOK, MetaType
<1>3. CASE archive' = archive
  BY <1>3
<1>4. CASE archive' # archive
  <2> PICK o \in Assistants : o = assistant[meta[v].binding]
    BY <1>2, <1>4 DEF GuestArchives, IInv, TypeOK
  <2>1. archive' = [archive EXCEPT ![o] = Archived(v, o)]
    BY <1>4 DEF GuestArchives
  <2>2. guest[v].home \ {o} = {}
    <3>1. guest[v].home \subseteq Assistants
      BY DEF IInv, TypeOK, GuestType
    <3>. QED  BY <1>1, <3>1 DEF Tidy
  <2>3. Archived(v, o) # "foreign"
    BY <2>2 DEF Archived
  <2>. QED  BY <2>1, <2>3 DEF IInv, TypeOK
<1>. QED  BY <1>3, <1>4

LEMMA OnlyGuestsArchive ==
  ASSUME Next, archive' # archive
  PROVE  \E v \in Vms : GuestArchives(v)
<1>1. ASSUME NEW b \in Bindings,
             \/ BindingStarts(b) \/ BindingEnds(b) \/ Assigning(b) \/ Releasing(b)
             \/ \E v \in Vms : Recovering(b, v)
      PROVE  FALSE
  BY <1>1 DEF BindingStarts, BindingEnds, Assigning, AssignBegins, Claim, AssignRefused,
     Attach, AttachFails, Configure, Releasing, ReleaseBegins, ReleaseSignalled,
     Recovering, Rearm, Retire, Delete, files
<1>2. ASSUME NEW c \in Completers, NEW v \in Vms, Finishing(c, v)
      PROVE  FALSE
  BY <1>2 DEF Finishing, FinishClear, FinishMark, FinishGone, files
<1>3. ASSUME NEW v \in Vms, Keep(v) \/ Grow(v) \/ Trim(v) \/ QuarantineAged(v)
      PROVE  FALSE
  BY <1>3 DEF Keep, FinishStopped, PowerOn, MarkIdle, PowerOff, ScrubStopped,
     QuarantineDead, Quarantined, Purge, Delete, Grow, Provision, StartStopped, Trim,
     QuarantineAged, poolOnly, files
<1>4. ASSUME Failing
      PROVE  FALSE
  BY <1>4 DEF Failing, AssignTorn, AssignUndone, LeaseExpires, ReleaseTorn, FinishTorn,
     GuestGivesUp, WatcherCrash, TrimReverts, PowerLoss, FinishUnconfirmed, poolOnly,
     files
<1>5. ASSUME NEW v \in Vms, Guest(v)
      PROVE  GuestArchives(v)
  BY <1>5 DEF Guest, GuestAssigns, GuestRestored, GuestReleases, GuestScrubs,
     GuestReports, GuestAnswered, files
<1>. QED  BY <1>1, <1>2, <1>3, <1>4, <1>5 DEF Next

(* The files of one assistant never get into the archive of another, although
   the watcher looks up whose archive it is only after the release has begun:
   unless somebody who no longer had the VM worked on it (do_release). *)
THEOREM ArchivesKept == Spec => ArchiveIsOwn
<1> DEFINE Kept == \A a \in Assistants :
             archive'[a] = "foreign" /\ archive[a] # "foreign" =>
               \E v \in tainted : guest[v].pc = "archiving"
<1>1. IInv /\ SafetyInv /\ [Next]_vars => [Kept]_vars
  <2> SUFFICES ASSUME IInv, SafetyInv, Next, NEW a \in Assistants,
                      archive'[a] = "foreign", archive[a] # "foreign"
               PROVE  \E v \in tainted : guest[v].pc = "archiving"
    OBVIOUS
  <2> PICK v \in Vms : GuestArchives(v)
    BY OnlyGuestsArchive
  <2>1. v \in tainted
    BY ArchivedIsOwn
  <2>. QED  BY <2>1 DEF GuestArchives
<1>. QED  BY <1>1, Inductive, Safe, PTL DEF Spec, ArchiveIsOwn
=============================================================================

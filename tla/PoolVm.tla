------------------------------- MODULE PoolVm -------------------------------
(***************************************************************************)
(* A pool of desktop VMs: how a VM is assigned to a binding, released by   *)
(* it, cleaned up by the guest, and how the pool keeps its size.           *)
(*                                                                         *)
(* The truth about a VM is its labels (its role and the binding that owns  *)
(* it), which are changed by compare-and-swap on the role; the guest only  *)
(* sees the VM's metadata, which are written in a step of their own.  A    *)
(* key in the metadata starts an assignment in the guest; the key cleared, *)
(* and a release generation, start the release: archive the assistant's    *)
(* files, scrub, and report back, upon which the API detaches the disk,    *)
(* clears the metadata and makes the VM idle.                              *)
(*                                                                         *)
(* Assignment and release of one binding take a lease; the completion of a *)
(* release does not.  A timeout may fire whenever its clock is running.    *)
(*                                                                         *)
(* Abstractions:                                                           *)
(*  - one zone, one VM type, one contract generation; no addresses, keys,  *)
(*    certificates or secrets;                                             *)
(*  - a compare-and-swap of labels is one step, as is a disk that is taken *)
(*    from a stale owner, and a scrub pass looks at one VM at a time;      *)
(*  - the key of an assistant stands for the metadata that trigger a       *)
(*    release; Local and the desktop profile are one set of files;         *)
(*  - a request that is only refused or skipped is left out.               *)
(***************************************************************************)
EXTENDS Naturals, FiniteSets

CONSTANTS
  Vms, Bindings, Assistants, None,
  Owners,        \* possible assignments of bindings to assistants
  Fresh,         \* assistants whose disk is new, and restored from the archive
  TargetIdle,    \* POOL_TARGET_IDLE
  MaxGeneration, \* MAX_RELEASE_GENERATION
  MaxFaults      \* bound: failed calls, crashes, power losses

ASSUME NoneAssumption == None \notin Bindings \cup Assistants \cup Vms
ASSUME OwnersAssumption ==
  Owners \subseteq [Bindings -> Assistants] /\ Fresh \subseteq Assistants
ASSUME BoundsAssumption ==
  TargetIdle \in Nat /\ MaxGeneration \in Nat \ {0} /\ MaxFaults \in Nat

VARIABLES
  assistant,  \* binding -> its assistant
  life,       \* binding -> "new", "live" (its Job runs) or "over"
  ref,        \* binding -> the VM its session has recorded
  role,       \* VM -> label pool-role, or "absent"
  owner,      \* VM -> label binding-id
  on,         \* VM -> it is running
  meta,       \* VM -> its metadata
  disk,       \* assistant -> the VM its disk is attached to
  content,    \* assistant -> what is on its disk
  archive,    \* assistant -> what is in its archive
  guest,      \* VM -> the watcher and the files in the VM
  assign,     \* binding -> its assignment, in progress
  release,    \* binding -> its release request, in progress
  finish,     \* completer, VM -> a completion in progress
  expired,    \* bindings whose lease has run out under an assignment
  faults,     \* faults so far
  tainted     \* VMs on which an actor did what was no longer due (ghost)

labels == <<role, owner, on>>
session == <<assistant, life, ref>>
files == <<disk, content, archive>>
actors == <<assign, release, finish, expired>>
vars == <<session, labels, meta, files, guest, actors, faults, tainted>>

-----------------------------------------------------------------------------
(* Values *)

Roles == {"absent", "provisioning", "starting", "idle", "assigned",
          "releasing", "stopped", "quarantined"}
Held == {"assigned", "releasing", "quarantined"}  \* roles that have an owner
InFlight == {"provisioning", "starting", "releasing"}
Completers == {"guest", "session"}   \* the callback, the session's own release

(* The binding, whether the assignment's key is set, the release generation. *)
MetaType == [binding: Bindings \cup {None}, key: BOOLEAN, gen: 0..MaxGeneration]
NoMeta == [binding |-> None, key |-> FALSE, gen |-> 0]

TokenType == [binding: Bindings \cup {None}, gen: 0..MaxGeneration]
NoToken == [binding |-> None, gen |-> 0]

(* PREV_UNIFY_KEY, the assistants whose files are in /Unity, whether they are
   all there, the flag of a restore in flight, the token of the release at
   work, and the last one acknowledged. *)
GuestType ==
  [pc: {"watch", "restoring", "archiving", "scrubbing", "reporting", "waiting"},
   prev: Assistants \cup {None}, home: SUBSET Assistants, whole: BOOLEAN,
   flag: BOOLEAN, token: TokenType, acked: TokenType]
NewGuest == [pc |-> "watch", prev |-> None, home |-> {}, whole |-> TRUE,
             flag |-> FALSE, token |-> NoToken, acked |-> NoToken]

NoTask == [pc |-> "idle", vm |-> None]
NoFinish == [pc |-> "idle", binding |-> None]

TypeOK ==
  /\ assistant \in [Bindings -> Assistants]
  /\ life \in [Bindings -> {"new", "live", "over"}]
  /\ ref \in [Bindings -> Vms \cup {None}]
  /\ role \in [Vms -> Roles]
  /\ owner \in [Vms -> Bindings \cup {None}]
  /\ on \in [Vms -> BOOLEAN]
  /\ meta \in [Vms -> MetaType]
  /\ disk \in [Assistants -> Vms \cup {None}]
  /\ content \in [Assistants -> {"empty", "restoring", "partial", "whole"}]
  /\ archive \in [Assistants -> {"own", "truncated", "foreign"}]
  /\ guest \in [Vms -> GuestType]
  /\ assign \in [Bindings -> [pc: {"idle", "claim", "attach", "configure"},
                              vm: Vms \cup {None}]]
  /\ release \in [Bindings -> [pc: {"idle", "signal"}, vm: Vms \cup {None}]]
  /\ finish \in [Completers -> [Vms ->
       [pc: {"idle", "clear", "mark"}, binding: Bindings \cup {None}]]]
  /\ expired \subseteq Bindings
  /\ faults \in 0..MaxFaults
  /\ tainted \subseteq Vms

Fault == faults < MaxFaults /\ faults' = faults + 1
NoFault == UNCHANGED faults

Idle == {v \in Vms : role[v] = "idle" /\ on[v]}
Owned(v, b) == owner[v] = b /\ role[v] \in {"assigned", "releasing"}
DisksOn(v) == {a \in Assistants : disk[a] = v}
DetachedFrom(v) == [a \in Assistants |-> IF disk[a] = v THEN None ELSE disk[a]]

(* A live binding that no VM has been recorded for (pending_vm_demand). *)
Waiting == {b \in Bindings : life[b] = "live" /\ ref[b] = None}
Claiming == {b \in Bindings : assign[b].pc = "claim"}
Larger(m, n) == IF m > n THEN m ELSE n

LeaseFree(b) ==
  /\ assign[b].pc = "idle" \/ b \in expired
  /\ release[b].pc = "idle"

(* An actor that works on VM v although binding b no longer has it. *)
Taint(v, b) == tainted' = IF owner[v] = b THEN tainted ELSE tainted \cup {v}

(* The VM and what is on its boot disk are gone (_delete_pool_vm_instance). *)
Delete(v) ==
  /\ role' = [role EXCEPT ![v] = "absent"]
  /\ owner' = [owner EXCEPT ![v] = None]
  /\ on' = [on EXCEPT ![v] = FALSE]
  /\ meta' = [meta EXCEPT ![v] = NoMeta]
  /\ disk' = DetachedFrom(v)
  /\ guest' = [guest EXCEPT ![v] = NewGuest]
  /\ tainted' = tainted \ {v}
  /\ UNCHANGED <<session, content, archive, actors>>

(* What the guest makes of its metadata: PREV_UNIFY_KEY is compared with the
   key; current_release_token, should_trigger_release. *)
CurrentKey(v) == IF meta[v].key THEN assistant[meta[v].binding] ELSE None

Token(v) ==
  IF meta[v].binding # None /\ meta[v].gen > 0
    THEN [binding |-> meta[v].binding, gen |-> meta[v].gen] ELSE NoToken

ReleaseDue(v) ==
  /\ ~meta[v].key
  /\ IF Token(v) = NoToken THEN guest[v].prev # None
     ELSE Token(v) # guest[v].acked

-----------------------------------------------------------------------------
(* The bindings; the Job of one that is over does not run. *)

(* An assistant has one binding at a time. *)
BindingStarts(b) ==
  /\ life[b] = "new"
  /\ \A c \in Bindings \ {b} : assistant[c] = assistant[b] => life[c] # "live"
  /\ life' = [life EXCEPT ![b] = "live"]
  /\ UNCHANGED <<assistant, ref, labels, meta, files, guest, actors, faults, tainted>>

BindingEnds(b) ==
  /\ life[b] = "live"
  /\ life' = [life EXCEPT ![b] = "over"]
  /\ ref' = [ref EXCEPT ![b] = None]
  /\ UNCHANGED <<assistant, labels, meta, files, guest, actors, faults, tainted>>

-----------------------------------------------------------------------------
(* Assignment (_assign_pool_vm) *)

Recorded(b, v) == ref' = IF life[b] = "live" THEN [ref EXCEPT ![b] = v] ELSE ref

(* _ensure_disk_ready_for_binding: the disk is free, or taken from an owner
   that is not assigned; a VM of this very binding is adopted. *)
AssignBegins(b) ==
  LET a == assistant[b]
      v == disk[a]
  IN
  /\ b \in Waiting /\ LeaseFree(b)
  /\ \/ /\ v # None => owner[v] # b /\ role[v] # "assigned"
        /\ disk' = [disk EXCEPT ![a] = None]
        /\ assign' = [assign EXCEPT ![b] = [pc |-> "claim", vm |-> None]]
        /\ expired' = expired \ {b}
        /\ UNCHANGED ref
     \/ /\ v # None /\ owner[v] = b /\ role[v] = "assigned"
        /\ Recorded(b, v)
        /\ UNCHANGED <<disk, assign, expired>>
  /\ UNCHANGED <<assistant, life, labels, meta, content, archive, guest,
                 release, finish, faults, tainted>>

(* Mutant: the claim does not look at the role it swaps. *)
ClaimAny(b, v) ==
  /\ assign[b].pc = "claim"
  /\ role[v] \in {"idle", "releasing"} /\ on[v]
  /\ role' = [role EXCEPT ![v] = "assigned"]
  /\ owner' = [owner EXCEPT ![v] = b]
  /\ assign' = [assign EXCEPT ![b] = [pc |-> "attach", vm |-> v]]
  /\ UNCHANGED <<session, on, meta, files, guest, release, finish, expired,
                 faults, tainted>>

(* claim_idle_vm *)
Claim(b, v) ==
  /\ assign[b].pc = "claim"
  /\ v \in Idle
  /\ role' = [role EXCEPT ![v] = "assigned"]
  /\ owner' = [owner EXCEPT ![v] = b]
  /\ assign' = [assign EXCEPT ![b] = [pc |-> "attach", vm |-> v]]
  /\ UNCHANGED <<session, on, meta, files, guest, release, finish, expired,
                 faults, tainted>>

(* The end of an assignment frees the lease. *)
AssignEnds(b) ==
  /\ assign' = [assign EXCEPT ![b] = NoTask]
  /\ expired' = expired \ {b}

(* No VM is idle; the attempt is made again later. *)
AssignRefused(b) ==
  /\ assign[b].pc = "claim" /\ Idle = {}
  /\ AssignEnds(b)
  /\ UNCHANGED <<session, labels, meta, files, guest, release, finish, faults,
                 tainted>>

(* Mutant: a disk that is attached elsewhere is not an error. *)
AttachAnyway(b) ==
  LET v == assign[b].vm IN
  /\ assign[b].pc = "attach" /\ role[v] # "absent"
  /\ disk' = [disk EXCEPT ![assistant[b]] = IF @ = None THEN v ELSE @]
  /\ assign' = [assign EXCEPT ![b].pc = "configure"]
  /\ Taint(v, b)
  /\ UNCHANGED <<session, labels, meta, content, archive, guest, release, finish,
                 expired, faults>>

(* create_assistant_disk, attach_assistant_disk *)
Attach(b) ==
  LET v == assign[b].vm IN
  /\ assign[b].pc = "attach"
  /\ disk[assistant[b]] = None /\ role[v] # "absent"
  /\ disk' = [disk EXCEPT ![assistant[b]] = v]
  /\ assign' = [assign EXCEPT ![b].pc = "configure"]
  /\ Taint(v, b)
  /\ UNCHANGED <<session, labels, meta, content, archive, guest, release, finish,
                 expired, faults>>

(* The disk is attached elsewhere, or the VM has been deleted. *)
AttachFails(b) ==
  /\ assign[b].pc \in {"attach", "configure"}
  /\ \/ role[assign[b].vm] = "absent"
     \/ assign[b].pc = "attach" /\ disk[assistant[b]] # None
  /\ AssignEnds(b)
  /\ UNCHANGED <<session, labels, meta, files, guest, release, finish, faults,
                 tainted>>

(* The metadata wake the guest; the session records the VM, unless it has
   moved on. *)
Configure(b) ==
  LET v == assign[b].vm IN
  /\ assign[b].pc = "configure" /\ role[v] # "absent"
  /\ meta' = [meta EXCEPT ![v] = [binding |-> b, key |-> TRUE, gen |-> 0]]
  /\ Recorded(b, v)
  /\ AssignEnds(b)
  /\ Taint(v, b)
  /\ UNCHANGED <<assistant, life, labels, files, guest, release, finish, faults>>

(* The worker dies or a call fails: what has been done stays as it is. *)
AssignTorn(b) ==
  /\ assign[b].pc # "idle"
  /\ Fault
  /\ AssignEnds(b)
  /\ UNCHANGED <<session, labels, meta, files, guest, release, finish, tainted>>

(* The address of the assistant cannot be attached: the VM is made idle. *)
AssignUndone(b) ==
  LET v == assign[b].vm IN
  /\ assign[b].pc = "attach"
  /\ Fault
  /\ AssignEnds(b)
  /\ IF role[v] = "assigned"
       THEN /\ role' = [role EXCEPT ![v] = "idle"]
            /\ owner' = [owner EXCEPT ![v] = None]
            /\ Taint(v, b)
       ELSE UNCHANGED <<role, owner, tainted>>
  /\ UNCHANGED <<session, on, meta, files, guest, release, finish>>

(* An assignment takes longer than its lease, which nobody renews. *)
LeaseExpires(b) ==
  /\ assign[b].pc \in {"attach", "configure"} /\ b \notin expired
  /\ Fault
  /\ expired' = expired \cup {b}
  /\ tainted' = tainted \cup {assign[b].vm}
  /\ UNCHANGED <<session, labels, meta, files, guest, assign, release, finish>>

-----------------------------------------------------------------------------
(* Release (_release_pool_vm, recover_stuck_pool_vm_release) *)

(* The session, the stale result of a worker, or the sweeper of orphans. *)
ReleaseBegins(b, v) ==
  /\ life[b] = "over" /\ LeaseFree(b)
  /\ owner[v] = b /\ role[v] = "assigned"
  /\ role' = [role EXCEPT ![v] = "releasing"]
  /\ release' = [release EXCEPT ![b] = [pc |-> "signal", vm |-> v]]
  /\ UNCHANGED <<session, owner, on, meta, files, guest, assign, finish, expired,
                 faults, tainted>>

(* The key is cleared and a generation set; the VM may be gone by now. *)
Signalled(v, gen) == meta' = [meta EXCEPT ![v] = [@ EXCEPT !.key = FALSE, !.gen = gen]]

ReleaseSignalled(b) ==
  LET v == release[b].vm IN
  /\ release[b].pc = "signal"
  /\ IF role[v] = "absent" THEN UNCHANGED <<meta, tainted>>
     ELSE Signalled(v, 1) /\ Taint(v, b)
  /\ release' = [release EXCEPT ![b] = NoTask]
  /\ UNCHANGED <<session, labels, files, guest, assign, finish, expired, faults>>

ReleaseTorn(b) ==
  /\ release[b].pc # "idle"
  /\ Fault
  /\ release' = [release EXCEPT ![b] = NoTask]
  /\ UNCHANGED <<session, labels, meta, files, guest, assign, finish, expired,
                 tainted>>

(* Mutants: only a release the guest has been told of is armed again; there is
   no last generation. *)
RearmSignalled(b, v) ==
  /\ role[v] = "releasing" /\ owner[v] = b /\ LeaseFree(b)
  /\ meta[v].gen \in 1..(MaxGeneration - 1)
  /\ Signalled(v, meta[v].gen + 1)
  /\ UNCHANGED <<session, labels, files, guest, actors, faults, tainted>>
RearmAlways(b, v) ==
  /\ role[v] = "releasing" /\ owner[v] = b /\ LeaseFree(b)
  /\ Signalled(v, meta[v].gen + 1)
  /\ UNCHANGED <<session, labels, files, guest, actors, faults, tainted>>

(* The release has taken too long: it is armed again under the next
   generation, as long as there is one. *)
Rearm(b, v) ==
  /\ role[v] = "releasing" /\ owner[v] = b /\ LeaseFree(b)
  /\ meta[v].gen < MaxGeneration
  /\ Signalled(v, meta[v].gen + 1)
  /\ UNCHANGED <<session, labels, files, guest, actors, faults, tainted>>

(* retire_pool_vm_release, when there is none. *)
Retire(b, v) ==
  /\ role[v] \in {"releasing", "quarantined"} /\ owner[v] = b /\ LeaseFree(b)
  /\ meta[v].gen = MaxGeneration
  /\ Delete(v)
  /\ UNCHANGED faults

-----------------------------------------------------------------------------
(* Completion (_complete_pool_vm_release), which takes no lease *)

FinishEnds(c, v) == finish' = [finish EXCEPT ![c][v] = NoFinish]

(* The session has no binding that needs the VM, and completes the release
   although the guest may not have confirmed it. *)
FinishUnconfirmed(v) ==
  LET b == owner[v] IN
  /\ role[v] = "releasing" /\ on[v]
  /\ finish["session"][v].pc = "idle"
  /\ \A c \in Bindings : assistant[c] = assistant[b] => life[c] # "live"
  /\ Fault
  /\ finish' = [finish EXCEPT !["session"][v] = [pc |-> "clear", binding |-> b]]
  /\ tainted' = IF Token(v) # NoToken /\ Token(v) = guest[v].acked THEN tainted
                ELSE tainted \cup {v}
  /\ UNCHANGED <<session, labels, meta, files, guest, assign, release, expired>>

(* A VM that has stopped is deleted instead. *)
FinishStopped(v) ==
  /\ role[v] = "releasing" /\ ~on[v]
  /\ Delete(v)
  /\ UNCHANGED faults

(* Mutant: the disk stays attached. *)
FinishMetadata(c, v) ==
  /\ finish[c][v].pc = "clear" /\ role[v] # "absent"
  /\ meta' = [meta EXCEPT ![v] = NoMeta]
  /\ finish' = [finish EXCEPT ![c][v].pc = "mark"]
  /\ Taint(v, finish[c][v].binding)
  /\ UNCHANGED <<session, labels, files, guest, assign, release, expired, faults>>

(* Every disk of an assistant that is attached goes, then the metadata. *)
FinishClear(c, v) ==
  /\ finish[c][v].pc = "clear" /\ role[v] # "absent"
  /\ disk' = DetachedFrom(v)
  /\ meta' = [meta EXCEPT ![v] = NoMeta]
  /\ finish' = [finish EXCEPT ![c][v].pc = "mark"]
  /\ Taint(v, finish[c][v].binding)
  /\ UNCHANGED <<session, labels, content, archive, guest, assign, release,
                 expired, faults>>

(* Idle again, if it is still releasing: the owner is not compared. *)
FinishMark(c, v) ==
  /\ finish[c][v].pc = "mark"
  /\ IF role[v] = "releasing"
       THEN /\ role' = [role EXCEPT ![v] = "idle"]
            /\ owner' = [owner EXCEPT ![v] = None]
            /\ Taint(v, finish[c][v].binding)
       ELSE UNCHANGED <<role, owner, tainted>>
  /\ FinishEnds(c, v)
  /\ UNCHANGED <<session, on, meta, files, guest, assign, release, expired,
                 faults>>

(* The VM was deleted under it. *)
FinishGone(c, v) ==
  /\ finish[c][v].pc = "clear" /\ role[v] = "absent"
  /\ FinishEnds(c, v)
  /\ UNCHANGED <<session, labels, meta, files, guest, assign, release, expired,
                 faults, tainted>>

FinishTorn(c, v) ==
  /\ finish[c][v].pc # "idle"
  /\ Fault
  /\ FinishEnds(c, v)
  /\ UNCHANGED <<session, labels, meta, files, guest, assign, release, expired,
                 tainted>>

-----------------------------------------------------------------------------
(* The guest (unity-pool-watcher) *)

Polls(v) == on[v] /\ guest[v].pc \in {"watch", "restoring"}
guestOnly == UNCHANGED <<session, labels, meta, disk, actors, tainted>>

(* do_assign begins to restore the files of the assistant.  Only an empty disk
   is restored: what a restore that was cut short has left on it stays. *)
GuestAssigns(v) ==
  LET a == CurrentKey(v) IN
  /\ Polls(v)
  /\ a # None /\ a # guest[v].prev
  /\ guest' = [guest EXCEPT ![v] =
       [@ EXCEPT !.pc = "restoring", !.prev = a, !.acked = NoToken,
          !.home = guest[v].home \cup {a}, !.whole = FALSE, !.flag = TRUE]]
  /\ content' = [content EXCEPT ![a] =
       IF disk[a] # v THEN @
       ELSE IF @ = "empty" THEN "restoring"
       ELSE IF @ = "restoring" THEN "partial" ELSE @]
  /\ guestOnly /\ NoFault /\ UNCHANGED archive

(* The files are in place, and the desktop starts. *)
GuestRestored(v) ==
  LET a == guest[v].prev IN
  /\ on[v] /\ guest[v].pc = "restoring"
  /\ guest' = [guest EXCEPT ![v] =
       [@ EXCEPT !.pc = "watch", !.whole = TRUE, !.flag = FALSE]]
  /\ content' = [content EXCEPT ![a] =
       IF disk[a] = v /\ @ = "restoring" THEN "whole" ELSE @]
  /\ guestOnly /\ NoFault /\ UNCHANGED archive

(* do_release: a running assignment is cancelled. *)
GuestReleases(v) ==
  /\ Polls(v)
  /\ ReleaseDue(v)
  /\ guest' = [guest EXCEPT ![v] =
       [@ EXCEPT !.pc = "archiving", !.prev = None, !.token = Token(v)]]
  /\ guestOnly /\ NoFault /\ UNCHANGED <<content, archive>>

(* What the archive of a holds once the files in the VM have been put there. *)
Archived(v, a) ==
  IF guest[v].home \ {a} # {} THEN "foreign"
  ELSE IF ~guest[v].whole \/ content[a] # "whole" THEN "truncated"
  ELSE "own"

(* The archive is that of the assistant in the metadata now.  Nothing is
   uploaded when a restore was cut short, or there are no files. *)
GuestArchives(v) ==
  LET a == IF meta[v].binding = None THEN None ELSE assistant[meta[v].binding] IN
  /\ on[v] /\ guest[v].pc = "archiving"
  /\ archive' = IF a = None \/ guest[v].flag \/ guest[v].home = {} THEN archive
                ELSE [archive EXCEPT ![a] = Archived(v, a)]
  /\ guest' = [guest EXCEPT ![v] = [@ EXCEPT !.pc = "scrubbing", !.flag = FALSE]]
  /\ guestOnly /\ NoFault /\ UNCHANGED content

(* Mutant: the files of the session before are left in place. *)
ScrubNothing(v) ==
  /\ on[v] /\ guest[v].pc = "scrubbing"
  /\ guest' = [guest EXCEPT ![v] = [@ EXCEPT !.pc = "reporting"]]
  /\ guestOnly /\ NoFault /\ UNCHANGED <<content, archive>>

GuestScrubs(v) ==
  /\ on[v] /\ guest[v].pc = "scrubbing"
  /\ guest' = [guest EXCEPT ![v] =
       [@ EXCEPT !.pc = "reporting", !.home = {}, !.whole = TRUE]]
  /\ guestOnly /\ NoFault /\ UNCHANGED <<content, archive>>

(* The token of another binding than the VM has now never comes back. *)
GuestDone(v, token) ==
  guest' = [guest EXCEPT ![v] =
    [@ EXCEPT !.pc = "watch", !.token = NoToken,
              !.acked = IF token.binding = meta[v].binding THEN token ELSE NoToken]]

(* vm_release_complete_endpoint: a release that is no longer this binding's
   is skipped, which the guest takes as done.  The guest reports for the binding
   that it finds now, be it that of a later session than it has cleaned up. *)
GuestReports(v) ==
  LET b == meta[v].binding IN
  /\ on[v] /\ guest[v].pc = "reporting"
  /\ \/ /\ b = None
        /\ GuestDone(v, guest[v].acked)
        /\ UNCHANGED <<finish, tainted>>
     \/ /\ b # None /\ (owner[v] # b \/ role[v] # "releasing")
        /\ GuestDone(v, guest[v].token)
        /\ UNCHANGED <<finish, tainted>>
     \/ /\ b # None /\ owner[v] = b /\ role[v] = "releasing"
        /\ finish["guest"][v].pc = "idle"
        /\ finish' = [finish EXCEPT !["guest"][v] = [pc |-> "clear", binding |-> b]]
        /\ guest' = [guest EXCEPT ![v].pc = "waiting"]
        /\ tainted' = IF guest[v].token.binding = b THEN tainted
                      ELSE tainted \cup {v}
  /\ UNCHANGED <<session, labels, meta, files, assign, release, expired, faults>>

(* The answer, after which the token is saved. *)
GuestAnswered(v) ==
  /\ on[v] /\ guest[v].pc = "waiting" /\ finish["guest"][v].pc = "idle"
  /\ GuestDone(v, guest[v].token)
  /\ guestOnly /\ NoFault /\ UNCHANGED <<content, archive>>

(* No answer, however often it is asked: the token is not saved. *)
GuestGivesUp(v) ==
  /\ on[v] /\ guest[v].pc \in {"reporting", "waiting"}
  /\ Fault
  /\ GuestDone(v, guest[v].acked)
  /\ guestOnly /\ UNCHANGED <<content, archive>>

(* What survives in the VM: the files, the flag and the saved token. *)
Restarted(v) ==
  guest' = [guest EXCEPT ![v] =
    [@ EXCEPT !.pc = "watch", !.prev = None, !.token = NoToken]]

WatcherCrash(v) ==
  /\ on[v] /\ (guest[v].prev # None \/ guest[v].pc # "watch")
  /\ Fault
  /\ Restarted(v)
  /\ guestOnly /\ UNCHANGED <<content, archive>>

-----------------------------------------------------------------------------
(* The pool and its size *)

Counted(roles) == Cardinality({v \in Vms : role[v] \in roles /\ on[v]})

(* _replenish_pool_inner, with the demand that pool_controller passes. *)
Deficit ==
  Larger(TargetIdle, Cardinality(Claiming)) + Cardinality(Waiting)
  > Cardinality(Idle) + Counted(InFlight)

poolOnly == UNCHANGED <<session, meta, files, actors>>

(* provision_pool_vm, under the first name that is free.  A completion that is
   still in progress takes it for the VM it knew by that name. *)
Provision(v) ==
  /\ Deficit /\ role[v] = "absent"
  /\ ~\E w \in Vms : role[w] = "stopped" /\ ~on[w]
  /\ role' = [role EXCEPT ![v] = "provisioning"]
  /\ on' = [on EXCEPT ![v] = TRUE]
  /\ tainted' = IF \E c \in Completers : finish[c][v].pc # "idle"
                  THEN tainted \cup {v} ELSE tainted
  /\ poolOnly /\ UNCHANGED <<owner, guest, faults>>

(* _start_one_stopped_vm: first the label, then the VM. *)
StartStopped(v) ==
  /\ Deficit /\ role[v] = "stopped" /\ ~on[v]
  /\ role' = [role EXCEPT ![v] = "starting"]
  /\ poolOnly /\ UNCHANGED <<owner, on, guest, faults, tainted>>

PowerOn(v) ==
  /\ role[v] = "starting" /\ ~on[v]
  /\ on' = [on EXCEPT ![v] = TRUE]
  /\ poolOnly /\ UNCHANGED <<role, owner, guest, faults, tainted>>

(* vm_mark_idle_endpoint, from the startup script. *)
MarkIdle(v) ==
  /\ role[v] \in {"provisioning", "starting"} /\ on[v]
  /\ role' = [role EXCEPT ![v] = "idle"]
  /\ poolOnly /\ UNCHANGED <<owner, on, guest, faults, tainted>>

(* Mutant: whoever waits for a VM is not counted. *)
TrimBlind(v) ==
  /\ v \in Idle
  /\ Cardinality(Idle) > Larger(TargetIdle, Cardinality(Claiming))
  /\ role' = [role EXCEPT ![v] = "stopped"]
  /\ poolOnly /\ UNCHANGED <<owner, on, guest, faults, tainted>>

(* _trim_pool_inner: first the label, then the VM; the demand is counted. *)
Trim(v) ==
  /\ v \in Idle
  /\ Cardinality(Idle) >
       Larger(TargetIdle, Larger(Cardinality(Claiming), Cardinality(Waiting)))
  /\ role' = [role EXCEPT ![v] = "stopped"]
  /\ poolOnly /\ UNCHANGED <<owner, on, guest, faults, tainted>>

(* Trim's own stop, or that of the scrub (_scrub_inconsistent_vms). *)
PowerOff(v) ==
  /\ role[v] \in {"stopped", "quarantined"} /\ on[v]
  /\ on' = [on EXCEPT ![v] = FALSE]
  /\ Restarted(v)
  /\ poolOnly /\ UNCHANGED <<role, owner, faults, tainted>>

(* The stop has failed, and trim takes its label back. *)
TrimReverts(v) ==
  /\ role[v] = "stopped" /\ on[v]
  /\ Fault
  /\ role' = [role EXCEPT ![v] = "idle"]
  /\ poolOnly /\ UNCHANGED <<owner, on, guest, tainted>>

(* The scrub relabels what is not running. *)
ScrubStopped(v) ==
  /\ role[v] \in {"idle", "starting", "provisioning"} /\ ~on[v]
  /\ role' = [role EXCEPT ![v] = "stopped"]
  /\ poolOnly /\ UNCHANGED <<owner, on, guest, faults, tainted>>

(* _quarantine_pool_vm; the binding stays on its label. *)
Quarantined(v) ==
  /\ role' = [role EXCEPT ![v] = "quarantined"]
  /\ on' = [on EXCEPT ![v] = FALSE]
  /\ Restarted(v)
  /\ poolOnly /\ UNCHANGED <<owner, faults, tainted>>

(* The VM of a session has died; a VM is in flight for too long. *)
QuarantineDead(v) == role[v] = "assigned" /\ ~on[v] /\ Quarantined(v)
QuarantineAged(v) == role[v] \in InFlight /\ on[v] /\ Quarantined(v)

(* purge_quarantined_vms *)
Purge(v) ==
  /\ role[v] = "quarantined"
  /\ Delete(v)
  /\ UNCHANGED faults

PowerLoss(v) ==
  /\ on[v]
  /\ Fault
  /\ on' = [on EXCEPT ![v] = FALSE]
  /\ Restarted(v)
  /\ poolOnly /\ UNCHANGED <<role, owner, tainted>>

-----------------------------------------------------------------------------
(* Specification *)

Init ==
  /\ assistant \in Owners
  /\ life = [b \in Bindings |-> "new"]
  /\ ref = [b \in Bindings |-> None]
  /\ role = [v \in Vms |-> "absent"]
  /\ owner = [v \in Vms |-> None]
  /\ on = [v \in Vms |-> FALSE]
  /\ meta = [v \in Vms |-> NoMeta]
  /\ disk = [a \in Assistants |-> None]
  /\ content = [a \in Assistants |-> IF a \in Fresh THEN "empty" ELSE "whole"]
  /\ archive = [a \in Assistants |-> "own"]
  /\ guest = [v \in Vms |-> NewGuest]
  /\ assign = [b \in Bindings |-> NoTask]
  /\ release = [b \in Bindings |-> NoTask]
  /\ finish = [c \in Completers |-> [v \in Vms |-> NoFinish]]
  /\ expired = {}
  /\ faults = 0
  /\ tainted = {}

Assigning(b) == AssignBegins(b) \/ (\E v \in Vms : Claim(b, v)) \/ AssignRefused(b)
                \/ Attach(b) \/ AttachFails(b) \/ Configure(b)
Releasing(b) == ReleaseSignalled(b) \/ \E v \in Vms : ReleaseBegins(b, v)
Recovering(b, v) == Rearm(b, v) \/ Retire(b, v)
Finishing(c, v) == FinishClear(c, v) \/ FinishMark(c, v)
                   \/ FinishGone(c, v)
Guest(v) == GuestAssigns(v) \/ GuestRestored(v) \/ GuestReleases(v)
            \/ GuestArchives(v) \/ GuestScrubs(v) \/ GuestReports(v)
            \/ GuestAnswered(v)
Keep(v) == FinishStopped(v) \/ PowerOn(v) \/ MarkIdle(v) \/ PowerOff(v)
           \/ ScrubStopped(v) \/ QuarantineDead(v) \/ Purge(v)
Grow(v) == Provision(v) \/ StartStopped(v)

Failing ==
  \/ \E b \in Bindings : AssignTorn(b) \/ AssignUndone(b) \/ LeaseExpires(b)
                         \/ ReleaseTorn(b)
  \/ \E c \in Completers, v \in Vms : FinishTorn(c, v)
  \/ \E v \in Vms : GuestGivesUp(v) \/ WatcherCrash(v) \/ TrimReverts(v)
                    \/ PowerLoss(v) \/ FinishUnconfirmed(v)

Next ==
  \/ \E b \in Bindings : BindingStarts(b) \/ BindingEnds(b) \/ Assigning(b)
                         \/ Releasing(b) \/ \E v \in Vms : Recovering(b, v)
  \/ \E c \in Completers, v \in Vms : Finishing(c, v)
  \/ \E v \in Vms : Guest(v) \/ Keep(v) \/ Grow(v) \/ Trim(v) \/ QuarantineAged(v)
  \/ Failing

Spec == Init /\ [][Next]_vars

(* Workers that were queued run, the controller's timer and the sweeper fire
   again and again, and a guest that runs polls its metadata.  A VM may fail to
   boot in time, but not every time.  No binding need ever start or end,
   nothing need fail, and no VM need be trimmed. *)
FairSpec ==
  /\ Spec
  /\ \A b \in Bindings :
       /\ WF_vars(Assigning(b)) /\ WF_vars(Releasing(b))
       /\ \A v \in Vms : WF_vars(Recovering(b, v))
  /\ \A v \in Vms :
       /\ WF_vars(Guest(v)) /\ WF_vars(Keep(v))
       /\ SF_vars(PowerOn(v)) /\ SF_vars(MarkIdle(v))
       /\ \A c \in Completers : WF_vars(Finishing(c, v))
  /\ WF_vars(\E v \in Vms : Grow(v))

-----------------------------------------------------------------------------
(* Properties *)

(* A VM that may be claimed carries nothing of a session before: no owner, no
   disk, no key, no files, although labels, disk, metadata and files are given
   up in steps of different actors.  Only on a VM where one of them has done
   what was no longer due may it be otherwise (_complete_pool_vm_release). *)
IdleIsClean ==
  \A v \in Vms : role[v] = "idle" /\ v \notin tainted =>
    owner[v] = None /\ DisksOn(v) = {} /\ ~meta[v].key /\ guest[v].home = {}

(* A live session that has been given a VM keeps the disk of its assistant in
   it, whatever is reclaimed, completed or swept for earlier bindings
   (reclaim_orphaned_assistant_disk, _ensure_disk_ready_for_binding). *)
InUseKeepsDisk ==
  \A b \in Bindings : \A v \in Vms :
    /\ life[b] = "live" /\ ref[b] = v
    /\ role[v] = "assigned" /\ owner[v] = b /\ v \notin tainted
    => disk[assistant[b]] = v

(* The files of one assistant never get into the archive of another, although
   the guest looks up whose archive it is only after the release has begun
   (do_release), unless the release was completed over its head. *)
ArchiveIsOwn ==
  [][\A a \in Assistants :
       archive'[a] = "foreign" /\ archive[a] # "foreign" =>
         \E v \in tainted : guest[v].pc = "archiving"]_vars

(* Whatever fails on the way, a binding that is over gives its VMs back in the
   end, and its disk is free for the next one: the guest confirms, or the
   release is armed again, or the VM is retired or purged. *)
GivesBack ==
  \A b \in Bindings :
    life[b] = "over" ~> \A v \in Vms : owner[v] # b

(* A live binding gets a VM in the end: what one process grows the pool by is
   not trimmed by another before it is claimed.  (While there are VMs to get,
   and the disk of its assistant is not in use.) *)
GetsVm ==
  \A b \in Bindings :
    life[b] = "live" ~>
      \/ life[b] = "over" \/ ref[b] # None
      \/ \A v \in Vms : role[v] = "assigned"

(* The labels keep what VmOwnership promises. *)
Ownership ==
  INSTANCE VmOwnership WITH
    holder <- [v \in Vms |-> owner[v]],
    inUse <- [v \in Vms |-> role[v] = "assigned"]
HeldByOne == Ownership!Spec
=============================================================================

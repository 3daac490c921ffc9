------------------------------ MODULE JobClaim ------------------------------
(***************************************************************************)
(* How a reconcile gives a binding its container: the PendingJob ->        *)
(* PendingContainer transition of the assistant session controller         *)
(* (_claim_and_bind_pending_job), with the Kubernetes Lease that makes it  *)
(* single flight, the optimistic claim of an idle pool Job, the Job that   *)
(* spec.imageOverride pins instead, and the compare-and-swap write of the  *)
(* session status that records the outcome.                                *)
(*                                                                         *)
(* Several reconciles of one session run at once: kopf starts the timer    *)
(* and the watch handlers of one object independently.  Every call to the  *)
(* Kubernetes API is a step of its own, so other reconciles, the pool, the *)
(* kubelet and the rest of the controller may run between any two of them. *)
(*                                                                         *)
(* Abstractions:                                                           *)
(*  - a Job name is a number; the order of names is the order of numbers,  *)
(*    and 0 stands for "no Job";                                           *)
(*  - a resourceVersion is never stored: `seen` says which listed Jobs,    *)
(*    and `copy` whether the read session, still have the version that     *)
(*    was read, which is all that an optimistic write can tell;            *)
(*  - time is not measured: a lease may be found expired when its holder   *)
(*    is dead, and also (`overran`) when a live holder was too slow;       *)
(*  - everything the controller does to a session other than claiming is   *)
(*    Touch (a write that keeps the binding) and Rebind (one that does     *)
(*    not); SessionController models those parts.                          *)
(***************************************************************************)
EXTENDS Naturals, FiniteSets

CONSTANTS
  Sessions,     \* AssistantSession objects; one assistant each
  Reconcilers,  \* threads that may be inside the claim transition
  Jobs,         \* names of Kubernetes Jobs, as numbers
  Images,       \* images a spec.imageOverride can pin
  NoImage,      \* no override; also the image of every pool Job
  NoSession,    \* the value of an absent session label
  Free, Orphan, \* a lease that is absent; one whose holder has died
  MaxBinding,   \* bound: bindings minted per session
  MaxCas        \* _MAX_CAS_RETRIES

ASSUME JobsAssumption == Jobs \subseteq Nat \ {0}
ASSUME NamesAssumption ==
  /\ NoSession \notin Sessions
  /\ NoImage \notin Images
  /\ Free \notin Reconcilers /\ Orphan \notin Reconcilers /\ Free # Orphan
ASSUME BoundsAssumption == MaxBinding \in Nat /\ MaxCas \in Nat \ {0}

Bindings == 1..MaxBinding

VARIABLES
  life,        \* Job -> absent, idle (in the pool), live (claimed) or ended
  sessionRef,  \* Job -> its assistant-session label
  bindingId,   \* Job -> its binding-id label
  image,       \* Job -> the image it was built with
  override,    \* session -> spec.imageOverride
  session,     \* session -> the binding in its status: id and jobRef
  minted,      \* session -> number of bindings minted so far
  lease,       \* session -> holder of the assistant-claim Lease
  overran,     \* session -> a live holder's lease has expired once (ghost)
  rec,         \* reconciler -> where it is and what it has read
  seen,        \* reconciler -> listed Jobs not written since the listing
  copy         \* reconciler -> is the session it read still the latest?

jobVars == <<life, sessionRef, bindingId, image>>
sessionVars == <<override, session, minted>>
leaseVars == <<lease, overran>>
vars == <<jobVars, sessionVars, leaseVars, rec, seen, copy>>

-----------------------------------------------------------------------------
(* Values *)

Steps == {"idle", "observed", "leased", "looked", "spawn", "scan",
          "patch", "resolve", "cleanup", "capacity"}

(* What a reconcile knows at a step that starts without a search. *)
Rec(pc, s, b, i, j, new) ==
  [pc |-> pc, session |-> s, binding |-> b, image |-> i,
   before |-> 0, todo |-> {}, job |-> j, newly |-> new, tries |-> 0]

NoRec == Rec("idle", NoSession, 0, NoImage, 0, FALSE)

RecType == [pc: Steps, session: Sessions \cup {NoSession},
            binding: 0..MaxBinding, image: Images \cup {NoImage},
            before: Jobs \cup {0}, todo: SUBSET Jobs,
            job: Jobs \cup {0}, newly: BOOLEAN, tries: 0..(MaxCas - 1)]

TypeOK ==
  /\ life \in [Jobs -> {"absent", "idle", "live", "ended"}]
  /\ sessionRef \in [Jobs -> Sessions \cup {NoSession}]
  /\ bindingId \in [Jobs -> 0..MaxBinding]
  /\ image \in [Jobs -> Images \cup {NoImage}]
  /\ override \in [Sessions -> Images \cup {NoImage}]
  /\ session \in [Sessions -> [binding: 0..MaxBinding, ref: Jobs \cup {0}]]
  /\ minted \in [Sessions -> 0..MaxBinding]
  /\ lease \in [Sessions -> Reconcilers \cup {Free, Orphan}]
  /\ overran \in [Sessions -> BOOLEAN]
  /\ rec \in [Reconcilers -> RecType]
  /\ seen \in [Reconcilers -> SUBSET Jobs]
  /\ copy \in [Reconcilers -> {"none", "fresh", "stale"}]

(* _job_matches_binding: the Job carries the labels of this binding. *)
Matches(j, s, b) ==
  life[j] # "absent" /\ sessionRef[j] = s /\ bindingId[j] = b

(* Mutant: a Job that has ended is not looked for. *)
OwnRunningJobs(r) ==
  {j \in Jobs : Matches(j, rec[r].session, rec[r].binding) /\ life[j] # "ended"}

(* _job_for_binding, for a binding without jobRef, finds these. *)
OwnJobs(r) == {j \in Jobs : Matches(j, rec[r].session, rec[r].binding)}

(* The first of a listing; the API server lists, and the pool scan sorts,
   by name. *)
First(j, S) == j \in S /\ \A k \in S : j <= k

(* _image_override_job_is_current: does a binding-owned Job still do?
   Without an override any Job does, an ended one included. *)
IsCurrent(j, i) == i = NoImage \/ (life[j] # "ended" /\ image[j] = i)

(* A write to a Job ages every copy a listing has returned of it. *)
JobWritten(j) == seen' = [q \in Reconcilers |-> seen[q] \ {j}]

(* A write to a session ages the copy every other reconcile has read. *)
SessionWritten(s, r) ==
  copy' = [q \in Reconcilers |->
             IF q = r THEN "none"
             ELSE IF rec[q].session = s /\ copy[q] = "fresh" THEN "stale"
             ELSE copy[q]]

(* The same for a write that is not a reconcile's own patch. *)
CopiesAged(s) ==
  [r \in Reconcilers |->
     IF rec[r].session = s /\ copy[r] = "fresh" THEN "stale" ELSE copy[r]]

(* _record_binding_suspend_intent: a write to the session before a Job is
   suspended, if it still has the binding; its failure is ignored. *)
RecordIntent(r) ==
  LET s == rec[r].session IN
  \/ UNCHANGED copy
  \/ session[s].binding = rec[r].binding /\ copy' = CopiesAged(s)

(* release_named_lease: only a holder deletes the Lease. *)
ReleaseLease(r) ==
  /\ lease' = [s \in Sessions |->
                 IF s = rec[r].session /\ lease[s] = r THEN Free ELSE lease[s]]
  /\ UNCHANGED overran

(* Back to idle: the reconcile has returned or raised. *)
Done(r) == rec' = [rec EXCEPT ![r] = NoRec]

(* The outcome of the claim, and what is kept of the search: a Job and
   whether it is new to the binding (newly_claimed), or no Job. *)
Claimed(r, j) ==
  rec' = [rec EXCEPT ![r] =
            Rec("patch", rec[r].session, rec[r].binding, NoImage,
                j, j # rec[r].before)]

Capacity(r) ==
  rec' = [rec EXCEPT ![r] =
            Rec("capacity", rec[r].session, rec[r].binding, NoImage,
                0, FALSE)]

(* The reconcile has no more use for what it has listed. *)
ForgetListing(r) == seen' = [seen EXCEPT ![r] = {}]

-----------------------------------------------------------------------------
(* A reconcile *)

(* _update_status_for_session has read a session whose binding has no Job. *)
Observe(r) ==
  /\ rec[r].pc = "idle"
  /\ \E s \in Sessions :
       /\ session[s].binding # 0 /\ session[s].ref = 0
       /\ rec' = [rec EXCEPT ![r] =
                    Rec("observed", s, session[s].binding, override[s],
                        0, FALSE)]
  /\ UNCHANGED <<jobVars, sessionVars, leaseVars, seen, copy>>

(* acquire_named_lease.  A lease may have expired under a live holder. *)
Acquire(r) ==
  LET s == rec[r].session IN
  /\ rec[r].pc = "observed"
  /\ lease' = [lease EXCEPT ![s] = r]
  /\ overran' = [overran EXCEPT ![s] = @ \/ lease[s] \in Reconcilers]
  /\ rec' = [rec EXCEPT ![r].pc = "leased"]
  /\ UNCHANGED <<jobVars, sessionVars, seen, copy>>

(* The lease is held: "busy", the caller returns without writing. *)
Busy(r) ==
  /\ rec[r].pc = "observed"
  /\ lease[rec[r].session] # Free
  /\ Done(r)
  /\ UNCHANGED <<jobVars, sessionVars, leaseVars, seen, copy>>

(* job_before: the binding's own Job when it is still current. *)
LookBefore(r) ==
  /\ rec[r].pc = "leased"
  /\ \E j \in Jobs \cup {0} :
       /\ IF OwnJobs(r) = {}
            THEN j = 0
            ELSE \E k \in Jobs :
                   /\ First(k, OwnJobs(r))
                   /\ j = IF IsCurrent(k, rec[r].image) THEN k ELSE 0
       /\ rec' = [rec EXCEPT ![r].pc = "looked", ![r].before = j]
  /\ UNCHANGED <<jobVars, sessionVars, leaseVars, seen, copy>>

(* _claim_idle_job_for_binding finds the binding's own Job and returns it. *)
Reuse(r) ==
  /\ rec[r].pc = "looked"
  /\ \E j \in Jobs :
       /\ First(j, OwnJobs(r))
       /\ IsCurrent(j, rec[r].image)
       /\ Claimed(r, j)
  /\ UNCHANGED <<jobVars, sessionVars, leaseVars, seen, copy>>

(* A pinned image and no current Job: suspend the outdated one if it is
   live, and go on to create a Job. *)
ChooseSpawn(r) ==
  /\ rec[r].pc = "looked"
  /\ rec[r].image # NoImage
  /\ \/ OwnJobs(r) = {} /\ UNCHANGED <<life, seen, copy>>
     \/ \E j \in Jobs :
          /\ First(j, OwnJobs(r))
          /\ ~IsCurrent(j, rec[r].image)
          /\ IF life[j] = "ended"
               THEN UNCHANGED <<life, seen, copy>>
               ELSE /\ life' = [life EXCEPT ![j] = "ended"]
                    /\ JobWritten(j)
                    /\ RecordIntent(r)
  /\ rec' = [rec EXCEPT ![r].pc = "spawn"]
  /\ UNCHANGED <<sessionRef, bindingId, image, sessionVars, leaseVars>>

(* _spawn_fresh_job_for_binding creates a Job that is claimed from birth. *)
SpawnJob(r, j) ==
  /\ life[j] = "absent"
  /\ life' = [life EXCEPT ![j] = "live"]
  /\ sessionRef' = [sessionRef EXCEPT ![j] = rec[r].session]
  /\ bindingId' = [bindingId EXCEPT ![j] = rec[r].binding]
  /\ image' = [image EXCEPT ![j] = rec[r].image]
  /\ JobWritten(j)

Spawn(r) ==
  /\ rec[r].pc = "spawn"
  /\ \E j \in Jobs :
       /\ SpawnJob(r, j)
       /\ Claimed(r, j)
  /\ UNCHANGED <<sessionVars, leaseVars, copy>>

(* create_unity_job turns every failure into None, which the claim takes
   for a lack of capacity.  The Job may exist: its response was lost. *)
SpawnFails(r) ==
  /\ rec[r].pc = "spawn"
  /\ \/ UNCHANGED <<jobVars, seen>>
     \/ \E j \in Jobs : SpawnJob(r, j)
  /\ Capacity(r)
  /\ ReleaseLease(r)
  /\ UNCHANGED <<sessionVars, copy>>

(* No Job of its own and no pinned image: list the idle Jobs of the pool. *)
ListIdle(r) ==
  /\ rec[r].pc = "looked"
  /\ rec[r].image = NoImage
  /\ OwnJobs(r) = {}
  /\ LET idle == {j \in Jobs : life[j] = "idle"} IN
       /\ rec' = [rec EXCEPT ![r].pc = "scan", ![r].todo = idle]
       /\ seen' = [seen EXCEPT ![r] = idle]
  /\ UNCHANGED <<jobVars, sessionVars, leaseVars, copy>>

(* Mutant: the patch carries no resourceVersion. *)
PatchAlwaysAccepted(r, j) == j \in rec[r].todo

(* The patch carries the resourceVersion of the listing: it is accepted
   only when the Job has not been written since. *)
PatchAccepted(r, j) == j \in seen[r]

(* The optimistic patch of a listed Job. *)
TryClaim(r) ==
  /\ rec[r].pc = "scan"
  /\ \E j \in Jobs :
       /\ First(j, rec[r].todo)
       /\ PatchAccepted(r, j)
       /\ life' = [life EXCEPT ![j] = "live"]
       /\ sessionRef' = [sessionRef EXCEPT ![j] = rec[r].session]
       /\ bindingId' = [bindingId EXCEPT ![j] = rec[r].binding]
       /\ seen' = [q \in Reconcilers |-> IF q = r THEN {} ELSE seen[q] \ {j}]
       /\ Claimed(r, j)
  /\ UNCHANGED <<image, sessionVars, leaseVars, copy>>

(* The patch is refused: take a Job that now belongs to the binding, or go
   on with the next candidate. *)
ClaimConflict(r) ==
  /\ rec[r].pc = "scan"
  /\ \E j \in Jobs :
       /\ First(j, rec[r].todo)
       /\ ~PatchAccepted(r, j)
       /\ IF OwnJobs(r) = {}
            THEN /\ rec' = [rec EXCEPT ![r].todo = @ \ {j}]
                 /\ UNCHANGED seen
            ELSE \E k \in Jobs :
                   /\ First(k, OwnJobs(r))
                   /\ Claimed(r, k)
                   /\ ForgetListing(r)
  /\ UNCHANGED <<jobVars, sessionVars, leaseVars, copy>>

(* No candidate is left.  The lease is released before the caller writes
   its PendingJob status. *)
NoCapacity(r) ==
  /\ rec[r].pc = "scan"
  /\ rec[r].todo = {}
  /\ Capacity(r)
  /\ ReleaseLease(r)
  /\ UNCHANGED <<jobVars, sessionVars, seen, copy>>

(* Mutant: the Job is merged into the binding the session has by now. *)
MergedTarget(r) == [binding |-> session[rec[r].session].binding,
                    ref |-> IF rec[r].pc = "patch" THEN rec[r].job ELSE 0]

(* The status the reconcile is about to write: its own binding, with the
   Job it has claimed or, for want of capacity, none. *)
Target(r) == [binding |-> rec[r].binding,
              ref |-> IF rec[r].pc = "patch" THEN rec[r].job ELSE 0]

(* patch_assistant_session_status reads the session, without checking that
   it still has the binding the reconcile started from. *)
Read(r) ==
  /\ rec[r].pc \in {"patch", "capacity"}
  /\ copy[r] = "none"
  /\ copy' = [copy EXCEPT ![r] = "fresh"]
  /\ UNCHANGED <<jobVars, sessionVars, leaseVars, rec, seen>>

(* It reads a status equal to the one it would write, and writes nothing. *)
NothingToWrite(r) ==
  /\ rec[r].pc \in {"patch", "capacity"}
  /\ copy[r] = "none"
  /\ session[rec[r].session] = Target(r)
  /\ Done(r)
  /\ ReleaseLease(r)
  /\ UNCHANGED <<jobVars, sessionVars, seen, copy>>

(* The replace succeeds: the version read is still the latest. *)
Replace(r) ==
  LET s == rec[r].session IN
  /\ rec[r].pc \in {"patch", "capacity"}
  /\ copy[r] = "fresh"
  /\ session' = [session EXCEPT ![s] = Target(r)]
  /\ SessionWritten(s, r)
  /\ Done(r)
  /\ ReleaseLease(r)
  /\ UNCHANGED <<jobVars, override, minted, seen>>

(* Mutant: one attempt more. *)
TriesLeftInclusive(r) == rec[r].tries < MaxCas

(* The attempts of patch_assistant_session_status are counted from 0. *)
TriesLeft(r) == rec[r].tries + 1 < MaxCas

(* The replace conflicts: read again, up to MaxCas times.  After the last
   a claim looks at what the session has become; a capacity write raises. *)
Conflict(r) ==
  /\ rec[r].pc \in {"patch", "capacity"}
  /\ copy[r] = "stale"
  /\ copy' = [copy EXCEPT ![r] = "none"]
  /\ IF TriesLeft(r)
       THEN rec' = [rec EXCEPT ![r].tries = @ + 1]
       ELSE IF rec[r].pc = "patch"
              THEN rec' = [rec EXCEPT ![r].pc = "resolve"]
              ELSE Done(r)
  /\ UNCHANGED <<jobVars, sessionVars, leaseVars, seen>>

(* After the last conflict: another write has recorded the same Job, or a
   Job claimed just now must be given up, or there is nothing to undo. *)
Resolve(r) ==
  /\ rec[r].pc = "resolve"
  /\ IF session[rec[r].session].ref # rec[r].job /\ rec[r].newly
       THEN /\ rec' = [rec EXCEPT ![r].pc = "cleanup"]
            /\ UNCHANGED leaseVars
       ELSE Done(r) /\ ReleaseLease(r)
  /\ UNCHANGED <<jobVars, sessionVars, seen, copy>>

(* claim_conflict_cleanup: _suspend_bound_job labels the Job done. *)
Cleanup(r) ==
  /\ rec[r].pc = "cleanup"
  /\ life' = [life EXCEPT ![rec[r].job] = "ended"]
  /\ JobWritten(rec[r].job)
  /\ RecordIntent(r)
  /\ Done(r)
  /\ ReleaseLease(r)
  /\ UNCHANGED <<sessionRef, bindingId, image, sessionVars>>

(* A call raises: the exception passes through `finally`. *)
Fail(r) ==
  /\ rec[r].pc \notin {"idle", "observed"}
  /\ Done(r)
  /\ ReleaseLease(r)
  /\ ForgetListing(r)
  /\ copy' = [copy EXCEPT ![r] = "none"]
  /\ UNCHANGED <<jobVars, sessionVars>>

(* The controller dies: its lease stays behind until it expires. *)
Crash(r) ==
  /\ rec[r].pc # "idle"
  /\ Done(r)
  /\ lease' = [s \in Sessions |-> IF lease[s] = r THEN Orphan ELSE lease[s]]
  /\ ForgetListing(r)
  /\ copy' = [copy EXCEPT ![r] = "none"]
  /\ UNCHANGED <<jobVars, sessionVars, overran>>

Reconcile(r) ==
  \/ Observe(r) \/ Acquire(r) \/ Busy(r) \/ LookBefore(r)
  \/ Reuse(r) \/ ChooseSpawn(r) \/ Spawn(r) \/ SpawnFails(r)
  \/ ListIdle(r) \/ TryClaim(r) \/ ClaimConflict(r) \/ NoCapacity(r)
  \/ Read(r) \/ NothingToWrite(r) \/ Replace(r) \/ Conflict(r)
  \/ Resolve(r) \/ Cleanup(r) \/ Fail(r) \/ Crash(r)

-----------------------------------------------------------------------------
(* Everybody else *)

(* The pool creates an idle Job. *)
IdleArrives(j) ==
  /\ life[j] = "absent"
  /\ life' = [life EXCEPT ![j] = "idle"]
  /\ UNCHANGED <<sessionRef, bindingId, image, sessionVars, leaseVars, rec,
                 seen, copy>>

(* The pods of a Job finish or fail, or something suspends it. *)
JobEnds(j) ==
  /\ life[j] \in {"idle", "live"}
  /\ life' = [life EXCEPT ![j] = "ended"]
  /\ JobWritten(j)
  /\ UNCHANGED <<sessionRef, bindingId, image, sessionVars, leaseVars, rec,
                 copy>>

(* A write to the session that leaves its binding alone; a new value of
   spec.imageOverride is one. *)
Touch(s) ==
  /\ \E i \in Images \cup {NoImage} : override' = [override EXCEPT ![s] = i]
  /\ copy' = CopiesAged(s)
  /\ UNCHANGED <<jobVars, session, minted, leaseVars, rec, seen>>

(* Another reconcile drops the binding, or replaces it by a fresh one. *)
Rebind(s) ==
  /\ \/ /\ session[s].binding # 0
        /\ session' = [session EXCEPT ![s] = [binding |-> 0, ref |-> 0]]
        /\ UNCHANGED minted
     \/ /\ minted[s] < MaxBinding
        /\ minted' = [minted EXCEPT ![s] = @ + 1]
        /\ session' = [session EXCEPT
                         ![s] = [binding |-> minted[s] + 1, ref |-> 0]]
  /\ copy' = CopiesAged(s)
  /\ UNCHANGED <<jobVars, override, leaseVars, rec, seen>>

Init ==
  /\ life = [j \in Jobs |-> "absent"]
  /\ sessionRef = [j \in Jobs |-> NoSession]
  /\ bindingId = [j \in Jobs |-> 0]
  /\ image = [j \in Jobs |-> NoImage]
  /\ override \in [Sessions -> Images \cup {NoImage}]
  /\ session = [s \in Sessions |-> [binding |-> 0, ref |-> 0]]
  /\ minted = [s \in Sessions |-> 0]
  /\ lease = [s \in Sessions |-> Free]
  /\ overran = [s \in Sessions |-> FALSE]
  /\ rec = [r \in Reconcilers |-> NoRec]
  /\ seen = [r \in Reconcilers |-> {}]
  /\ copy = [r \in Reconcilers |-> "none"]

Next ==
  \/ \E r \in Reconcilers : Reconcile(r)
  \/ \E j \in Jobs : IdleArrives(j) \/ JobEnds(j)
  \/ \E s \in Sessions : Touch(s) \/ Rebind(s)

Spec == Init /\ [][Next]_vars

-----------------------------------------------------------------------------
(* Properties *)

(* Two reconciles, of one session or of two, never end up sharing a Job,
   and no later write moves it: once a Job carries the labels of a binding
   (_claim_idle_job_for_binding, _spawn_fresh_job_for_binding) it carries
   them for good. *)
ClaimIsFinal ==
  [][\A j \in Jobs : sessionRef[j] # NoSession =>
       sessionRef'[j] = sessionRef[j] /\ bindingId'[j] = bindingId[j]]_vars

(* The status never names a Job of another session or of another binding,
   however stale the reconcile that wrote it. *)
RefMatchesBinding ==
  \A s \in Sessions :
    session[s].ref # 0 => Matches(session[s].ref, s, session[s].binding)

(* The claim is single flight, across failed writes, lost reconciles and
   dead controllers: a binding takes at most one Job out of the pool, so
   long as no lease has expired under a reconcile that was still at work. *)
OnePoolJobPerBinding ==
  \A s \in Sessions, b \in Bindings : ~overran[s] =>
    \A j, k \in Jobs :
      Matches(j, s, b) /\ image[j] = NoImage /\
      Matches(k, s, b) /\ image[k] = NoImage => j = k
=============================================================================

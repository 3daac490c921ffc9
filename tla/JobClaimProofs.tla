--------------------------- MODULE JobClaimProofs ---------------------------
(***************************************************************************)
(* What holds of JobClaim for every number of sessions, reconciles, Jobs,  *)
(* images and bindings, with the proofs.                                   *)
(***************************************************************************)
EXTENDS JobClaim, TLAPS

USE JobsAssumption, NamesAssumption, BoundsAssumption

-----------------------------------------------------------------------------
(* Type correctness *)

(* The records that an action stores in rec have their type. *)
LEMMA RecIsTyped ==
  ASSUME NEW pc \in Steps, NEW s \in Sessions \cup {NoSession},
         NEW b \in 0..MaxBinding, NEW i \in Images \cup {NoImage},
         NEW j \in Jobs \cup {0}, NEW new \in BOOLEAN
  PROVE  Rec(pc, s, b, i, j, new) \in RecType
  BY DEF Rec, RecType

(* What the type invariant says of one reconcile. *)
LEMMA RecOfReconciler ==
  ASSUME TypeOK, NEW r \in Reconcilers
  PROVE  /\ rec[r] \in RecType
         /\ rec[r].session \in Sessions \cup {NoSession}
         /\ rec[r].binding \in 0..MaxBinding
         /\ rec[r].image \in Images \cup {NoImage}
         /\ rec[r].job \in Jobs \cup {0}
         /\ rec[r].todo \subseteq Jobs
         /\ rec[r].tries \in 0..(MaxCas - 1)
  BY DEF TypeOK, RecType

(* The updates of a reconcile keep its type. *)
LEMMA MovesAreTyped ==
  ASSUME TypeOK, NEW r \in Reconcilers
  PROVE  /\ NoRec \in RecType
         /\ \A pc \in Steps : [rec[r] EXCEPT !.pc = pc] \in RecType
         /\ \A j \in Jobs \cup {0} :
              [rec[r] EXCEPT !.pc = "looked", !.before = j] \in RecType
         /\ \A S \in SUBSET Jobs :
              /\ [rec[r] EXCEPT !.todo = S] \in RecType
              /\ [rec[r] EXCEPT !.pc = "scan", !.todo = S] \in RecType
         /\ \A n \in 0..(MaxCas - 1) : [rec[r] EXCEPT !.tries = n] \in RecType
<1>1. rec[r] \in RecType
  BY RecOfReconciler
<1>2. NoRec \in RecType
  BY DEF NoRec, RecType, Rec, Steps
<1>3. QED
  BY <1>1, <1>2 DEF RecType, Steps

(* So does the ageing of the sessions that reconciles have read. *)
LEMMA CopiesAreTyped ==
  ASSUME TypeOK
  PROVE  /\ \A s : CopiesAged(s) \in [Reconcilers -> {"none", "fresh", "stale"}]
         /\ \A r : RecordIntent(r) =>
              copy' \in [Reconcilers -> {"none", "fresh", "stale"}]
  BY DEF CopiesAged, RecordIntent, TypeOK

(* So do the two outcomes of the search. *)
LEMMA OutcomesAreTyped ==
  ASSUME TypeOK, NEW r \in Reconcilers,
         Capacity(r) \/ \E j \in Jobs : Claimed(r, j)
  PROVE  rec' \in [Reconcilers -> RecType]
<1> DEFINE s == rec[r].session
           b == rec[r].binding
<1>1. s \in Sessions \cup {NoSession} /\ b \in 0..MaxBinding
  BY RecOfReconciler
<1>2. CASE Capacity(r)
  <2>1. Rec("capacity", s, b, NoImage, 0, FALSE) \in RecType
    BY <1>1, RecIsTyped DEF Steps
  <2>2. QED
    BY <1>2, <2>1 DEF Capacity, TypeOK
<1>3. ASSUME NEW j \in Jobs, Claimed(r, j)
      PROVE  rec' \in [Reconcilers -> RecType]
  <2>1. Rec("patch", s, b, NoImage, j, j # rec[r].before) \in RecType
    BY <1>1, RecIsTyped DEF Steps
  <2>2. QED
    BY <1>3, <2>1 DEF Claimed, TypeOK
<1>4. QED
  BY <1>2, <1>3

(* Each action leaves every variable in its type. *)
LEMMA TypeStep ==
  ASSUME TypeOK, [Next]_vars
  PROVE  TypeOK'
<1>1. ASSUME NEW r \in Reconcilers, Observe(r)
     PROVE  TypeOK'
  <2>1. rec' \in [Reconcilers -> RecType]
    <3>1. PICK s \in Sessions : rec' =
            [rec EXCEPT ![r] = Rec("observed", s, session[s].binding,
                                   override[s], 0, FALSE)]
      BY <1>1 DEF Observe
    <3>2. Rec("observed", s, session[s].binding, override[s], 0, FALSE)
            \in RecType
      BY RecIsTyped DEF TypeOK, Steps
    <3>3. QED
      BY <3>1, <3>2 DEF TypeOK
  <2>2. QED
    BY <1>1, <2>1, RecOfReconciler
    DEF Observe, TypeOK, jobVars, sessionVars, leaseVars
<1>2. ASSUME NEW r \in Reconcilers, Acquire(r)
     PROVE  TypeOK'
  <2>1. rec' \in [Reconcilers -> RecType]
    BY <1>2, MovesAreTyped DEF Acquire, TypeOK, Steps
  <2>2. QED
    BY <1>2, <2>1, RecOfReconciler
    DEF Acquire, TypeOK, jobVars, sessionVars, leaseVars
<1>3. ASSUME NEW r \in Reconcilers, Busy(r)
     PROVE  TypeOK'
  <2>1. rec' \in [Reconcilers -> RecType]
    BY <1>3, MovesAreTyped DEF Busy, Done, TypeOK, Steps
  <2>2. QED
    BY <1>3, <2>1, RecOfReconciler
    DEF Busy, TypeOK, jobVars, sessionVars, leaseVars
<1>4. ASSUME NEW r \in Reconcilers, LookBefore(r)
     PROVE  TypeOK'
  <2>1. rec' \in [Reconcilers -> RecType]
    <3>1. PICK j \in Jobs \cup {0} :
            rec' = [rec EXCEPT ![r].pc = "looked", ![r].before = j]
      BY <1>4 DEF LookBefore
    <3>2. QED
      BY <3>1, MovesAreTyped DEF TypeOK
  <2>2. QED
    BY <1>4, <2>1, RecOfReconciler
    DEF LookBefore, TypeOK, jobVars, sessionVars, leaseVars
<1>5. ASSUME NEW r \in Reconcilers, Reuse(r)
     PROVE  TypeOK'
  <2>1. rec' \in [Reconcilers -> RecType]
    BY <1>5, OutcomesAreTyped DEF Reuse, TypeOK, Steps
  <2>2. QED
    BY <1>5, <2>1, RecOfReconciler
    DEF Reuse, TypeOK, jobVars, sessionVars, leaseVars
<1>6. ASSUME NEW r \in Reconcilers, ChooseSpawn(r)
     PROVE  TypeOK'
  <2>1. rec' \in [Reconcilers -> RecType]
    BY <1>6, MovesAreTyped DEF ChooseSpawn, TypeOK, Steps
  <2>2. copy' \in [Reconcilers -> {"none", "fresh", "stale"}]
    BY <1>6, CopiesAreTyped DEF ChooseSpawn, TypeOK
  <2>3. life' \in [Jobs -> {"absent", "idle", "live", "ended"}]
        /\ seen' \in [Reconcilers -> SUBSET Jobs]
    <3>1. CASE UNCHANGED <<life, seen>>
      BY <3>1 DEF TypeOK
    <3>2. ASSUME NEW j \in Jobs,
                 life' = [life EXCEPT ![j] = "ended"],
                 JobWritten(j)
          PROVE  /\ life' \in [Jobs -> {"absent", "idle", "live", "ended"}]
                 /\ seen' \in [Reconcilers -> SUBSET Jobs]
      BY <3>2 DEF JobWritten, TypeOK
    <3>3. QED
      BY <1>6, <3>1, <3>2 DEF ChooseSpawn
  <2>4. QED
    BY <1>6, <2>1, <2>2, <2>3
    DEF ChooseSpawn, TypeOK, sessionVars, leaseVars
<1>7. ASSUME NEW r \in Reconcilers, Spawn(r)
     PROVE  TypeOK'
  <2>1. rec' \in [Reconcilers -> RecType]
    BY <1>7, OutcomesAreTyped DEF Spawn, TypeOK, Steps
  <2>2. QED
    BY <1>7, <2>1, RecOfReconciler
    DEF Spawn, SpawnJob, JobWritten, TypeOK, jobVars, sessionVars, leaseVars
<1>8. ASSUME NEW r \in Reconcilers, SpawnFails(r)
     PROVE  TypeOK'
  <2>1. rec' \in [Reconcilers -> RecType]
    BY <1>8, OutcomesAreTyped DEF SpawnFails, TypeOK, Steps
  <2> DEFINE JobsOK ==
        /\ life \in [Jobs -> {"absent", "idle", "live", "ended"}]
        /\ sessionRef \in [Jobs -> Sessions \cup {NoSession}]
        /\ bindingId \in [Jobs -> 0..MaxBinding]
        /\ image \in [Jobs -> Images \cup {NoImage}]
        /\ seen \in [Reconcilers -> SUBSET Jobs]
  <2>2. JobsOK'
    <3>1. CASE UNCHANGED <<jobVars, seen>>
      BY <3>1 DEF TypeOK, jobVars
    <3>2. ASSUME NEW j \in Jobs, SpawnJob(r, j)
          PROVE  JobsOK'
      BY <3>2, RecOfReconciler DEF SpawnJob, JobWritten, TypeOK
    <3>3. QED
      BY <1>8, <3>1, <3>2 DEF SpawnFails
  <2>3. QED
    BY <1>8, <2>1, <2>2 DEF SpawnFails, ReleaseLease, TypeOK, sessionVars
<1>9. ASSUME NEW r \in Reconcilers, ListIdle(r)
     PROVE  TypeOK'
  <2>1. rec' \in [Reconcilers -> RecType]
    BY <1>9, MovesAreTyped DEF ListIdle, TypeOK, Steps
  <2>2. QED
    BY <1>9, <2>1, RecOfReconciler
    DEF ListIdle, TypeOK, jobVars, sessionVars, leaseVars
<1>10. ASSUME NEW r \in Reconcilers, TryClaim(r)
      PROVE  TypeOK'
  <2>1. rec' \in [Reconcilers -> RecType]
    BY <1>10, OutcomesAreTyped DEF TryClaim, TypeOK, Steps
  <2>2. QED
    BY <1>10, <2>1, RecOfReconciler
    DEF TryClaim, TypeOK, jobVars, sessionVars, leaseVars
<1>11. ASSUME NEW r \in Reconcilers, ClaimConflict(r)
      PROVE  TypeOK'
  <2>1. rec' \in [Reconcilers -> RecType]
    <3>1. CASE OwnJobs(r) = {}
      <4>1. PICK j \in Jobs : rec' = [rec EXCEPT ![r].todo = @ \ {j}]
        BY <1>11, <3>1 DEF ClaimConflict
      <4>2. QED
        BY <4>1, MovesAreTyped, RecOfReconciler DEF TypeOK
    <3>2. CASE OwnJobs(r) # {}
      BY <1>11, <3>2, OutcomesAreTyped DEF ClaimConflict
    <3>3. QED
      BY <3>1, <3>2
  <2>2. QED
    BY <1>11, <2>1, RecOfReconciler
    DEF ClaimConflict, ForgetListing, TypeOK, jobVars, sessionVars, leaseVars
<1>12. ASSUME NEW r \in Reconcilers, NoCapacity(r)
      PROVE  TypeOK'
  <2>1. rec' \in [Reconcilers -> RecType]
    BY <1>12, OutcomesAreTyped DEF NoCapacity, TypeOK, Steps
  <2>2. QED
    BY <1>12, <2>1, RecOfReconciler
    DEF NoCapacity, ReleaseLease, TypeOK, jobVars, sessionVars, leaseVars
<1>13. ASSUME NEW r \in Reconcilers, Read(r)
      PROVE  TypeOK'
  <2>1. rec' \in [Reconcilers -> RecType]
    BY <1>13, MovesAreTyped DEF Read, TypeOK, Steps
  <2>2. QED
    BY <1>13, <2>1, RecOfReconciler
    DEF Read, TypeOK, jobVars, sessionVars, leaseVars
<1>14. ASSUME NEW r \in Reconcilers, NothingToWrite(r)
      PROVE  TypeOK'
  <2>1. rec' \in [Reconcilers -> RecType]
    BY <1>14, MovesAreTyped DEF NothingToWrite, Done, TypeOK, Steps
  <2>2. QED
    BY <1>14, <2>1, RecOfReconciler
    DEF NothingToWrite, ReleaseLease, TypeOK, jobVars, sessionVars, leaseVars
<1>15. ASSUME NEW r \in Reconcilers, Replace(r)
      PROVE  TypeOK'
  <2>1. rec' \in [Reconcilers -> RecType]
    BY <1>15, MovesAreTyped DEF Replace, Done, TypeOK, Steps
  <2>2. QED
    BY <1>15, <2>1, RecOfReconciler
    DEF Replace, Target, SessionWritten, ReleaseLease, TypeOK, jobVars, sessionVars, leaseVars
<1>16. ASSUME NEW r \in Reconcilers, Conflict(r)
      PROVE  TypeOK'
  <2>1. rec' \in [Reconcilers -> RecType]
    <3>1. CASE TriesLeft(r)
      <4>1. rec' = [rec EXCEPT ![r].tries = @ + 1]
        BY <1>16, <3>1 DEF Conflict
      <4>2. rec[r].tries + 1 \in 0..(MaxCas - 1)
        BY <3>1, RecOfReconciler DEF TriesLeft
      <4>3. QED
        BY <4>1, <4>2, MovesAreTyped DEF TypeOK
    <3>2. CASE ~TriesLeft(r)
      <4>1. \/ rec' = [rec EXCEPT ![r].pc = "resolve"]
            \/ Done(r)
        BY <1>16, <3>2 DEF Conflict
      <4>2. CASE rec' = [rec EXCEPT ![r].pc = "resolve"]
        BY <4>2, MovesAreTyped DEF TypeOK, Steps
      <4>3. CASE Done(r)
        BY <4>3, MovesAreTyped DEF Done, TypeOK
      <4>4. QED
        BY <4>1, <4>2, <4>3
    <3>3. QED
      BY <3>1, <3>2
  <2>2. QED
    BY <1>16, <2>1, RecOfReconciler
    DEF Conflict, TypeOK, jobVars, sessionVars, leaseVars
<1>17. ASSUME NEW r \in Reconcilers, Resolve(r)
      PROVE  TypeOK'
  <2>1. rec' \in [Reconcilers -> RecType]
    <3>1. rec' = [rec EXCEPT ![r].pc = "cleanup"] \/ Done(r)
      BY <1>17 DEF Resolve
    <3>2. CASE rec' = [rec EXCEPT ![r].pc = "cleanup"]
      BY <3>2, MovesAreTyped DEF TypeOK, Steps
    <3>3. CASE Done(r)
      BY <3>3, MovesAreTyped DEF Done, TypeOK
    <3>4. QED
      BY <3>1, <3>2, <3>3
  <2>2. QED
    BY <1>17, <2>1, RecOfReconciler
    DEF Resolve, ReleaseLease, TypeOK, jobVars, sessionVars, leaseVars
<1>18. ASSUME NEW r \in Reconcilers, Cleanup(r)
      PROVE  TypeOK'
  <2>1. rec' \in [Reconcilers -> RecType]
    BY <1>18, MovesAreTyped DEF Cleanup, Done, TypeOK, Steps
  <2>2. copy' \in [Reconcilers -> {"none", "fresh", "stale"}]
    BY <1>18, CopiesAreTyped DEF Cleanup
  <2>3. QED
    BY <1>18, <2>1, <2>2, RecOfReconciler
    DEF Cleanup, JobWritten, ReleaseLease, TypeOK, jobVars, sessionVars, leaseVars
<1>19. ASSUME NEW r \in Reconcilers, Fail(r)
      PROVE  TypeOK'
  <2>1. rec' \in [Reconcilers -> RecType]
    BY <1>19, MovesAreTyped DEF Fail, Done, TypeOK, Steps
  <2>2. QED
    BY <1>19, <2>1, RecOfReconciler
    DEF Fail, ForgetListing, ReleaseLease, TypeOK, jobVars, sessionVars, leaseVars
<1>20. ASSUME NEW r \in Reconcilers, Crash(r)
      PROVE  TypeOK'
  <2>1. rec' \in [Reconcilers -> RecType]
    BY <1>20, MovesAreTyped DEF Crash, Done, TypeOK, Steps
  <2>2. QED
    BY <1>20, <2>1, RecOfReconciler
    DEF Crash, ForgetListing, TypeOK, jobVars, sessionVars, leaseVars
<1>21. ASSUME NEW j \in Jobs, IdleArrives(j)
       PROVE  TypeOK'
  BY <1>21 DEF IdleArrives, TypeOK, sessionVars, leaseVars
<1>22. ASSUME NEW j \in Jobs, JobEnds(j)
       PROVE  TypeOK'
  BY <1>22 DEF JobEnds, JobWritten, TypeOK, sessionVars, leaseVars
<1>23. ASSUME NEW s \in Sessions, Touch(s)
       PROVE  TypeOK'
  BY <1>23, CopiesAreTyped DEF Touch, TypeOK, jobVars, leaseVars
<1>24. ASSUME NEW s \in Sessions, Rebind(s)
       PROVE  TypeOK'
  <2>1. minted' \in [Sessions -> 0..MaxBinding]
    BY <1>24 DEF Rebind, TypeOK
  <2>2. session' \in [Sessions -> [binding: 0..MaxBinding,
                                  ref: Jobs \cup {0}]]
    <3>1. \E b \in 0..MaxBinding :
            session' = [session EXCEPT ![s] = [binding |-> b, ref |-> 0]]
      BY <1>24 DEF Rebind, TypeOK
    <3>2. QED
      BY <3>1 DEF TypeOK
  <2>3. copy' \in [Reconcilers -> {"none", "fresh", "stale"}]
    BY <1>24, CopiesAreTyped DEF Rebind
  <2>4. QED
    BY <1>24, <2>1, <2>2, <2>3 DEF Rebind, TypeOK, jobVars, leaseVars
<1>25. CASE UNCHANGED vars
  BY <1>25 DEF TypeOK, vars, jobVars, sessionVars, leaseVars
<1>26. QED
  BY <1>1, <1>2, <1>3, <1>4, <1>5, <1>6, <1>7, <1>8, <1>9, <1>10, <1>11,
     <1>12, <1>13, <1>14, <1>15, <1>16, <1>17, <1>18, <1>19, <1>20, <1>21,
     <1>22, <1>23, <1>24, <1>25 DEF Next, Reconcile

(* The initial state has the types. *)
LEMMA TypeInit ==
  ASSUME Init
  PROVE  TypeOK
<1>1. NoRec \in RecType
  BY DEF NoRec, Rec, RecType, Steps
<1>2. rec \in [Reconcilers -> RecType]
  BY <1>1 DEF Init
<1>3. QED
  BY <1>2 DEF Init, TypeOK

(* Every variable keeps its type: the counts of conflicts and of bindings  *)
(* stay within their bounds, and a reconcile never goes on with half of    *)
(* what it needs.                                                          *)
THEOREM TypeCorrect == Spec => []TypeOK
<1>1. Init => TypeOK
  BY TypeInit
<1>2. TypeOK /\ [Next]_vars => TypeOK'
  BY TypeStep
<1>3. QED
  BY <1>1, <1>2, PTL DEF Spec

-----------------------------------------------------------------------------
(* The inductive invariant *)

(* A Job of the pool carries no session label. *)
PoolIsUnlabelled ==
  \A j \in Jobs : life[j] \in {"absent", "idle"} => sessionRef[j] = NoSession

(* A listed Job that has not been written since is still idle. *)
SeenIsIdle ==
  \A r \in Reconcilers : \A j \in seen[r] : life[j] = "idle"

(* A reconcile at work has a session, and the Job it is about to record    *)
(* has the labels of its binding.                                          *)
HeldJobMatches ==
  \A r \in Reconcilers :
    /\ rec[r].pc # "idle" => rec[r].session \in Sessions
    /\ rec[r].pc \in {"patch", "resolve", "cleanup"} =>
         /\ rec[r].job \in Jobs
         /\ Matches(rec[r].job, rec[r].session, rec[r].binding)
    /\ rec[r].pc = "spawn" => rec[r].image # NoImage

ClaimSteps == {"leased", "looked", "spawn", "scan", "patch", "resolve",
               "cleanup"}

(* Unless a lease has run out under its holder, a reconcile inside the     *)
(* claim holds it, and one that scans the pool has no Job yet.             *)
LeaseExcludes ==
  \A r \in Reconcilers :
    rec[r].pc \in ClaimSteps /\ ~overran[rec[r].session] =>
      /\ lease[rec[r].session] = r
      /\ rec[r].pc = "scan" => OwnJobs(r) = {}

IInv ==
  /\ TypeOK
  /\ PoolIsUnlabelled
  /\ SeenIsIdle
  /\ HeldJobMatches
  /\ RefMatchesBinding
  /\ LeaseExcludes
  /\ OnePoolJobPerBinding

-----------------------------------------------------------------------------
(* What a step can do to one Job *)

SameLabels(j) ==
  sessionRef'[j] = sessionRef[j] /\ bindingId'[j] = bindingId[j]
    /\ image'[j] = image[j]

Unlisted(j) == \A q \in Reconcilers : j \notin seen'[q]

Stays(j) == life'[j] = life[j] /\ SameLabels(j)

Enters(j) == life[j] = "absent" /\ life'[j] = "idle" /\ SameLabels(j)

Ends(j) ==
  life[j] # "absent" /\ life'[j] = "ended" /\ SameLabels(j) /\ Unlisted(j)

Taken(j, r) ==
  /\ life[j] \in {"absent", "idle"} /\ life'[j] = "live"
  /\ sessionRef'[j] = rec[r].session /\ bindingId'[j] = rec[r].binding
  /\ Unlisted(j)
  /\ rec'[r].pc # "scan"
  /\ \/ rec[r].pc = "scan" /\ image'[j] = image[j]
     \/ rec[r].pc = "spawn" /\ image'[j] = rec[r].image

(* A Job stays as it is, enters the pool, ends, or is taken by a reconcile *)
(* that scans the pool or spawns; listings gain idle Jobs only.            *)
LEMMA JobMoves ==
  ASSUME TypeOK, SeenIsIdle, HeldJobMatches, [Next]_vars
  PROVE  /\ \A j \in Jobs : \/ Stays(j) \/ Enters(j) \/ Ends(j)
                            \/ \E r \in Reconcilers : Taken(j, r)
         /\ \A r \in Reconcilers : \A j \in seen'[r] :
              j \in seen[r] \/ life[j] = "idle"
<1> DEFINE Goal ==
      /\ \A j \in Jobs : \/ Stays(j) \/ Enters(j) \/ Ends(j)
                         \/ \E r \in Reconcilers : Taken(j, r)
      /\ \A r \in Reconcilers : \A j \in seen'[r] :
           j \in seen[r] \/ life[j] = "idle"
<1> USE DEF TypeOK, Stays, Enters, Ends, Taken, SameLabels, Unlisted
<1>1. ASSUME UNCHANGED jobVars,
             \A r \in Reconcilers : seen'[r] \subseteq seen[r]
      PROVE  Goal
  BY <1>1 DEF jobVars
<1>2. ASSUME NEW r \in Reconcilers, ChooseSpawn(r)
      PROVE  Goal
  <2>1. CASE UNCHANGED <<life, seen>>
    BY <1>2, <2>1 DEF ChooseSpawn
  <2>2. ASSUME NEW j \in Jobs, First(j, OwnJobs(r)),
               life' = [life EXCEPT ![j] = "ended"], JobWritten(j)
        PROVE  Goal
    <3>1. life[j] # "absent"
      BY <2>2 DEF First, OwnJobs, Matches
    <3>2. QED
      BY <1>2, <2>2, <3>1 DEF ChooseSpawn, JobWritten
  <2>3. QED
    BY <1>2, <2>1, <2>2 DEF ChooseSpawn
<1>3. ASSUME NEW r \in Reconcilers, NEW j \in Jobs, SpawnJob(r, j),
             rec[r].pc = "spawn", rec'[r].pc # "scan"
      PROVE  Goal
  BY <1>3 DEF SpawnJob, JobWritten
<1>4. ASSUME NEW r \in Reconcilers, ListIdle(r)
      PROVE  Goal
  BY <1>4 DEF ListIdle, jobVars
<1>5. ASSUME NEW r \in Reconcilers, TryClaim(r)
      PROVE  Goal
  <2>1. PICK j \in Jobs :
          /\ j \in seen[r]
          /\ life' = [life EXCEPT ![j] = "live"]
          /\ sessionRef' = [sessionRef EXCEPT ![j] = rec[r].session]
          /\ bindingId' = [bindingId EXCEPT ![j] = rec[r].binding]
          /\ seen' = [q \in Reconcilers |-> IF q = r THEN {} ELSE seen[q] \ {j}]
          /\ Claimed(r, j)
    BY <1>5 DEF TryClaim, PatchAccepted
  <2>2. life[j] = "idle"
    BY <2>1 DEF SeenIsIdle
  <2>3. rec'[r].pc = "patch"
    BY <2>1 DEF Claimed, Rec
  <2>4. Taken(j, r)
    BY <1>5, <2>1, <2>2, <2>3 DEF TryClaim
  <2>5. QED
    BY <1>5, <2>1, <2>4 DEF TryClaim
<1>6. ASSUME NEW r \in Reconcilers, Cleanup(r)
      PROVE  Goal
  <2>1. rec[r].job \in Jobs /\ life[rec[r].job] # "absent"
    BY <1>6 DEF Cleanup, HeldJobMatches, Matches
  <2>2. QED
    BY <1>6, <2>1 DEF Cleanup, JobWritten
<1>7. ASSUME NEW j \in Jobs, IdleArrives(j)
      PROVE  Goal
  BY <1>7 DEF IdleArrives
<1>8. ASSUME NEW j \in Jobs, JobEnds(j)
      PROVE  Goal
  BY <1>8 DEF JobEnds, JobWritten
<1>9. ASSUME NEW r \in Reconcilers, Spawn(r) \/ SpawnFails(r)
      PROVE  Goal
  <2>1. rec[r].pc = "spawn" /\ rec'[r].pc # "scan"
    BY <1>9 DEF Spawn, SpawnFails, Claimed, Capacity, Rec
  <2>2. UNCHANGED <<jobVars, seen>> \/ \E j \in Jobs : SpawnJob(r, j)
    BY <1>9 DEF Spawn, SpawnFails
  <2>3. QED
    BY <1>1, <1>3, <2>1, <2>2
<1>10. ASSUME NEW r \in Reconcilers,
              \/ Observe(r) \/ Acquire(r) \/ Busy(r) \/ LookBefore(r)
              \/ Reuse(r) \/ NoCapacity(r) \/ Read(r) \/ NothingToWrite(r)
              \/ Replace(r) \/ Conflict(r) \/ Resolve(r)
       PROVE  Goal
  <2>1. UNCHANGED <<jobVars, seen>>
    BY <1>10 DEF Observe, Acquire, Busy, LookBefore, Reuse, NoCapacity, Read,
                 NothingToWrite, Replace, Conflict, Resolve
  <2>2. QED
    BY <1>1, <2>1
<1>11. ASSUME NEW r \in Reconcilers,
              ClaimConflict(r) \/ Fail(r) \/ Crash(r)
       PROVE  Goal
  <2>1. UNCHANGED jobVars
    BY <1>11 DEF ClaimConflict, Fail, Crash
  <2>2. UNCHANGED seen \/ ForgetListing(r)
    BY <1>11 DEF ClaimConflict, Fail, Crash
  <2>3. \A q \in Reconcilers : seen'[q] \subseteq seen[q]
    BY <2>2 DEF ForgetListing
  <2>4. QED
    BY <1>1, <2>1, <2>3
<1>12. ASSUME NEW s \in Sessions, Touch(s) \/ Rebind(s)
       PROVE  Goal
  <2>1. UNCHANGED <<jobVars, seen>>
    BY <1>12 DEF Touch, Rebind
  <2>2. QED
    BY <1>1, <2>1
<1>13. CASE UNCHANGED vars
  BY <1>1, <1>13 DEF vars
<1>14. QED
  BY <1>2, <1>4, <1>5, <1>6, <1>7, <1>8, <1>9, <1>10, <1>11, <1>12, <1>13
  DEF Next, Reconcile

(* A claimed Job keeps its labels and its image and never becomes idle. *)
LEMMA ClaimsAreKept ==
  ASSUME TypeOK, PoolIsUnlabelled, SeenIsIdle, HeldJobMatches, [Next]_vars,
         NEW j \in Jobs
  PROVE  /\ sessionRef[j] # NoSession => SameLabels(j)
         /\ \A s \in Sessions, b \in 0..MaxBinding :
              Matches(j, s, b) => Matches(j, s, b)' /\ image'[j] = image[j]
<1>1. \/ Stays(j) \/ Enters(j) \/ Ends(j) \/ \E r \in Reconcilers : Taken(j, r)
  BY JobMoves
<1>2. QED
  BY <1>1 DEF PoolIsUnlabelled, Stays, Enters, Ends, Taken, SameLabels, Matches

(* The pool stays unlabelled and the current listings stay idle. *)
LEMMA PoolStep ==
  ASSUME TypeOK, PoolIsUnlabelled, SeenIsIdle, HeldJobMatches, [Next]_vars
  PROVE  PoolIsUnlabelled' /\ SeenIsIdle'
<1>1. \A j \in Jobs : \/ Stays(j) \/ Enters(j) \/ Ends(j)
                       \/ \E r \in Reconcilers : Taken(j, r)
  BY JobMoves
<1>2. \A r \in Reconcilers : \A j \in seen'[r] :
         j \in seen[r] \/ life[j] = "idle"
  BY JobMoves
<1>3. PoolIsUnlabelled'
  BY <1>1 DEF PoolIsUnlabelled, Stays, Enters, Ends, Taken, SameLabels
<1>4. ASSUME NEW r \in Reconcilers, NEW j \in seen'[r]
      PROVE  life'[j] = "idle"
  <2>1. TypeOK'
    BY TypeStep
  <2>2. j \in Jobs
    BY <2>1 DEF TypeOK
  <2>3. life[j] = "idle"
    BY <1>2 DEF SeenIsIdle
  <2>4. QED
    BY <1>1, <2>2, <2>3 DEF Stays, Enters, Ends, Taken, Unlisted
<1>5. QED
  BY <1>3, <1>4 DEF SeenIsIdle

(* A step of one reconcile leaves what the others know alone. *)
LEMMA OnlyOneMoves ==
  ASSUME TypeOK, NEW r \in Reconcilers, Reconcile(r),
         NEW q \in Reconcilers, q # r
  PROVE  rec'[q] = rec[q]
<1> USE DEF TypeOK
<1>1. CASE \/ Observe(r) \/ Acquire(r) \/ Busy(r) \/ LookBefore(r)
           \/ ChooseSpawn(r) \/ ListIdle(r) \/ Read(r)
  BY <1>1 DEF Observe, Acquire, Busy, LookBefore, ChooseSpawn, ListIdle, Read,
              Done
<1>2. CASE Reuse(r) \/ Spawn(r) \/ SpawnFails(r) \/ TryClaim(r) \/ NoCapacity(r)
  BY <1>2 DEF Reuse, Spawn, SpawnFails, TryClaim, NoCapacity, Claimed, Capacity
<1>3. CASE ClaimConflict(r)
  BY <1>3 DEF ClaimConflict, Claimed
<1>4. CASE NothingToWrite(r) \/ Replace(r) \/ Cleanup(r) \/ Fail(r) \/ Crash(r)
  BY <1>4 DEF NothingToWrite, Replace, Cleanup, Fail, Crash, Done
<1>5. CASE Conflict(r) \/ Resolve(r)
  BY <1>5 DEF Conflict, Resolve, Done
<1>6. QED
  BY <1>1, <1>2, <1>3, <1>4, <1>5 DEF Reconcile

Held(r) ==
  /\ rec[r].pc # "idle" => rec[r].session \in Sessions
  /\ rec[r].pc \in {"patch", "resolve", "cleanup"} =>
       /\ rec[r].job \in Jobs
       /\ Matches(rec[r].job, rec[r].session, rec[r].binding)
  /\ rec[r].pc = "spawn" => rec[r].image # NoImage

(* A reconcile keeps a Job that matches its binding. *)
LEMMA HeldStep ==
  ASSUME TypeOK, PoolIsUnlabelled, SeenIsIdle, HeldJobMatches, [Next]_vars
  PROVE  HeldJobMatches'
<1> SUFFICES ASSUME NEW q \in Reconcilers
             PROVE  Held(q)'
  BY DEF HeldJobMatches, Held
<1>1. Held(q)
  BY DEF HeldJobMatches, Held
<1>2. PICK s \in Sessions \cup {NoSession}, b \in 0..MaxBinding :
        s = rec[q].session /\ b = rec[q].binding
  BY RecOfReconciler
<1>3. ASSUME NEW j \in Jobs, Matches(j, s, b), s \in Sessions
      PROVE  Matches(j, s, b)'
  BY <1>3, ClaimsAreKept
<1>4. CASE rec'[q] = rec[q]
  <2>1. PICK j : j = rec[q].job
    OBVIOUS
  <2>2. rec[q].pc \in {"patch", "resolve", "cleanup"} =>
          j \in Jobs /\ Matches(j, s, b) /\ s \in Sessions
    BY <1>1, <1>2, <2>1 DEF Held
  <2>3. QED
    BY <1>1, <1>2, <1>3, <1>4, <2>1, <2>2 DEF Held
<1>5. ASSUME Reconcile(q)
      PROVE  Held(q)'
  <2>0. rec[q].pc # "idle" => s \in Sessions
    BY <1>1, <1>2 DEF Held
  <2>1. CASE Observe(q)
    BY <2>1 DEF Observe, Rec, Held, TypeOK
  <2>2. CASE \/ Busy(q) \/ NothingToWrite(q) \/ Replace(q) \/ Cleanup(q)
             \/ Fail(q) \/ Crash(q)
    BY <2>2 DEF Busy, NothingToWrite, Replace, Cleanup, Fail, Crash, Done,
                NoRec, Rec, Held, TypeOK
  <2>3. CASE Acquire(q) \/ LookBefore(q) \/ ListIdle(q)
    <3>1. rec'[q].session = s /\ rec[q].pc # "idle"
          /\ rec'[q].pc \in {"leased", "looked", "scan"}
      BY <1>2, <2>3 DEF Acquire, LookBefore, ListIdle, TypeOK, RecType
    <3>2. QED
      BY <2>0, <3>1 DEF Held
  <2>4. CASE ChooseSpawn(q)
    <3>1. rec'[q].session = s /\ rec[q].pc # "idle"
          /\ rec'[q].pc = "spawn" /\ rec'[q].image # NoImage
      BY <1>2, <2>4 DEF ChooseSpawn, TypeOK, RecType
    <3>2. QED
      BY <2>0, <3>1 DEF Held
  <2>5. CASE SpawnFails(q) \/ NoCapacity(q)
    BY <1>2, <2>0, <2>5 DEF SpawnFails, NoCapacity, Capacity, Rec, Held, TypeOK
  <2>6. ASSUME NEW j \in Jobs, Claimed(q, j), rec[q].pc # "idle",
               Matches(j, s, b)'
        PROVE  Held(q)'
    <3>1. /\ rec'[q].pc = "patch" /\ rec'[q].job = j
          /\ rec'[q].session = s /\ rec'[q].binding = b
      BY <1>2, <2>6 DEF Claimed, Rec, TypeOK
    <3>2. QED
      BY <2>0, <2>6, <3>1 DEF Held
  <2>7. CASE Reuse(q)
    <3>1. PICK j \in Jobs : j \in OwnJobs(q) /\ Claimed(q, j)
      BY <2>7 DEF Reuse, First
    <3>2. Matches(j, s, b) /\ rec[q].pc # "idle"
      BY <1>2, <2>7, <3>1 DEF OwnJobs, Reuse
    <3>3. QED
      BY <1>3, <2>0, <2>6, <3>1, <3>2
  <2>8. CASE Spawn(q)
    <3>1. PICK j \in Jobs : SpawnJob(q, j) /\ Claimed(q, j)
      BY <2>8 DEF Spawn
    <3>2. Matches(j, s, b)' /\ rec[q].pc # "idle"
      BY <1>2, <2>8, <3>1 DEF Spawn, SpawnJob, Matches, TypeOK
    <3>3. QED
      BY <2>6, <3>1, <3>2
  <2>9. CASE TryClaim(q)
    <3>1. PICK j \in Jobs :
            /\ life' = [life EXCEPT ![j] = "live"]
            /\ sessionRef' = [sessionRef EXCEPT ![j] = rec[q].session]
            /\ bindingId' = [bindingId EXCEPT ![j] = rec[q].binding]
            /\ Claimed(q, j)
      BY <2>9 DEF TryClaim
    <3>2. Matches(j, s, b)' /\ rec[q].pc # "idle"
      BY <1>2, <2>9, <3>1 DEF TryClaim, Matches, TypeOK
    <3>3. QED
      BY <2>6, <3>1, <3>2
  <2>10. CASE ClaimConflict(q)
    <3>1. CASE OwnJobs(q) = {}
      <4>1. rec'[q].pc = "scan" /\ rec'[q].session = s
        BY <1>2, <2>10, <3>1 DEF ClaimConflict, TypeOK, RecType
      <4>2. QED
        BY <2>0, <2>10, <4>1 DEF ClaimConflict, Held
    <3>2. CASE OwnJobs(q) # {}
      <4>1. PICK j \in Jobs : j \in OwnJobs(q) /\ Claimed(q, j)
        BY <2>10, <3>2 DEF ClaimConflict, First
      <4>2. Matches(j, s, b) /\ rec[q].pc # "idle"
        BY <1>2, <2>10, <4>1 DEF OwnJobs, ClaimConflict
      <4>3. QED
        BY <1>3, <2>0, <2>6, <4>1, <4>2
    <3>3. QED
      BY <3>1, <3>2
  <2>11. CASE Read(q)
    BY <1>4, <2>11 DEF Read
  <2>12. CASE Conflict(q) \/ Resolve(q)
    <3>1. PICK j : j = rec[q].job
      OBVIOUS
    <3>2. rec[q].pc \in {"patch", "resolve"} => j \in Jobs /\ Matches(j, s, b)'
      BY <1>1, <1>2, <1>3, <2>0, <3>1 DEF Held
    <3>3. CASE Done(q)
      BY <3>3 DEF Done, NoRec, Rec, Held, TypeOK
    <3>4. CASE ~Done(q)
      <4>1. /\ rec[q].pc \in {"patch", "resolve", "capacity"}
            /\ rec'[q].session = s /\ rec'[q].binding = b /\ rec'[q].job = j
            /\ \/ rec'[q].pc = rec[q].pc
               \/ rec[q].pc \in {"patch", "resolve"}
                  /\ rec'[q].pc \in {"resolve", "cleanup"}
        BY <1>2, <2>12, <3>1, <3>4 DEF Conflict, Resolve, TypeOK, RecType
      <4>2. QED
        BY <2>0, <3>2, <4>1 DEF Held
    <3>5. QED
      BY <3>3, <3>4
  <2>13. QED
    BY <1>5, <2>1, <2>2, <2>3, <2>4, <2>5, <2>7, <2>8, <2>9, <2>10, <2>11,
       <2>12 DEF Reconcile
<1>6. CASE ~Reconcile(q)
  <2>1. CASE \E r \in Reconcilers : Reconcile(r)
    BY <1>4, <1>6, <2>1, OnlyOneMoves
  <2>2. CASE ~\E r \in Reconcilers : Reconcile(r)
    <3>1. rec' = rec
      BY <2>2 DEF Next, IdleArrives, JobEnds, Touch, Rebind, vars
    <3>2. QED
      BY <1>4, <3>1
  <2>3. QED
    BY <2>1, <2>2
<1>7. QED
  BY <1>5, <1>6

(* The status goes on naming Jobs that match the binding it has. *)
LEMMA RefStep ==
  ASSUME TypeOK, PoolIsUnlabelled, SeenIsIdle, HeldJobMatches,
         RefMatchesBinding, [Next]_vars
  PROVE  RefMatchesBinding'
<1> SUFFICES ASSUME NEW s \in Sessions, session'[s].ref # 0
             PROVE  Matches(session[s].ref, s, session[s].binding)'
  BY DEF RefMatchesBinding
<1>1. ASSUME NEW j \in Jobs, NEW b \in 0..MaxBinding, Matches(j, s, b),
             session'[s] = [binding |-> b, ref |-> j]
      PROVE  Matches(session[s].ref, s, session[s].binding)'
  <2>1. Matches(j, s, b)'
    BY <1>1, ClaimsAreKept
  <2>2. QED
    BY <1>1, <2>1
<1>2. CASE session'[s] = session[s]
  <2>1. PICK j \in Jobs, b \in 0..MaxBinding :
          session[s] = [binding |-> b, ref |-> j]
    BY <1>2 DEF TypeOK
  <2>2. Matches(j, s, b)
    BY <1>2, <2>1 DEF RefMatchesBinding, TypeOK
  <2>3. QED
    BY <1>1, <1>2, <2>1, <2>2
<1>3. ASSUME NEW r \in Reconcilers, Replace(r), session'[s] # session[s]
      PROVE  Matches(session[s].ref, s, session[s].binding)'
  <2>1. /\ rec[r].session = s
        /\ session'[s] = [binding |-> rec[r].binding,
                          ref |-> IF rec[r].pc = "patch" THEN rec[r].job ELSE 0]
    BY <1>3 DEF Replace, Target, TypeOK
  <2>2. rec[r].pc = "patch"
    BY <2>1
  <2>3. PICK j \in Jobs, b \in 0..MaxBinding :
          j = rec[r].job /\ b = rec[r].binding /\ Matches(j, s, b)
    BY <2>1, <2>2, RecOfReconciler DEF HeldJobMatches
  <2>4. QED
    BY <1>1, <2>1, <2>2, <2>3
<1>4. ASSUME NEW t \in Sessions, Rebind(t), session'[s] # session[s]
      PROVE  FALSE
  BY <1>4 DEF Rebind, TypeOK
<1>5. QED
  <2>1. \/ session' = session
        \/ \E r \in Reconcilers : Replace(r)
        \/ \E t \in Sessions : Rebind(t)
    BY DEF Next, Reconcile, Observe, Acquire, Busy, LookBefore, Reuse,
           ChooseSpawn, Spawn, SpawnFails, ListIdle, TryClaim, ClaimConflict,
           NoCapacity, Read, NothingToWrite, Conflict, Resolve, Cleanup, Fail,
           Crash, IdleArrives, JobEnds, Touch, vars, sessionVars
  <2>2. QED
    BY <1>2, <1>3, <1>4, <2>1

(* A reconcile is inside the claim only after Acquire, keeps its session   *)
(* there, and scans the pool only when it has found no Job of its own.     *)
LEMMA ClaimStepsEntered ==
  ASSUME TypeOK, [Next]_vars, NEW q \in Reconcilers,
         rec'[q].pc \in ClaimSteps
  PROVE  /\ rec'[q].session = rec[q].session
         /\ rec[q].pc \in ClaimSteps \/ Acquire(q)
         /\ rec'[q].pc = "scan" =>
              /\ rec'[q].binding = rec[q].binding
              /\ rec[q].pc = "scan" \/ (OwnJobs(q) = {} /\ UNCHANGED jobVars)
<1> DEFINE Goal ==
      /\ rec'[q].session = rec[q].session
      /\ rec[q].pc \in ClaimSteps \/ Acquire(q)
      /\ rec'[q].pc = "scan" =>
           /\ rec'[q].binding = rec[q].binding
           /\ rec[q].pc = "scan" \/ (OwnJobs(q) = {} /\ UNCHANGED jobVars)
<1>1. CASE rec'[q] = rec[q]
  BY <1>1
<1>2. CASE Observe(q)
  BY <1>2 DEF Observe, Rec, ClaimSteps, TypeOK
<1>3. CASE Acquire(q)
  BY <1>3 DEF Acquire, TypeOK, RecType
<1>4. CASE \/ Busy(q) \/ NothingToWrite(q) \/ Replace(q) \/ Cleanup(q)
           \/ Fail(q) \/ Crash(q)
  BY <1>4 DEF Busy, NothingToWrite, Replace, Cleanup, Fail, Crash, Done,
              NoRec, Rec, ClaimSteps, TypeOK
<1>5. CASE LookBefore(q)
  BY <1>5 DEF LookBefore, ClaimSteps, TypeOK, RecType
<1>6. CASE ChooseSpawn(q)
  BY <1>6 DEF ChooseSpawn, ClaimSteps, TypeOK, RecType
<1>7. CASE ListIdle(q)
  BY <1>7 DEF ListIdle, ClaimSteps, TypeOK, RecType
<1>8. CASE SpawnFails(q) \/ NoCapacity(q)
  BY <1>8 DEF SpawnFails, NoCapacity, Capacity, Rec, ClaimSteps, TypeOK
<1>9. ASSUME NEW j \in Jobs, Claimed(q, j), rec[q].pc \in ClaimSteps
      PROVE  Goal
  BY <1>9 DEF Claimed, Rec, TypeOK
<1>10. CASE Reuse(q) \/ Spawn(q) \/ TryClaim(q)
  BY <1>9, <1>10 DEF Reuse, Spawn, TryClaim, ClaimSteps
<1>11. CASE ClaimConflict(q)
  <2>1. rec[q].pc = "scan"
    BY <1>11 DEF ClaimConflict
  <2>2. CASE \E j \in Jobs : Claimed(q, j)
    BY <1>9, <2>1, <2>2 DEF ClaimSteps
  <2>3. CASE \E j \in Jobs : rec' = [rec EXCEPT ![q].todo = @ \ {j}]
    BY <2>1, <2>3 DEF ClaimSteps, TypeOK, RecType
  <2>4. QED
    BY <1>11, <2>2, <2>3 DEF ClaimConflict
<1>12. CASE Read(q)
  BY <1>1, <1>12 DEF Read
<1>13. CASE Conflict(q) \/ Resolve(q)
  <2>1. CASE Done(q)
    BY <2>1 DEF Done, NoRec, Rec, ClaimSteps, TypeOK
  <2>2. CASE ~Done(q)
    <3>1. /\ rec[q].pc \in {"patch", "resolve", "capacity"}
          /\ rec'[q].session = rec[q].session
          /\ \/ rec'[q].pc = rec[q].pc
             \/ rec[q].pc \in {"patch", "resolve"}
                /\ rec'[q].pc \in {"resolve", "cleanup"}
      BY <1>13, <2>2 DEF Conflict, Resolve, TypeOK, RecType
    <3>2. QED
      BY <3>1 DEF ClaimSteps
  <2>3. QED
    BY <2>1, <2>2
<1>14. QED
  <2>1. CASE Reconcile(q)
    BY <2>1, <1>2, <1>3, <1>4, <1>5, <1>6, <1>7, <1>8, <1>10, <1>11, <1>12,
       <1>13 DEF Reconcile
  <2>2. ASSUME NEW r \in Reconcilers, Reconcile(r), r # q
        PROVE  Goal
    BY <1>1, <2>2, OnlyOneMoves
  <2>3. CASE ~\E r \in Reconcilers : Reconcile(r)
    <3>1. rec' = rec
      BY <2>3 DEF Next, IdleArrives, JobEnds, Touch, Rebind, vars
    <3>2. QED
      BY <1>1, <3>1
  <2>4. QED
    BY <2>1, <2>2, <2>3

(* A holder keeps its lease until it leaves the claim or overruns.         *)
LEMMA LeaseMoves ==
  ASSUME TypeOK, [Next]_vars, NEW s \in Sessions
  PROVE  /\ overran[s] => overran'[s]
         /\ \A q \in Reconcilers :
              lease[s] = q /\ ~overran'[s] /\ rec'[q].pc \in ClaimSteps =>
                lease'[s] = q
<1> DEFINE Goal ==
      /\ overran[s] => overran'[s]
      /\ \A q \in Reconcilers :
           lease[s] = q /\ ~overran'[s] /\ rec'[q].pc \in ClaimSteps =>
             lease'[s] = q
<1>1. CASE UNCHANGED leaseVars
  BY <1>1 DEF leaseVars
<1>2. ASSUME NEW r \in Reconcilers, Acquire(r)
      PROVE  Goal
  BY <1>2 DEF Acquire, TypeOK
<1>3. ASSUME NEW r \in Reconcilers, ReleaseLease(r),
             rec'[r].pc \in {"idle", "capacity"}
      PROVE  Goal
  BY <1>3 DEF ReleaseLease, ClaimSteps
<1>4. ASSUME NEW r \in Reconcilers, Crash(r)
      PROVE  Goal
  <2>1. rec'[r].pc = "idle"
    BY <1>4 DEF Crash, Done, NoRec, Rec, TypeOK
  <2>2. QED
    BY <1>4, <2>1 DEF Crash, ClaimSteps
<1>5. ASSUME NEW r \in Reconcilers,
             \/ SpawnFails(r) \/ NoCapacity(r) \/ NothingToWrite(r)
             \/ Replace(r) \/ Cleanup(r) \/ Fail(r)
      PROVE  Goal
  <2>1. ReleaseLease(r) /\ (Capacity(r) \/ Done(r))
    BY <1>5 DEF SpawnFails, NoCapacity, NothingToWrite, Replace, Cleanup, Fail
  <2>2. rec'[r].pc \in {"idle", "capacity"}
    BY <2>1 DEF Capacity, Done, NoRec, Rec, TypeOK
  <2>3. QED
    BY <1>3, <2>1, <2>2
<1>6. ASSUME NEW r \in Reconcilers, Resolve(r)
      PROVE  Goal
  <2>1. UNCHANGED leaseVars \/ (Done(r) /\ ReleaseLease(r))
    BY <1>6 DEF Resolve
  <2>2. Done(r) => rec'[r].pc = "idle"
    BY DEF Done, NoRec, Rec, TypeOK
  <2>3. QED
    BY <1>1, <1>3, <2>1, <2>2
<1>7. QED
  <2>1. \/ UNCHANGED leaseVars
        \/ \E r \in Reconcilers :
             \/ Acquire(r) \/ Crash(r) \/ Resolve(r) \/ SpawnFails(r)
             \/ NoCapacity(r) \/ NothingToWrite(r) \/ Replace(r)
             \/ Cleanup(r) \/ Fail(r)
    BY DEF Next, Reconcile, Observe, Busy, LookBefore, Reuse, ChooseSpawn,
           Spawn, ListIdle, TryClaim, ClaimConflict, Read, Conflict,
           IdleArrives, JobEnds, Touch, Rebind, vars
  <2>2. QED
    BY <1>1, <1>2, <1>4, <1>5, <1>6, <2>1

(* The reconcile that takes a Job for a session holds its lease.           *)
LEMMA LeaseStep ==
  ASSUME IInv, [Next]_vars
  PROVE  LeaseExcludes'
<1> USE DEF IInv
<1> SUFFICES ASSUME NEW q \in Reconcilers, rec'[q].pc \in ClaimSteps,
                    ~overran'[rec'[q].session]
             PROVE  /\ lease'[rec'[q].session] = q
                    /\ rec'[q].pc = "scan" => OwnJobs(q)' = {}
  BY DEF LeaseExcludes
<1>1. /\ rec'[q].session = rec[q].session
      /\ rec[q].pc \in ClaimSteps \/ Acquire(q)
      /\ rec'[q].pc = "scan" =>
           /\ rec'[q].binding = rec[q].binding
           /\ rec[q].pc = "scan" \/ (OwnJobs(q) = {} /\ UNCHANGED jobVars)
  BY ClaimStepsEntered
<1>2. PICK s \in Sessions, b \in 0..MaxBinding :
        s = rec[q].session /\ b = rec[q].binding
  <2>1. rec[q].pc # "idle"
    BY <1>1 DEF ClaimSteps, Acquire
  <2>2. QED
    BY <2>1, RecOfReconciler DEF HeldJobMatches
<1>3. ~overran[s]
  BY <1>1, <1>2, LeaseMoves
<1>4. lease'[s] = q
  <2>1. CASE Acquire(q)
    BY <1>2, <2>1 DEF Acquire, TypeOK
  <2>2. CASE rec[q].pc \in ClaimSteps
    <3>1. lease[s] = q
      BY <1>2, <1>3, <2>2 DEF LeaseExcludes
    <3>2. QED
      BY <1>1, <1>2, <3>1, LeaseMoves
  <2>3. QED
    BY <1>1, <2>1, <2>2
<1>5. ASSUME rec'[q].pc = "scan", NEW j \in Jobs
      PROVE  ~Matches(j, s, b)'
  <2>1. CASE OwnJobs(q) = {} /\ UNCHANGED jobVars
    BY <1>2, <2>1 DEF OwnJobs, Matches, jobVars
  <2>2. CASE rec[q].pc = "scan"
    <3>1. lease[s] = q /\ ~Matches(j, s, b)
      BY <1>2, <1>3, <2>2 DEF LeaseExcludes, ClaimSteps, OwnJobs
    <3>2. ASSUME NEW r \in Reconcilers, Taken(j, r), Matches(j, s, b)'
          PROVE  FALSE
      <4>1. rec[r].session = s /\ rec[r].pc \in ClaimSteps
        BY <3>2 DEF Taken, Matches, ClaimSteps
      <4>2. lease[s] = r
        BY <1>3, <4>1 DEF LeaseExcludes
      <4>3. QED
        BY <1>5, <3>1, <3>2, <4>2 DEF Taken
    <3>3. CASE Stays(j) \/ Ends(j)
      BY <3>1, <3>3 DEF Stays, Ends, SameLabels, Matches
    <3>4. CASE Enters(j)
      BY <3>4 DEF Enters, SameLabels, Matches, PoolIsUnlabelled
    <3>5. QED
      BY <3>2, <3>3, <3>4, JobMoves
  <2>3. QED
    BY <1>1, <1>5, <2>1, <2>2
<1>6. QED
  BY <1>1, <1>2, <1>4, <1>5 DEF OwnJobs

(* One step changes the life of one Job. *)
LEMMA OneJobMoves ==
  ASSUME TypeOK, [Next]_vars, NEW j \in Jobs, NEW k \in Jobs,
         life'[j] # life[j], life'[k] # life[k]
  PROVE  j = k
<1>1. life' # life
  OBVIOUS
<1>2. \E i \in Jobs \cup {0} : \E x : life' = [life EXCEPT ![i] = x]
  <2>1. ASSUME NEW r \in Reconcilers, Reconcile(r)
        PROVE  \E i \in Jobs \cup {0} : \E x : life' = [life EXCEPT ![i] = x]
    <3>1. CASE ChooseSpawn(r) \/ TryClaim(r)
      BY <1>1, <3>1 DEF ChooseSpawn, TryClaim
    <3>2. CASE Spawn(r) \/ SpawnFails(r)
      BY <1>1, <3>2 DEF Spawn, SpawnFails, SpawnJob, jobVars
    <3>3. CASE Cleanup(r)
      BY <3>3, RecOfReconciler DEF Cleanup
    <3>4. QED
      BY <1>1, <2>1, <3>1, <3>2, <3>3
      DEF Reconcile, Observe, Acquire, Busy, LookBefore, Reuse, ListIdle,
          ClaimConflict, NoCapacity, Read, NothingToWrite, Replace, Conflict,
          Resolve, Fail, Crash, jobVars
  <2>2. QED
    BY <1>1, <2>1 DEF Next, IdleArrives, JobEnds, Touch, Rebind, vars, jobVars
<1>3. QED
  BY <1>2 DEF TypeOK

(* A binding that has taken a Job from the pool does not take another.     *)
LEMMA PoolJobStep ==
  ASSUME IInv, [Next]_vars
  PROVE  OnePoolJobPerBinding'
<1> USE DEF IInv
<1> SUFFICES ASSUME NEW s \in Sessions, NEW b \in Bindings, ~overran'[s],
                    NEW j \in Jobs, NEW k \in Jobs,
                    Matches(j, s, b)', image'[j] = NoImage,
                    Matches(k, s, b)', image'[k] = NoImage
             PROVE  j = k
  BY DEF OnePoolJobPerBinding
<1>1. ~overran[s] /\ b \in 0..MaxBinding
  BY LeaseMoves DEF Bindings
<1>2. ASSUME NEW i \in Jobs, Matches(i, s, b)', image'[i] = NoImage
      PROVE  \/ Matches(i, s, b) /\ image[i] = NoImage
             \/ /\ ~Matches(i, s, b)
                /\ \A x \in Jobs : ~Matches(x, s, b)
                /\ \E r \in Reconcilers : Taken(i, r)
  <2>1. CASE Stays(i) \/ Ends(i)
    BY <1>2, <2>1 DEF Stays, Ends, SameLabels, Matches
  <2>2. CASE Enters(i)
    BY <1>2, <2>2 DEF Enters, SameLabels, Matches, PoolIsUnlabelled
  <2>3. ASSUME NEW r \in Reconcilers, Taken(i, r)
        PROVE  \A x \in Jobs : ~Matches(x, s, b)
    <3>1. rec[r].session = s /\ rec[r].binding = b
      BY <1>2, <2>3 DEF Taken, Matches
    <3>2. rec[r].pc # "spawn"
      BY <1>2, <2>3 DEF Taken, HeldJobMatches
    <3>3. rec[r].pc = "scan"
      BY <2>3, <3>2 DEF Taken
    <3>4. QED
      BY <1>1, <3>1, <3>3 DEF LeaseExcludes, ClaimSteps, OwnJobs
  <2>4. QED
    BY <2>1, <2>2, <2>3, JobMoves
<1>3. CASE Matches(j, s, b) /\ Matches(k, s, b)
  <2>1. image[j] = NoImage /\ image[k] = NoImage
    BY <1>1, <1>3, ClaimsAreKept
  <2>2. QED
    BY <1>1, <1>3, <2>1 DEF OnePoolJobPerBinding
<1>4. CASE ~Matches(j, s, b) /\ ~Matches(k, s, b)
  <2>1. life'[j] # life[j] /\ life'[k] # life[k]
    BY <1>2, <1>4 DEF Taken
  <2>2. QED
    BY <2>1, OneJobMoves
<1>5. QED
  BY <1>2, <1>3, <1>4

(* The invariant holds at the start and every step keeps it. *)
THEOREM Inductive == Spec => []IInv
<1>1. Init => IInv
  <2> SUFFICES ASSUME Init
               PROVE  IInv
    OBVIOUS
  <2>1. TypeOK
    BY TypeInit
  <2>2. \A r \in Reconcilers : rec[r].pc = "idle"
    BY DEF Init, NoRec, Rec
  <2>3. HeldJobMatches /\ LeaseExcludes
    BY <2>2 DEF HeldJobMatches, LeaseExcludes, ClaimSteps
  <2>4. PoolIsUnlabelled /\ SeenIsIdle /\ RefMatchesBinding
    BY DEF Init, PoolIsUnlabelled, SeenIsIdle, RefMatchesBinding
  <2>5. OnePoolJobPerBinding
    BY DEF Init, OnePoolJobPerBinding, Matches
  <2>6. QED
    BY <2>1, <2>3, <2>4, <2>5 DEF IInv
<1>2. IInv /\ [Next]_vars => IInv'
  BY TypeStep, PoolStep, HeldStep, RefStep, LeaseStep, PoolJobStep DEF IInv
<1>3. QED
  BY <1>1, <1>2, PTL DEF Spec

-----------------------------------------------------------------------------
(* The theorems *)

(* No reconcile, however stale, makes the status name a Job of another     *)
(* session or binding (the write of _claim_and_bind_pending_job).          *)
THEOREM RefCorrect == Spec => []RefMatchesBinding
<1>1. IInv => RefMatchesBinding
  BY DEF IInv
<1>2. QED
  BY <1>1, Inductive, PTL

(* The Lease and the labels together make the claim of a pool Job single   *)
(* flight for each binding (_claim_idle_job_for_binding).                  *)
THEOREM PoolClaimCorrect == Spec => []OnePoolJobPerBinding
<1>1. IInv => OnePoolJobPerBinding
  BY DEF IInv
<1>2. QED
  BY <1>1, Inductive, PTL

(* The labels that claim a Job are final: no two bindings ever share one.  *)
THEOREM ClaimsCorrect == Spec => ClaimIsFinal
<1> DEFINE Kept == \A j \in Jobs : sessionRef[j] # NoSession =>
                     sessionRef'[j] = sessionRef[j] /\ bindingId'[j] = bindingId[j]
<1>1. IInv /\ [Next]_vars => [Kept]_vars
  BY ClaimsAreKept DEF IInv, SameLabels
<1>2. QED
  BY <1>1, Inductive, PTL DEF Spec, ClaimIsFinal

=============================================================================

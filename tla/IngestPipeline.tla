--------------------------- MODULE IngestPipeline ---------------------------
(***************************************************************************)
(* The ingestion fleet, seen from one job: one source file is parsed by a  *)
(* parse worker, whose plan an ingest worker writes into a table, chunk by *)
(* chunk.                                                                  *)
(*                                                                         *)
(* Messages come from a queue that delivers at least once: a worker holds  *)
(* a receipt, and when the receipt runs out the message is delivered again *)
(* although the worker goes on.  What keeps attempts apart are leases in   *)
(* the artifact store; what lets one attempt continue another is the       *)
(* parse outbox and the checkpoint.  The job's row is read and then        *)
(* written back without a comparison, so a reader may overwrite what was   *)
(* written in between: "draft" is what a reader is about to write.         *)
(*                                                                         *)
(* Abstractions:                                                           *)
(*  - messages of one topic are copies of each other, and counted;         *)
(*    delays, delivery counts and the age of a heartbeat or a marker are   *)
(*    left out: what they delay may happen at any time;                    *)
(*  - one table of Chunks chunks, the job has a dispatch, DM mode;         *)
(*  - the engine that writes the table (CheckpointedIngest) is external;   *)
(*  - the parked blobs of the job hold one payload and are one blob; the   *)
(*    tombstones of what was published outlive it, and whether a message   *)
(*    that is parked afterwards finds one at its key is left open;         *)
(*  - of a row that is written back only the status may be stale.          *)
(***************************************************************************)
EXTENDS Naturals, FiniteSets

CONSTANTS
  ParseWorkers, IngestWorkers,
  Gone,         \* an attempt that no longer runs
  None,
  Chunks,       \* chunks of the table
  MaxShort,     \* INCOMPLETE_MAX_RETRIES
  MaxRecovery,  \* --max-attempts of the stale reconciler
  MaxCopies,    \* bound: copies of a message told apart
  MaxFaults,    \* bound: crashes, lost receipts and leases, shutdowns
  MaxOps,       \* bound: requests of the operator or the assistant except
                \* resumes, and jobs declared stale while they are under way
  MaxHasty      \* bound: recoveries that may be of a job under way

Workers == ParseWorkers \cup IngestWorkers

ASSUME WorkersAssumption ==
  /\ ParseWorkers \cap IngestWorkers = {}
  /\ {None, Gone} \cap Workers = {} /\ None # Gone
  /\ None \notin {"parse", "ingest"}
ASSUME BoundsAssumption ==
  /\ Chunks \in Nat \ {0} /\ MaxCopies \in Nat \ {0}
  /\ {MaxShort, MaxRecovery, MaxFaults, MaxOps, MaxHasty} \subseteq Nat

VARIABLES
  status,      \* job.json: the status
  short,       \* job.json: incomplete_retry_attempt, counted up to one too many
  recovered,   \* job.json: stale_recovery_attempt
  queue,       \* topic -> copies waiting for delivery
  dead,        \* topic -> copies on the dead-letter topic
  record,      \* topic of the newest durable DLQ record
  outbox,      \* jobs/<id>/outbox/parse.json
  parked,      \* the parking lot: a message, a tombstone of one published
  leaseOwner,  \* topic -> the attempt that owns the lease of the stage
  leaseLive,   \* topic -> the lease has not expired
  checkpoint,  \* chunks the checkpoint claims
  table,       \* chunks that are in the table
  pc,          \* worker -> where its attempt is
  receipt,     \* worker -> its receipt is valid
  draft,       \* worker -> the status it is about to write
  pos,         \* worker -> chunks its engine has behind it
  seen,        \* worker -> what its control watcher has latched
  stopping,    \* workers that got SIGTERM
  desk,        \* the request in progress
  dlqCron,     \* the DLQ reconciler
  staleCron,   \* the stale reconciler
  faults, ops, \* bounded counts
  rewrites,    \* chunks written that were in the table already (ghost)
  reruns,      \* full re-runs (ghost)
  dropped      \* a parse message was acknowledged undone (ghost)

job == <<status, short, recovered>>
messages == <<queue, dead, record, parked>>
lease == <<leaseOwner, leaseLive>>
data == <<checkpoint, table, rewrites, reruns>>
attempts == <<pc, receipt, draft, pos, seen, stopping>>
operators == <<desk, dlqCron, staleCron, ops>>
vars == <<job, messages, outbox, lease, data, attempts, operators, faults,
          dropped>>

-----------------------------------------------------------------------------
(* Values *)

Topics == {"parse", "ingest"}
Terminal == {"success", "error", "cancelled"}
Statuses == {"none", "queued", "running", "paused"} \cup Terminal
Halts == {"cancelled", "paused"}

ParseSteps == {"outbox", "republish", "republished", "lease", "mark", "parsing",
               "publish", "published"}
EngineSteps == {"run", "insert", "checkpoint"}
IngestSteps == {"mark", "marking", "stage", "engine", "halted", "gate", "short",
                "exhausted", "result", "finalize"} \cup EngineSteps
Steps == {"idle", "ack", "nack", "dead"} \cup ParseSteps \cup IngestSteps

DeskType == [pc: {"idle", "submit", "cancel", "pause", "drain", "resume",
                  "replay", "replayed", "retry", "requeue"},
             scope: {"none", "dlq", "all", "cli"}, topic: Topics \cup {None}]
NoRequest == [pc |-> "idle", scope |-> "none", topic |-> None]
DlqType == [pc: {"idle", "record", "mark"}, topic: Topics \cup {None},
            draft: Statuses]
NoDlq == [pc |-> "idle", topic |-> None, draft |-> "none"]

TypeOK ==
  /\ status \in Statuses
  /\ short \in 0..MaxShort + 1 /\ recovered \in 0..MaxRecovery
  /\ queue \in [Topics -> 0..MaxCopies] /\ dead \in [Topics -> 0..MaxCopies]
  /\ record \in Topics \cup {None}
  /\ outbox \in {"none", "pending", "published"}
  /\ parked \subseteq {"message", "tombstone"}
  /\ leaseOwner \in [Topics -> Workers \cup {None, Gone}]
  /\ leaseLive \in [Topics -> BOOLEAN]
  /\ checkpoint \in 0..Chunks /\ table \subseteq 1..Chunks
  /\ pc \in [Workers -> Steps]
  /\ receipt \in [Workers -> BOOLEAN]
  /\ draft \in [Workers -> Statuses]
  /\ pos \in [Workers -> 0..Chunks]
  /\ seen \in [Workers -> {"none"} \cup Halts]
  /\ stopping \subseteq Workers
  /\ desk \in DeskType /\ dlqCron \in DlqType
  /\ staleCron \in {"idle", "finalize", "republish", "requeue", "operator"}
  /\ staleCron # "idle" => recovered < MaxRecovery
  /\ faults \in 0..MaxFaults /\ ops \in 0..MaxOps
  /\ {rewrites, reruns} \subseteq Nat
  /\ dropped \in BOOLEAN

-----------------------------------------------------------------------------
(* Helpers *)

TopicOf(w) == IF w \in ParseWorkers THEN "parse" ELSE "ingest"

(* Mutant: the last chunk is not waited for. *)
OneChunkShort == checkpoint + 1 >= Chunks
(* The completion check: the checkpoint against the declared rows. *)
Complete == checkpoint >= Chunks

(* One more copy; copies beyond the bound are not told apart. *)
More(n) == IF n < MaxCopies THEN n + 1 ELSE n
Publish(t) == queue' = [queue EXCEPT ![t] = More(@)]

Goto(w, step) == pc' = [pc EXCEPT ![w] = step]

(* The attempt ends: its locals are gone, a parse lease stays behind. *)
Ends(w) ==
  /\ Goto(w, "idle")
  /\ receipt' = [receipt EXCEPT ![w] = FALSE]
  /\ draft' = [draft EXCEPT ![w] = "none"]
  /\ pos' = [pos EXCEPT ![w] = 0]
  /\ seen' = [seen EXCEPT ![w] = "none"]
  /\ stopping' = stopping \ {w}
  /\ leaseOwner' = [t \in Topics |->
       IF leaseOwner[t] # w THEN leaseOwner[t]
       ELSE IF leaseLive[t] THEN Gone ELSE None]

(* Mutant: a live lease is taken as well. *)
AlwaysFree(t) == t \in Topics
(* acquire_lease: created, or taken over once it has expired. *)
Free(t) == leaseOwner[t] = None \/ ~leaseLive[t]
Acquire(w, t) ==
  /\ leaseOwner' = [leaseOwner EXCEPT ![t] = w]
  /\ leaseLive' = [leaseLive EXCEPT ![t] = TRUE]

(* refresh_lease: renewed if it is still this attempt's; else stale. *)
Owns(w, t) == leaseOwner[t] = w
Refresh(t) ==
  leaseLive' = [leaseLive EXCEPT ![t] = TRUE] /\ UNCHANGED leaseOwner

(* release_lease: deleted if it is still this attempt's. *)
Release(w) ==
  IF Owns(w, "ingest")
  THEN /\ leaseOwner' = [leaseOwner EXCEPT !["ingest"] = None]
       /\ leaseLive' = [leaseLive EXCEPT !["ingest"] = FALSE]
  ELSE UNCHANGED lease

(* A parse message is acknowledged undone, or not sent, and the outbox cannot
   replace it. *)
Drops == dropped' = (outbox = "none")

Fault == faults < MaxFaults /\ faults' = faults + 1

-----------------------------------------------------------------------------
(* How an attempt at a message ends *)

Ack(w) ==
  /\ pc[w] = "ack"
  /\ Ends(w)
  /\ UNCHANGED <<job, messages, outbox, leaseLive, data, operators, faults,
                 dropped>>

(* retry: a deadline of zero or more on the receipt. *)
Nack(w) ==
  /\ pc[w] = "nack"
  /\ IF receipt[w] THEN Publish(TopicOf(w)) ELSE UNCHANGED queue
  /\ Ends(w)
  /\ UNCHANGED <<job, dead, record, parked, outbox, leaseLive, data, operators,
                 faults, dropped>>

(* Mutant: the message is acknowledged only. *)
AckOnly(w) == pc[w] = "dead" /\ UNCHANGED dead
(* dead_letter: published on the dead-letter topic, then acknowledged. *)
Bury(w) == pc[w] = "dead" /\ dead' = [dead EXCEPT ![TopicOf(w)] = More(@)]
DeadLetter(w) ==
  /\ Bury(w)
  /\ Ends(w)
  /\ UNCHANGED <<job, queue, record, parked, outbox, leaseLive, data, operators,
                 faults, dropped>>

(* The pod dies; the message comes back when its deadline has passed. *)
Crash(w) ==
  /\ pc[w] # "idle"
  /\ Fault
  /\ IF receipt[w] THEN Publish(TopicOf(w)) ELSE UNCHANGED queue
  /\ Ends(w)
  /\ UNCHANGED <<job, dead, record, parked, outbox, leaseLive, data, operators,
                 dropped>>

(* During long work the deadline is not extended, or an ingest message reaches
   the lifetime cap and is given up: it is delivered again while the attempt
   goes on. *)
ReceiptExpires(w) ==
  /\ pc[w] \in {"parsing", "stage"} \cup EngineSteps /\ receipt[w]
  /\ Fault
  /\ Publish(TopicOf(w))
  /\ receipt' = [receipt EXCEPT ![w] = FALSE]
  /\ UNCHANGED <<job, dead, record, parked, outbox, lease, data, pc, draft, pos,
                 seen, stopping, operators, dropped>>

(* SIGTERM: no more messages, the one in hand goes on.  Only an attempt that has
   yet to look at the flag takes note. *)
Sigterm(w) ==
  /\ pc[w] \in {"outbox", "lease", "mark", "parsing", "marking", "stage"}
  /\ w \notin stopping
  /\ Fault
  /\ stopping' = stopping \cup {w}
  /\ UNCHANGED <<job, messages, outbox, lease, data, pc, receipt, draft, pos,
                 seen, operators, dropped>>

(* An expired lease that nobody can refresh is as good as none. *)
LeaseExpires(t) ==
  /\ leaseLive[t]
  /\ leaseLive' = [leaseLive EXCEPT ![t] = FALSE]
  /\ IF leaseOwner[t] \in Workers
     THEN Fault /\ UNCHANGED leaseOwner
     ELSE leaseOwner' = [leaseOwner EXCEPT ![t] = None] /\ UNCHANGED faults
  /\ UNCHANGED <<job, messages, outbox, data, attempts, operators, dropped>>

-----------------------------------------------------------------------------
(* The parse worker *)

ParseUnchanged == UNCHANGED <<short, recovered, dead, record, parked, data,
  receipt, draft, pos, seen, stopping, operators, faults>>

(* A message of a job that has ended is acknowledged. *)
Receive(w) ==
  LET t == TopicOf(w) IN
  /\ pc[w] = "idle" /\ queue[t] > 0
  /\ queue' = [queue EXCEPT ![t] = @ - 1]
  /\ receipt' = [receipt EXCEPT ![w] = TRUE]
  /\ Goto(w, IF status \in Terminal THEN "ack"
             ELSE IF t = "parse" THEN "outbox" ELSE "mark")
  /\ IF t = "parse" /\ status \in Terminal THEN Drops ELSE UNCHANGED dropped
  /\ UNCHANGED <<job, dead, record, parked, outbox, lease, data, draft, pos,
                 seen, stopping, operators, faults>>

ParseOutbox(w) ==
  /\ pc[w] = "outbox"
  /\ Goto(w, CASE outbox = "published" -> "ack"
               [] outbox = "pending"   -> "republish"
               [] OTHER                -> "lease")
  /\ UNCHANGED <<status, queue, outbox, lease, dropped>>
  /\ ParseUnchanged

ParseReplays(w) ==
  /\ \/ /\ pc[w] = "republish"
        /\ Publish("ingest")
        /\ Goto(w, "republished")
        /\ UNCHANGED outbox
     \/ /\ pc[w] = "republished"
        /\ outbox' = "published"
        /\ Goto(w, "ack")
        /\ UNCHANGED queue
  /\ UNCHANGED <<status, lease, dropped>>
  /\ ParseUnchanged

(* With a live lease the message is a duplicate, which is acknowledged. *)
ParseLease(w) ==
  /\ pc[w] = "lease"
  /\ IF Free("parse")
     THEN Acquire(w, "parse") /\ Goto(w, "mark") /\ UNCHANGED dropped
     ELSE Drops /\ Goto(w, "ack") /\ UNCHANGED lease
  /\ UNCHANGED <<status, queue, outbox>>
  /\ ParseUnchanged

(* The row becomes running whatever it was. *)
ParseMark(w) ==
  /\ w \in ParseWorkers /\ pc[w] = "mark"
  /\ status' = "running"
  /\ Goto(w, "parsing")
  /\ UNCHANGED <<queue, outbox, lease, dropped>>
  /\ ParseUnchanged

ParseHalted(w) == w \in stopping \/ status = "cancelled"

(* Stopped or cancelled: the plan is not published, the message acknowledged. *)
ParseStops(w) ==
  /\ pc[w] = "parsing" /\ ParseHalted(w)
  /\ Drops
  /\ Goto(w, "ack")
  /\ UNCHANGED <<status, queue, outbox, lease>>
  /\ ParseUnchanged

ParseFails(w) ==
  /\ pc[w] = "parsing"
  /\ Goto(w, "dead")
  /\ UNCHANGED <<status, queue, outbox, lease, dropped>>
  /\ ParseUnchanged

(* Mutant: no outbox is written. *)
StoreNothing == UNCHANGED <<outbox, dropped>>
(* The outbox; from here on the message of the job is not lost. *)
StorePlan == outbox' = "pending" /\ dropped' = FALSE

(* Manifest and outbox are written, the message published, the outbox marked,
   each under a lease that is refreshed first. *)
ParseStep(w) ==
  /\ pc[w] = "parsing" => ~ParseHalted(w)
  /\ pc[w] \in {"parsing", "publish", "published"}
  /\ Owns(w, "parse") /\ Refresh("parse")
  /\ \/ /\ pc[w] = "parsing"
        /\ StorePlan
        /\ Goto(w, "publish")
        /\ UNCHANGED queue
     \/ /\ pc[w] = "publish"
        /\ Publish("ingest")
        /\ Goto(w, "published")
        /\ UNCHANGED <<outbox, dropped>>
     \/ /\ pc[w] = "published"
        /\ outbox' = "published"
        /\ Goto(w, "ack")
        /\ UNCHANGED <<queue, dropped>>
  /\ UNCHANGED status
  /\ ParseUnchanged

(* StaleLeaseError: another attempt has taken the lease. *)
ParseFenced(w) ==
  /\ pc[w] = "parsing" => ~ParseHalted(w)
  /\ pc[w] \in {"parsing", "publish", "published"}
  /\ ~Owns(w, "parse")
  /\ Goto(w, "dead")
  /\ UNCHANGED <<status, queue, outbox, lease, dropped>>
  /\ ParseUnchanged

ParseNext(w) ==
  \/ ParseOutbox(w) \/ ParseReplays(w) \/ ParseLease(w) \/ ParseMark(w)
  \/ ParseStops(w) \/ ParseFails(w) \/ ParseStep(w) \/ ParseFenced(w)

-----------------------------------------------------------------------------
(* The ingest worker *)

IngestUnchanged == UNCHANGED <<recovered, dead, record, outbox, reruns, receipt,
  stopping, operators, dropped>>
RowsUnchanged == UNCHANGED <<checkpoint, table, rewrites>>

(* The control watcher polls the row and latches the first halt it sees. *)
Watch(w) ==
  /\ w \in IngestWorkers
  /\ pc[w] \in {"mark", "marking", "stage", "engine"} \cup EngineSteps
  /\ seen[w] = "none" /\ status \in Halts
  /\ seen' = [seen EXCEPT ![w] = status]
  /\ UNCHANGED <<status, short, queue, parked, lease, pc, draft, pos, faults>>
  /\ RowsUnchanged /\ IngestUnchanged

IngestMark(w) ==
  /\ w \in IngestWorkers /\ pc[w] = "mark"
  /\ IF status \in {"success", "cancelled", "paused"}
     THEN Goto(w, "stage") /\ UNCHANGED draft
     ELSE Goto(w, "marking") /\ draft' = [draft EXCEPT ![w] = "running"]
  /\ UNCHANGED <<status, short, queue, parked, lease, pos, seen, faults>>
  /\ RowsUnchanged /\ IngestUnchanged

(* What was drafted from an earlier read is written to the row. *)
IngestWrites(w) ==
  /\ pc[w] \in {"marking", "finalize"}
  /\ status' = draft[w]
  /\ draft' = [draft EXCEPT ![w] = "none"]
  /\ Goto(w, IF pc[w] = "marking" THEN "stage" ELSE "ack")
  /\ UNCHANGED <<short, queue, parked, lease, pos, seen, faults>>
  /\ RowsUnchanged /\ IngestUnchanged

(* The manifest is read and staged; a shutdown or a cancelled job is then an
   error of the job, any exception a dead letter. *)
IngestStage(w) ==
  /\ pc[w] = "stage"
  /\ \/ /\ w \in stopping \/ status = "cancelled"
        /\ draft' = [draft EXCEPT ![w] = "error"]
        /\ Goto(w, "result")
     \/ /\ w \notin stopping /\ status # "cancelled"
        /\ Goto(w, "engine")
        /\ UNCHANGED draft
     \/ /\ Goto(w, "dead")
        /\ UNCHANGED draft
  /\ UNCHANGED <<status, short, queue, parked, lease, pos, seen, faults>>
  /\ RowsUnchanged /\ IngestUnchanged

(* Mutant: resumed one chunk too far. *)
ResumeBehind == IF checkpoint < Chunks THEN checkpoint + 1 ELSE checkpoint
ResumeFrom == checkpoint

(* The engine takes the table's lease and resumes behind the checkpoint; a live
   attempt defers the message, or dead-letters it after too many deliveries. *)
EngineStarts(w) ==
  /\ pc[w] = "engine"
  /\ IF Free("ingest")
     THEN /\ Acquire(w, "ingest")
          /\ pos' = [pos EXCEPT ![w] = ResumeFrom]
          /\ Goto(w, "run")
     ELSE /\ \/ Goto(w, "nack")
             \/ Goto(w, "dead")
          /\ UNCHANGED <<lease, pos>>
  /\ UNCHANGED <<status, short, queue, parked, draft, seen, faults>>
  /\ RowsUnchanged /\ IngestUnchanged

(* The engine leaves for a step of the handler, its lease released, with a
   result that is not yet one of the job. *)
Leaves(w, step, result) ==
  /\ Goto(w, step)
  /\ Release(w)
  /\ pos' = [pos EXCEPT ![w] = 0]
  /\ draft' = [draft EXCEPT ![w] = result]
  /\ seen' = [seen EXCEPT ![w] = IF step = "halted" THEN @ ELSE "none"]
  /\ UNCHANGED <<status, short, queue, parked>>
  /\ RowsUnchanged /\ IngestUnchanged

(* Between chunks: a latched halt, or a message that has been given up. *)
EngineHalts(w) ==
  /\ pc[w] = "run" /\ seen[w] # "none"
  /\ Leaves(w, "halted", "none") /\ UNCHANGED faults
EngineSurrenders(w) ==
  /\ pc[w] = "run" /\ ~receipt[w]
  /\ Leaves(w, "nack", "none") /\ UNCHANGED faults

(* The engine returns, with what it has: it does not verify (verify=False). *)
EngineReturns(w) ==
  /\ pc[w] = "run"
  /\ Leaves(w, "gate", "success") /\ UNCHANGED faults

(* An insert fails, or the lease is another's.  A checkpoint that is refused
   ends the engine too; one that cannot be written is a fault. *)
EngineFails(w) ==
  /\ \/ pc[w] = "insert" /\ UNCHANGED faults
     \/ pc[w] = "run" /\ ~Owns(w, "ingest") /\ UNCHANGED faults
     \/ pc[w] = "checkpoint" /\ pos[w] + 1 < checkpoint /\ UNCHANGED faults
     \/ pc[w] = "checkpoint" /\ Fault
  /\ Leaves(w, "gate", "error")

EngineNextChunk(w) ==
  /\ pc[w] = "run" /\ seen[w] = "none" /\ pos[w] < Chunks
  /\ Owns(w, "ingest") /\ Refresh("ingest")
  /\ Goto(w, "insert")
  /\ UNCHANGED <<status, short, queue, parked, draft, pos, seen, faults>>
  /\ RowsUnchanged /\ IngestUnchanged

EngineInserts(w) ==
  /\ pc[w] = "insert"
  /\ table' = table \cup {pos[w] + 1}
  /\ rewrites' = IF pos[w] + 1 \in table THEN rewrites + 1 ELSE rewrites
  /\ Goto(w, "checkpoint")
  /\ UNCHANGED <<status, short, queue, parked, lease, checkpoint, draft, pos,
                 seen, faults>>
  /\ IngestUnchanged

(* write_checkpoint: never backwards. *)
Monotonic(w) == pos[w] + 1 >= checkpoint
EngineCheckpoints(w) ==
  /\ pc[w] = "checkpoint" /\ Monotonic(w)
  /\ checkpoint' = pos[w] + 1
  /\ pos' = [pos EXCEPT ![w] = @ + 1]
  /\ Goto(w, "run")
  /\ UNCHANGED <<status, short, queue, parked, lease, table, rewrites, draft,
                 seen, faults>>
  /\ IngestUnchanged

(* Whatever the result, the attempt at a short table is counted; the last one is
   an error. *)
Exhausted == short >= MaxShort
Gate(w) ==
  /\ pc[w] = "gate"
  /\ IF Complete
     THEN Goto(w, "result") /\ UNCHANGED draft
     ELSE /\ Goto(w, IF Exhausted THEN "exhausted" ELSE "short")
          /\ draft' = [draft EXCEPT ![w] =
               IF Exhausted /\ status \notin Halts THEN "error" ELSE status]
  /\ UNCHANGED <<status, short, queue, parked, lease, pos, seen, faults>>
  /\ RowsUnchanged /\ IngestUnchanged

GateWrites(w) ==
  /\ pc[w] \in {"short", "exhausted"}
  /\ status' = draft[w]
  /\ draft' = [draft EXCEPT ![w] = "none"]
  /\ short' = IF short > MaxShort THEN short ELSE short + 1
  /\ Goto(w, IF pc[w] = "exhausted" THEN "dead" ELSE "nack")
  /\ UNCHANGED <<queue, parked, lease, pos, seen, faults>>
  /\ RowsUnchanged /\ IngestUnchanged

(* The result goes to the row before the message is acknowledged, unless the
   row that was read is cancelled or paused: that is written back. *)
Finalize(w) ==
  /\ pc[w] = "result"
  /\ draft' = [draft EXCEPT ![w] = IF status \in Halts THEN status ELSE @]
  /\ Goto(w, "finalize")
  /\ UNCHANGED <<status, short, queue, parked, lease, pos, seen, faults>>
  /\ RowsUnchanged /\ IngestUnchanged

Parked == "message" \in parked
Park == parked' = parked \cup {"message"}

(* Paused: the message is parked before it is acknowledged.  Cancelled: the row
   says so afterwards, whatever it said. *)
Halted(w) ==
  /\ pc[w] = "halted"
  /\ \/ /\ seen[w] = "paused"
        /\ Park
        /\ Goto(w, "ack")
        /\ UNCHANGED <<status, faults>>
     \/ /\ seen[w] = "paused"
        /\ Fault
        /\ Goto(w, "dead")
        /\ UNCHANGED <<status, parked>>
     \/ /\ seen[w] = "cancelled"
        /\ status' = "cancelled"
        /\ Goto(w, "ack")
        /\ UNCHANGED <<parked, faults>>
  /\ UNCHANGED <<short, queue, lease, draft, pos, seen>>
  /\ RowsUnchanged /\ IngestUnchanged

EngineNext(w) ==
  \/ EngineStarts(w) \/ EngineHalts(w) \/ EngineSurrenders(w)
  \/ EngineReturns(w) \/ EngineFails(w) \/ EngineNextChunk(w)
  \/ EngineInserts(w) \/ EngineCheckpoints(w)
IngestNext(w) ==
  \/ Watch(w) \/ IngestMark(w) \/ IngestWrites(w) \/ IngestStage(w)
  \/ Gate(w) \/ GateWrites(w) \/ Finalize(w) \/ Halted(w)

-----------------------------------------------------------------------------
(* Requests: submit, cancel, pause, resume, retry *)

DeskUnchanged == UNCHANGED <<outbox, lease, table, rewrites, attempts, dlqCron,
  staleCron, dead, record>>

Ask(step, scope, topic) ==
  /\ desk = NoRequest /\ ops < MaxOps
  /\ ops' = ops + 1
  /\ desk' = [pc |-> step, scope |-> scope, topic |-> topic]
Done == desk' = NoRequest /\ UNCHANGED ops
DeskGoto(step) == desk' = [desk EXCEPT !.pc = step] /\ UNCHANGED ops

(* The row is written before the message, also when a publish is replayed. *)
Submit ==
  /\ \/ /\ Ask("submit", "none", None)
        /\ status' = "queued" /\ short' = 0 /\ recovered' = 0
        /\ UNCHANGED queue
     \/ /\ desk.pc = "submit"
        /\ Publish("parse")
        /\ Done
        /\ UNCHANGED job
  /\ UNCHANGED <<parked, checkpoint, reruns, faults, dropped>>
  /\ DeskUnchanged

Cancel ==
  /\ \/ /\ status \notin {"none"} \cup Terminal
        /\ Ask("cancel", "none", None)
        /\ UNCHANGED status
     \/ /\ desk.pc = "cancel"
        /\ status' = "cancelled"
        /\ Done
  /\ UNCHANGED <<short, recovered, queue, parked, checkpoint, reruns, faults,
                 dropped>>
  /\ DeskUnchanged

(* The rows are flipped; the CLI then drains the backlog into the parking lot,
   also of jobs that were not flipped, the control plane does not. *)
PauseRows ==
  \/ /\ IF status \in {"none", "paused"} \cup Terminal
        THEN queue["ingest"] > 0 /\ Ask("drain", "none", None)
        ELSE Ask("pause", "none", None)
     /\ UNCHANGED <<status, queue, parked>>
  \/ /\ desk.pc = "pause"
     /\ status' = "paused"
     /\ DeskGoto("drain")
     /\ UNCHANGED <<queue, parked>>
Drain ==
  /\ desk.pc = "drain"
  /\ \/ /\ queue["ingest"] > 0
        /\ queue' = [queue EXCEPT !["ingest"] = @ - 1]
        /\ Park
        /\ UNCHANGED <<desk, ops>>
     \/ Done /\ UNCHANGED <<queue, parked>>
  /\ UNCHANGED status
Pause ==
  /\ PauseRows \/ Drain
  /\ UNCHANGED <<short, recovered, checkpoint, reruns, faults, dropped>>
  /\ DeskUnchanged

(* A paused row is queued again.  The CLI then publishes what is parked, leaves a
   tombstone and deletes it; the control plane does not.  A message that was
   parked and published, and is delivered and parked once more, has its tombstone
   already: it is deleted only. *)
ResumeRows ==
  \/ /\ desk = NoRequest
     /\ status = "paused" \/ Parked
     /\ DeskGoto(IF status = "paused" THEN "resume" ELSE "replay")
     /\ UNCHANGED <<status, queue, parked>>
  \/ /\ desk.pc = "resume"
     /\ status' = "queued"
     /\ DeskGoto("replay")
     /\ UNCHANGED <<queue, parked>>
Replay ==
  \/ /\ desk.pc = "replay" /\ Parked
     /\ \/ /\ status \in Terminal \/ "tombstone" \in parked
           /\ parked' = parked \ {"message"}
           /\ UNCHANGED <<queue, desk, ops>>
        \/ /\ status \notin Terminal
           /\ parked' = {"tombstone"}
           /\ Publish("ingest") /\ DeskGoto("replayed")
     /\ UNCHANGED status
  \/ /\ desk.pc \in {"replay", "replayed"}
     /\ Done
     /\ UNCHANGED <<status, queue, parked>>
Resume ==
  /\ ResumeRows \/ Replay
  /\ UNCHANGED <<short, recovered, checkpoint, reruns, faults, dropped>>
  /\ DeskUnchanged

(* The newest DLQ record, or for a full re-run the outbox. *)
RetryTopic(scope) ==
  IF record # None THEN record
  ELSE IF scope = "all" /\ outbox # "none" THEN "ingest" ELSE None

MayRetry(scope) ==
  CASE scope = "all" -> status # "none"
    [] scope = "dlq" -> status \notin {"none", "success", "queued", "running"}
    [] scope = "cli" -> /\ status \notin {"none", "success"}
                        /\ \A t \in Topics : ~leaseLive[t]
    [] OTHER -> FALSE

(* The row is read, the message published, and the row written last. *)
Retry ==
  /\ \/ /\ \E scope \in {"dlq", "all", "cli"} :
             /\ MayRetry(scope) /\ RetryTopic(scope) # None
             /\ Ask("retry", scope, RetryTopic(scope))
        /\ UNCHANGED <<status, queue, checkpoint, reruns>>
     \/ /\ desk.pc = "retry"
        /\ Publish(desk.topic)
        /\ IF desk.scope = "all"
           THEN checkpoint' = 0 /\ reruns' = reruns + 1
           ELSE UNCHANGED <<checkpoint, reruns>>
        /\ DeskGoto("requeue")
        /\ UNCHANGED status
     \/ /\ desk.pc = "requeue"
        /\ status' = "queued"
        /\ Done
        /\ UNCHANGED <<queue, checkpoint, reruns>>
  /\ UNCHANGED <<short, recovered, parked, faults, dropped>>
  /\ DeskUnchanged

(* The request dies; a submit then leaves a row without a message, a drain or a
   replay a message that is both parked and published. *)
DeskCrash ==
  /\ desk.pc # "idle"
  /\ Fault
  /\ IF desk.pc = "submit" THEN Drops ELSE UNCHANGED dropped
  /\ IF desk.pc = "replayed" \/ (desk.pc = "drain" /\ queue["ingest"] > 0)
     THEN Park ELSE UNCHANGED parked
  /\ Done
  /\ UNCHANGED <<job, queue, checkpoint, reruns>>
  /\ DeskUnchanged

-----------------------------------------------------------------------------
(* The two CronJobs *)

(* The DLQ reconciler: record, mark the row, acknowledge. *)
DlqPulls(t) ==
  /\ dlqCron = NoDlq /\ dead[t] > 0
  /\ dead' = [dead EXCEPT ![t] = @ - 1]
  /\ dlqCron' = [NoDlq EXCEPT !.pc = "record", !.topic = t]
  /\ UNCHANGED <<status, record>>
DlqRecords ==
  /\ dlqCron.pc = "record"
  /\ record' = dlqCron.topic
  /\ dlqCron' = [dlqCron EXCEPT !.pc = "mark", !.draft =
       IF status \in {"success", "cancelled"} THEN status ELSE "error"]
  /\ UNCHANGED <<status, dead>>
DlqMarks ==
  /\ dlqCron.pc = "mark"
  /\ status' = dlqCron.draft
  /\ dlqCron' = NoDlq
  /\ UNCHANGED <<dead, record>>
DlqReconcile ==
  /\ (\E t \in Topics : DlqPulls(t)) \/ DlqRecords \/ DlqMarks
  /\ UNCHANGED <<short, recovered, queue, parked, outbox, lease, data, attempts,
                 desk, staleCron, ops, faults, dropped>>

DlqCrash ==
  /\ dlqCron # NoDlq
  /\ Fault
  /\ dead' = [dead EXCEPT ![dlqCron.topic] = More(@)]
  /\ dlqCron' = NoDlq
  /\ UNCHANGED <<job, queue, record, parked, outbox, lease, data, attempts, desk,
                 staleCron, ops, dropped>>

(* derive_status: running-stale or queued-stale. *)
Stale ==
  /\ status \in {"queued", "running"}
  /\ record = None
  /\ \A t \in Topics : ~leaseLive[t]

(* A retry of the control plane holds the recovery lease from its publish to its
   write of the row; the CLI only while it publishes. *)
RecoveryBusy == desk.pc = "requeue" /\ desk.scope # "cli"

(* Nothing and nobody carries the job on. *)
Quiet ==
  /\ \A t \in Topics : queue[t] = 0 /\ dead[t] = 0
  /\ \A w \in Workers : pc[w] = "idle"
  /\ desk = NoRequest /\ dlqCron = NoDlq

(* Mutant: one recovery too many. *)
OneMoreRecovery == recovered <= MaxRecovery
MayRecover == recovered < MaxRecovery

(* Planned from one read, applied to a later one.  A job whose message waits, or
   whose attempt goes without a lease, for longer than the ages allow is
   declared stale as well. *)
StalePlans ==
  /\ staleCron = "idle" /\ Stale /\ MayRecover
  /\ Quiet \/ (ops < MaxOps /\ recovered < MaxHasty)
  /\ ops' = IF Quiet THEN ops ELSE ops + 1
  /\ staleCron' = CASE outbox = "none" -> "operator"
                    [] Complete /\ outbox # "none" -> "finalize"
                    [] ~Complete /\ outbox # "none" -> "republish"
  /\ UNCHANGED <<status, recovered, queue>>
StaleApplies ==
  \/ /\ staleCron = "republish"
     /\ IF RecoveryBusy
        THEN staleCron' = "idle" /\ UNCHANGED queue
        ELSE staleCron' = "requeue" /\ Publish("ingest")
     /\ UNCHANGED <<status, recovered, ops>>
  \/ /\ staleCron \in {"finalize", "requeue", "operator"}
     /\ status' = CASE staleCron = "finalize" -> "success"
                    [] staleCron = "requeue"  -> "queued"
                    [] staleCron = "operator" -> "error"
     /\ recovered' = recovered + 1
     /\ staleCron' = "idle"
     /\ UNCHANGED <<queue, ops>>
StaleRecovery ==
  /\ StalePlans \/ StaleApplies
  /\ UNCHANGED <<short, dead, record, parked, outbox, lease, data, attempts,
                 desk, dlqCron, faults, dropped>>

StaleCrash ==
  /\ staleCron # "idle"
  /\ Fault
  /\ staleCron' = "idle"
  /\ UNCHANGED <<job, messages, outbox, lease, data, attempts, desk, dlqCron,
                 ops, dropped>>

-----------------------------------------------------------------------------
Init ==
  /\ status = "none" /\ short = 0 /\ recovered = 0
  /\ queue = [t \in Topics |-> 0] /\ dead = [t \in Topics |-> 0]
  /\ record = None /\ outbox = "none" /\ parked = {}
  /\ leaseOwner = [t \in Topics |-> None]
  /\ leaseLive = [t \in Topics |-> FALSE]
  /\ checkpoint = 0 /\ table = {} /\ rewrites = 0 /\ reruns = 0
  /\ pc = [w \in Workers |-> "idle"]
  /\ receipt = [w \in Workers |-> FALSE]
  /\ draft = [w \in Workers |-> "none"]
  /\ pos = [w \in Workers |-> 0]
  /\ seen = [w \in Workers |-> "none"]
  /\ stopping = {}
  /\ desk = NoRequest /\ dlqCron = NoDlq /\ staleCron = "idle"
  /\ faults = 0 /\ ops = 0 /\ dropped = FALSE

WorkerNext(w) ==
  \/ Receive(w) \/ Ack(w) \/ Nack(w) \/ DeadLetter(w)
  \/ ParseNext(w) \/ IngestNext(w) \/ EngineNext(w)
DeskNext == Submit \/ Cancel \/ Pause \/ Resume \/ Retry
Faults ==
  \/ \E w \in Workers : Crash(w) \/ ReceiptExpires(w) \/ Sigterm(w)
  \/ DeskCrash \/ DlqCrash \/ StaleCrash

Next ==
  \/ \E w \in Workers : WorkerNext(w)
  \/ \E t \in Topics : LeaseExpires(t)
  \/ DeskNext \/ DlqReconcile \/ StaleRecovery
  \/ Faults

Spec == Init /\ [][Next]_vars

(* Workers poll and work, the CronJobs come round, an abandoned lease runs out,
   a request that was begun goes on. *)
Fairness ==
  /\ \A w \in Workers : WF_vars(WorkerNext(w))
  /\ \A t \in Topics : WF_vars(leaseOwner[t] = Gone /\ LeaseExpires(t))
  /\ WF_vars(DlqReconcile) /\ WF_vars(StaleRecovery)
  /\ WF_vars(desk # NoRequest /\ DeskNext)

(* The behaviours in which a request runs to its end before anything else
   happens: none of what goes wrong in these is a race with a request. *)
PromptNext == Next /\ (desk # NoRequest => desk' # desk)
PromptSpec == Init /\ [][PromptNext]_vars /\ Fairness

-----------------------------------------------------------------------------
(* Properties *)

(* A job is a success only if every chunk is in the table, whatever attempts
   overlapped, took over, were cut off or returned early, and whoever wrote the
   status: the completion gate and the stale reconciler's plan. *)
SuccessIsComplete == status = "success" => table = 1..Chunks

(* A resumed attempt skips only what is in the table, also when several attempts
   have written the checkpoint and a full re-run has deleted it. *)
CheckpointIsInTable == 1..checkpoint \subseteq table

(* A crash, a shutdown, a lost receipt or a lost lease costs at most one chunk
   written twice, a full re-run at most the table: the leases keep attempts that
   overlap from writing side by side. *)
RewritesArePaidFor == rewrites <= faults + Chunks * reruns

(* Whatever happens to an ingest message, a copy of it is in the outbox, from
   which the stale reconciler republishes. *)
Ingesting == \/ queue["ingest"] > 0 \/ dead["ingest"] > 0 \/ Parked
             \/ \E w \in IngestWorkers : pc[w] # "idle"
             \/ "ingest" \in {record, dlqCron.topic}
PublishedIsRecoverable == Ingesting => outbox # "none"

(* A job that is under way and not yet parsed has its parse message somewhere:
   in the queue, with a worker, dead-lettered or recorded.  It is lost only in
   the ways Drops marks: acknowledged because the row had ended (and was then
   overwritten), because of a stop after parsing, as the duplicate of an attempt
   that then failed, or never sent. *)
ParseMessageExists ==
  \/ queue["parse"] > 0 \/ dead["parse"] > 0 \/ desk.pc = "submit"
  \/ \E w \in ParseWorkers : pc[w] # "idle"
  \/ dlqCron.topic = "parse" \/ record # None
ParseWorkIsKept ==
  status \in {"queued", "running", "paused"} /\ outbox = "none" =>
    ParseMessageExists \/ dropped

(* A job whose row says queued or running while no message, no worker and no
   request is left for it is picked up again by the stale reconciler, as long as
   its attempts are not used up: what the comment in derive_status says of
   limbo. *)
Limbo ==
  /\ status \in {"queued", "running"} /\ recovered < MaxRecovery
  /\ Quiet /\ staleCron = "idle"
LimboHeals == Limbo ~> ~Limbo
=============================================================================

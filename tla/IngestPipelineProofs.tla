------------------------ MODULE IngestPipelineProofs ------------------------
(***************************************************************************)
(* What holds of the ingestion pipeline for every number of workers,       *)
(* chunks and attempts.                                                    *)
(*                                                                         *)
(* The invariant has three parts beside the types.  Rows: an engine has    *)
(* behind it only chunks of the table, and whoever is about to write the   *)
(* status "success" has seen the table complete.  Published: what is on    *)
(* the way to an ingest message comes after the outbox.  Kept: until the   *)
(* outbox is written, somebody who cannot lose it holds the parse message. *)
(***************************************************************************)
EXTENDS IngestPipeline, TLAPS

(* The types, in parts. *)
JobTypes ==
  /\ status \in Statuses /\ short \in 0..MaxShort + 1 /\ recovered \in 0..MaxRecovery
  /\ outbox \in {"none", "pending", "published"}
MessageTypes ==
  /\ queue \in [Topics -> 0..MaxCopies] /\ dead \in [Topics -> 0..MaxCopies]
  /\ record \in Topics \cup {None}
OwnerTypes == leaseOwner \in [Topics -> Workers \cup {None, Gone}]
FlagTypes ==
  /\ leaseLive \in [Topics -> BOOLEAN] /\ dropped \in BOOLEAN
  /\ parked \subseteq {"message", "tombstone"}
DataTypes ==
  /\ checkpoint \in 0..Chunks /\ table \subseteq 1..Chunks
  /\ {rewrites, reruns} \subseteq Nat
AttemptTypes ==
  /\ pc \in [Workers -> Steps] /\ receipt \in [Workers -> BOOLEAN]
  /\ draft \in [Workers -> Statuses] /\ pos \in [Workers -> 0..Chunks]
  /\ seen \in [Workers -> {"none"} \cup Halts] /\ stopping \subseteq Workers
OperatorTypes ==
  /\ desk \in DeskType /\ dlqCron \in DlqType
  /\ staleCron \in {"idle", "finalize", "republish", "requeue", "operator"}
  /\ staleCron # "idle" => recovered < MaxRecovery
  /\ faults \in 0..MaxFaults /\ ops \in 0..MaxOps

(* What an engine has behind it is in the table. *)
Behind ==
  /\ 1..checkpoint \subseteq table
  /\ \A w \in Workers :
       /\ pc[w] \in EngineSteps => 1..pos[w] \subseteq table
       /\ pc[w] \in {"insert", "checkpoint"} => pos[w] < Chunks
       /\ pc[w] = "checkpoint" => pos[w] + 1 \in table

(* Who is about to write "success" found the table complete; only the engine's
   own result is not checked yet. *)
Checked ==
  table = 1..Chunks \/
    /\ status # "success" /\ dlqCron.draft # "success" /\ staleCron # "finalize"
    /\ \A w \in Workers : draft[w] = "success" => pc[w] = "gate"

(* Nobody publishes an ingest message before there is an outbox, and so there
   is none, in whatever state. *)
Published ==
  outbox # "none" \/
    /\ queue["ingest"] = 0 /\ dead["ingest"] = 0
    /\ record # "ingest" /\ dlqCron.topic # "ingest"
    /\ \A w \in IngestWorkers : pc[w] = "idle"
    /\ \A w \in Workers :
         pc[w] \notin {"republish", "republished", "publish", "published"}
    /\ desk.topic # "ingest" /\ desk.pc # "replayed"
    /\ staleCron \notin {"republish", "requeue", "finalize"}
ParkedBehind == Parked => outbox # "none"

(* Before its first submission nothing refers to the job. *)
Untouched ==
  ops # 0 \/
    /\ status = "none" /\ parked = {} /\ record = None
    /\ \A t \in Topics : queue[t] = 0 /\ dead[t] = 0
    /\ \A w \in Workers : pc[w] = "idle"
    /\ desk = NoRequest /\ dlqCron = NoDlq /\ staleCron = "idle"

(* Who holds the parse message: a worker counts as long as its receipt is
   valid. *)
Holder ==
  \/ queue["parse"] > 0 \/ dead["parse"] > 0 \/ desk.pc = "submit"
  \/ \E w \in ParseWorkers :
       pc[w] # "idle" /\ receipt[w]
  \/ dlqCron.topic = "parse" \/ record # None
Kept == ops = 0 \/ outbox # "none" \/ dropped \/ Holder
(* A parse worker acknowledges a message only with an outbox, or marked. *)
Acknowledged ==
  \A w \in ParseWorkers :
    /\ pc[w] \in {"idle", "ack", "dead"} \cup ParseSteps
    /\ pc[w] = "ack" => outbox # "none" \/ dropped
Recorded ==
  /\ dlqCron.pc = "record" => dlqCron.topic # None
  /\ dlqCron.pc = "mark" => record # None

IInv == TypeOK /\ Behind /\ Checked /\ Published /\ ParkedBehind /\ Untouched
          /\ Kept /\ Acknowledged /\ Recorded

-----------------------------------------------------------------------------
(* The disjuncts of the next-state relation. *)
LEMMA ActionCases ==
  ASSUME [Next]_vars
  PROVE
    \/ \E w \in Workers : Receive(w)
    \/ \E w \in Workers : Ack(w)
    \/ \E w \in Workers : Nack(w)
    \/ \E w \in Workers : DeadLetter(w)
    \/ \E w \in Workers : Crash(w)
    \/ \E w \in Workers : ReceiptExpires(w)
    \/ \E w \in Workers : Sigterm(w)
    \/ \E w \in Workers : ParseOutbox(w)
    \/ \E w \in Workers : ParseReplays(w)
    \/ \E w \in Workers : ParseLease(w)
    \/ \E w \in Workers : ParseMark(w)
    \/ \E w \in Workers : ParseStops(w)
    \/ \E w \in Workers : ParseFails(w)
    \/ \E w \in Workers : ParseStep(w)
    \/ \E w \in Workers : ParseFenced(w)
    \/ \E w \in Workers : Watch(w)
    \/ \E w \in Workers : IngestMark(w)
    \/ \E w \in Workers : IngestWrites(w)
    \/ \E w \in Workers : IngestStage(w)
    \/ \E w \in Workers : Gate(w)
    \/ \E w \in Workers : GateWrites(w)
    \/ \E w \in Workers : Finalize(w)
    \/ \E w \in Workers : Halted(w)
    \/ \E w \in Workers : EngineStarts(w)
    \/ \E w \in Workers : EngineHalts(w)
    \/ \E w \in Workers : EngineSurrenders(w)
    \/ \E w \in Workers : EngineReturns(w)
    \/ \E w \in Workers : EngineFails(w)
    \/ \E w \in Workers : EngineNextChunk(w)
    \/ \E w \in Workers : EngineInserts(w)
    \/ \E w \in Workers : EngineCheckpoints(w)
    \/ \E t \in Topics : LeaseExpires(t)
    \/ Submit \/ Cancel \/ Pause \/ Resume \/ Retry
    \/ DeskCrash \/ DlqReconcile \/ DlqCrash \/ StaleRecovery \/ StaleCrash
    \/ UNCHANGED vars
  BY Zenon DEF Next, WorkerNext, ParseNext, IngestNext, EngineNext, DeskNext,
      Faults

LEMMA TypeParts ==
  TypeOK <=> /\ JobTypes /\ MessageTypes /\ OwnerTypes /\ FlagTypes
             /\ DataTypes /\ AttemptTypes /\ OperatorTypes
  BY Zenon DEF TypeOK, JobTypes, MessageTypes, OwnerTypes, FlagTypes,
    DataTypes, AttemptTypes, OperatorTypes

LEMMA LiveChanges ==
  ASSUME leaseLive \in [Topics -> BOOLEAN], NEW t \in Topics, NEW b \in BOOLEAN
  PROVE  [leaseLive EXCEPT ![t] = b] \in [Topics -> BOOLEAN]
  BY SMT

LEMMA DlqChanges ==
  ASSUME TypeOK, DlqReconcile
  PROVE  dlqCron' \in DlqType
<1>1. dlqCron \in DlqType /\ NoDlq \in DlqType /\ status \in Statuses
  BY DEF TypeOK, NoDlq, DlqType, Statuses, Terminal
<1>2. \A t \in Topics : [NoDlq EXCEPT !.pc = "record", !.topic = t] \in DlqType
  BY <1>1 DEF DlqType
<1>3. \A s \in Statuses : [dlqCron EXCEPT !.pc = "mark",
    !.draft = s] \in DlqType
  BY <1>1 DEF DlqType
<1>4. (IF status \in {"success",
    "cancelled"} THEN status ELSE "error") \in Statuses
  BY <1>1 DEF Statuses, Terminal
<1>. HIDE DEF DlqType, NoDlq, Statuses
<1>. QED  BY <1>1, <1>2, <1>3, <1>4
    DEF DlqReconcile, DlqPulls, DlqRecords, DlqMarks

LEMMA DeadChanges ==
  ASSUME TypeOK, NEW t \in Topics \cup {None}
  PROVE  [dead EXCEPT ![t] = More(@)] \in [Topics -> 0..MaxCopies]
<1>1. CASE t \in Topics  BY <1>1, BoundsAssumption, SMT DEF TypeOK, More
<1>2. CASE t \notin Topics
  <2>1. dead \in [Topics -> 0..MaxCopies]  BY DEF TypeOK
  <2>. DEFINE d == [dead EXCEPT ![t] = More(@)]
  <2>2. d = [s \in Topics |-> IF s = t THEN More(dead[t]) ELSE dead[s]]
    BY <2>1, Zenon
  <2>3. \A s \in Topics : s # t  BY <1>2
  <2>4. d = [s \in Topics |-> dead[s]]  BY <2>2, <2>3, Zenon
  <2>5. \A s \in Topics : dead[s] \in 0..MaxCopies  BY <2>1
  <2>. QED  BY <2>4, <2>5, Zenon
<1>. QED  BY <1>1, <1>2

(* Every step keeps the types. *)
LEMMA TypeStep ==
  ASSUME TypeOK, Behind, [Next]_vars
  PROVE TypeOK'
<1>. USE BoundsAssumption, WorkersAssumption DEF job, messages, lease, data,
    attempts, operators, TypeOK, Behind, Workers, Topics, Terminal, Statuses,
    Halts, ParseSteps, EngineSteps, IngestSteps, Steps, DeskType, NoRequest,
    DlqType, NoDlq
<1>1. ASSUME NEW w \in Workers, Ack(w) PROVE TypeOK'
  BY <1>1, SMTT(30) DEF Ack, Ends, Goto
<1>2. ASSUME NEW w \in Workers, Nack(w) PROVE TypeOK'
  BY <1>2, SMTT(30) DEF Nack, Ends, Goto, Publish, More, TopicOf
<1>3. ASSUME NEW w \in Workers, DeadLetter(w) PROVE TypeOK'
  BY <1>3, SMTT(30) DEF DeadLetter, Bury, Ends, Goto, More, TopicOf
<1>4. ASSUME NEW w \in Workers, Crash(w) PROVE TypeOK'
  BY <1>4, SMTT(30) DEF Crash, Fault, Ends, Goto, Publish, More, TopicOf
<1>5. ASSUME NEW w \in Workers, ReceiptExpires(w) PROVE TypeOK'
  BY <1>5, SMTT(30) DEF ReceiptExpires, Fault, Publish, More, TopicOf
<1>6. ASSUME NEW w \in Workers, Sigterm(w) PROVE TypeOK'
  BY <1>6, SMTT(30) DEF Sigterm, Fault
<1>7. ASSUME NEW w \in Workers, ParseOutbox(w) PROVE TypeOK'
  BY <1>7, SMTT(30) DEF ParseOutbox, Goto, ParseUnchanged
<1>8. ASSUME NEW w \in Workers, ParseReplays(w) PROVE TypeOK'
  BY <1>8, SMTT(30) DEF ParseReplays, Goto, Publish, More, ParseUnchanged
<1>9. ASSUME NEW w \in Workers, ParseMark(w) PROVE TypeOK'
  BY <1>9, SMTT(30) DEF ParseMark, Goto, ParseUnchanged
<1>10. ASSUME NEW w \in Workers, ParseStops(w) PROVE TypeOK'
  BY <1>10, SMTT(30) DEF ParseStops, ParseHalted, Drops, Goto, ParseUnchanged
<1>11. ASSUME NEW w \in Workers, ParseFails(w) PROVE TypeOK'
  BY <1>11, SMTT(30) DEF ParseFails, Goto, ParseUnchanged
<1>12. ASSUME NEW w \in Workers, ParseFenced(w) PROVE TypeOK'
  BY <1>12, SMTT(30) DEF ParseFenced, ParseHalted, Owns, Goto, ParseUnchanged
<1>13. ASSUME NEW w \in Workers, Watch(w) PROVE TypeOK'
  BY <1>13, SMTT(30) DEF Watch, RowsUnchanged, IngestUnchanged
<1>14. ASSUME NEW w \in Workers, IngestMark(w) PROVE TypeOK'
  BY <1>14, SMTT(30) DEF IngestMark, Goto, RowsUnchanged, IngestUnchanged
<1>15. ASSUME NEW w \in Workers, IngestWrites(w) PROVE TypeOK'
  BY <1>15, SMTT(30) DEF IngestWrites, Goto, RowsUnchanged, IngestUnchanged
<1>16. ASSUME NEW w \in Workers, IngestStage(w) PROVE TypeOK'
  BY <1>16, SMTT(30) DEF IngestStage, Goto, RowsUnchanged, IngestUnchanged
<1>17. ASSUME NEW w \in Workers, Gate(w) PROVE TypeOK'
  BY <1>17, SMTT(30) DEF Gate, Complete, Exhausted, Goto, RowsUnchanged,
      IngestUnchanged
<1>18. ASSUME NEW w \in Workers, GateWrites(w) PROVE TypeOK'
  BY <1>18, SMTT(30) DEF GateWrites, Exhausted, Goto, RowsUnchanged,
      IngestUnchanged
<1>19. ASSUME NEW w \in Workers, Finalize(w) PROVE TypeOK'
  BY <1>19, SMTT(30) DEF Finalize, Goto, RowsUnchanged, IngestUnchanged
<1>20. ASSUME NEW w \in Workers, EngineNextChunk(w) PROVE TypeOK'
  BY <1>20, SMTT(30) DEF EngineNextChunk, Owns, Refresh, Goto, RowsUnchanged,
      IngestUnchanged
<1>21. ASSUME NEW w \in Workers, EngineCheckpoints(w) PROVE TypeOK'
  BY <1>21, SMTT(30) DEF EngineCheckpoints, Monotonic, Goto, IngestUnchanged
<1>22. ASSUME NEW t \in Topics, LeaseExpires(t) PROVE TypeOK'
  BY <1>22, SMTT(30) DEF LeaseExpires, Fault
<1>23. ASSUME Submit PROVE TypeOK'
  BY <1>23, SMTT(30) DEF Submit, Ask, Done, Publish, More, DeskUnchanged
<1>24. ASSUME Cancel PROVE TypeOK'
  BY <1>24, SMTT(30) DEF Cancel, Ask, Done, DeskUnchanged
<1>25. ASSUME Retry PROVE TypeOK'
  BY <1>25, SMTT(30) DEF Retry, Ask, Done, DeskGoto, RetryTopic, MayRetry,
      Publish, More, DeskUnchanged
<1>26. ASSUME StaleRecovery PROVE TypeOK'
  BY <1>26, SMTT(30) DEF StaleRecovery, StalePlans, MayRecover, StaleApplies,
      RecoveryBusy, Stale, Complete, Publish, More
<1>27. ASSUME StaleCrash PROVE TypeOK'
  BY <1>27, SMTT(30) DEF StaleCrash, Fault
<1>28. ASSUME UNCHANGED vars PROVE TypeOK'
  BY <1>28, SMTT(30) DEF vars
<1>. HIDE DEF TypeOK, Behind
<1>29. ASSUME NEW w \in Workers, Receive(w) PROVE TypeOK'
  <2>1. JobTypes'
    BY <1>29, TypeParts, SMTT(30) DEF Receive, TopicOf, Goto, Drops, JobTypes,
        AttemptTypes, OperatorTypes
  <2>2. MessageTypes'
    BY <1>29, TypeParts, SMTT(30) DEF Receive, TopicOf, Goto, Drops,
        MessageTypes, OperatorTypes
  <2>3. OwnerTypes'
    BY <1>29, TypeParts, SMTT(30) DEF Receive, TopicOf, Goto, Drops,
        OwnerTypes
  <2>4. DataTypes'
    BY <1>29, TypeParts, SMTT(30) DEF Receive, TopicOf, Goto, Drops,
        DataTypes, AttemptTypes, Behind
  <2>5. AttemptTypes'
    BY <1>29, TypeParts, SMTT(30) DEF Receive, TopicOf, Goto, Drops,
        AttemptTypes, JobTypes, DataTypes, Behind
  <2>6. OperatorTypes'
    BY <1>29, TypeParts, SMTT(30) DEF Receive, TopicOf, Goto, Drops,
        OperatorTypes, JobTypes
  <2>7. FlagTypes'
    BY <1>29, TypeParts, LiveChanges, Zenon DEF Receive, TopicOf, Goto, Drops,
        FlagTypes
  <2>. QED
    BY <2>1, <2>2, <2>3, <2>4, <2>5, <2>6, <2>7, Zenon
    DEF TypeOK, JobTypes, MessageTypes, OwnerTypes, FlagTypes, DataTypes,
        AttemptTypes, OperatorTypes
<1>30. ASSUME NEW w \in Workers, ParseLease(w) PROVE TypeOK'
  <2>1. JobTypes'
    BY <1>30, TypeParts, SMTT(30) DEF ParseLease, Free, Acquire, Goto, Drops,
        ParseUnchanged, JobTypes, AttemptTypes, OperatorTypes
  <2>2. MessageTypes'
    BY <1>30, TypeParts, SMTT(30) DEF ParseLease, Free, Acquire, Goto, Drops,
        ParseUnchanged, MessageTypes, OperatorTypes
  <2>3. OwnerTypes'
    BY <1>30, TypeParts, SMTT(30) DEF ParseLease, Free, Acquire, Goto, Drops,
        ParseUnchanged, OwnerTypes
  <2>4. DataTypes'
    BY <1>30, TypeParts, SMTT(30) DEF ParseLease, Free, Acquire, Goto, Drops,
        ParseUnchanged, DataTypes, AttemptTypes, Behind
  <2>5. AttemptTypes'
    BY <1>30, TypeParts, SMTT(30) DEF ParseLease, Free, Acquire, Goto, Drops,
        ParseUnchanged, AttemptTypes, JobTypes, DataTypes, Behind
  <2>6. OperatorTypes'
    BY <1>30, TypeParts, SMTT(30) DEF ParseLease, Free, Acquire, Goto, Drops,
        ParseUnchanged, OperatorTypes, JobTypes
  <2>7. FlagTypes'
    BY <1>30, TypeParts, LiveChanges, Zenon DEF ParseLease, Free, Acquire,
        Goto, Drops, ParseUnchanged, FlagTypes
  <2>. QED
    BY <2>1, <2>2, <2>3, <2>4, <2>5, <2>6, <2>7, Zenon
    DEF TypeOK, JobTypes, MessageTypes, OwnerTypes, FlagTypes, DataTypes,
        AttemptTypes, OperatorTypes
<1>31. ASSUME NEW w \in Workers, ParseStep(w) PROVE TypeOK'
  <2>1. JobTypes'
    BY <1>31, TypeParts, SMTT(30) DEF ParseStep, ParseHalted, Owns, Refresh,
        StorePlan, Goto, Publish, More, ParseUnchanged, JobTypes,
        AttemptTypes, OperatorTypes
  <2>2. MessageTypes'
    BY <1>31, TypeParts, SMTT(30) DEF ParseStep, ParseHalted, Owns, Refresh,
        StorePlan, Goto, Publish, More, ParseUnchanged, MessageTypes,
        OperatorTypes
  <2>3. OwnerTypes'
    BY <1>31, TypeParts, SMTT(30) DEF ParseStep, ParseHalted, Owns, Refresh,
        StorePlan, Goto, Publish, More, ParseUnchanged, OwnerTypes
  <2>4. DataTypes'
    BY <1>31, TypeParts, SMTT(30) DEF ParseStep, ParseHalted, Owns, Refresh,
        StorePlan, Goto, Publish, More, ParseUnchanged, DataTypes,
        AttemptTypes, Behind
  <2>5. AttemptTypes'
    BY <1>31, TypeParts, SMTT(30) DEF ParseStep, ParseHalted, Owns, Refresh,
        StorePlan, Goto, Publish, More, ParseUnchanged, AttemptTypes,
        JobTypes, DataTypes, Behind
  <2>6. OperatorTypes'
    BY <1>31, TypeParts, SMTT(30) DEF ParseStep, ParseHalted, Owns, Refresh,
        StorePlan, Goto, Publish, More, ParseUnchanged, OperatorTypes,
        JobTypes
  <2>7. FlagTypes'
    BY <1>31, TypeParts, LiveChanges, Zenon DEF ParseStep, ParseHalted, Owns,
        Refresh, StorePlan, Goto, Publish, More, ParseUnchanged, FlagTypes
  <2>. QED
    BY <2>1, <2>2, <2>3, <2>4, <2>5, <2>6, <2>7, Zenon
    DEF TypeOK, JobTypes, MessageTypes, OwnerTypes, FlagTypes, DataTypes,
        AttemptTypes, OperatorTypes
<1>32. ASSUME NEW w \in Workers, Halted(w) PROVE TypeOK'
  <2>1. JobTypes'
    BY <1>32, TypeParts, SMTT(30) DEF Halted, Park, Fault, Goto, RowsUnchanged,
        IngestUnchanged, JobTypes, AttemptTypes, OperatorTypes
  <2>2. MessageTypes'
    BY <1>32, TypeParts, SMTT(30) DEF Halted, Park, Fault, Goto, RowsUnchanged,
        IngestUnchanged, MessageTypes, OperatorTypes
  <2>3. OwnerTypes'
    BY <1>32, TypeParts, SMTT(30) DEF Halted, Park, Fault, Goto, RowsUnchanged,
        IngestUnchanged, OwnerTypes
  <2>4. DataTypes'
    BY <1>32, TypeParts, SMTT(30) DEF Halted, Park, Fault, Goto, RowsUnchanged,
        IngestUnchanged, DataTypes, AttemptTypes, Behind
  <2>5. AttemptTypes'
    BY <1>32, TypeParts, SMTT(30) DEF Halted, Park, Fault, Goto, RowsUnchanged,
        IngestUnchanged, AttemptTypes, JobTypes, DataTypes, Behind
  <2>6. OperatorTypes'
    BY <1>32, TypeParts, SMTT(30) DEF Halted, Park, Fault, Goto, RowsUnchanged,
        IngestUnchanged, OperatorTypes, JobTypes
  <2>7. FlagTypes'
    BY <1>32, TypeParts, LiveChanges, Zenon DEF Halted, Park, Fault, Goto,
        RowsUnchanged, IngestUnchanged, FlagTypes
  <2>. QED
    BY <2>1, <2>2, <2>3, <2>4, <2>5, <2>6, <2>7, Zenon
    DEF TypeOK, JobTypes, MessageTypes, OwnerTypes, FlagTypes, DataTypes,
        AttemptTypes, OperatorTypes
<1>33. ASSUME NEW w \in Workers, EngineStarts(w) PROVE TypeOK'
  <2>1. JobTypes'
    BY <1>33, TypeParts, SMTT(30) DEF EngineStarts, Free, Acquire, ResumeFrom,
        Goto, RowsUnchanged, IngestUnchanged, JobTypes, AttemptTypes,
        OperatorTypes
  <2>2. MessageTypes'
    BY <1>33, TypeParts, SMTT(30) DEF EngineStarts, Free, Acquire, ResumeFrom,
        Goto, RowsUnchanged, IngestUnchanged, MessageTypes, OperatorTypes
  <2>3. OwnerTypes'
    BY <1>33, TypeParts, SMTT(30) DEF EngineStarts, Free, Acquire, ResumeFrom,
        Goto, RowsUnchanged, IngestUnchanged, OwnerTypes
  <2>4. DataTypes'
    BY <1>33, TypeParts, SMTT(30) DEF EngineStarts, Free, Acquire, ResumeFrom,
        Goto, RowsUnchanged, IngestUnchanged, DataTypes, AttemptTypes, Behind
  <2>5. AttemptTypes'
    BY <1>33, TypeParts, SMTT(30) DEF EngineStarts, Free, Acquire, ResumeFrom,
        Goto, RowsUnchanged, IngestUnchanged, AttemptTypes, JobTypes,
        DataTypes, Behind
  <2>6. OperatorTypes'
    BY <1>33, TypeParts, SMTT(30) DEF EngineStarts, Free, Acquire, ResumeFrom,
        Goto, RowsUnchanged, IngestUnchanged, OperatorTypes, JobTypes
  <2>7. FlagTypes'
    BY <1>33, TypeParts, LiveChanges, Zenon DEF EngineStarts, Free, Acquire,
        ResumeFrom, Goto, RowsUnchanged, IngestUnchanged, FlagTypes
  <2>. QED
    BY <2>1, <2>2, <2>3, <2>4, <2>5, <2>6, <2>7, Zenon
    DEF TypeOK, JobTypes, MessageTypes, OwnerTypes, FlagTypes, DataTypes,
        AttemptTypes, OperatorTypes
<1>34. ASSUME NEW w \in Workers, EngineHalts(w) PROVE TypeOK'
  <2>1. JobTypes'
    BY <1>34, TypeParts, SMTT(30) DEF EngineHalts, Leaves, Goto, Release,
        Owns, RowsUnchanged, IngestUnchanged, JobTypes, AttemptTypes,
        OperatorTypes
  <2>2. MessageTypes'
    BY <1>34, TypeParts, SMTT(30) DEF EngineHalts, Leaves, Goto, Release,
        Owns, RowsUnchanged, IngestUnchanged, MessageTypes, OperatorTypes
  <2>3. OwnerTypes'
    BY <1>34, TypeParts, SMTT(30) DEF EngineHalts, Leaves, Goto, Release,
        Owns, RowsUnchanged, IngestUnchanged, OwnerTypes
  <2>4. DataTypes'
    BY <1>34, TypeParts, SMTT(30) DEF EngineHalts, Leaves, Goto, Release,
        Owns, RowsUnchanged, IngestUnchanged, DataTypes, AttemptTypes, Behind
  <2>5. AttemptTypes'
    BY <1>34, TypeParts, SMTT(30) DEF EngineHalts, Leaves, Goto, Release,
        Owns, RowsUnchanged, IngestUnchanged, AttemptTypes, JobTypes,
        DataTypes, Behind
  <2>6. OperatorTypes'
    BY <1>34, TypeParts, SMTT(30) DEF EngineHalts, Leaves, Goto, Release,
        Owns, RowsUnchanged, IngestUnchanged, OperatorTypes, JobTypes
  <2>7. FlagTypes'
    BY <1>34, TypeParts, LiveChanges, Zenon DEF EngineHalts, Leaves, Goto,
        Release, Owns, RowsUnchanged, IngestUnchanged, FlagTypes
  <2>. QED
    BY <2>1, <2>2, <2>3, <2>4, <2>5, <2>6, <2>7, Zenon
    DEF TypeOK, JobTypes, MessageTypes, OwnerTypes, FlagTypes, DataTypes,
        AttemptTypes, OperatorTypes
<1>35. ASSUME NEW w \in Workers, EngineSurrenders(w) PROVE TypeOK'
  <2>1. JobTypes'
    BY <1>35, TypeParts, SMTT(30) DEF EngineSurrenders, Leaves, Goto, Release,
        Owns, RowsUnchanged, IngestUnchanged, JobTypes, AttemptTypes,
        OperatorTypes
  <2>2. MessageTypes'
    BY <1>35, TypeParts, SMTT(30) DEF EngineSurrenders, Leaves, Goto, Release,
        Owns, RowsUnchanged, IngestUnchanged, MessageTypes, OperatorTypes
  <2>3. OwnerTypes'
    BY <1>35, TypeParts, SMTT(30) DEF EngineSurrenders, Leaves, Goto, Release,
        Owns, RowsUnchanged, IngestUnchanged, OwnerTypes
  <2>4. DataTypes'
    BY <1>35, TypeParts, SMTT(30) DEF EngineSurrenders, Leaves, Goto, Release,
        Owns, RowsUnchanged, IngestUnchanged, DataTypes, AttemptTypes, Behind
  <2>5. AttemptTypes'
    BY <1>35, TypeParts, SMTT(30) DEF EngineSurrenders, Leaves, Goto, Release,
        Owns, RowsUnchanged, IngestUnchanged, AttemptTypes, JobTypes,
        DataTypes, Behind
  <2>6. OperatorTypes'
    BY <1>35, TypeParts, SMTT(30) DEF EngineSurrenders, Leaves, Goto, Release,
        Owns, RowsUnchanged, IngestUnchanged, OperatorTypes, JobTypes
  <2>7. FlagTypes'
    BY <1>35, TypeParts, LiveChanges, Zenon DEF EngineSurrenders, Leaves,
        Goto, Release, Owns, RowsUnchanged, IngestUnchanged, FlagTypes
  <2>. QED
    BY <2>1, <2>2, <2>3, <2>4, <2>5, <2>6, <2>7, Zenon
    DEF TypeOK, JobTypes, MessageTypes, OwnerTypes, FlagTypes, DataTypes,
        AttemptTypes, OperatorTypes
<1>36. ASSUME NEW w \in Workers, EngineReturns(w) PROVE TypeOK'
  <2>1. JobTypes'
    BY <1>36, TypeParts, SMTT(30) DEF EngineReturns, Leaves, Goto, Release,
        Owns, RowsUnchanged, IngestUnchanged, JobTypes, AttemptTypes,
        OperatorTypes
  <2>2. MessageTypes'
    BY <1>36, TypeParts, SMTT(30) DEF EngineReturns, Leaves, Goto, Release,
        Owns, RowsUnchanged, IngestUnchanged, MessageTypes, OperatorTypes
  <2>3. OwnerTypes'
    BY <1>36, TypeParts, SMTT(30) DEF EngineReturns, Leaves, Goto, Release,
        Owns, RowsUnchanged, IngestUnchanged, OwnerTypes
  <2>4. DataTypes'
    BY <1>36, TypeParts, SMTT(30) DEF EngineReturns, Leaves, Goto, Release,
        Owns, RowsUnchanged, IngestUnchanged, DataTypes, AttemptTypes, Behind
  <2>5. AttemptTypes'
    BY <1>36, TypeParts, SMTT(30) DEF EngineReturns, Leaves, Goto, Release,
        Owns, RowsUnchanged, IngestUnchanged, AttemptTypes, JobTypes,
        DataTypes, Behind
  <2>6. OperatorTypes'
    BY <1>36, TypeParts, SMTT(30) DEF EngineReturns, Leaves, Goto, Release,
        Owns, RowsUnchanged, IngestUnchanged, OperatorTypes, JobTypes
  <2>7. FlagTypes'
    BY <1>36, TypeParts, LiveChanges, Zenon DEF EngineReturns, Leaves, Goto,
        Release, Owns, RowsUnchanged, IngestUnchanged, FlagTypes
  <2>. QED
    BY <2>1, <2>2, <2>3, <2>4, <2>5, <2>6, <2>7, Zenon
    DEF TypeOK, JobTypes, MessageTypes, OwnerTypes, FlagTypes, DataTypes,
        AttemptTypes, OperatorTypes
<1>37. ASSUME NEW w \in Workers, EngineFails(w) PROVE TypeOK'
  <2>1. JobTypes'
    BY <1>37, TypeParts, SMTT(30) DEF EngineFails, Leaves, Owns, Fault, Goto,
        Release, RowsUnchanged, IngestUnchanged, JobTypes, AttemptTypes,
        OperatorTypes
  <2>2. MessageTypes'
    BY <1>37, TypeParts, SMTT(30) DEF EngineFails, Leaves, Owns, Fault, Goto,
        Release, RowsUnchanged, IngestUnchanged, MessageTypes, OperatorTypes
  <2>3. OwnerTypes'
    BY <1>37, TypeParts, SMTT(30) DEF EngineFails, Leaves, Owns, Fault, Goto,
        Release, RowsUnchanged, IngestUnchanged, OwnerTypes
  <2>4. DataTypes'
    BY <1>37, TypeParts, SMTT(30) DEF EngineFails, Leaves, Owns, Fault, Goto,
        Release, RowsUnchanged, IngestUnchanged, DataTypes, AttemptTypes,
        Behind
  <2>5. AttemptTypes'
    BY <1>37, TypeParts, SMTT(30) DEF EngineFails, Leaves, Owns, Fault, Goto,
        Release, RowsUnchanged, IngestUnchanged, AttemptTypes, JobTypes,
        DataTypes, Behind
  <2>6. OperatorTypes'
    BY <1>37, TypeParts, SMTT(30) DEF EngineFails, Leaves, Owns, Fault, Goto,
        Release, RowsUnchanged, IngestUnchanged, OperatorTypes, JobTypes
  <2>7. FlagTypes'
    BY <1>37, TypeParts, LiveChanges, Zenon DEF EngineFails, Leaves, Owns,
        Fault, Goto, Release, RowsUnchanged, IngestUnchanged, FlagTypes
  <2>. QED
    BY <2>1, <2>2, <2>3, <2>4, <2>5, <2>6, <2>7, Zenon
    DEF TypeOK, JobTypes, MessageTypes, OwnerTypes, FlagTypes, DataTypes,
        AttemptTypes, OperatorTypes
<1>38. ASSUME NEW w \in Workers, EngineInserts(w) PROVE TypeOK'
  <2>1. JobTypes'
    BY <1>38, TypeParts, SMTT(30) DEF EngineInserts, Goto, IngestUnchanged,
        JobTypes, AttemptTypes, OperatorTypes
  <2>2. MessageTypes'
    BY <1>38, TypeParts, SMTT(30) DEF EngineInserts, Goto, IngestUnchanged,
        MessageTypes, OperatorTypes
  <2>3. OwnerTypes'
    BY <1>38, TypeParts, SMTT(30) DEF EngineInserts, Goto, IngestUnchanged,
        OwnerTypes
  <2>4. DataTypes'
    BY <1>38, TypeParts, SMTT(30) DEF EngineInserts, Goto, IngestUnchanged,
        DataTypes, AttemptTypes, Behind
  <2>5. AttemptTypes'
    BY <1>38, TypeParts, SMTT(30) DEF EngineInserts, Goto, IngestUnchanged,
        AttemptTypes, JobTypes, DataTypes, Behind
  <2>6. OperatorTypes'
    BY <1>38, TypeParts, SMTT(30) DEF EngineInserts, Goto, IngestUnchanged,
        OperatorTypes, JobTypes
  <2>7. FlagTypes'
    BY <1>38, TypeParts, LiveChanges, Zenon DEF EngineInserts, Goto,
        IngestUnchanged, FlagTypes
  <2>. QED
    BY <2>1, <2>2, <2>3, <2>4, <2>5, <2>6, <2>7, Zenon
    DEF TypeOK, JobTypes, MessageTypes, OwnerTypes, FlagTypes, DataTypes,
        AttemptTypes, OperatorTypes
<1>39. ASSUME Pause PROVE TypeOK'
  <2>1. JobTypes'
    BY <1>39, TypeParts, SMTT(30) DEF Pause, PauseRows, Drain, Park, Ask, Done,
        DeskGoto, DeskUnchanged, JobTypes, AttemptTypes, OperatorTypes
  <2>2. MessageTypes'
    BY <1>39, TypeParts, SMTT(30) DEF Pause, PauseRows, Drain, Park, Ask, Done,
        DeskGoto, DeskUnchanged, MessageTypes, OperatorTypes
  <2>3. OwnerTypes'
    BY <1>39, TypeParts, SMTT(30) DEF Pause, PauseRows, Drain, Park, Ask, Done,
        DeskGoto, DeskUnchanged, OwnerTypes
  <2>4. DataTypes'
    BY <1>39, TypeParts, SMTT(30) DEF Pause, PauseRows, Drain, Park, Ask, Done,
        DeskGoto, DeskUnchanged, DataTypes, AttemptTypes, Behind
  <2>5. AttemptTypes'
    BY <1>39, TypeParts, SMTT(30) DEF Pause, PauseRows, Drain, Park, Ask, Done,
        DeskGoto, DeskUnchanged, AttemptTypes, JobTypes, DataTypes, Behind
  <2>6. OperatorTypes'
    BY <1>39, TypeParts, SMTT(30) DEF Pause, PauseRows, Drain, Park, Ask, Done,
        DeskGoto, DeskUnchanged, OperatorTypes, JobTypes
  <2>7. FlagTypes'
    BY <1>39, TypeParts, LiveChanges, Zenon DEF Pause, PauseRows, Drain, Park, Ask,
        Done, DeskGoto, DeskUnchanged, FlagTypes
  <2>. QED
    BY <2>1, <2>2, <2>3, <2>4, <2>5, <2>6, <2>7, Zenon
    DEF TypeOK, JobTypes, MessageTypes, OwnerTypes, FlagTypes, DataTypes,
        AttemptTypes, OperatorTypes
<1>40. ASSUME Resume PROVE TypeOK'
  <2>1. JobTypes'
    BY <1>40, TypeParts, SMTT(30) DEF Resume, ResumeRows, Replay, Parked, DeskGoto,
        Done, Publish, More, DeskUnchanged, JobTypes, AttemptTypes,
        OperatorTypes
  <2>2. MessageTypes'
    BY <1>40, TypeParts, SMTT(30) DEF Resume, ResumeRows, Replay, Parked, DeskGoto,
        Done, Publish, More, DeskUnchanged, MessageTypes, OperatorTypes
  <2>3. OwnerTypes'
    BY <1>40, TypeParts, SMTT(30) DEF Resume, ResumeRows, Replay, Parked, DeskGoto,
        Done, Publish, More, DeskUnchanged, OwnerTypes
  <2>4. DataTypes'
    BY <1>40, TypeParts, SMTT(30) DEF Resume, ResumeRows, Replay, Parked, DeskGoto,
        Done, Publish, More, DeskUnchanged, DataTypes, AttemptTypes, Behind
  <2>5. AttemptTypes'
    BY <1>40, TypeParts, SMTT(30) DEF Resume, ResumeRows, Replay, Parked, DeskGoto,
        Done, Publish, More, DeskUnchanged, AttemptTypes, JobTypes, DataTypes,
        Behind
  <2>6. OperatorTypes'
    BY <1>40, TypeParts, SMTT(30) DEF Resume, ResumeRows, Replay, Parked, DeskGoto,
        Done, Publish, More, DeskUnchanged, OperatorTypes, JobTypes
  <2>7. FlagTypes'
    BY <1>40, TypeParts, LiveChanges, Zenon DEF Resume, ResumeRows, Replay, Parked,
        DeskGoto, Done, Publish, More, DeskUnchanged, FlagTypes
  <2>. QED
    BY <2>1, <2>2, <2>3, <2>4, <2>5, <2>6, <2>7, Zenon
    DEF TypeOK, JobTypes, MessageTypes, OwnerTypes, FlagTypes, DataTypes,
        AttemptTypes, OperatorTypes
<1>41. ASSUME DeskCrash PROVE TypeOK'
  <2>1. JobTypes'
    BY <1>41, TypeParts, SMTT(30) DEF DeskCrash, Park, Fault, Drops, Done,
        DeskUnchanged, JobTypes, AttemptTypes, OperatorTypes
  <2>2. MessageTypes'
    BY <1>41, TypeParts, SMTT(30) DEF DeskCrash, Park, Fault, Drops, Done,
        DeskUnchanged, MessageTypes, OperatorTypes
  <2>3. OwnerTypes'
    BY <1>41, TypeParts, SMTT(30) DEF DeskCrash, Park, Fault, Drops, Done,
        DeskUnchanged, OwnerTypes
  <2>4. DataTypes'
    BY <1>41, TypeParts, SMTT(30) DEF DeskCrash, Park, Fault, Drops, Done,
        DeskUnchanged, DataTypes, AttemptTypes, Behind
  <2>5. AttemptTypes'
    BY <1>41, TypeParts, SMTT(30) DEF DeskCrash, Park, Fault, Drops, Done,
        DeskUnchanged, AttemptTypes, JobTypes, DataTypes, Behind
  <2>6. OperatorTypes'
    BY <1>41, TypeParts, SMTT(30) DEF DeskCrash, Park, Fault, Drops, Done,
        DeskUnchanged, OperatorTypes, JobTypes
  <2>7. FlagTypes'
    BY <1>41, TypeParts, LiveChanges, Zenon DEF DeskCrash, Park, Fault, Drops, Done,
        DeskUnchanged, FlagTypes
  <2>. QED
    BY <2>1, <2>2, <2>3, <2>4, <2>5, <2>6, <2>7, Zenon
    DEF TypeOK, JobTypes, MessageTypes, OwnerTypes, FlagTypes, DataTypes,
        AttemptTypes, OperatorTypes
<1>. HIDE BoundsAssumption, WorkersAssumption DEF job, messages, lease, data,
    attempts, operators, Workers, Topics, Terminal, Statuses, Halts,
    ParseSteps, EngineSteps, IngestSteps, Steps, DeskType, NoRequest, DlqType,
    NoDlq
<1>42. ASSUME DlqReconcile PROVE TypeOK'
  <2>1. JobTypes'
    BY <1>42, TypeParts, BoundsAssumption, WorkersAssumption, SMTT(30)
        DEF DlqReconcile, DlqPulls, DlqRecords,
        DlqMarks, job, messages, lease, data, attempts, operators, JobTypes,
        AttemptTypes, OperatorTypes, Topics, Terminal, Statuses, Halts,
        ParseSteps, EngineSteps, IngestSteps, Steps, DeskType, NoRequest,
        DlqType, NoDlq, Workers
  <2>2. MessageTypes'
    BY <1>42, TypeParts, BoundsAssumption, WorkersAssumption, SMTT(30)
        DEF DlqReconcile, DlqPulls, DlqRecords,
        DlqMarks, job, messages, lease, data, attempts, operators,
        MessageTypes, OperatorTypes, Topics, Terminal, Statuses, Halts,
        ParseSteps, EngineSteps, IngestSteps, Steps, DeskType, NoRequest,
        DlqType, NoDlq, Workers
  <2>3. OwnerTypes'
    BY <1>42, TypeParts, BoundsAssumption, WorkersAssumption, SMTT(30)
        DEF DlqReconcile, DlqPulls, DlqRecords,
        DlqMarks, job, messages, lease, data, attempts, operators, OwnerTypes,
        Topics, Terminal, Statuses, Halts, ParseSteps, EngineSteps,
        IngestSteps, Steps, DeskType, NoRequest, DlqType, NoDlq, Workers
  <2>4. DataTypes'
    BY <1>42, TypeParts, Zenon
        DEF DlqReconcile, DlqPulls, DlqRecords, DlqMarks, data, DataTypes
  <2>5. AttemptTypes'
    BY <1>42, TypeParts, BoundsAssumption, WorkersAssumption, SMTT(30)
        DEF DlqReconcile, DlqPulls, DlqRecords,
        DlqMarks, job, messages, lease, data, attempts, operators,
        AttemptTypes, JobTypes, DataTypes, Behind, Topics, Terminal, Statuses,
        Halts, ParseSteps, EngineSteps, IngestSteps, Steps, DeskType,
        NoRequest, DlqType, NoDlq, Workers
  <2>6. OperatorTypes'
    BY <1>42, TypeParts, DlqChanges, Zenon
        DEF DlqReconcile, DlqPulls, DlqRecords, DlqMarks, OperatorTypes
  <2>7. FlagTypes'
    BY <1>42, TypeParts, LiveChanges, Zenon DEF DlqReconcile, DlqPulls,
        DlqRecords, DlqMarks, job, messages, lease, data, attempts, operators,
        FlagTypes, Topics, Terminal, Statuses, Halts, ParseSteps, EngineSteps,
        IngestSteps, Steps, DeskType, NoRequest, DlqType, NoDlq, Workers
  <2>. QED
    BY <2>1, <2>2, <2>3, <2>4, <2>5, <2>6, <2>7, Zenon
    DEF TypeOK, JobTypes, MessageTypes, OwnerTypes, FlagTypes, DataTypes,
        AttemptTypes, OperatorTypes
<1>43. ASSUME DlqCrash PROVE TypeOK'
  <2>1. JobTypes'
    BY <1>43, TypeParts, BoundsAssumption, WorkersAssumption, SMTT(30)
        DEF DlqCrash, Fault, More, job, messages,
        lease, data, attempts, operators, JobTypes, AttemptTypes,
        OperatorTypes, Topics, Terminal, Statuses, Halts, ParseSteps,
        EngineSteps, IngestSteps, Steps, DeskType, NoRequest, DlqType, NoDlq,
        Workers
  <2>2. MessageTypes'
    <3>1. dlqCron.topic \in Topics \cup {None}
      BY SMT DEF TypeOK, DlqType
    <3>. QED  BY <1>43, <3>1, TypeParts, DeadChanges, Zenon
        DEF DlqCrash, MessageTypes
  <2>3. OwnerTypes'
    BY <1>43, TypeParts, BoundsAssumption, WorkersAssumption, SMTT(30)
        DEF DlqCrash, Fault, More, job, messages,
        lease, data, attempts, operators, OwnerTypes, Topics, Terminal,
        Statuses, Halts, ParseSteps, EngineSteps, IngestSteps, Steps,
        DeskType, NoRequest, DlqType, NoDlq, Workers
  <2>4. DataTypes'
    BY <1>43, TypeParts, BoundsAssumption, WorkersAssumption, SMTT(30)
        DEF DlqCrash, Fault, More, job, messages,
        lease, data, attempts, operators, DataTypes, AttemptTypes, Behind,
        Topics, Terminal, Statuses, Halts, ParseSteps, EngineSteps,
        IngestSteps, Steps, DeskType, NoRequest, DlqType, NoDlq, Workers
  <2>5. AttemptTypes'
    BY <1>43, TypeParts, BoundsAssumption, WorkersAssumption, SMTT(30)
        DEF DlqCrash, Fault, More, job, messages,
        lease, data, attempts, operators, AttemptTypes, JobTypes, DataTypes,
        Behind, Topics, Terminal, Statuses, Halts, ParseSteps, EngineSteps,
        IngestSteps, Steps, DeskType, NoRequest, DlqType, NoDlq, Workers
  <2>6. OperatorTypes'
    BY <1>43, TypeParts, BoundsAssumption, WorkersAssumption, SMTT(30)
        DEF DlqCrash, Fault, More, job, messages,
        lease, data, attempts, operators, OperatorTypes, JobTypes, Topics,
        Terminal, Statuses, Halts, ParseSteps, EngineSteps, IngestSteps,
        Steps, DeskType, NoRequest, DlqType, NoDlq, Workers
  <2>7. FlagTypes'
    BY <1>43, TypeParts, LiveChanges, Zenon DEF DlqCrash, Fault, More, job,
        messages, lease, data, attempts, operators, FlagTypes, Topics,
        Terminal, Statuses, Halts, ParseSteps, EngineSteps, IngestSteps,
        Steps, DeskType, NoRequest, DlqType, NoDlq, Workers
  <2>. QED
    BY <2>1, <2>2, <2>3, <2>4, <2>5, <2>6, <2>7, Zenon
    DEF TypeOK, JobTypes, MessageTypes, OwnerTypes, FlagTypes, DataTypes,
        AttemptTypes, OperatorTypes
<1>. QED
  BY <1>1, <1>2, <1>3, <1>4, <1>5, <1>6, <1>7, <1>8, <1>9, <1>10, <1>11,
      <1>12, <1>13, <1>14, <1>15, <1>16, <1>17, <1>18, <1>19, <1>20, <1>21,
      <1>22, <1>23, <1>24, <1>25, <1>26, <1>27, <1>28, <1>29, <1>30, <1>31,
      <1>32, <1>33, <1>34, <1>35, <1>36, <1>37, <1>38, <1>39, <1>40, <1>41,
      <1>42, <1>43, ActionCases, Zenon

(* Every step leaves behind the engines only what is in the table. *)
LEMMA BehindStep ==
  ASSUME TypeOK, Behind, [Next]_vars
  PROVE Behind'
<1>. USE BoundsAssumption, WorkersAssumption DEF job, messages, lease, data,
    attempts, operators, TypeOK, Behind, Workers, Topics, EngineSteps,
    ResumeFrom, Goto
<1>1. ASSUME NEW w \in Workers, Receive(w) PROVE Behind'
  BY <1>1, SMTT(30) DEF Receive, TopicOf, Drops
<1>2. ASSUME NEW w \in Workers, Ack(w) PROVE Behind'
  BY <1>2, SMTT(30) DEF Ack, Ends
<1>3. ASSUME NEW w \in Workers, Nack(w) PROVE Behind'
  BY <1>3, SMTT(30) DEF Nack, Ends, Publish, More, TopicOf
<1>4. ASSUME NEW w \in Workers, DeadLetter(w) PROVE Behind'
  BY <1>4, SMTT(30) DEF DeadLetter, Bury, Ends, More, TopicOf
<1>5. ASSUME NEW w \in Workers, Crash(w) PROVE Behind'
  BY <1>5, SMTT(30) DEF Crash, Fault, Ends, Publish, More, TopicOf
<1>6. ASSUME NEW w \in Workers, ReceiptExpires(w) PROVE Behind'
  BY <1>6, SMTT(30) DEF ReceiptExpires, Fault, Publish, More, TopicOf
<1>7. ASSUME NEW w \in Workers, Sigterm(w) PROVE Behind'
  BY <1>7, SMTT(30) DEF Sigterm, Fault
<1>8. ASSUME NEW w \in Workers, ParseOutbox(w) PROVE Behind'
  BY <1>8, SMTT(30) DEF ParseOutbox, ParseUnchanged
<1>9. ASSUME NEW w \in Workers, ParseReplays(w) PROVE Behind'
  BY <1>9, SMTT(30) DEF ParseReplays, Publish, More, ParseUnchanged
<1>10. ASSUME NEW w \in Workers, ParseLease(w) PROVE Behind'
  BY <1>10, SMTT(30) DEF ParseLease, Free, Acquire, Drops, ParseUnchanged
<1>11. ASSUME NEW w \in Workers, ParseMark(w) PROVE Behind'
  BY <1>11, SMTT(30) DEF ParseMark, ParseUnchanged
<1>12. ASSUME NEW w \in Workers, ParseStops(w) PROVE Behind'
  BY <1>12, SMTT(30) DEF ParseStops, ParseHalted, Drops, ParseUnchanged
<1>13. ASSUME NEW w \in Workers, ParseFails(w) PROVE Behind'
  BY <1>13, SMTT(30) DEF ParseFails, ParseUnchanged
<1>14. ASSUME NEW w \in Workers, ParseStep(w) PROVE Behind'
  BY <1>14, SMTT(30) DEF ParseStep, ParseHalted, Owns, Refresh, StorePlan,
      Publish, More, ParseUnchanged
<1>15. ASSUME NEW w \in Workers, ParseFenced(w) PROVE Behind'
  BY <1>15, SMTT(30) DEF ParseFenced, ParseHalted, Owns, ParseUnchanged
<1>16. ASSUME NEW w \in Workers, Watch(w) PROVE Behind'
  BY <1>16, SMTT(30) DEF Watch, RowsUnchanged, IngestUnchanged
<1>17. ASSUME NEW w \in Workers, IngestMark(w) PROVE Behind'
  BY <1>17, SMTT(30) DEF IngestMark, RowsUnchanged, IngestUnchanged
<1>18. ASSUME NEW w \in Workers, IngestWrites(w) PROVE Behind'
  BY <1>18, SMTT(30) DEF IngestWrites, RowsUnchanged, IngestUnchanged
<1>19. ASSUME NEW w \in Workers, IngestStage(w) PROVE Behind'
  BY <1>19, SMTT(30) DEF IngestStage, RowsUnchanged, IngestUnchanged
<1>20. ASSUME NEW w \in Workers, Gate(w) PROVE Behind'
  BY <1>20, SMTT(30) DEF Gate, Complete, Exhausted, RowsUnchanged,
      IngestUnchanged
<1>21. ASSUME NEW w \in Workers, GateWrites(w) PROVE Behind'
  BY <1>21, SMTT(30) DEF GateWrites, Exhausted, RowsUnchanged, IngestUnchanged
<1>22. ASSUME NEW w \in Workers, Finalize(w) PROVE Behind'
  BY <1>22, SMTT(30) DEF Finalize, RowsUnchanged, IngestUnchanged
<1>23. ASSUME NEW w \in Workers, Halted(w) PROVE Behind'
  BY <1>23, SMTT(30) DEF Halted, Park, Fault, RowsUnchanged, IngestUnchanged
<1>24. ASSUME NEW w \in Workers, EngineStarts(w) PROVE Behind'
  BY <1>24, SMTT(30) DEF EngineStarts, Free, Acquire, RowsUnchanged,
      IngestUnchanged
<1>25. ASSUME NEW w \in Workers, EngineHalts(w) PROVE Behind'
  BY <1>25, SMTT(30) DEF EngineHalts, Leaves, Release, Owns, RowsUnchanged,
      IngestUnchanged
<1>26. ASSUME NEW w \in Workers, EngineSurrenders(w) PROVE Behind'
  BY <1>26, SMTT(30) DEF EngineSurrenders, Leaves, Release, Owns,
      RowsUnchanged, IngestUnchanged
<1>27. ASSUME NEW w \in Workers, EngineReturns(w) PROVE Behind'
  BY <1>27, SMTT(30) DEF EngineReturns, Leaves, Release, Owns, RowsUnchanged,
      IngestUnchanged
<1>28. ASSUME NEW w \in Workers, EngineFails(w) PROVE Behind'
  BY <1>28, SMTT(30) DEF EngineFails, Leaves, Owns, Fault, Release,
      RowsUnchanged, IngestUnchanged
<1>29. ASSUME NEW w \in Workers, EngineNextChunk(w) PROVE Behind'
  BY <1>29, SMTT(30) DEF EngineNextChunk, Owns, Refresh, RowsUnchanged,
      IngestUnchanged
<1>30. ASSUME NEW w \in Workers, EngineInserts(w) PROVE Behind'
  BY <1>30, SMTT(30) DEF EngineInserts, IngestUnchanged
<1>31. ASSUME NEW w \in Workers, EngineCheckpoints(w) PROVE Behind'
  BY <1>31, SMTT(30) DEF EngineCheckpoints, Monotonic, IngestUnchanged
<1>32. ASSUME NEW t \in Topics, LeaseExpires(t) PROVE Behind'
  BY <1>32, SMTT(30) DEF LeaseExpires, Fault
<1>33. ASSUME Submit PROVE Behind'
  BY <1>33, SMTT(30) DEF Submit, Ask, Done, Publish, More, DeskUnchanged
<1>34. ASSUME Cancel PROVE Behind'
  BY <1>34, SMTT(30) DEF Cancel, Ask, Done, DeskUnchanged
<1>35. ASSUME Pause PROVE Behind'
  BY <1>35, SMTT(30) DEF Pause, PauseRows, Drain, Park, Ask, Done, DeskGoto,
      DeskUnchanged
<1>36. ASSUME Resume PROVE Behind'
  BY <1>36, SMTT(30) DEF Resume, ResumeRows, Replay, Parked, DeskGoto, Done, Publish,
      More, DeskUnchanged
<1>37. ASSUME Retry PROVE Behind'
  BY <1>37, SMTT(30) DEF Retry, Ask, Done, DeskGoto, RetryTopic, MayRetry,
      Publish, More, DeskUnchanged
<1>38. ASSUME DeskCrash PROVE Behind'
  BY <1>38, SMTT(30) DEF DeskCrash, Park, Fault, Drops, Done, DeskUnchanged
<1>39. ASSUME DlqReconcile PROVE Behind'
  BY <1>39, SMTT(30) DEF DlqReconcile, DlqPulls, DlqRecords, DlqMarks
<1>40. ASSUME DlqCrash PROVE Behind'
  BY <1>40, SMTT(30) DEF DlqCrash, Fault, More
<1>41. ASSUME StaleRecovery PROVE Behind'
  BY <1>41, SMTT(30) DEF StaleRecovery, StalePlans, MayRecover, StaleApplies,
      RecoveryBusy, Stale, Complete, Publish, More
<1>42. ASSUME StaleCrash PROVE Behind'
  BY <1>42, SMTT(30) DEF StaleCrash, Fault
<1>43. ASSUME UNCHANGED vars PROVE Behind'
  BY <1>43, SMTT(30) DEF vars
<1>. QED
  BY <1>1, <1>2, <1>3, <1>4, <1>5, <1>6, <1>7, <1>8, <1>9, <1>10, <1>11,
      <1>12, <1>13, <1>14, <1>15, <1>16, <1>17, <1>18, <1>19, <1>20, <1>21,
      <1>22, <1>23, <1>24, <1>25, <1>26, <1>27, <1>28, <1>29, <1>30, <1>31,
      <1>32, <1>33, <1>34, <1>35, <1>36, <1>37, <1>38, <1>39, <1>40, <1>41,
      <1>42, <1>43, ActionCases, Zenon

LEMMA WholeTable ==
  ASSUME TypeOK, Behind, Complete
  PROVE  table = 1..Chunks
<1>1. checkpoint = Chunks
  BY BoundsAssumption, SMT DEF TypeOK, Complete
<1>. QED  BY <1>1, Zenon DEF TypeOK, Behind

LEMMA DlqDrafts ==
  ASSUME dlqCron \in DlqType, DlqReconcile
  PROVE  dlqCron'.draft \in {dlqCron.draft, status, "error", "none"}
<1>1. \A t : [NoDlq EXCEPT !.pc = "record", !.topic = t].draft = "none"
  BY DEF NoDlq
<1>2. \A s : [dlqCron EXCEPT !.pc = "mark", !.draft = s].draft = s
  BY DEF DlqType
<1>3. NoDlq.draft = "none"  BY DEF NoDlq
<1>4. CASE \E t \in Topics :
             dlqCron' = [NoDlq EXCEPT !.pc = "record", !.topic = t]
  BY <1>1, <1>4, Zenon
<1>5. CASE dlqCron' = [dlqCron EXCEPT !.pc = "mark", !.draft =
             IF status \in {"success", "cancelled"} THEN status ELSE "error"]
  BY <1>2, <1>5, Zenon
<1>6. CASE dlqCron' = NoDlq  BY <1>3, <1>6, Zenon
<1>. QED  BY <1>4, <1>5, <1>6, Zenon
    DEF DlqReconcile, DlqPulls, DlqRecords, DlqMarks

(* Nobody gets to write the status success without a complete table. *)
LEMMA CheckedStep ==
  ASSUME TypeOK, Behind, Checked, [Next]_vars
  PROVE Checked'
<1>. USE BoundsAssumption, WorkersAssumption DEF job, messages, lease, data,
    attempts, operators, TypeOK, Behind, Checked, Workers, Topics, EngineSteps
<1>1. ASSUME NEW w \in Workers, Receive(w) PROVE Checked'
  BY <1>1, SMTT(30) DEF Receive, TopicOf, Goto, Drops
<1>2. ASSUME NEW w \in Workers, Ack(w) PROVE Checked'
  BY <1>2, SMTT(30) DEF Ack, Ends, Goto
<1>3. ASSUME NEW w \in Workers, Nack(w) PROVE Checked'
  BY <1>3, SMTT(30) DEF Nack, Ends, Goto, Publish, More, TopicOf
<1>4. ASSUME NEW w \in Workers, DeadLetter(w) PROVE Checked'
  BY <1>4, SMTT(30) DEF DeadLetter, Bury, Ends, Goto, More, TopicOf
<1>5. ASSUME NEW w \in Workers, Crash(w) PROVE Checked'
  BY <1>5, SMTT(30) DEF Crash, Fault, Ends, Goto, Publish, More, TopicOf
<1>6. ASSUME NEW w \in Workers, ReceiptExpires(w) PROVE Checked'
  BY <1>6, SMTT(30) DEF ReceiptExpires, Fault, Publish, More, TopicOf
<1>7. ASSUME NEW w \in Workers, Sigterm(w) PROVE Checked'
  BY <1>7, SMTT(30) DEF Sigterm, Fault
<1>8. ASSUME NEW w \in Workers, ParseOutbox(w) PROVE Checked'
  BY <1>8, SMTT(30) DEF ParseOutbox, Goto, ParseUnchanged
<1>9. ASSUME NEW w \in Workers, ParseReplays(w) PROVE Checked'
  BY <1>9, SMTT(30) DEF ParseReplays, Goto, Publish, More, ParseUnchanged
<1>10. ASSUME NEW w \in Workers, ParseLease(w) PROVE Checked'
  BY <1>10, SMTT(30) DEF ParseLease, Free, Acquire, Goto, Drops,
      ParseUnchanged
<1>11. ASSUME NEW w \in Workers, ParseMark(w) PROVE Checked'
  BY <1>11, SMTT(30) DEF ParseMark, Goto, ParseUnchanged
<1>12. ASSUME NEW w \in Workers, ParseStops(w) PROVE Checked'
  BY <1>12, SMTT(30) DEF ParseStops, ParseHalted, Drops, Goto, ParseUnchanged
<1>13. ASSUME NEW w \in Workers, ParseFails(w) PROVE Checked'
  BY <1>13, SMTT(30) DEF ParseFails, Goto, ParseUnchanged
<1>14. ASSUME NEW w \in Workers, ParseStep(w) PROVE Checked'
  BY <1>14, SMTT(30) DEF ParseStep, ParseHalted, Owns, Refresh, StorePlan,
      Goto, Publish, More, ParseUnchanged
<1>15. ASSUME NEW w \in Workers, ParseFenced(w) PROVE Checked'
  BY <1>15, SMTT(30) DEF ParseFenced, ParseHalted, Owns, Goto, ParseUnchanged
<1>16. ASSUME NEW w \in Workers, Watch(w) PROVE Checked'
  BY <1>16, SMTT(30) DEF Watch, RowsUnchanged, IngestUnchanged
<1>17. ASSUME NEW w \in Workers, IngestMark(w) PROVE Checked'
  BY <1>17, SMTT(30) DEF IngestMark, Goto, RowsUnchanged, IngestUnchanged
<1>18. ASSUME NEW w \in Workers, IngestWrites(w) PROVE Checked'
  BY <1>18, SMTT(30) DEF IngestWrites, Goto, RowsUnchanged, IngestUnchanged
<1>19. ASSUME NEW w \in Workers, IngestStage(w) PROVE Checked'
  BY <1>19, SMTT(30) DEF IngestStage, Goto, RowsUnchanged, IngestUnchanged
<1>20. ASSUME NEW w \in Workers, GateWrites(w) PROVE Checked'
  BY <1>20, SMTT(30) DEF GateWrites, Exhausted, Goto, RowsUnchanged,
      IngestUnchanged
<1>21. ASSUME NEW w \in Workers, Finalize(w) PROVE Checked'
  BY <1>21, SMTT(30) DEF Finalize, Goto, RowsUnchanged, IngestUnchanged
<1>22. ASSUME NEW w \in Workers, Halted(w) PROVE Checked'
  BY <1>22, SMTT(30) DEF Halted, Park, Fault, Goto, RowsUnchanged, IngestUnchanged
<1>23. ASSUME NEW w \in Workers, EngineStarts(w) PROVE Checked'
  BY <1>23, SMTT(30) DEF EngineStarts, Free, Acquire, ResumeFrom, Goto,
      RowsUnchanged, IngestUnchanged
<1>24. ASSUME NEW w \in Workers, EngineHalts(w) PROVE Checked'
  BY <1>24, SMTT(30) DEF EngineHalts, Leaves, Goto, Release, Owns,
      RowsUnchanged, IngestUnchanged
<1>25. ASSUME NEW w \in Workers, EngineSurrenders(w) PROVE Checked'
  BY <1>25, SMTT(30) DEF EngineSurrenders, Leaves, Goto, Release, Owns,
      RowsUnchanged, IngestUnchanged
<1>26. ASSUME NEW w \in Workers, EngineReturns(w) PROVE Checked'
  BY <1>26, SMTT(30) DEF EngineReturns, Leaves, Goto, Release, Owns,
      RowsUnchanged, IngestUnchanged
<1>27. ASSUME NEW w \in Workers, EngineFails(w) PROVE Checked'
  BY <1>27, SMTT(30) DEF EngineFails, Leaves, Owns, Fault, Goto, Release,
      RowsUnchanged, IngestUnchanged
<1>28. ASSUME NEW w \in Workers, EngineNextChunk(w) PROVE Checked'
  BY <1>28, SMTT(30) DEF EngineNextChunk, Owns, Refresh, Goto, RowsUnchanged,
      IngestUnchanged
<1>29. ASSUME NEW w \in Workers, EngineInserts(w) PROVE Checked'
  BY <1>29, SMTT(30) DEF EngineInserts, Goto, IngestUnchanged
<1>30. ASSUME NEW w \in Workers, EngineCheckpoints(w) PROVE Checked'
  BY <1>30, SMTT(30) DEF EngineCheckpoints, Monotonic, Goto, IngestUnchanged
<1>31. ASSUME NEW t \in Topics, LeaseExpires(t) PROVE Checked'
  BY <1>31, SMTT(30) DEF LeaseExpires, Fault
<1>32. ASSUME Submit PROVE Checked'
  BY <1>32, SMTT(30) DEF Submit, Ask, Done, Publish, More, DeskUnchanged
<1>33. ASSUME Cancel PROVE Checked'
  BY <1>33, SMTT(30) DEF Cancel, Ask, Done, DeskUnchanged
<1>34. ASSUME Pause PROVE Checked'
  BY <1>34, SMTT(30) DEF Pause, PauseRows, Drain, Park, Ask, Done, DeskGoto,
      DeskUnchanged
<1>35. ASSUME Resume PROVE Checked'
  BY <1>35, SMTT(30) DEF Resume, ResumeRows, Replay, Parked, DeskGoto, Done, Publish,
      More, DeskUnchanged
<1>36. ASSUME Retry PROVE Checked'
  BY <1>36, SMTT(30) DEF Retry, Ask, Done, DeskGoto, RetryTopic, MayRetry,
      Publish, More, DeskUnchanged
<1>37. ASSUME DeskCrash PROVE Checked'
  BY <1>37, SMTT(30) DEF DeskCrash, Park, Fault, Drops, Done, DeskUnchanged
<1>38. ASSUME StaleCrash PROVE Checked'
  BY <1>38, SMTT(30) DEF StaleCrash, Fault
<1>39. ASSUME UNCHANGED vars PROVE Checked'
  BY <1>39, SMTT(30) DEF vars
<1>. HIDE BoundsAssumption, WorkersAssumption DEF job, messages, lease, data,
    attempts, operators, TypeOK, Behind, Checked, Workers, Topics, EngineSteps
<1>40. ASSUME NEW w \in Workers, Gate(w) PROVE Checked'
  <2>1. Complete => table = 1..Chunks  BY WholeTable
  <2>2. CASE Complete
    BY <1>40, <2>1, <2>2, SMT DEF Gate, RowsUnchanged, Checked
  <2>3. CASE ~Complete
    <3>1. draft' = [draft EXCEPT ![w] =
                      IF Exhausted /\ status \notin Halts THEN "error" ELSE status]
      BY <1>40, <2>3, Zenon DEF Gate
    <3>2. \A v \in Workers \ {w} : pc'[v] = pc[v] /\ draft'[v] = draft[v]
      BY <1>40, <3>1, SMT DEF Gate, Goto, TypeOK
    <3>3. draft'[w] \in {"error", status}  BY <3>1, Zenon DEF TypeOK
    <3>. QED  BY <1>40, <3>2, <3>3, SMT
               DEF Gate, RowsUnchanged, IngestUnchanged, operators, Checked
  <2>. QED  BY <2>2, <2>3
<1>41. ASSUME DlqReconcile PROVE Checked'
  <2>1. dlqCron'.draft \in {dlqCron.draft, status, "error", "none"}
    BY <1>41, DlqDrafts, Zenon DEF TypeOK
  <2>2. table' = table /\ draft' = draft /\ pc' = pc /\ staleCron' = staleCron
    BY <1>41 DEF DlqReconcile, DlqPulls, DlqRecords, DlqMarks, data, attempts
  <2>3. status' \in {status, dlqCron.draft}  BY <1>41, Zenon
      DEF DlqReconcile, DlqPulls, DlqRecords, DlqMarks
  <2>. QED  BY <2>1, <2>2, <2>3 DEF Checked
<1>42. ASSUME DlqCrash PROVE Checked'
  <2>1. NoDlq.draft = "none"  BY DEF NoDlq
  <2>. QED  BY <1>42, <2>1, SMT DEF DlqCrash, job, data, attempts, Checked
<1>43. ASSUME StaleRecovery PROVE Checked'
  <2>1. Complete => table = 1..Chunks  BY WholeTable
  <2>. QED  BY <1>43, <2>1, SMT
      DEF StaleRecovery, StalePlans, MayRecover, StaleApplies, data, attempts, TypeOK,
          Checked
<1>. QED
  BY <1>1, <1>2, <1>3, <1>4, <1>5, <1>6, <1>7, <1>8, <1>9, <1>10, <1>11,
      <1>12, <1>13, <1>14, <1>15, <1>16, <1>17, <1>18, <1>19, <1>20, <1>21,
      <1>22, <1>23, <1>24, <1>25, <1>26, <1>27, <1>28, <1>29, <1>30, <1>31,
      <1>32, <1>33, <1>34, <1>35, <1>36, <1>37, <1>38, <1>39, <1>40, <1>41,
      <1>42, <1>43, ActionCases, Zenon

(* Ingest messages come after the outbox. *)
LEMMA PublishedStep ==
  ASSUME TypeOK, Published, ParkedBehind, Acknowledged, [Next]_vars
  PROVE Published'
<1>. USE BoundsAssumption, WorkersAssumption DEF job, messages, lease, data,
    attempts, operators, TypeOK, Published, Acknowledged, ParseSteps, Workers,
    Topics, EngineSteps, DlqType, DeskType, NoDlq, NoRequest
<1>1. ASSUME NEW w \in Workers, Receive(w) PROVE Published'
  BY <1>1, SMTT(30) DEF Receive, TopicOf, Goto, Drops
<1>2. ASSUME NEW w \in Workers, Ack(w) PROVE Published'
  BY <1>2, SMTT(30) DEF Ack, Ends, Goto
<1>3. ASSUME NEW w \in Workers, Nack(w) PROVE Published'
  BY <1>3, SMTT(30) DEF Nack, Ends, Goto, Publish, More, TopicOf
<1>4. ASSUME NEW w \in Workers, DeadLetter(w) PROVE Published'
  BY <1>4, SMTT(30) DEF DeadLetter, Bury, Ends, Goto, More, TopicOf
<1>5. ASSUME NEW w \in Workers, Crash(w) PROVE Published'
  BY <1>5, SMTT(30) DEF Crash, Fault, Ends, Goto, Publish, More, TopicOf
<1>6. ASSUME NEW w \in Workers, ReceiptExpires(w) PROVE Published'
  BY <1>6, SMTT(30) DEF ReceiptExpires, Fault, Publish, More, TopicOf
<1>7. ASSUME NEW w \in Workers, Sigterm(w) PROVE Published'
  BY <1>7, SMTT(30) DEF Sigterm, Fault
<1>8. ASSUME NEW w \in Workers, ParseOutbox(w) PROVE Published'
  BY <1>8, SMTT(30) DEF ParseOutbox, Goto, ParseUnchanged
<1>9. ASSUME NEW w \in Workers, ParseReplays(w) PROVE Published'
  BY <1>9, SMTT(30) DEF ParseReplays, Goto, Publish, More, ParseUnchanged
<1>10. ASSUME NEW w \in Workers, ParseLease(w) PROVE Published'
  BY <1>10, SMTT(30) DEF ParseLease, Free, Acquire, Goto, Drops,
      ParseUnchanged
<1>11. ASSUME NEW w \in Workers, ParseMark(w) PROVE Published'
  BY <1>11, SMTT(30) DEF ParseMark, Goto, ParseUnchanged
<1>12. ASSUME NEW w \in Workers, ParseStops(w) PROVE Published'
  BY <1>12, SMTT(30) DEF ParseStops, ParseHalted, Drops, Goto, ParseUnchanged
<1>13. ASSUME NEW w \in Workers, ParseFails(w) PROVE Published'
  BY <1>13, SMTT(30) DEF ParseFails, Goto, ParseUnchanged
<1>14. ASSUME NEW w \in Workers, ParseStep(w) PROVE Published'
  BY <1>14, SMTT(30) DEF ParseStep, ParseHalted, Owns, Refresh, StorePlan,
      Goto, Publish, More, ParseUnchanged
<1>15. ASSUME NEW w \in Workers, ParseFenced(w) PROVE Published'
  BY <1>15, SMTT(30) DEF ParseFenced, ParseHalted, Owns, Goto, ParseUnchanged
<1>16. ASSUME NEW w \in Workers, Watch(w) PROVE Published'
  BY <1>16, SMTT(30) DEF Watch, RowsUnchanged, IngestUnchanged
<1>17. ASSUME NEW w \in Workers, IngestMark(w) PROVE Published'
  BY <1>17, SMTT(30) DEF IngestMark, Goto, RowsUnchanged, IngestUnchanged
<1>18. ASSUME NEW w \in Workers, IngestWrites(w) PROVE Published'
  BY <1>18, SMTT(30) DEF IngestWrites, Goto, RowsUnchanged, IngestUnchanged
<1>19. ASSUME NEW w \in Workers, IngestStage(w) PROVE Published'
  BY <1>19, SMTT(30) DEF IngestStage, Goto, RowsUnchanged, IngestUnchanged
<1>20. ASSUME NEW w \in Workers, Gate(w) PROVE Published'
  BY <1>20, SMTT(30) DEF Gate, Complete, Exhausted, Goto, RowsUnchanged,
      IngestUnchanged
<1>21. ASSUME NEW w \in Workers, GateWrites(w) PROVE Published'
  BY <1>21, SMTT(30) DEF GateWrites, Exhausted, Goto, RowsUnchanged,
      IngestUnchanged
<1>22. ASSUME NEW w \in Workers, Finalize(w) PROVE Published'
  BY <1>22, SMTT(30) DEF Finalize, Goto, RowsUnchanged, IngestUnchanged
<1>23. ASSUME NEW w \in Workers, Halted(w) PROVE Published'
  BY <1>23, SMTT(30) DEF Halted, Park, Fault, Goto, RowsUnchanged, IngestUnchanged
<1>24. ASSUME NEW w \in Workers, EngineStarts(w) PROVE Published'
  BY <1>24, SMTT(30) DEF EngineStarts, Free, Acquire, ResumeFrom, Goto,
      RowsUnchanged, IngestUnchanged
<1>25. ASSUME NEW w \in Workers, EngineHalts(w) PROVE Published'
  BY <1>25, SMTT(30) DEF EngineHalts, Leaves, Goto, Release, Owns,
      RowsUnchanged, IngestUnchanged
<1>26. ASSUME NEW w \in Workers, EngineSurrenders(w) PROVE Published'
  BY <1>26, SMTT(30) DEF EngineSurrenders, Leaves, Goto, Release, Owns,
      RowsUnchanged, IngestUnchanged
<1>27. ASSUME NEW w \in Workers, EngineReturns(w) PROVE Published'
  BY <1>27, SMTT(30) DEF EngineReturns, Leaves, Goto, Release, Owns,
      RowsUnchanged, IngestUnchanged
<1>28. ASSUME NEW w \in Workers, EngineFails(w) PROVE Published'
  BY <1>28, SMTT(30) DEF EngineFails, Leaves, Owns, Fault, Goto, Release,
      RowsUnchanged, IngestUnchanged
<1>29. ASSUME NEW w \in Workers, EngineNextChunk(w) PROVE Published'
  BY <1>29, SMTT(30) DEF EngineNextChunk, Owns, Refresh, Goto, RowsUnchanged,
      IngestUnchanged
<1>30. ASSUME NEW w \in Workers, EngineInserts(w) PROVE Published'
  BY <1>30, SMTT(30) DEF EngineInserts, Goto, IngestUnchanged
<1>31. ASSUME NEW w \in Workers, EngineCheckpoints(w) PROVE Published'
  BY <1>31, SMTT(30) DEF EngineCheckpoints, Monotonic, Goto, IngestUnchanged
<1>32. ASSUME NEW t \in Topics, LeaseExpires(t) PROVE Published'
  BY <1>32, SMTT(30) DEF LeaseExpires, Fault
<1>33. ASSUME Submit PROVE Published'
  BY <1>33, SMTT(30) DEF Submit, Ask, Done, Publish, More, DeskUnchanged
<1>34. ASSUME Cancel PROVE Published'
  BY <1>34, SMTT(30) DEF Cancel, Ask, Done, DeskUnchanged
<1>35. ASSUME Pause PROVE Published'
  BY <1>35, SMTT(30) DEF Pause, PauseRows, Drain, Park, Ask, Done, DeskGoto,
      DeskUnchanged
<1>36. ASSUME Retry PROVE Published'
  BY <1>36, SMTT(30) DEF Retry, Ask, Done, DeskGoto, RetryTopic, MayRetry,
      Publish, More, DeskUnchanged
<1>37. ASSUME DeskCrash PROVE Published'
  BY <1>37, SMTT(30) DEF DeskCrash, Park, Fault, Drops, Done, DeskUnchanged
<1>38. ASSUME DlqCrash PROVE Published'
  BY <1>38, SMTT(30) DEF DlqCrash, Fault, More
<1>39. ASSUME StaleRecovery PROVE Published'
  BY <1>39, SMTT(30) DEF StaleRecovery, StalePlans, MayRecover, StaleApplies,
      RecoveryBusy, Stale, Complete, Publish, More
<1>40. ASSUME StaleCrash PROVE Published'
  BY <1>40, SMTT(30) DEF StaleCrash, Fault
<1>41. ASSUME UNCHANGED vars PROVE Published'
  BY <1>41, SMTT(30) DEF vars
<1>. HIDE BoundsAssumption, WorkersAssumption DEF job, messages, lease, data,
    attempts, operators, TypeOK, Published, Acknowledged, ParseSteps, Workers,
    Topics, EngineSteps, DlqType, DeskType, NoDlq, NoRequest
<1>42. ASSUME Resume PROVE Published'
  <2>1. desk'.topic \in {None, desk.topic}
    BY <1>42, SMT
        DEF Resume, ResumeRows, Replay, Parked, DeskGoto, Done, NoRequest, TypeOK,
            DeskType
  <2>2. desk'.pc = "replayed" => Parked
    <3>1. NoRequest.pc = "idle"  BY DEF NoRequest
    <3>2. \A step : [desk EXCEPT !.pc = step].pc = step
      BY SMT DEF TypeOK, DeskType
    <3>3. (IF status = "paused" THEN "resume" ELSE "replay") # "replayed"
          /\ "idle" # "replayed" /\ "replay" # "replayed"
      OBVIOUS
    <3>. QED  BY <1>42, <3>1, <3>2, <3>3, Zenon
        DEF Resume, ResumeRows, Replay, Parked, DeskGoto, Done
  <2>3. queue'["ingest"] # queue["ingest"] => Parked
    <3>1. queue' = queue \/ Parked  BY <1>42, Zenon
        DEF Resume, ResumeRows, Replay
    <3>. QED  BY <3>1, Zenon
  <2>4. UNCHANGED <<outbox, dead, record, dlqCron, pc, staleCron>>
    BY <1>42, Zenon DEF Resume, ResumeRows, Replay, DeskUnchanged, attempts
  <2>5. Parked => outbox # "none"  BY Zenon DEF ParkedBehind
  <2>. QED  BY <2>1, <2>2, <2>3, <2>4, <2>5, WorkersAssumption DEF Published
<1>43. ASSUME DlqReconcile PROVE Published'
  <2>5. UNCHANGED <<outbox, queue, pc, desk, staleCron>>
    BY <1>43, Zenon DEF DlqReconcile, DlqPulls, DlqRecords, DlqMarks, attempts
  <2>1. CASE \E t \in Topics :
               dlqCron = NoDlq /\ dead[t] > 0
               /\ dead' = [dead EXCEPT ![t] = @ - 1]
               /\ dlqCron' = [NoDlq EXCEPT !.pc = "record", !.topic = t]
               /\ UNCHANGED <<status, record>>
    <3>1. PICK t \in Topics :
               dlqCron = NoDlq /\ dead[t] > 0
               /\ dead' = [dead EXCEPT ![t] = @ - 1]
               /\ dlqCron' = [NoDlq EXCEPT !.pc = "record", !.topic = t]
               /\ UNCHANGED <<status, record>>
      BY <2>1
    <3>2. dlqCron'.topic = t /\ record' = record  BY <3>1 DEF NoDlq
    <3>3. dead'["ingest"] \in {dead["ingest"], dead["ingest"] - 1}
          /\ (t = "ingest" => dead["ingest"] > 0)
      BY <3>1, SMT DEF TypeOK, Topics
    <3>4. dead["ingest"] \in 0..MaxCopies  BY DEF TypeOK, Topics
    <3>. QED  BY <1>43, <3>1, <3>2, <3>3, <3>4, BoundsAssumption, SMT
              DEF DlqReconcile, DlqPulls, DlqRecords, DlqMarks, attempts,
                  Published, Topics
  <2>2. CASE record' = dlqCron.topic /\ dlqCron'.topic = dlqCron.topic
             /\ UNCHANGED dead
    BY <2>2, <2>5, SMT DEF Published
  <2>3. CASE record' = record /\ dlqCron' = NoDlq /\ UNCHANGED dead
    <3>1. NoDlq.topic = None  BY DEF NoDlq
    <3>. QED  BY <2>3, <2>5, <3>1, WorkersAssumption, SMT DEF Published
  <2>4. \A s : [dlqCron EXCEPT !.pc = "mark",
      !.draft = s].topic = dlqCron.topic
    BY SMT DEF TypeOK, DlqType
  <2>. QED  BY <1>43, <2>1, <2>2, <2>3, <2>4, Zenon
      DEF DlqReconcile, DlqPulls, DlqRecords, DlqMarks
<1>. QED
  BY <1>1, <1>2, <1>3, <1>4, <1>5, <1>6, <1>7, <1>8, <1>9, <1>10, <1>11,
      <1>12, <1>13, <1>14, <1>15, <1>16, <1>17, <1>18, <1>19, <1>20, <1>21,
      <1>22, <1>23, <1>24, <1>25, <1>26, <1>27, <1>28, <1>29, <1>30, <1>31,
      <1>32, <1>33, <1>34, <1>35, <1>36, <1>37, <1>38, <1>39, <1>40, <1>41,
      <1>42, <1>43, ActionCases, Zenon

(* What is parked comes after the outbox. *)
LEMMA ParkedStep ==
  ASSUME TypeOK, ParkedBehind, Published, Acknowledged, [Next]_vars
  PROVE ParkedBehind'
<1>. USE BoundsAssumption, WorkersAssumption DEF job, messages, lease, data,
    attempts, operators, ParkedBehind, Parked, Park
<1>1. ASSUME NEW w \in Workers, Receive(w) PROVE ParkedBehind'
  BY <1>1, Zenon DEF Receive, TopicOf, Goto, Drops
<1>2. ASSUME NEW w \in Workers, Ack(w) PROVE ParkedBehind'
  BY <1>2, Zenon DEF Ack, Ends, Goto
<1>3. ASSUME NEW w \in Workers, Nack(w) PROVE ParkedBehind'
  BY <1>3, Zenon DEF Nack, Ends, Goto, Publish, More, TopicOf
<1>4. ASSUME NEW w \in Workers, DeadLetter(w) PROVE ParkedBehind'
  BY <1>4, Zenon DEF DeadLetter, Bury, Ends, Goto, More, TopicOf
<1>5. ASSUME NEW w \in Workers, Crash(w) PROVE ParkedBehind'
  BY <1>5, Zenon DEF Crash, Fault, Ends, Goto, Publish, More, TopicOf
<1>6. ASSUME NEW w \in Workers, ReceiptExpires(w) PROVE ParkedBehind'
  BY <1>6, Zenon DEF ReceiptExpires, Fault, Publish, More, TopicOf
<1>7. ASSUME NEW w \in Workers, Sigterm(w) PROVE ParkedBehind'
  BY <1>7, Zenon DEF Sigterm, Fault
<1>8. ASSUME NEW w \in Workers, ParseOutbox(w) PROVE ParkedBehind'
  BY <1>8, Zenon DEF ParseOutbox, Goto, ParseUnchanged
<1>9. ASSUME NEW w \in Workers, ParseReplays(w) PROVE ParkedBehind'
  BY <1>9, Zenon DEF ParseReplays, Goto, Publish, More, ParseUnchanged
<1>10. ASSUME NEW w \in Workers, ParseLease(w) PROVE ParkedBehind'
  BY <1>10, Zenon DEF ParseLease, Free, Acquire, Goto, Drops, ParseUnchanged
<1>11. ASSUME NEW w \in Workers, ParseMark(w) PROVE ParkedBehind'
  BY <1>11, Zenon DEF ParseMark, Goto, ParseUnchanged
<1>12. ASSUME NEW w \in Workers, ParseStops(w) PROVE ParkedBehind'
  BY <1>12, Zenon DEF ParseStops, ParseHalted, Drops, Goto, ParseUnchanged
<1>13. ASSUME NEW w \in Workers, ParseFails(w) PROVE ParkedBehind'
  BY <1>13, Zenon DEF ParseFails, Goto, ParseUnchanged
<1>14. ASSUME NEW w \in Workers, ParseStep(w) PROVE ParkedBehind'
  BY <1>14, Zenon DEF ParseStep, ParseHalted, Owns, Refresh, StorePlan, Goto,
      Publish, More, ParseUnchanged
<1>15. ASSUME NEW w \in Workers, ParseFenced(w) PROVE ParkedBehind'
  BY <1>15, Zenon DEF ParseFenced, ParseHalted, Owns, Goto, ParseUnchanged
<1>16. ASSUME NEW w \in Workers, Watch(w) PROVE ParkedBehind'
  BY <1>16, Zenon DEF Watch, RowsUnchanged, IngestUnchanged
<1>17. ASSUME NEW w \in Workers, IngestMark(w) PROVE ParkedBehind'
  BY <1>17, Zenon DEF IngestMark, Goto, RowsUnchanged, IngestUnchanged
<1>18. ASSUME NEW w \in Workers, IngestWrites(w) PROVE ParkedBehind'
  BY <1>18, Zenon DEF IngestWrites, Goto, RowsUnchanged, IngestUnchanged
<1>19. ASSUME NEW w \in Workers, IngestStage(w) PROVE ParkedBehind'
  BY <1>19, Zenon DEF IngestStage, Goto, RowsUnchanged, IngestUnchanged
<1>20. ASSUME NEW w \in Workers, Gate(w) PROVE ParkedBehind'
  BY <1>20, Zenon DEF Gate, Complete, Exhausted, Goto, RowsUnchanged,
      IngestUnchanged
<1>21. ASSUME NEW w \in Workers, GateWrites(w) PROVE ParkedBehind'
  BY <1>21, Zenon DEF GateWrites, Exhausted, Goto, RowsUnchanged,
      IngestUnchanged
<1>22. ASSUME NEW w \in Workers, Finalize(w) PROVE ParkedBehind'
  BY <1>22, Zenon DEF Finalize, Goto, RowsUnchanged, IngestUnchanged
<1>23. ASSUME NEW w \in Workers, EngineStarts(w) PROVE ParkedBehind'
  BY <1>23, Zenon DEF EngineStarts, Free, Acquire, ResumeFrom, Goto,
      RowsUnchanged, IngestUnchanged
<1>24. ASSUME NEW w \in Workers, EngineHalts(w) PROVE ParkedBehind'
  BY <1>24, Zenon DEF EngineHalts, Leaves, Goto, Release, Owns, RowsUnchanged,
      IngestUnchanged
<1>25. ASSUME NEW w \in Workers, EngineSurrenders(w) PROVE ParkedBehind'
  BY <1>25, Zenon DEF EngineSurrenders, Leaves, Goto, Release, Owns,
      RowsUnchanged, IngestUnchanged
<1>26. ASSUME NEW w \in Workers, EngineReturns(w) PROVE ParkedBehind'
  BY <1>26, Zenon DEF EngineReturns, Leaves, Goto, Release, Owns,
      RowsUnchanged, IngestUnchanged
<1>27. ASSUME NEW w \in Workers, EngineFails(w) PROVE ParkedBehind'
  BY <1>27, Zenon DEF EngineFails, Leaves, Owns, Fault, Goto, Release,
      RowsUnchanged, IngestUnchanged
<1>28. ASSUME NEW w \in Workers, EngineNextChunk(w) PROVE ParkedBehind'
  BY <1>28, Zenon DEF EngineNextChunk, Owns, Refresh, Goto, RowsUnchanged,
      IngestUnchanged
<1>29. ASSUME NEW w \in Workers, EngineInserts(w) PROVE ParkedBehind'
  BY <1>29, Zenon DEF EngineInserts, Goto, IngestUnchanged
<1>30. ASSUME NEW w \in Workers, EngineCheckpoints(w) PROVE ParkedBehind'
  BY <1>30, Zenon DEF EngineCheckpoints, Monotonic, Goto, IngestUnchanged
<1>31. ASSUME NEW t \in Topics, LeaseExpires(t) PROVE ParkedBehind'
  BY <1>31, Zenon DEF LeaseExpires, Fault
<1>32. ASSUME Submit PROVE ParkedBehind'
  BY <1>32, Zenon DEF Submit, Ask, Done, Publish, More, DeskUnchanged
<1>33. ASSUME Cancel PROVE ParkedBehind'
  BY <1>33, Zenon DEF Cancel, Ask, Done, DeskUnchanged
<1>34. ASSUME Resume PROVE ParkedBehind'
  BY <1>34, Zenon DEF Resume, ResumeRows, Replay, Parked, DeskGoto, Done, Publish,
      More, DeskUnchanged
<1>35. ASSUME Retry PROVE ParkedBehind'
  BY <1>35, Zenon DEF Retry, Ask, Done, DeskGoto, RetryTopic, MayRetry,
      Publish, More, DeskUnchanged
<1>36. ASSUME DlqReconcile PROVE ParkedBehind'
  BY <1>36, Zenon DEF DlqReconcile, DlqPulls, DlqRecords, DlqMarks
<1>37. ASSUME DlqCrash PROVE ParkedBehind'
  BY <1>37, Zenon DEF DlqCrash, Fault, More
<1>38. ASSUME StaleRecovery PROVE ParkedBehind'
  BY <1>38, Zenon DEF StaleRecovery, StalePlans, MayRecover, StaleApplies, RecoveryBusy,
      Stale, Complete, Publish, More
<1>39. ASSUME StaleCrash PROVE ParkedBehind'
  BY <1>39, Zenon DEF StaleCrash, Fault
<1>40. ASSUME UNCHANGED vars PROVE ParkedBehind'
  BY <1>40, Zenon DEF vars
<1>. HIDE BoundsAssumption, WorkersAssumption DEF job, messages, lease, data,
    attempts, operators, ParkedBehind, Parked, Park
<1>41. ASSUME NEW w \in Workers, Halted(w) PROVE ParkedBehind'
  <2>1. w \in IngestWorkers /\ pc[w] # "idle"
    BY <1>41, SMT DEF Halted, Park, Acknowledged, Workers, ParseSteps
  <2>2. outbox # "none"  BY <2>1, Zenon DEF Published
  <2>. QED  BY <1>41, <2>2, Zenon DEF Halted, Park, IngestUnchanged, ParkedBehind
<1>42. ASSUME Pause PROVE ParkedBehind'
  <2>1. queue["ingest"] > 0 => outbox # "none"
    BY SMT DEF Published
  <2>. QED  BY <1>42, <2>1, Zenon
      DEF Pause, PauseRows, Drain, Park, Parked, DeskUnchanged, ParkedBehind
<1>43. ASSUME DeskCrash PROVE ParkedBehind'
  <2>1. desk.pc = "replayed" \/ queue["ingest"] > 0 => outbox # "none"
    BY SMT DEF Published
  <2>. QED  BY <1>43, <2>1, Zenon
      DEF DeskCrash, Park, Parked, DeskUnchanged, ParkedBehind
<1>. QED
  BY <1>1, <1>2, <1>3, <1>4, <1>5, <1>6, <1>7, <1>8, <1>9, <1>10, <1>11,
      <1>12, <1>13, <1>14, <1>15, <1>16, <1>17, <1>18, <1>19, <1>20, <1>21,
      <1>22, <1>23, <1>24, <1>25, <1>26, <1>27, <1>28, <1>29, <1>30, <1>31,
      <1>32, <1>33, <1>34, <1>35, <1>36, <1>37, <1>38, <1>39, <1>40, <1>41,
      <1>42, <1>43, ActionCases, Zenon

(* The first step of a job is its submission. *)
LEMMA UntouchedStep ==
  ASSUME TypeOK, Untouched, Published, [Next]_vars
  PROVE Untouched'
<1>. USE BoundsAssumption, WorkersAssumption DEF job, messages, lease, data,
    attempts, operators, TypeOK, Untouched, Ask, Done, Workers, Topics,
    EngineSteps, DlqType, DeskType, NoDlq, NoRequest, Stale
<1>1. ASSUME NEW w \in Workers, Receive(w) PROVE Untouched'
  BY <1>1, SMTT(30) DEF Receive, TopicOf, Goto, Drops
<1>2. ASSUME NEW w \in Workers, Ack(w) PROVE Untouched'
  BY <1>2, SMTT(30) DEF Ack, Ends, Goto
<1>3. ASSUME NEW w \in Workers, Nack(w) PROVE Untouched'
  BY <1>3, SMTT(30) DEF Nack, Ends, Goto, Publish, More, TopicOf
<1>4. ASSUME NEW w \in Workers, DeadLetter(w) PROVE Untouched'
  BY <1>4, SMTT(30) DEF DeadLetter, Bury, Ends, Goto, More, TopicOf
<1>5. ASSUME NEW w \in Workers, Crash(w) PROVE Untouched'
  BY <1>5, SMTT(30) DEF Crash, Fault, Ends, Goto, Publish, More, TopicOf
<1>6. ASSUME NEW w \in Workers, ReceiptExpires(w) PROVE Untouched'
  BY <1>6, SMTT(30) DEF ReceiptExpires, Fault, Publish, More, TopicOf
<1>7. ASSUME NEW w \in Workers, Sigterm(w) PROVE Untouched'
  BY <1>7, SMTT(30) DEF Sigterm, Fault
<1>8. ASSUME NEW w \in Workers, ParseOutbox(w) PROVE Untouched'
  BY <1>8, SMTT(30) DEF ParseOutbox, Goto, ParseUnchanged
<1>9. ASSUME NEW w \in Workers, ParseReplays(w) PROVE Untouched'
  BY <1>9, SMTT(30) DEF ParseReplays, Goto, Publish, More, ParseUnchanged
<1>10. ASSUME NEW w \in Workers, ParseLease(w) PROVE Untouched'
  BY <1>10, SMTT(30) DEF ParseLease, Free, Acquire, Goto, Drops,
      ParseUnchanged
<1>11. ASSUME NEW w \in Workers, ParseMark(w) PROVE Untouched'
  BY <1>11, SMTT(30) DEF ParseMark, Goto, ParseUnchanged
<1>12. ASSUME NEW w \in Workers, ParseStops(w) PROVE Untouched'
  BY <1>12, SMTT(30) DEF ParseStops, ParseHalted, Drops, Goto, ParseUnchanged
<1>13. ASSUME NEW w \in Workers, ParseFails(w) PROVE Untouched'
  BY <1>13, SMTT(30) DEF ParseFails, Goto, ParseUnchanged
<1>14. ASSUME NEW w \in Workers, ParseStep(w) PROVE Untouched'
  BY <1>14, SMTT(30) DEF ParseStep, ParseHalted, Owns, Refresh, StorePlan,
      Goto, Publish, More, ParseUnchanged
<1>15. ASSUME NEW w \in Workers, ParseFenced(w) PROVE Untouched'
  BY <1>15, SMTT(30) DEF ParseFenced, ParseHalted, Owns, Goto, ParseUnchanged
<1>16. ASSUME NEW w \in Workers, Watch(w) PROVE Untouched'
  BY <1>16, SMTT(30) DEF Watch, RowsUnchanged, IngestUnchanged
<1>17. ASSUME NEW w \in Workers, IngestMark(w) PROVE Untouched'
  BY <1>17, SMTT(30) DEF IngestMark, Goto, RowsUnchanged, IngestUnchanged
<1>18. ASSUME NEW w \in Workers, IngestWrites(w) PROVE Untouched'
  BY <1>18, SMTT(30) DEF IngestWrites, Goto, RowsUnchanged, IngestUnchanged
<1>19. ASSUME NEW w \in Workers, IngestStage(w) PROVE Untouched'
  BY <1>19, SMTT(30) DEF IngestStage, Goto, RowsUnchanged, IngestUnchanged
<1>20. ASSUME NEW w \in Workers, Gate(w) PROVE Untouched'
  BY <1>20, SMTT(30) DEF Gate, Complete, Exhausted, Goto, RowsUnchanged,
      IngestUnchanged
<1>21. ASSUME NEW w \in Workers, GateWrites(w) PROVE Untouched'
  BY <1>21, SMTT(30) DEF GateWrites, Exhausted, Goto, RowsUnchanged,
      IngestUnchanged
<1>22. ASSUME NEW w \in Workers, Finalize(w) PROVE Untouched'
  BY <1>22, SMTT(30) DEF Finalize, Goto, RowsUnchanged, IngestUnchanged
<1>23. ASSUME NEW w \in Workers, Halted(w) PROVE Untouched'
  BY <1>23, SMTT(30) DEF Halted, Park, Fault, Goto, RowsUnchanged, IngestUnchanged
<1>24. ASSUME NEW w \in Workers, EngineStarts(w) PROVE Untouched'
  BY <1>24, SMTT(30) DEF EngineStarts, Free, Acquire, ResumeFrom, Goto,
      RowsUnchanged, IngestUnchanged
<1>25. ASSUME NEW w \in Workers, EngineHalts(w) PROVE Untouched'
  BY <1>25, SMTT(30) DEF EngineHalts, Leaves, Goto, Release, Owns,
      RowsUnchanged, IngestUnchanged
<1>26. ASSUME NEW w \in Workers, EngineSurrenders(w) PROVE Untouched'
  BY <1>26, SMTT(30) DEF EngineSurrenders, Leaves, Goto, Release, Owns,
      RowsUnchanged, IngestUnchanged
<1>27. ASSUME NEW w \in Workers, EngineReturns(w) PROVE Untouched'
  BY <1>27, SMTT(30) DEF EngineReturns, Leaves, Goto, Release, Owns,
      RowsUnchanged, IngestUnchanged
<1>28. ASSUME NEW w \in Workers, EngineFails(w) PROVE Untouched'
  BY <1>28, SMTT(30) DEF EngineFails, Leaves, Owns, Fault, Goto, Release,
      RowsUnchanged, IngestUnchanged
<1>29. ASSUME NEW w \in Workers, EngineNextChunk(w) PROVE Untouched'
  BY <1>29, SMTT(30) DEF EngineNextChunk, Owns, Refresh, Goto, RowsUnchanged,
      IngestUnchanged
<1>30. ASSUME NEW w \in Workers, EngineInserts(w) PROVE Untouched'
  BY <1>30, SMTT(30) DEF EngineInserts, Goto, IngestUnchanged
<1>31. ASSUME NEW w \in Workers, EngineCheckpoints(w) PROVE Untouched'
  BY <1>31, SMTT(30) DEF EngineCheckpoints, Monotonic, Goto, IngestUnchanged
<1>32. ASSUME NEW t \in Topics, LeaseExpires(t) PROVE Untouched'
  BY <1>32, SMTT(30) DEF LeaseExpires, Fault
<1>33. ASSUME Submit PROVE Untouched'
  BY <1>33, SMTT(30) DEF Submit, Publish, More, DeskUnchanged
<1>34. ASSUME Cancel PROVE Untouched'
  BY <1>34, SMTT(30) DEF Cancel, DeskUnchanged
<1>35. ASSUME Pause PROVE Untouched'
  BY <1>35, SMTT(30) DEF Pause, PauseRows, Drain, DeskGoto, DeskUnchanged
<1>36. ASSUME Resume PROVE Untouched'
  BY <1>36, SMTT(30) DEF Resume, ResumeRows, Replay, Parked, DeskGoto, Publish, More,
      DeskUnchanged
<1>37. ASSUME Retry PROVE Untouched'
  BY <1>37, SMTT(30) DEF Retry, DeskGoto, RetryTopic, MayRetry, Publish, More,
      DeskUnchanged
<1>38. ASSUME DeskCrash PROVE Untouched'
  BY <1>38, SMTT(30) DEF DeskCrash, Park, Fault, Drops, DeskUnchanged
<1>39. ASSUME DlqReconcile PROVE Untouched'
  BY <1>39, SMTT(30) DEF DlqReconcile, DlqPulls, DlqRecords, DlqMarks
<1>40. ASSUME DlqCrash PROVE Untouched'
  BY <1>40, SMTT(30) DEF DlqCrash, Fault, More
<1>41. ASSUME StaleRecovery PROVE Untouched'
  BY <1>41, SMTT(30) DEF StaleRecovery, StalePlans, MayRecover, StaleApplies,
      RecoveryBusy, Complete, Publish, More
<1>42. ASSUME StaleCrash PROVE Untouched'
  BY <1>42, SMTT(30) DEF StaleCrash, Fault
<1>43. ASSUME UNCHANGED vars PROVE Untouched'
  BY <1>43, SMTT(30) DEF vars
<1>. QED
  BY <1>1, <1>2, <1>3, <1>4, <1>5, <1>6, <1>7, <1>8, <1>9, <1>10, <1>11,
      <1>12, <1>13, <1>14, <1>15, <1>16, <1>17, <1>18, <1>19, <1>20, <1>21,
      <1>22, <1>23, <1>24, <1>25, <1>26, <1>27, <1>28, <1>29, <1>30, <1>31,
      <1>32, <1>33, <1>34, <1>35, <1>36, <1>37, <1>38, <1>39, <1>40, <1>41,
      <1>42, <1>43, ActionCases, Zenon

(* The parse message is in somebody's hands. *)
LEMMA KeptStep ==
  ASSUME TypeOK, Kept, Acknowledged, Untouched, Recorded, [Next]_vars
  PROVE Kept'
<1>. USE BoundsAssumption, WorkersAssumption DEF job, messages, lease, data,
    attempts, operators, TypeOK, Kept, Holder, Acknowledged, Untouched,
    TopicOf, ParseSteps, Workers, Topics, EngineSteps, DlqType, DeskType,
    NoDlq, NoRequest
<1>1. ASSUME NEW w \in Workers, Receive(w) PROVE Kept'
  BY <1>1, SMTT(30) DEF Receive, Goto, Drops
<1>2. ASSUME NEW w \in Workers, Ack(w) PROVE Kept'
  BY <1>2, SMTT(30) DEF Ack, Ends, Goto
<1>3. ASSUME NEW w \in Workers, Nack(w) PROVE Kept'
  BY <1>3, SMTT(30) DEF Nack, Ends, Goto, Publish, More
<1>4. ASSUME NEW w \in Workers, DeadLetter(w) PROVE Kept'
  BY <1>4, SMTT(30) DEF DeadLetter, Bury, Ends, Goto, More
<1>5. ASSUME NEW w \in Workers, Crash(w) PROVE Kept'
  BY <1>5, SMTT(30) DEF Crash, Fault, Ends, Goto, Publish, More
<1>6. ASSUME NEW w \in Workers, ReceiptExpires(w) PROVE Kept'
  BY <1>6, SMTT(30) DEF ReceiptExpires, Fault, Publish, More
<1>7. ASSUME NEW w \in Workers, Sigterm(w) PROVE Kept'
  BY <1>7, SMTT(30) DEF Sigterm, Fault
<1>8. ASSUME NEW w \in Workers, ParseOutbox(w) PROVE Kept'
  BY <1>8, SMTT(30) DEF ParseOutbox, Goto, ParseUnchanged
<1>9. ASSUME NEW w \in Workers, ParseReplays(w) PROVE Kept'
  BY <1>9, SMTT(30) DEF ParseReplays, Goto, Publish, More, ParseUnchanged
<1>10. ASSUME NEW w \in Workers, ParseLease(w) PROVE Kept'
  BY <1>10, SMTT(30) DEF ParseLease, Free, Acquire, Goto, Drops,
      ParseUnchanged
<1>11. ASSUME NEW w \in Workers, ParseMark(w) PROVE Kept'
  BY <1>11, SMTT(30) DEF ParseMark, Goto, ParseUnchanged
<1>12. ASSUME NEW w \in Workers, ParseStops(w) PROVE Kept'
  BY <1>12, SMTT(30) DEF ParseStops, ParseHalted, Drops, Goto, ParseUnchanged
<1>13. ASSUME NEW w \in Workers, ParseFails(w) PROVE Kept'
  BY <1>13, SMTT(30) DEF ParseFails, Goto, ParseUnchanged
<1>14. ASSUME NEW w \in Workers, ParseStep(w) PROVE Kept'
  BY <1>14, SMTT(30) DEF ParseStep, ParseHalted, Owns, Refresh, StorePlan,
      Goto, Publish, More, ParseUnchanged
<1>15. ASSUME NEW w \in Workers, ParseFenced(w) PROVE Kept'
  BY <1>15, SMTT(30) DEF ParseFenced, ParseHalted, Owns, Goto, ParseUnchanged
<1>16. ASSUME NEW w \in Workers, Watch(w) PROVE Kept'
  BY <1>16, SMTT(30) DEF Watch, RowsUnchanged, IngestUnchanged
<1>17. ASSUME NEW w \in Workers, IngestMark(w) PROVE Kept'
  BY <1>17, SMTT(30) DEF IngestMark, Goto, RowsUnchanged, IngestUnchanged
<1>18. ASSUME NEW w \in Workers, IngestWrites(w) PROVE Kept'
  BY <1>18, SMTT(30) DEF IngestWrites, Goto, RowsUnchanged, IngestUnchanged
<1>19. ASSUME NEW w \in Workers, IngestStage(w) PROVE Kept'
  BY <1>19, SMTT(30) DEF IngestStage, Goto, RowsUnchanged, IngestUnchanged
<1>20. ASSUME NEW w \in Workers, Gate(w) PROVE Kept'
  BY <1>20, SMTT(30) DEF Gate, Complete, Exhausted, Goto, RowsUnchanged,
      IngestUnchanged
<1>21. ASSUME NEW w \in Workers, GateWrites(w) PROVE Kept'
  BY <1>21, SMTT(30) DEF GateWrites, Exhausted, Goto, RowsUnchanged,
      IngestUnchanged
<1>22. ASSUME NEW w \in Workers, Finalize(w) PROVE Kept'
  BY <1>22, SMTT(30) DEF Finalize, Goto, RowsUnchanged, IngestUnchanged
<1>23. ASSUME NEW w \in Workers, Halted(w) PROVE Kept'
  BY <1>23, SMTT(30) DEF Halted, Park, Fault, Goto, RowsUnchanged, IngestUnchanged
<1>24. ASSUME NEW w \in Workers, EngineStarts(w) PROVE Kept'
  BY <1>24, SMTT(30) DEF EngineStarts, Free, Acquire, ResumeFrom, Goto,
      RowsUnchanged, IngestUnchanged
<1>25. ASSUME NEW w \in Workers, EngineHalts(w) PROVE Kept'
  BY <1>25, SMTT(30) DEF EngineHalts, Leaves, Goto, Release, Owns,
      RowsUnchanged, IngestUnchanged
<1>26. ASSUME NEW w \in Workers, EngineSurrenders(w) PROVE Kept'
  BY <1>26, SMTT(30) DEF EngineSurrenders, Leaves, Goto, Release, Owns,
      RowsUnchanged, IngestUnchanged
<1>27. ASSUME NEW w \in Workers, EngineReturns(w) PROVE Kept'
  BY <1>27, SMTT(30) DEF EngineReturns, Leaves, Goto, Release, Owns,
      RowsUnchanged, IngestUnchanged
<1>28. ASSUME NEW w \in Workers, EngineFails(w) PROVE Kept'
  BY <1>28, SMTT(30) DEF EngineFails, Leaves, Owns, Fault, Goto, Release,
      RowsUnchanged, IngestUnchanged
<1>29. ASSUME NEW w \in Workers, EngineNextChunk(w) PROVE Kept'
  BY <1>29, SMTT(30) DEF EngineNextChunk, Owns, Refresh, Goto, RowsUnchanged,
      IngestUnchanged
<1>30. ASSUME NEW w \in Workers, EngineInserts(w) PROVE Kept'
  BY <1>30, SMTT(30) DEF EngineInserts, Goto, IngestUnchanged
<1>31. ASSUME NEW w \in Workers, EngineCheckpoints(w) PROVE Kept'
  BY <1>31, SMTT(30) DEF EngineCheckpoints, Monotonic, Goto, IngestUnchanged
<1>32. ASSUME NEW t \in Topics, LeaseExpires(t) PROVE Kept'
  BY <1>32, SMTT(30) DEF LeaseExpires, Fault
<1>33. ASSUME Submit PROVE Kept'
  BY <1>33, SMTT(30) DEF Submit, Ask, Done, Publish, More, DeskUnchanged
<1>34. ASSUME Resume PROVE Kept'
  BY <1>34, SMTT(30) DEF Resume, ResumeRows, Replay, Parked, DeskGoto, Done, Publish,
      More, DeskUnchanged
<1>35. ASSUME Retry PROVE Kept'
  BY <1>35, SMTT(30) DEF Retry, Ask, Done, DeskGoto, RetryTopic, MayRetry,
      Publish, More, DeskUnchanged
<1>36. ASSUME DlqCrash PROVE Kept'
  BY <1>36, SMTT(30) DEF DlqCrash, Fault, More
<1>37. ASSUME StaleCrash PROVE Kept'
  BY <1>37, SMTT(30) DEF StaleCrash, Fault
<1>38. ASSUME UNCHANGED vars PROVE Kept'
  BY <1>38, SMTT(30) DEF vars
<1>. HIDE BoundsAssumption, WorkersAssumption DEF job, messages, lease, data,
    attempts, operators, TypeOK, Kept, Holder, Acknowledged, Untouched,
    TopicOf, ParseSteps, Workers, Topics, EngineSteps, DlqType, DeskType,
    NoDlq, NoRequest
<1>39. ASSUME Cancel PROVE Kept'
  <2>1. UNCHANGED <<outbox, dropped, dead, dlqCron, record, pc, receipt>>
    BY <1>39, Zenon DEF Cancel, DeskUnchanged, attempts
  <2>2. desk.pc # "submit" /\ queue' = queue
    BY <1>39, SMT DEF Cancel, Ask, NoRequest
  <2>3. ops' = 0 => ops = 0
    BY <1>39, SMT DEF Cancel, Ask, Done, TypeOK
  <2>4. ops # 0
    BY <1>39, SMT DEF Cancel, Untouched, NoRequest
  <2>. QED  BY <2>1, <2>2, <2>3, <2>4, Zenon DEF Kept, Holder
<1>40. ASSUME Pause PROVE Kept'
  <2>1. UNCHANGED <<outbox, dropped, dead, dlqCron, record, pc, receipt>>
    BY <1>40, Zenon DEF Pause, PauseRows, Drain, DeskUnchanged, attempts
  <2>2. desk.pc # "submit" /\ queue'["parse"] = queue["parse"]
    BY <1>40, SMT DEF Pause, PauseRows, Drain, Park, Ask, NoRequest, TypeOK, Topics
  <2>3. ops' = 0 => ops = 0
    BY <1>40, SMT DEF Pause, PauseRows, Drain, Park, Ask, Done, DeskGoto, TypeOK
  <2>4. ops # 0
    BY <1>40, SMT DEF Pause, PauseRows, Drain, Untouched, NoRequest, Topics
  <2>. QED  BY <2>1, <2>2, <2>3, <2>4, Zenon DEF Kept, Holder
<1>41. ASSUME DeskCrash PROVE Kept'
  <2>1. UNCHANGED <<outbox, dead, dlqCron, record, pc, receipt, queue, ops>>
    BY <1>41, Zenon DEF DeskCrash, Park, DeskUnchanged, attempts, Done
  <2>2. CASE desk.pc = "submit"
    <3>1. dropped' = (outbox = "none")
      BY <1>41, <2>2, Zenon DEF DeskCrash, Park, Drops
    <3>. QED  BY <2>1, <3>1, Zenon DEF Kept
  <2>3. CASE desk.pc # "submit"
    <3>1. dropped' = dropped  BY <1>41, <2>3, Zenon DEF DeskCrash
    <3>. QED  BY <2>1, <2>3, <3>1, Zenon DEF Kept, Holder
  <2>. QED  BY <2>2, <2>3
<1>42. ASSUME DlqReconcile PROVE Kept'
  <2>1. UNCHANGED <<outbox, dropped, pc, receipt, desk, queue, ops>>
    BY <1>42, Zenon DEF DlqReconcile, DlqPulls, DlqRecords, DlqMarks, attempts
  <2>2. CASE \E t \in Topics :
               /\ dead[t] > 0 /\ dead' = [dead EXCEPT ![t] = @ - 1]
               /\ dlqCron = NoDlq
               /\ dlqCron' = [NoDlq EXCEPT !.pc = "record", !.topic = t]
               /\ record' = record
    <3>1. PICK t \in Topics :
               /\ dead[t] > 0 /\ dead' = [dead EXCEPT ![t] = @ - 1]
               /\ dlqCron = NoDlq
               /\ dlqCron' = [NoDlq EXCEPT !.pc = "record", !.topic = t]
               /\ record' = record
      BY <2>2, Zenon
    <3>2. dlqCron'.topic = t  BY <3>1 DEF NoDlq
    <3>3. dlqCron.topic # "parse"  BY <3>1, WorkersAssumption DEF NoDlq
    <3>4. t = "parse" \/ dead'["parse"] = dead["parse"]
      BY <3>1, SMT DEF TypeOK, Topics
    <3>. QED  BY <2>1, <3>1, <3>2, <3>3, <3>4, Zenon DEF Kept, Holder
  <2>3. CASE record' = dlqCron.topic /\ dlqCron.pc = "record"
    <3>1. record' # None  BY <2>3, Zenon DEF Recorded
    <3>. QED  BY <3>1, Zenon DEF Kept, Holder
  <2>4. CASE dlqCron.pc = "mark" /\ record' = record
    <3>1. record' # None  BY <2>4, Zenon DEF Recorded
    <3>. QED  BY <3>1, Zenon DEF Kept, Holder
  <2>. QED  BY <1>42, <2>2, <2>3, <2>4, Zenon
      DEF DlqReconcile, DlqPulls, DlqRecords, DlqMarks
<1>43. ASSUME StaleRecovery PROVE Kept'
  <2>1. UNCHANGED <<outbox, dropped, dead, dlqCron, record, pc, receipt, desk>>
    BY <1>43, Zenon DEF StaleRecovery, StalePlans, MayRecover, StaleApplies, attempts
  <2>2. queue'["parse"] = queue["parse"]
    BY <1>43, SMT
        DEF StaleRecovery, StalePlans, MayRecover, StaleApplies, Publish, TypeOK, Topics
  <2>3. ops = 0 => ops' = 0
    BY <1>43, SMT DEF StaleRecovery, StalePlans, MayRecover, StaleApplies, Untouched, Stale
  <2>. QED  BY <2>1, <2>2, <2>3, Zenon DEF Kept, Holder
<1>. QED
  BY <1>1, <1>2, <1>3, <1>4, <1>5, <1>6, <1>7, <1>8, <1>9, <1>10, <1>11,
      <1>12, <1>13, <1>14, <1>15, <1>16, <1>17, <1>18, <1>19, <1>20, <1>21,
      <1>22, <1>23, <1>24, <1>25, <1>26, <1>27, <1>28, <1>29, <1>30, <1>31,
      <1>32, <1>33, <1>34, <1>35, <1>36, <1>37, <1>38, <1>39, <1>40, <1>41,
      <1>42, <1>43, ActionCases, Zenon

(* No parse worker acknowledges without cause. *)
LEMMA AcknowledgedStep ==
  ASSUME TypeOK, Acknowledged, [Next]_vars
  PROVE Acknowledged'
<1>. USE BoundsAssumption, WorkersAssumption DEF job, messages, lease, data,
    attempts, operators, TypeOK, Acknowledged, ParseSteps, TopicOf,
    IngestSteps, Workers, Topics, EngineSteps
<1>1. ASSUME NEW w \in Workers, Ack(w) PROVE Acknowledged'
  BY <1>1, SMTT(30) DEF Ack, Ends, Goto
<1>2. ASSUME NEW w \in Workers, Nack(w) PROVE Acknowledged'
  BY <1>2, SMTT(30) DEF Nack, Ends, Goto, Publish, More
<1>3. ASSUME NEW w \in Workers, DeadLetter(w) PROVE Acknowledged'
  BY <1>3, SMTT(30) DEF DeadLetter, Bury, Ends, Goto, More
<1>4. ASSUME NEW w \in Workers, Crash(w) PROVE Acknowledged'
  BY <1>4, SMTT(30) DEF Crash, Fault, Ends, Goto, Publish, More
<1>5. ASSUME NEW w \in Workers, ReceiptExpires(w) PROVE Acknowledged'
  BY <1>5, SMTT(30) DEF ReceiptExpires, Fault, Publish, More
<1>6. ASSUME NEW w \in Workers, Sigterm(w) PROVE Acknowledged'
  BY <1>6, SMTT(30) DEF Sigterm, Fault
<1>7. ASSUME NEW w \in Workers, ParseOutbox(w) PROVE Acknowledged'
  BY <1>7, SMTT(30) DEF ParseOutbox, Goto, ParseUnchanged
<1>8. ASSUME NEW w \in Workers, ParseReplays(w) PROVE Acknowledged'
  BY <1>8, SMTT(30) DEF ParseReplays, Goto, Publish, More, ParseUnchanged
<1>9. ASSUME NEW w \in Workers, ParseLease(w) PROVE Acknowledged'
  BY <1>9, SMTT(30) DEF ParseLease, Free, Acquire, Goto, Drops, ParseUnchanged
<1>10. ASSUME NEW w \in Workers, ParseMark(w) PROVE Acknowledged'
  BY <1>10, SMTT(30) DEF ParseMark, Goto, ParseUnchanged
<1>11. ASSUME NEW w \in Workers, ParseFails(w) PROVE Acknowledged'
  BY <1>11, SMTT(30) DEF ParseFails, Goto, ParseUnchanged
<1>12. ASSUME NEW w \in Workers, ParseStep(w) PROVE Acknowledged'
  BY <1>12, SMTT(30) DEF ParseStep, ParseHalted, Owns, Refresh, StorePlan,
      Goto, Publish, More, ParseUnchanged
<1>13. ASSUME NEW w \in Workers, ParseFenced(w) PROVE Acknowledged'
  BY <1>13, SMTT(30) DEF ParseFenced, ParseHalted, Owns, Goto, ParseUnchanged
<1>14. ASSUME NEW w \in Workers, Watch(w) PROVE Acknowledged'
  BY <1>14, SMTT(30) DEF Watch, RowsUnchanged, IngestUnchanged
<1>15. ASSUME NEW w \in Workers, IngestMark(w) PROVE Acknowledged'
  BY <1>15, SMTT(30) DEF IngestMark, Goto, RowsUnchanged, IngestUnchanged
<1>16. ASSUME NEW w \in Workers, IngestWrites(w) PROVE Acknowledged'
  BY <1>16, SMTT(30) DEF IngestWrites, Goto, RowsUnchanged, IngestUnchanged
<1>17. ASSUME NEW w \in Workers, IngestStage(w) PROVE Acknowledged'
  BY <1>17, SMTT(30) DEF IngestStage, Goto, RowsUnchanged, IngestUnchanged
<1>18. ASSUME NEW w \in Workers, Gate(w) PROVE Acknowledged'
  BY <1>18, SMTT(30) DEF Gate, Complete, Exhausted, Goto, RowsUnchanged,
      IngestUnchanged
<1>19. ASSUME NEW w \in Workers, GateWrites(w) PROVE Acknowledged'
  BY <1>19, SMTT(30) DEF GateWrites, Exhausted, Goto, RowsUnchanged,
      IngestUnchanged
<1>20. ASSUME NEW w \in Workers, Finalize(w) PROVE Acknowledged'
  BY <1>20, SMTT(30) DEF Finalize, Goto, RowsUnchanged, IngestUnchanged
<1>21. ASSUME NEW w \in Workers, Halted(w) PROVE Acknowledged'
  BY <1>21, SMTT(30) DEF Halted, Park, Fault, Goto, RowsUnchanged, IngestUnchanged
<1>22. ASSUME NEW w \in Workers, EngineStarts(w) PROVE Acknowledged'
  BY <1>22, SMTT(30) DEF EngineStarts, Free, Acquire, ResumeFrom, Goto,
      RowsUnchanged, IngestUnchanged
<1>23. ASSUME NEW w \in Workers, EngineHalts(w) PROVE Acknowledged'
  BY <1>23, SMTT(30) DEF EngineHalts, Leaves, Goto, Release, Owns,
      RowsUnchanged, IngestUnchanged
<1>24. ASSUME NEW w \in Workers, EngineSurrenders(w) PROVE Acknowledged'
  BY <1>24, SMTT(30) DEF EngineSurrenders, Leaves, Goto, Release, Owns,
      RowsUnchanged, IngestUnchanged
<1>25. ASSUME NEW w \in Workers, EngineReturns(w) PROVE Acknowledged'
  BY <1>25, SMTT(30) DEF EngineReturns, Leaves, Goto, Release, Owns,
      RowsUnchanged, IngestUnchanged
<1>26. ASSUME NEW w \in Workers, EngineFails(w) PROVE Acknowledged'
  BY <1>26, SMTT(30) DEF EngineFails, Leaves, Owns, Fault, Goto, Release,
      RowsUnchanged, IngestUnchanged
<1>27. ASSUME NEW w \in Workers, EngineNextChunk(w) PROVE Acknowledged'
  BY <1>27, SMTT(30) DEF EngineNextChunk, Owns, Refresh, Goto, RowsUnchanged,
      IngestUnchanged
<1>28. ASSUME NEW w \in Workers, EngineInserts(w) PROVE Acknowledged'
  BY <1>28, SMTT(30) DEF EngineInserts, Goto, IngestUnchanged
<1>29. ASSUME NEW w \in Workers, EngineCheckpoints(w) PROVE Acknowledged'
  BY <1>29, SMTT(30) DEF EngineCheckpoints, Monotonic, Goto, IngestUnchanged
<1>30. ASSUME NEW t \in Topics, LeaseExpires(t) PROVE Acknowledged'
  BY <1>30, SMTT(30) DEF LeaseExpires, Fault
<1>31. ASSUME Submit PROVE Acknowledged'
  BY <1>31, SMTT(30) DEF Submit, Ask, Done, Publish, More, DeskUnchanged
<1>32. ASSUME Cancel PROVE Acknowledged'
  BY <1>32, SMTT(30) DEF Cancel, Ask, Done, DeskUnchanged
<1>33. ASSUME Pause PROVE Acknowledged'
  BY <1>33, SMTT(30) DEF Pause, PauseRows, Drain, Park, Ask, Done, DeskGoto,
      DeskUnchanged
<1>34. ASSUME Resume PROVE Acknowledged'
  BY <1>34, SMTT(30) DEF Resume, ResumeRows, Replay, Parked, DeskGoto, Done, Publish,
      More, DeskUnchanged
<1>35. ASSUME Retry PROVE Acknowledged'
  BY <1>35, SMTT(30) DEF Retry, Ask, Done, DeskGoto, RetryTopic, MayRetry,
      Publish, More, DeskUnchanged
<1>36. ASSUME DeskCrash PROVE Acknowledged'
  BY <1>36, SMTT(30) DEF DeskCrash, Park, Fault, Drops, Done, DeskUnchanged
<1>37. ASSUME DlqReconcile PROVE Acknowledged'
  BY <1>37, SMTT(30) DEF DlqReconcile, DlqPulls, DlqRecords, DlqMarks
<1>38. ASSUME DlqCrash PROVE Acknowledged'
  BY <1>38, SMTT(30) DEF DlqCrash, Fault, More
<1>39. ASSUME StaleRecovery PROVE Acknowledged'
  BY <1>39, SMTT(30) DEF StaleRecovery, StalePlans, MayRecover, StaleApplies,
      RecoveryBusy, Stale, Complete, Publish, More
<1>40. ASSUME StaleCrash PROVE Acknowledged'
  BY <1>40, SMTT(30) DEF StaleCrash, Fault
<1>41. ASSUME UNCHANGED vars PROVE Acknowledged'
  BY <1>41, SMTT(30) DEF vars
<1>. HIDE BoundsAssumption, WorkersAssumption DEF job, messages, lease, data,
    attempts, operators, TypeOK, Acknowledged, ParseSteps, TopicOf,
    IngestSteps, Workers, Topics, EngineSteps
<1>42. ASSUME NEW w \in Workers, Receive(w) PROVE Acknowledged'
  <2>1. UNCHANGED outbox /\ \A v \in Workers \ {w} : pc'[v] = pc[v]
    BY <1>42, SMT DEF Receive, Goto, TypeOK
  <2>2. CASE w \in ParseWorkers
    <3>1. pc'[w] \in {"ack", "outbox"}
      BY <1>42, <2>2, SMT DEF Receive, Goto, TopicOf, TypeOK
    <3>2. CASE status \in Terminal
      <4>1. dropped' = (outbox = "none")
        BY <1>42, <2>2, <3>2, Zenon DEF Receive, Drops, TopicOf
      <4>2. outbox' # "none" \/ dropped'  BY <2>1, <4>1, Zenon
      <4>. QED  BY <2>1, <3>1, <4>2 DEF Acknowledged, ParseSteps, Workers
    <3>3. CASE status \notin Terminal
      <4>1. pc'[w] = "outbox" /\ dropped' = dropped
        BY <1>42, <2>2, <3>3, SMT DEF Receive, Goto, TopicOf, TypeOK
      <4>. QED  BY <2>1, <4>1 DEF Acknowledged, ParseSteps, Workers
    <3>. QED  BY <3>2, <3>3
  <2>3. CASE w \notin ParseWorkers
    <3>1. dropped' = dropped  BY <1>42, <2>3, Zenon DEF Receive, TopicOf
    <3>. QED  BY <2>1, <2>3, <3>1 DEF Acknowledged, Workers
  <2>. QED  BY <2>2, <2>3
<1>43. ASSUME NEW w \in Workers, ParseStops(w) PROVE Acknowledged'
  <2>1. pc' = [pc EXCEPT ![w] = "ack"] /\ UNCHANGED outbox
    BY <1>43, Zenon DEF ParseStops, Goto
  <2>2. outbox' # "none" \/ dropped'
    BY <1>43, <2>1, Zenon DEF ParseStops, Drops
  <2>. QED  BY <2>1, <2>2 DEF Acknowledged, ParseSteps, TypeOK, Workers
<1>. QED
  BY <1>1, <1>2, <1>3, <1>4, <1>5, <1>6, <1>7, <1>8, <1>9, <1>10, <1>11,
      <1>12, <1>13, <1>14, <1>15, <1>16, <1>17, <1>18, <1>19, <1>20, <1>21,
      <1>22, <1>23, <1>24, <1>25, <1>26, <1>27, <1>28, <1>29, <1>30, <1>31,
      <1>32, <1>33, <1>34, <1>35, <1>36, <1>37, <1>38, <1>39, <1>40, <1>41,
      <1>42, <1>43, ActionCases, Zenon

(* What the DLQ reconciler marks is recorded. *)
LEMMA RecordedStep ==
  ASSUME TypeOK, Recorded, [Next]_vars
  PROVE Recorded'
<1>. USE BoundsAssumption, WorkersAssumption DEF job, messages, lease, data,
    attempts, operators, TypeOK, Recorded, NoDlq, DlqType, Workers, Topics,
    EngineSteps
<1>1. ASSUME NEW w \in Workers, Receive(w) PROVE Recorded'
  BY <1>1, SMTT(30) DEF Receive, TopicOf, Goto, Drops
<1>2. ASSUME NEW w \in Workers, Ack(w) PROVE Recorded'
  BY <1>2, SMTT(30) DEF Ack, Ends, Goto
<1>3. ASSUME NEW w \in Workers, Nack(w) PROVE Recorded'
  BY <1>3, SMTT(30) DEF Nack, Ends, Goto, Publish, More, TopicOf
<1>4. ASSUME NEW w \in Workers, DeadLetter(w) PROVE Recorded'
  BY <1>4, SMTT(30) DEF DeadLetter, Bury, Ends, Goto, More, TopicOf
<1>5. ASSUME NEW w \in Workers, Crash(w) PROVE Recorded'
  BY <1>5, SMTT(30) DEF Crash, Fault, Ends, Goto, Publish, More, TopicOf
<1>6. ASSUME NEW w \in Workers, ReceiptExpires(w) PROVE Recorded'
  BY <1>6, SMTT(30) DEF ReceiptExpires, Fault, Publish, More, TopicOf
<1>7. ASSUME NEW w \in Workers, Sigterm(w) PROVE Recorded'
  BY <1>7, SMTT(30) DEF Sigterm, Fault
<1>8. ASSUME NEW w \in Workers, ParseOutbox(w) PROVE Recorded'
  BY <1>8, SMTT(30) DEF ParseOutbox, Goto, ParseUnchanged
<1>9. ASSUME NEW w \in Workers, ParseReplays(w) PROVE Recorded'
  BY <1>9, SMTT(30) DEF ParseReplays, Goto, Publish, More, ParseUnchanged
<1>10. ASSUME NEW w \in Workers, ParseLease(w) PROVE Recorded'
  BY <1>10, SMTT(30) DEF ParseLease, Free, Acquire, Goto, Drops,
      ParseUnchanged
<1>11. ASSUME NEW w \in Workers, ParseMark(w) PROVE Recorded'
  BY <1>11, SMTT(30) DEF ParseMark, Goto, ParseUnchanged
<1>12. ASSUME NEW w \in Workers, ParseStops(w) PROVE Recorded'
  BY <1>12, SMTT(30) DEF ParseStops, ParseHalted, Drops, Goto, ParseUnchanged
<1>13. ASSUME NEW w \in Workers, ParseFails(w) PROVE Recorded'
  BY <1>13, SMTT(30) DEF ParseFails, Goto, ParseUnchanged
<1>14. ASSUME NEW w \in Workers, ParseStep(w) PROVE Recorded'
  BY <1>14, SMTT(30) DEF ParseStep, ParseHalted, Owns, Refresh, StorePlan,
      Goto, Publish, More, ParseUnchanged
<1>15. ASSUME NEW w \in Workers, ParseFenced(w) PROVE Recorded'
  BY <1>15, SMTT(30) DEF ParseFenced, ParseHalted, Owns, Goto, ParseUnchanged
<1>16. ASSUME NEW w \in Workers, Watch(w) PROVE Recorded'
  BY <1>16, SMTT(30) DEF Watch, RowsUnchanged, IngestUnchanged
<1>17. ASSUME NEW w \in Workers, IngestMark(w) PROVE Recorded'
  BY <1>17, SMTT(30) DEF IngestMark, Goto, RowsUnchanged, IngestUnchanged
<1>18. ASSUME NEW w \in Workers, IngestWrites(w) PROVE Recorded'
  BY <1>18, SMTT(30) DEF IngestWrites, Goto, RowsUnchanged, IngestUnchanged
<1>19. ASSUME NEW w \in Workers, IngestStage(w) PROVE Recorded'
  BY <1>19, SMTT(30) DEF IngestStage, Goto, RowsUnchanged, IngestUnchanged
<1>20. ASSUME NEW w \in Workers, Gate(w) PROVE Recorded'
  BY <1>20, SMTT(30) DEF Gate, Complete, Exhausted, Goto, RowsUnchanged,
      IngestUnchanged
<1>21. ASSUME NEW w \in Workers, GateWrites(w) PROVE Recorded'
  BY <1>21, SMTT(30) DEF GateWrites, Exhausted, Goto, RowsUnchanged,
      IngestUnchanged
<1>22. ASSUME NEW w \in Workers, Finalize(w) PROVE Recorded'
  BY <1>22, SMTT(30) DEF Finalize, Goto, RowsUnchanged, IngestUnchanged
<1>23. ASSUME NEW w \in Workers, Halted(w) PROVE Recorded'
  BY <1>23, SMTT(30) DEF Halted, Park, Fault, Goto, RowsUnchanged, IngestUnchanged
<1>24. ASSUME NEW w \in Workers, EngineStarts(w) PROVE Recorded'
  BY <1>24, SMTT(30) DEF EngineStarts, Free, Acquire, ResumeFrom, Goto,
      RowsUnchanged, IngestUnchanged
<1>25. ASSUME NEW w \in Workers, EngineHalts(w) PROVE Recorded'
  BY <1>25, SMTT(30) DEF EngineHalts, Leaves, Goto, Release, Owns,
      RowsUnchanged, IngestUnchanged
<1>26. ASSUME NEW w \in Workers, EngineSurrenders(w) PROVE Recorded'
  BY <1>26, SMTT(30) DEF EngineSurrenders, Leaves, Goto, Release, Owns,
      RowsUnchanged, IngestUnchanged
<1>27. ASSUME NEW w \in Workers, EngineReturns(w) PROVE Recorded'
  BY <1>27, SMTT(30) DEF EngineReturns, Leaves, Goto, Release, Owns,
      RowsUnchanged, IngestUnchanged
<1>28. ASSUME NEW w \in Workers, EngineFails(w) PROVE Recorded'
  BY <1>28, SMTT(30) DEF EngineFails, Leaves, Owns, Fault, Goto, Release,
      RowsUnchanged, IngestUnchanged
<1>29. ASSUME NEW w \in Workers, EngineNextChunk(w) PROVE Recorded'
  BY <1>29, SMTT(30) DEF EngineNextChunk, Owns, Refresh, Goto, RowsUnchanged,
      IngestUnchanged
<1>30. ASSUME NEW w \in Workers, EngineInserts(w) PROVE Recorded'
  BY <1>30, SMTT(30) DEF EngineInserts, Goto, IngestUnchanged
<1>31. ASSUME NEW w \in Workers, EngineCheckpoints(w) PROVE Recorded'
  BY <1>31, SMTT(30) DEF EngineCheckpoints, Monotonic, Goto, IngestUnchanged
<1>32. ASSUME NEW t \in Topics, LeaseExpires(t) PROVE Recorded'
  BY <1>32, SMTT(30) DEF LeaseExpires, Fault
<1>33. ASSUME Submit PROVE Recorded'
  BY <1>33, SMTT(30) DEF Submit, Ask, Done, Publish, More, DeskUnchanged
<1>34. ASSUME Cancel PROVE Recorded'
  BY <1>34, SMTT(30) DEF Cancel, Ask, Done, DeskUnchanged
<1>35. ASSUME Pause PROVE Recorded'
  BY <1>35, SMTT(30) DEF Pause, PauseRows, Drain, Park, Ask, Done, DeskGoto,
      DeskUnchanged
<1>36. ASSUME Resume PROVE Recorded'
  BY <1>36, SMTT(30) DEF Resume, ResumeRows, Replay, Parked, DeskGoto, Done, Publish,
      More, DeskUnchanged
<1>37. ASSUME Retry PROVE Recorded'
  BY <1>37, SMTT(30) DEF Retry, Ask, Done, DeskGoto, RetryTopic, MayRetry,
      Publish, More, DeskUnchanged
<1>38. ASSUME DeskCrash PROVE Recorded'
  BY <1>38, SMTT(30) DEF DeskCrash, Park, Fault, Drops, Done, DeskUnchanged
<1>39. ASSUME DlqCrash PROVE Recorded'
  BY <1>39, SMTT(30) DEF DlqCrash, Fault, More
<1>40. ASSUME StaleRecovery PROVE Recorded'
  BY <1>40, SMTT(30) DEF StaleRecovery, StalePlans, MayRecover, StaleApplies,
      RecoveryBusy, Stale, Complete, Publish, More
<1>41. ASSUME StaleCrash PROVE Recorded'
  BY <1>41, SMTT(30) DEF StaleCrash, Fault
<1>42. ASSUME UNCHANGED vars PROVE Recorded'
  BY <1>42, SMTT(30) DEF vars
<1>. HIDE BoundsAssumption, WorkersAssumption DEF job, messages, lease, data,
    attempts, operators, TypeOK, Recorded, NoDlq, DlqType, Workers, Topics,
    EngineSteps
<1>43. ASSUME DlqReconcile PROVE Recorded'
  <2>1. \A t : [NoDlq EXCEPT !.pc = "record", !.topic = t].pc = "record"
    BY DEF NoDlq
  <2>2. \A t : [NoDlq EXCEPT !.pc = "record", !.topic = t].topic = t
    BY DEF NoDlq
  <2>3. \A s : [dlqCron EXCEPT !.pc = "mark", !.draft = s].pc = "mark"
    BY DEF TypeOK, DlqType
  <2>4. NoDlq.pc = "idle"  BY DEF NoDlq
  <2>5. None \notin Topics  BY WorkersAssumption DEF Topics
  <2>6. CASE \E t \in Topics :
               dlqCron' = [NoDlq EXCEPT !.pc = "record", !.topic = t]
    BY <2>1, <2>2, <2>5, <2>6 DEF Recorded
  <2>7. CASE \E s : /\ dlqCron.pc = "record" /\ record' = dlqCron.topic
                    /\ dlqCron' = [dlqCron EXCEPT !.pc = "mark", !.draft = s]
    BY <2>3, <2>7 DEF Recorded
  <2>8. CASE dlqCron' = NoDlq  BY <2>4, <2>8 DEF Recorded
  <2>. QED  BY <1>43, <2>6, <2>7, <2>8, Zenon
      DEF DlqReconcile, DlqPulls, DlqRecords, DlqMarks
<1>. QED
  BY <1>1, <1>2, <1>3, <1>4, <1>5, <1>6, <1>7, <1>8, <1>9, <1>10, <1>11,
      <1>12, <1>13, <1>14, <1>15, <1>16, <1>17, <1>18, <1>19, <1>20, <1>21,
      <1>22, <1>23, <1>24, <1>25, <1>26, <1>27, <1>28, <1>29, <1>30, <1>31,
      <1>32, <1>33, <1>34, <1>35, <1>36, <1>37, <1>38, <1>39, <1>40, <1>41,
      <1>42, <1>43, ActionCases, Zenon

-----------------------------------------------------------------------------
LEMMA InitIInv == Init => IInv
<1>. SUFFICES ASSUME Init PROVE IInv
  OBVIOUS
<1>1. TypeOK
  <2>1. NoRequest \in DeskType /\ NoDlq \in DlqType
    BY DEF NoRequest, DeskType, NoDlq, DlqType, Statuses
  <2>2. JobTypes /\ MessageTypes /\ DataTypes
    BY BoundsAssumption DEF Init, JobTypes, MessageTypes, DataTypes, Statuses
  <2>3. OwnerTypes /\ FlagTypes  BY Zenon DEF Init, OwnerTypes, FlagTypes
  <2>4. AttemptTypes
    BY BoundsAssumption DEF Init, AttemptTypes, Steps, Statuses
  <2>5. OperatorTypes
    BY <2>1, BoundsAssumption DEF Init, OperatorTypes
  <2>. QED  BY <2>2, <2>3, <2>4, <2>5, TypeParts
<1>2. Behind  BY BoundsAssumption DEF Init, Behind, EngineSteps
<1>3. Checked  BY DEF Init, Checked, NoDlq
<1>4. Published
  BY WorkersAssumption DEF Init, Published, NoDlq, NoRequest, Topics, Workers
<1>5. ParkedBehind /\ Kept  BY Zenon DEF Init, ParkedBehind, Parked, Kept
<1>6. Untouched  BY Zenon DEF Init, Untouched
<1>7. Acknowledged  BY DEF Init, Acknowledged, Workers
<1>8. Recorded  BY DEF Init, Recorded, NoDlq
<1>. QED  BY <1>1, <1>2, <1>3, <1>4, <1>5, <1>6, <1>7, <1>8 DEF IInv

LEMMA NextIInv == IInv /\ [Next]_vars => IInv'
  BY TypeStep, BehindStep, CheckedStep, PublishedStep, ParkedStep,
    UntouchedStep, KeptStep, AcknowledgedStep, RecordedStep, Zenon DEF IInv

(* Everything IInv says holds in every state of every behaviour. *)
THEOREM InvariantHolds == Spec => []IInv
  BY InitIInv, NextIInv, PTL DEF Spec

(* The variables keep their types, and with them the bounds: the completion
   gate and the stale reconciler never count beyond their limits. *)
THEOREM TypeCorrect == Spec => []TypeOK
<1>1. IInv => TypeOK  BY DEF IInv
<1>. QED  BY <1>1, InvariantHolds, PTL

(* The checkpoint never claims a chunk that is not in the table, however many
   attempts write it side by side: an attempt that continues another skips only
   what is there. *)
THEOREM CheckpointIsTrue == Spec => []CheckpointIsInTable
<1>1. IInv => CheckpointIsInTable  BY DEF IInv, Behind, CheckpointIsInTable
<1>. QED  BY <1>1, InvariantHolds, PTL

(* The row says success only when the whole table is written, although the row
   is read and written back without a comparison: whoever writes success has
   passed the completion check, or writes back one that did. *)
THEOREM SuccessIsWhole == Spec => []SuccessIsComplete
<1>1. IInv => SuccessIsComplete  BY DEF IInv, Checked, SuccessIsComplete
<1>. QED  BY <1>1, InvariantHolds, PTL

(* An ingest message, in whatever state, comes after the parse outbox, from
   which it can be published again. *)
THEOREM OutboxFirst == Spec => []PublishedIsRecoverable
<1>1. IInv => PublishedIsRecoverable
  <2>1. IInv => (Parked => outbox # "none")  BY Zenon DEF IInv, ParkedBehind
  <2>2. IInv => (Ingesting => Parked \/ outbox # "none")
    <3>. SUFFICES ASSUME IInv, Ingesting, ~Parked PROVE outbox # "none"
      BY Zenon
    <3>1. queue["ingest"] > 0 \/ dead["ingest"] > 0
          \/ (\E w \in IngestWorkers : pc[w] # "idle")
          \/ "ingest" \in {record, dlqCron.topic}
      BY Zenon DEF Ingesting
    <3>. QED  BY <3>1 DEF IInv, Published
  <2>. QED  BY <2>1, <2>2, Zenon DEF PublishedIsRecoverable
<1>. QED  BY <1>1, InvariantHolds, PTL

(* Until there is an outbox the parse message of a submitted job is somewhere,
   except for the ways in which the code itself gives it up. *)
THEOREM ParseWorkKept == Spec => []ParseWorkIsKept
<1>1. IInv => ParseWorkIsKept
  <2>. SUFFICES ASSUME IInv, status \in {"queued", "running", "paused"},
                       outbox = "none", ~dropped
                PROVE  ParseMessageExists
    BY Zenon DEF ParseWorkIsKept
  <2>1. ops # 0  BY DEF IInv, Untouched
  <2>2. Holder  BY <2>1, Zenon DEF IInv, Kept
  <2>. QED  BY <2>2, Zenon DEF Holder, ParseMessageExists
<1>. QED  BY <1>1, InvariantHolds, PTL
=============================================================================

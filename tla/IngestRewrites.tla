--------------------------- MODULE IngestRewrites ---------------------------
(***************************************************************************)
(* That chunks are written again only as often as faults and full re-runs  *)
(* account for: for every number of workers, chunks and attempts.          *)
(*                                                                         *)
(* The invariant counts what may be written again although nothing more    *)
(* goes wrong, and says that this is paid for as well.  That is what the   *)
(* owner of the lease has ahead of it in the table, or the engine after it *)
(* behind the checkpoint; and one chunk for each engine that has lost the  *)
(* lease between its refresh and its insert.                               *)
(***************************************************************************)
EXTENDS IngestPipelineProofs, FiniteSetTheorems

(* The engine that holds the table's lease, and nobody may take it over. *)
Holds(w) == Owns(w, "ingest") /\ leaseLive["ingest"]

(* A chunk that the owner of the lease, or the engine after it, would write
   once more: it is in the table, but behind nobody. *)
Ahead(k) ==
  \/ k > checkpoint
  \/ \E w \in Workers :
       /\ Owns(w, "ingest")
       /\ \/ pc[w] \in {"run", "insert"} /\ k > pos[w]
          \/ pc[w] = "checkpoint" /\ k > pos[w] + 1
(* ... unless the holder is about to record it. *)
Recording(k) == \E w \in Workers : Holds(w) /\ pc[w] = "checkpoint" /\ k = pos[w] + 1
Rework == {k \in table : Ahead(k) /\ ~Recording(k)}

(* Engines that insert a chunk without the lease. *)
Late == {w \in Workers : pc[w] = "insert" /\ ~Holds(w)}

Paid ==
  /\ IsFiniteSet(Late)
  /\ rewrites + Cardinality(Rework) + Cardinality(Late) <= faults + Chunks * reruns

-----------------------------------------------------------------------------
(* The sums: what a step may do to them. *)

LEMMA ChunksAreFew ==
  ASSUME NEW S \in SUBSET (1..Chunks)
  PROVE  IsFiniteSet(S) /\ Cardinality(S) \in 0..Chunks
<1>1. 1 \in Int /\ Chunks \in Int /\ Chunks >= 1
  BY BoundsAssumption
<1>2. IsFiniteSet(1..Chunks) /\ Cardinality(1..Chunks) = Chunks - 1 + 1
  BY <1>1, FS_Interval
<1>3. IsFiniteSet(S) /\ Cardinality(S) <= Cardinality(1..Chunks)
  BY <1>2, FS_Subset
<1>4. Cardinality(S) \in Nat
  BY <1>3, FS_CardinalityType
<1>. QED  BY <1>1, <1>2, <1>3, <1>4

LEMMA ReworkIsFinite ==
  ASSUME TypeOK
  PROVE  IsFiniteSet(Rework) /\ Cardinality(Rework) \in Nat
<1>1. Rework \in SUBSET (1..Chunks)
  BY DEF TypeOK, Rework
<1>. QED  BY <1>1, ChunksAreFew

LEMMA BudgetIsNat ==
  ASSUME TypeOK
  PROVE  /\ Chunks * reruns \in Nat /\ faults \in Nat /\ rewrites \in Nat
         /\ Chunks * (reruns + 1) = Chunks * reruns + Chunks
<1>1. Chunks \in Nat /\ reruns \in Nat
  BY BoundsAssumption DEF TypeOK
<1>2. \A m, n \in Nat : m * n \in Nat /\ m * (n + 1) = m * n + m
  OBVIOUS
<1>. QED  BY <1>1, <1>2, BoundsAssumption DEF TypeOK

LEMMA NothingNew ==
  ASSUME TypeOK, TypeOK', Paid, rewrites' = rewrites, reruns' = reruns, faults' >= faults,
         Rework' \subseteq Rework, Late' \subseteq Late
  PROVE  Paid'
<1>1. IsFiniteSet(Rework') /\ Cardinality(Rework') <= Cardinality(Rework)
  BY ReworkIsFinite, FS_Subset
<1>2. IsFiniteSet(Late') /\ Cardinality(Late') <= Cardinality(Late)
  BY FS_Subset DEF Paid
<1>3. Cardinality(Late') \in Nat /\ Cardinality(Late) \in Nat
  BY <1>2, FS_CardinalityType DEF Paid
<1>4. /\ Cardinality(Rework) \in Nat /\ Cardinality(Rework') \in Nat
      /\ Chunks * reruns \in Nat /\ {rewrites, faults, faults'} \subseteq Nat
  <2>1. Cardinality(Rework') \in Nat
    BY <1>1, FS_CardinalityType
  <2>. QED  BY <2>1, ReworkIsFinite, BudgetIsNat, BoundsAssumption DEF TypeOK
<1>5. rewrites + Cardinality(Rework') + Cardinality(Late') <= faults' + Chunks * reruns
  <2> DEFINE budget == Chunks * reruns
  <2> HIDE DEF budget
  <2>. QED  BY <1>1, <1>2, <1>3, <1>4 DEF Paid, budget
<1>. QED  BY <1>2, <1>5 DEF Paid

(* One chunk more, or one engine, for a fault. *)
LEMMA FaultPays ==
  ASSUME TypeOK, TypeOK', Paid, rewrites' = rewrites, reruns' = reruns,
         faults' = faults + 1, NEW x,
         \/ Rework' \subseteq Rework \cup {x} /\ Late' \subseteq Late
         \/ Rework' \subseteq Rework /\ Late' \subseteq Late \cup {x}
  PROVE  Paid'
<1>1. /\ IsFiniteSet(Rework) /\ IsFiniteSet(Late)
      /\ Cardinality(Rework) \in Nat /\ Cardinality(Late) \in Nat
  BY ReworkIsFinite, FS_CardinalityType DEF Paid
<1>2. /\ IsFiniteSet(Rework \cup {x}) /\ IsFiniteSet(Late \cup {x})
      /\ Cardinality(Rework \cup {x}) <= Cardinality(Rework) + 1
      /\ Cardinality(Late \cup {x}) <= Cardinality(Late) + 1
      /\ Cardinality(Rework \cup {x}) \in Nat /\ Cardinality(Late \cup {x}) \in Nat
  <2>1. ASSUME NEW S, IsFiniteSet(S), Cardinality(S) \in Nat
        PROVE  /\ IsFiniteSet(S \cup {x}) /\ Cardinality(S \cup {x}) \in Nat
               /\ Cardinality(S \cup {x}) <= Cardinality(S) + 1
    <3>1. IsFiniteSet(S \cup {x}) /\ Cardinality(S \cup {x}) =
            IF x \in S THEN Cardinality(S) ELSE Cardinality(S) + 1
      BY <2>1, FS_AddElement
    <3>. QED  BY <2>1, <3>1
  <2>. QED  BY <1>1, <2>1
<1>3. /\ IsFiniteSet(Late') /\ IsFiniteSet(Rework')
      /\ \/ /\ Cardinality(Rework') <= Cardinality(Rework) + 1
            /\ Cardinality(Late') <= Cardinality(Late)
         \/ /\ Cardinality(Rework') <= Cardinality(Rework)
            /\ Cardinality(Late') <= Cardinality(Late) + 1
  <2>1. CASE Rework' \subseteq Rework \cup {x} /\ Late' \subseteq Late
    <3>1. /\ IsFiniteSet(Rework') /\ Cardinality(Rework') <= Cardinality(Rework \cup {x})
          /\ IsFiniteSet(Late') /\ Cardinality(Late') <= Cardinality(Late)
      BY <1>1, <1>2, <2>1, FS_Subset
    <3>2. Cardinality(Rework') \in Nat
      BY <3>1, FS_CardinalityType
    <3>. QED  BY <1>1, <1>2, <3>1, <3>2
  <2>2. CASE Rework' \subseteq Rework /\ Late' \subseteq Late \cup {x}
    <3>1. /\ IsFiniteSet(Late') /\ Cardinality(Late') <= Cardinality(Late \cup {x})
          /\ IsFiniteSet(Rework') /\ Cardinality(Rework') <= Cardinality(Rework)
      BY <1>1, <1>2, <2>2, FS_Subset
    <3>2. Cardinality(Late') \in Nat
      BY <3>1, FS_CardinalityType
    <3>. QED  BY <1>1, <1>2, <3>1, <3>2
  <2>. QED  BY <2>1, <2>2
<1>4. Cardinality(Rework') \in Nat /\ Cardinality(Late') \in Nat
  BY <1>3, FS_CardinalityType
<1>5. Chunks * reruns \in Nat /\ rewrites \in Nat /\ faults \in Nat
  BY BudgetIsNat
<1>6. rewrites + Cardinality(Rework') + Cardinality(Late') <= faults + 1 + Chunks * reruns
  <2> DEFINE budget == Chunks * reruns
  <2> HIDE DEF budget
  <2>. QED  BY <1>1, <1>3, <1>4, <1>5 DEF Paid, budget
<1>. QED  BY <1>3, <1>6 DEF Paid

(* A full re-run pays for the table. *)
LEMMA RerunPays ==
  ASSUME TypeOK, TypeOK', Paid, rewrites' = rewrites, reruns' = reruns + 1,
         faults' = faults, Late' = Late
  PROVE  Paid'
<1>1. /\ Cardinality(Rework) \in Nat /\ Cardinality(Late) \in Nat
      /\ Cardinality(Rework') \in 0..Chunks
  <2>1. Rework' \in SUBSET (1..Chunks)
    BY DEF TypeOK, Rework
  <2>2. Cardinality(Rework') \in 0..Chunks
    BY <2>1, ChunksAreFew
  <2>. QED  BY <2>2, ReworkIsFinite, FS_CardinalityType DEF Paid
<1>2. /\ Chunks * reruns' = Chunks * reruns + Chunks
      /\ Chunks * reruns \in Nat /\ rewrites \in Nat /\ faults \in Nat /\ Chunks \in Nat
  BY BudgetIsNat, BoundsAssumption
<1>3. rewrites + Cardinality(Rework') + Cardinality(Late)
        <= faults + (Chunks * reruns + Chunks)
  <2> DEFINE budget == Chunks * reruns
  <2> HIDE DEF budget
  <2>. QED  BY <1>1, <1>2 DEF Paid, budget
<1>. QED  BY <1>2, <1>3 DEF Paid

-----------------------------------------------------------------------------
(* A step that leaves the engines alone, but for those that end and have no
   chunk to record, and does not part an engine from the lease. *)
Calm ==
  /\ UNCHANGED <<table, checkpoint, rewrites, reruns>>
  /\ faults' >= faults
  /\ \A w \in Workers :
       /\ pc'[w] \in EngineSteps =>
            /\ pc'[w] = pc[w] /\ pos'[w] = pos[w]
            /\ Owns(w, "ingest")' => Owns(w, "ingest")
            /\ Holds(w) => Holds(w)'
       /\ Holds(w) /\ pc[w] = "checkpoint" => pc'[w] = "checkpoint"

LEMMA CalmKeeps ==
  ASSUME TypeOK, TypeOK', Paid, Calm
  PROVE  Paid'
<1>1. \A k : Ahead(k)' => Ahead(k)
  BY DEF Calm, Ahead, EngineSteps
<1>2. \A k : Recording(k) => Recording(k)'
  BY DEF Calm, Recording, EngineSteps
<1>3. Rework' \subseteq Rework
  BY <1>1, <1>2 DEF Calm, Rework
<1>4. Late' \subseteq Late
  BY DEF Calm, Late, EngineSteps
<1>. QED  BY <1>3, <1>4, NothingNew DEF Calm

(* The end of an attempt that is not about to record a chunk. *)
LEMMA EndingIsCalm ==
  ASSUME TypeOK, NEW w \in Workers, Ends(w), leaseLive' = leaseLive,
         UNCHANGED data, faults' >= faults,
         ~(Holds(w) /\ pc[w] = "checkpoint")
  PROVE  Calm
<1>1. /\ pc'[w] = "idle"
      /\ \A v \in Workers \ {w} : pc'[v] = pc[v] /\ pos'[v] = pos[v]
      /\ \A v \in Workers \ {w} :
           (leaseOwner'["ingest"] = v) <=> (leaseOwner["ingest"] = v)
  BY WorkersAssumption DEF Ends, Goto, TypeOK, Topics
<1>. QED  BY <1>1 DEF Calm, data, Holds, Owns, EngineSteps

(* Outside the engine nothing about the table is at stake. *)
LEMMA OutsideIsCalm ==
  ASSUME TypeOK, UNCHANGED data, faults' >= faults,
         leaseOwner'["ingest"] = leaseOwner["ingest"],
         leaseLive'["ingest"] = leaseLive["ingest"],
         \/ UNCHANGED <<pc, pos>>
         \/ \E w \in Workers :
              /\ pc[w] \notin EngineSteps /\ pc'[w] \notin EngineSteps
              /\ \A v \in Workers \ {w} : pc'[v] = pc[v] /\ pos'[v] = pos[v]
  PROVE  Calm
BY DEF Calm, data, Holds, Owns, EngineSteps

(* An engine that leaves. *)
LEMMA LeavingMakes ==
  ASSUME TypeOK, NEW w \in Workers, NEW step \in Steps \ EngineSteps, NEW result,
         Leaves(w, step, result)
  PROVE  /\ UNCHANGED data
         /\ pc'[w] \notin EngineSteps
         /\ \A v \in Workers \ {w} : pc'[v] = pc[v] /\ pos'[v] = pos[v]
         /\ \A v \in Workers \ {w} :
              /\ (leaseOwner'["ingest"] = v) <=> (leaseOwner["ingest"] = v)
              /\ Holds(v) <=> Holds(v)'
         /\ ~Owns(w, "ingest")'
<1>1. UNCHANGED data /\ pc'[w] = step
      /\ \A v \in Workers \ {w} : pc'[v] = pc[v] /\ pos'[v] = pos[v]
  BY DEF Leaves, Goto, RowsUnchanged, IngestUnchanged, data, TypeOK
<1>2. /\ leaseOwner'["ingest"] = IF leaseOwner["ingest"] = w THEN None
                                 ELSE leaseOwner["ingest"]
      /\ leaseOwner["ingest"] # w => leaseLive' = leaseLive
  BY DEF Leaves, Release, Owns, TypeOK, Topics, lease
<1>. QED  BY <1>1, <1>2, WorkersAssumption DEF Holds, Owns

-----------------------------------------------------------------------------
(* The steps of the engine. *)

LEMMA LeaveKeeps ==
  ASSUME TypeOK, TypeOK', Paid, NEW w \in Workers, NEW step \in Steps \ EngineSteps,
         NEW result, Leaves(w, step, result), pc[w] \in EngineSteps,
         \/ faults' >= faults /\ ~(Holds(w) /\ pc[w] = "checkpoint")
         \/ faults' = faults + 1
         \/ faults' = faults /\ pos[w] + 1 < checkpoint
  PROVE  Paid'
<1>1. /\ UNCHANGED <<table, checkpoint, rewrites, reruns>>
      /\ \A v \in Workers : pc'[v] \in EngineSteps =>
           /\ v # w /\ pc'[v] = pc[v] /\ pos'[v] = pos[v]
           /\ Owns(v, "ingest")' => Owns(v, "ingest")
           /\ Holds(v) <=> Holds(v)'
      /\ \A v \in Workers \ {w} : pc'[v] = pc[v]
  BY LeavingMakes DEF data, Owns
<1>2. CASE faults' >= faults /\ ~(Holds(w) /\ pc[w] = "checkpoint")
  <2>1. Calm
    BY <1>1, <1>2 DEF Calm
  <2>. QED  BY <2>1, CalmKeeps
<1>3. CASE Holds(w) /\ pc[w] = "checkpoint"
  <2>1. \A k : Ahead(k)' => Ahead(k)
    BY <1>1 DEF Ahead, EngineSteps
  <2>2. \A k : Recording(k) => k = pos[w] + 1
    BY <1>3 DEF Recording, Holds, Owns
  <2>3. Rework' \subseteq Rework \cup {pos[w] + 1}
    BY <1>1, <2>1, <2>2 DEF Rework
  <2>4. Late' \subseteq Late
    BY <1>1 DEF Late, EngineSteps
  <2>5. CASE faults' = faults + 1
    BY <1>1, <2>3, <2>4, <2>5, FaultPays
  <2>6. CASE faults' = faults /\ pos[w] + 1 < checkpoint
    <3>1. \A v \in Workers : Owns(v, "ingest") => v = w
      BY <1>3 DEF Holds, Owns
    <3>2. ~Owns(w, "ingest")'
      BY LeavingMakes
    <3>3. \A v \in Workers : ~Owns(v, "ingest")'
      BY <1>1, <3>1, <3>2, LeavingMakes DEF Owns
    <3>4. \A k : Ahead(k)' => k > checkpoint
      BY <1>1, <3>3 DEF Ahead
    <3>5. Rework' \subseteq Rework
      <4> SUFFICES ASSUME NEW k \in Rework'
                   PROVE  k \in Rework
        OBVIOUS
      <4>1. k \in table /\ k > checkpoint
        BY <1>1, <3>4 DEF Rework
      <4>2. k # pos[w] + 1
        BY <2>6, <4>1 DEF TypeOK
      <4>. QED  BY <2>2, <4>1, <4>2 DEF Rework, Ahead
    <3>6. faults' >= faults
      BY <2>6, BoundsAssumption DEF TypeOK
    <3>. QED  BY <1>1, <2>4, <3>5, <3>6, NothingNew
  <2>. QED  BY <1>3, <2>5, <2>6
<1>4. CASE faults' = faults + 1 \/ faults' = faults
  <2>1. faults' >= faults
    BY <1>4, BoundsAssumption DEF TypeOK
  <2>. QED  BY <1>2, <1>3, <2>1
<1>. QED  BY <1>2, <1>4

LEMMA StartKeeps ==
  ASSUME TypeOK, TypeOK', Paid, NEW w \in Workers, EngineStarts(w)
  PROVE  Paid'
<1>1. /\ UNCHANGED <<table, checkpoint, rewrites, reruns, faults>> /\ pc[w] = "engine"
      /\ \A v \in Workers \ {w} : pc'[v] = pc[v]
      /\ faults' >= faults
  BY BoundsAssumption DEF EngineStarts, Goto, RowsUnchanged, IngestUnchanged, TypeOK
<1>2. CASE Free("ingest")
  <2>1. /\ leaseOwner'["ingest"] = w /\ pc'[w] = "run" /\ pos'[w] = checkpoint
        /\ leaseLive'["ingest"]
    BY <1>2, WorkersAssumption DEF EngineStarts, Acquire, Goto, ResumeFrom, TypeOK, Topics
  <2>2. \A v \in Workers : ~Holds(v)
    BY <1>2, WorkersAssumption DEF Holds, Owns, Free
  <2>3. \A k : Ahead(k)' => k > checkpoint
    BY <1>1, <2>1 DEF Ahead, Owns
  <2>4. \A k : ~Recording(k)
    BY <2>2 DEF Recording
  <2>5. Rework' \subseteq Rework
    BY <1>1, <2>3, <2>4 DEF Rework, Ahead
  <2>6. Late' \subseteq Late
    BY <1>1, <2>1, <2>2 DEF Late
  <2>. QED  BY <1>1, <2>5, <2>6, NothingNew
<1>3. CASE ~Free("ingest")
  <2>1. Calm
    <3>1. pc'[w] \in {"nack", "dead"} /\ pos' = pos /\ lease' = lease
      BY <1>1, <1>3 DEF EngineStarts, Goto, TypeOK, lease
    <3>. QED  BY <1>1, <3>1, OutsideIsCalm
              DEF lease, data, EngineSteps, EngineStarts
  <2>. QED  BY <2>1, CalmKeeps
<1>. QED  BY <1>2, <1>3

LEMMA NextChunkKeeps ==
  ASSUME TypeOK, TypeOK', Paid, NEW w \in Workers, EngineNextChunk(w)
  PROVE  Paid'
<1>1. /\ UNCHANGED <<table, checkpoint, rewrites, reruns, pos, leaseOwner>>
      /\ faults' >= faults /\ pc[w] = "run" /\ pc'[w] = "insert"
      /\ \A v \in Workers \ {w} : pc'[v] = pc[v]
      /\ leaseOwner["ingest"] = w /\ leaseLive'["ingest"]
  BY BoundsAssumption DEF EngineNextChunk, Goto, Owns, Refresh, RowsUnchanged,
     IngestUnchanged, TypeOK, Topics
<1>2. \A v \in Workers : Holds(v) => v = w
  BY <1>1 DEF Holds, Owns
<1>3. \A k : Ahead(k)' => Ahead(k)
  BY <1>1 DEF Ahead, Owns
<1>4. \A k : ~Recording(k)
  BY <1>1, <1>2 DEF Recording
<1>5. Rework' \subseteq Rework
  BY <1>1, <1>3, <1>4 DEF Rework
<1>6. Late' \subseteq Late
  <2>1. Holds(w)'
    BY <1>1 DEF Holds, Owns
  <2>. QED  BY <1>1, <1>2, <2>1 DEF Late
<1>. QED  BY <1>1, <1>5, <1>6, NothingNew

LEMMA CheckpointKeeps ==
  ASSUME TypeOK, TypeOK', Paid, NEW w \in Workers, EngineCheckpoints(w)
  PROVE  Paid'
<1>1. /\ UNCHANGED <<table, rewrites, reruns, leaseOwner, leaseLive>>
      /\ faults' >= faults /\ pc[w] = "checkpoint" /\ pc'[w] = "run"
      /\ pos'[w] = pos[w] + 1 /\ checkpoint' = pos[w] + 1 /\ checkpoint' >= checkpoint
      /\ \A v \in Workers \ {w} : pc'[v] = pc[v] /\ pos'[v] = pos[v]
  BY BoundsAssumption DEF EngineCheckpoints, Monotonic, Goto, IngestUnchanged, TypeOK,
     lease
<1>2. ASSUME NEW k \in table, Ahead(k)'
      PROVE  Ahead(k) /\ (Recording(k) => Recording(k)')
  <2>1. k \in Int /\ checkpoint \in Int /\ pos[w] \in Int
    BY DEF TypeOK
  <2>2. CASE k > checkpoint'
    <3>1. k > checkpoint
      BY <1>1, <2>1, <2>2
    <3>2. ASSUME NEW v \in Workers, Holds(v), pc[v] = "checkpoint", k = pos[v] + 1
          PROVE  Recording(k)'
      <4>1. v # w
        BY <1>1, <2>1, <2>2, <3>2
      <4>. QED  BY <1>1, <3>2, <4>1 DEF Recording, Holds, Owns
    <3>. QED  BY <3>1, <3>2 DEF Ahead, Recording
  <2>3. ASSUME NEW v \in Workers, Owns(v, "ingest")',
               \/ pc'[v] \in {"run", "insert"} /\ k > pos'[v]
               \/ pc'[v] = "checkpoint" /\ k > pos'[v] + 1
        PROVE  Ahead(k) /\ (Recording(k) => Recording(k)')
    <3>1. CASE v = w
      BY <1>1, <2>2, <2>3, <3>1
    <3>2. CASE v # w
      <4>1. Ahead(k)
        BY <1>1, <2>3, <3>2 DEF Ahead, Owns
      <4>2. Recording(k) => Recording(k)'
        BY <1>1, <2>3, <3>2 DEF Recording, Holds, Owns
      <4>. QED  BY <4>1, <4>2
    <3>. QED  BY <3>1, <3>2
  <2>. QED  BY <1>2, <2>2, <2>3 DEF Ahead
<1>3. Rework' \subseteq Rework
  BY <1>1, <1>2 DEF Rework
<1>4. Late' \subseteq Late
  BY <1>1 DEF Late, Holds, Owns
<1>. QED  BY <1>1, <1>3, <1>4, NothingNew

(* An insert is of a chunk ahead, or by an engine that is late, or new. *)
LEMMA InsertKeeps ==
  ASSUME TypeOK, TypeOK', Paid, NEW w \in Workers, EngineInserts(w)
  PROVE  Paid'
<1> PICK k \in 1..Chunks : k = pos[w] + 1
  <2>1. pos[w] + 1 \in 1..Chunks
    BY DEF EngineInserts, TypeOK
  <2>. QED  BY <2>1
<1>1. /\ table' = table \cup {k} /\ pc[w] = "insert" /\ pc'[w] = "checkpoint"
      /\ rewrites' = IF k \in table THEN rewrites + 1 ELSE rewrites
      /\ \A v \in Workers \ {w} : pc'[v] = pc[v]
      /\ UNCHANGED <<checkpoint, pos, leaseOwner, leaseLive, reruns, faults>>
  BY DEF EngineInserts, Goto, IngestUnchanged, TypeOK, lease
<1>2. /\ IsFiniteSet(Rework) /\ IsFiniteSet(Late)
      /\ Cardinality(Rework) \in Nat /\ Cardinality(Late) \in Nat
      /\ Chunks * reruns \in Nat /\ faults \in Nat /\ rewrites \in Nat
  BY ReworkIsFinite, FS_CardinalityType, BudgetIsNat DEF Paid
<1>3. ASSUME NEW j, Ahead(j)', j # k, j \in table
      PROVE  Ahead(j)
  BY <1>1, <1>3 DEF Ahead, Owns, TypeOK
<1>4. \A j : Recording(j) => Recording(j)'
  BY <1>1 DEF Recording, Holds, Owns
<1>5. Rework' \subseteq Rework \cup {k}
  BY <1>1, <1>3, <1>4 DEF Rework
<1>6. CASE Holds(w)
  <2>1. Recording(k)'
    BY <1>1, <1>6 DEF Recording, Holds, Owns
  <2>2. Rework' \subseteq Rework \ {k}
    BY <1>5, <2>1 DEF Rework
  <2>3. Late' \subseteq Late
    BY <1>1 DEF Late, Holds, Owns
  <2>4. k \in table => k \in Rework
    BY <1>1, <1>6 DEF Rework, Ahead, Recording, Holds, Owns, TypeOK
  <2>5. /\ IsFiniteSet(Rework \ {k})
        /\ Cardinality(Rework \ {k}) =
             IF k \in Rework THEN Cardinality(Rework) - 1 ELSE Cardinality(Rework)
    BY <1>2, FS_RemoveElement
  <2>6. /\ Cardinality(Rework') <= Cardinality(Rework \ {k})
        /\ IsFiniteSet(Rework') /\ IsFiniteSet(Late')
        /\ Cardinality(Late') <= Cardinality(Late)
    BY <1>2, <2>2, <2>3, <2>5, FS_Subset
  <2>7. Cardinality(Rework') \in Nat /\ Cardinality(Late') \in Nat
    BY <2>6, FS_CardinalityType
  <2>8. rewrites' + Cardinality(Rework') + Cardinality(Late') <= faults + Chunks * reruns
    <3> DEFINE budget == Chunks * reruns
    <3> HIDE DEF budget
    <3>. QED  BY <1>1, <1>2, <2>4, <2>5, <2>6, <2>7 DEF Paid, budget
  <2>. QED  BY <1>1, <2>6, <2>8 DEF Paid
<1>7. CASE ~Holds(w)
  <2>1. w \in Late /\ Late' \subseteq Late \ {w}
    BY <1>1, <1>7 DEF Late, Holds, Owns
  <2>2. k \in table => Rework' \subseteq Rework
    <3> SUFFICES ASSUME k \in table, k \in Rework'
                 PROVE  k \in Rework
      BY <1>5
    <3>1. Ahead(k)
      BY <1>1 DEF Rework, Ahead, Owns, TypeOK
    <3>. QED  BY <1>4, <3>1 DEF Rework
  <2>3. /\ IsFiniteSet(Late \ {w}) /\ Cardinality(Late \ {w}) = Cardinality(Late) - 1
        /\ IsFiniteSet(Rework \cup {k})
        /\ Cardinality(Rework \cup {k}) =
             IF k \in Rework THEN Cardinality(Rework) ELSE Cardinality(Rework) + 1
    BY <1>2, <2>1, FS_RemoveElement, FS_AddElement
  <2>4. /\ IsFiniteSet(Late') /\ Cardinality(Late') <= Cardinality(Late) - 1
        /\ IsFiniteSet(Rework') /\ Cardinality(Rework') <= Cardinality(Rework \cup {k})
        /\ k \in table => Cardinality(Rework') <= Cardinality(Rework)
    BY <1>2, <1>5, <2>1, <2>2, <2>3, FS_Subset
  <2>5. Cardinality(Rework') \in Nat /\ Cardinality(Late') \in Nat
    BY <2>4, FS_CardinalityType
  <2>6. rewrites' + Cardinality(Rework') + Cardinality(Late') <= faults + Chunks * reruns
    <3> DEFINE budget == Chunks * reruns
    <3> HIDE DEF budget
    <3>. QED  BY <1>1, <1>2, <2>3, <2>4, <2>5 DEF Paid, budget
  <2>. QED  BY <1>1, <2>4, <2>6 DEF Paid
<1>. QED  BY <1>6, <1>7

-----------------------------------------------------------------------------
(* What goes wrong, and the re-run. *)

LEMMA CrashKeeps ==
  ASSUME TypeOK, TypeOK', Paid, NEW w \in Workers, Crash(w)
  PROVE  Paid'
<1>1. /\ Ends(w) /\ leaseLive' = leaseLive /\ UNCHANGED data
      /\ faults' = faults + 1 /\ faults' >= faults
  BY BoundsAssumption DEF Crash, Fault, TypeOK
<1>2. CASE ~(Holds(w) /\ pc[w] = "checkpoint")
  BY <1>1, <1>2, EndingIsCalm, CalmKeeps
<1>3. CASE Holds(w) /\ pc[w] = "checkpoint"
  <2>1. /\ pc'[w] = "idle"
        /\ \A v \in Workers \ {w} : pc'[v] = pc[v] /\ pos'[v] = pos[v]
        /\ \A v \in Workers \ {w} :
             (leaseOwner'["ingest"] = v) <=> (leaseOwner["ingest"] = v)
    BY <1>1, WorkersAssumption DEF Ends, Goto, TypeOK, Topics
  <2>2. \A k : Ahead(k)' => Ahead(k)
    BY <1>1, <2>1 DEF Ahead, Owns, data
  <2>3. \A k : Recording(k) => k = pos[w] + 1
    BY <1>3 DEF Recording, Holds, Owns
  <2>4. Rework' \subseteq Rework \cup {pos[w] + 1}
    BY <1>1, <2>2, <2>3 DEF Rework, data
  <2>5. Late' \subseteq Late
    BY <1>1, <2>1 DEF Late, Holds, Owns
  <2>. QED  BY <1>1, <2>4, <2>5, FaultPays DEF data
<1>. QED  BY <1>2, <1>3

LEMMA LeaseExpiresKeeps ==
  ASSUME TypeOK, TypeOK', Paid, NEW t \in Topics, LeaseExpires(t)
  PROVE  Paid'
<1>1. /\ UNCHANGED <<data, pc, pos>> /\ faults' >= faults /\ leaseLive[t]
      /\ leaseLive' = [leaseLive EXCEPT ![t] = FALSE]
  BY BoundsAssumption DEF LeaseExpires, Fault, TypeOK, attempts
<1>2. CASE t # "ingest"
  <2>1. /\ leaseOwner'["ingest"] = leaseOwner["ingest"]
        /\ leaseLive'["ingest"] = leaseLive["ingest"]
    BY <1>2 DEF LeaseExpires, TypeOK, Topics
  <2>. QED  BY <1>1, <2>1, OutsideIsCalm, CalmKeeps
<1>3. CASE t = "ingest" /\ leaseOwner["ingest"] \notin Workers
  <2>1. leaseOwner'["ingest"] = None
    BY <1>3 DEF LeaseExpires, TypeOK, Topics
  <2>2. Calm
    BY <1>1, <1>3, <2>1, WorkersAssumption DEF Calm, data, Holds, Owns
  <2>. QED  BY <2>2, CalmKeeps
<1>4. ASSUME NEW w \in Workers, t = "ingest", leaseOwner["ingest"] = w
      PROVE  Paid'
  <2>1. faults' = faults + 1 /\ leaseOwner' = leaseOwner /\ ~leaseLive'["ingest"]
    BY <1>1, <1>4 DEF LeaseExpires, Fault, TypeOK, Topics
  <2>2. \A k : Ahead(k)' <=> Ahead(k)
    BY <1>1, <2>1 DEF Ahead, Owns, data
  <2>3. CASE pc[w] = "checkpoint"
    <3>1. \A k : Recording(k) => k = pos[w] + 1
      BY <1>4 DEF Recording, Holds, Owns
    <3>2. Rework' \subseteq Rework \cup {pos[w] + 1}
      BY <1>1, <2>2, <3>1 DEF Rework, data
    <3>3. Late' \subseteq Late
      BY <1>1, <1>4, <2>3 DEF Late, Holds, Owns
    <3>. QED  BY <1>1, <2>1, <3>2, <3>3, FaultPays DEF data
  <2>4. CASE pc[w] # "checkpoint"
    <3>1. \A k : ~Recording(k)
      BY <1>4, <2>4 DEF Recording, Holds, Owns
    <3>2. Rework' \subseteq Rework
      BY <1>1, <2>2, <3>1 DEF Rework, data
    <3>3. Late' \subseteq Late \cup {w}
      BY <1>1, <1>4 DEF Late, Holds, Owns
    <3>. QED  BY <1>1, <2>1, <3>2, <3>3, FaultPays DEF data
  <2>. QED  BY <2>3, <2>4
<1>. QED  BY <1>2, <1>3, <1>4

LEMMA RetryKeeps ==
  ASSUME TypeOK, TypeOK', Paid, Retry
  PROVE  Paid'
<1>1. /\ UNCHANGED <<table, rewrites, pc, pos, leaseOwner, leaseLive, faults>>
      /\ faults' >= faults
  BY BoundsAssumption DEF Retry, DeskUnchanged, attempts, lease, TypeOK
<1>2. CASE UNCHANGED <<checkpoint, reruns>>
  BY <1>1, <1>2, OutsideIsCalm, CalmKeeps DEF data
<1>3. CASE reruns' = reruns + 1
  <2>1. Late' = Late
    BY <1>1 DEF Late, Holds, Owns
  <2>. QED  BY <1>1, <1>3, <2>1, RerunPays
<1>. QED  BY <1>2, <1>3 DEF Retry

-----------------------------------------------------------------------------
(* The other steps have nothing to do with the table. *)
LEMMA OthersKeep ==
  ASSUME TypeOK, TypeOK', Paid, NEW w \in Workers,
         \/ Receive(w) \/ ParseNext(w) \/ IngestNext(w) \/ ReceiptExpires(w)
         \/ Sigterm(w)
  PROVE  Paid'
<1>1. UNCHANGED data /\ faults' >= faults
  BY BoundsAssumption
     DEF Receive, ParseNext, ParseOutbox, ParseReplays, ParseLease, ParseMark,
     ParseStops, ParseFails, ParseStep, ParseFenced, ParseUnchanged, IngestNext, Watch,
     IngestMark, IngestWrites, IngestStage, Gate, GateWrites, Finalize, Halted,
     ReceiptExpires, Sigterm, Fault, RowsUnchanged, IngestUnchanged, data, TypeOK
<1>2. /\ leaseOwner'["ingest"] = leaseOwner["ingest"]
      /\ leaseLive'["ingest"] = leaseLive["ingest"]
  BY DEF Receive, ParseNext, ParseOutbox, ParseReplays, ParseLease, ParseMark,
     ParseStops, ParseFails, ParseStep, ParseFenced, ParseUnchanged, IngestNext, Watch,
     IngestMark, IngestWrites, IngestStage, Gate, GateWrites, Finalize, Halted,
     ReceiptExpires, Sigterm, lease, Acquire, Refresh, TypeOK, Topics
<1>3. CASE UNCHANGED <<pc, pos>>
  BY <1>1, <1>2, <1>3, OutsideIsCalm, CalmKeeps
<1>4. CASE /\ pc[w] \notin EngineSteps /\ pos' = pos
           /\ \E step \in Steps \ EngineSteps : Goto(w, step)
  <2>1. /\ pc'[w] \notin EngineSteps
        /\ \A v \in Workers \ {w} : pc'[v] = pc[v] /\ pos'[v] = pos[v]
    BY <1>4 DEF Goto, TypeOK
  <2>. QED  BY <1>1, <1>2, <1>4, <2>1, OutsideIsCalm, CalmKeeps
<1>5. UNCHANGED <<pc, pos>> \/ Watch(w) \/ ReceiptExpires(w) \/ Sigterm(w)
      => UNCHANGED <<pc, pos>>
  BY DEF Watch, ReceiptExpires, Sigterm
<1>6. CASE Receive(w) \/ ParseNext(w)
  BY <1>4, <1>6 DEF Receive, ParseNext, ParseOutbox, ParseReplays, ParseLease,
     ParseMark, ParseStops, ParseFails, ParseStep, ParseFenced, ParseUnchanged, Steps,
     ParseSteps, IngestSteps, EngineSteps
<1>7. CASE IngestNext(w) /\ ~Watch(w)
  BY <1>4, <1>7 DEF IngestNext, IngestMark, IngestWrites, IngestStage, Gate,
     GateWrites, Finalize, Halted, Steps, IngestSteps, EngineSteps
<1>. QED  BY <1>3, <1>5, <1>6, <1>7

LEMMA EndKeeps ==
  ASSUME TypeOK, TypeOK', Paid, NEW w \in Workers, Ack(w) \/ Nack(w) \/ DeadLetter(w)
  PROVE  Paid'
<1>1. /\ Ends(w) /\ leaseLive' = leaseLive /\ UNCHANGED data /\ faults' >= faults
      /\ pc[w] # "checkpoint"
  BY BoundsAssumption DEF Ack, Nack, DeadLetter, Bury, TypeOK
<1>. QED  BY <1>1, EndingIsCalm, CalmKeeps

LEMMA EngineKeeps ==
  ASSUME TypeOK, TypeOK', Paid, NEW w \in Workers, EngineNext(w)
  PROVE  Paid'
<1>1. {"halted", "nack", "gate"} \subseteq Steps \ EngineSteps
  BY DEF Steps, IngestSteps, EngineSteps
<1>2. CASE EngineHalts(w) \/ EngineSurrenders(w) \/ EngineReturns(w)
  <2>1. pc[w] = "run" /\ faults' >= faults
    BY <1>2, BoundsAssumption DEF EngineHalts, EngineSurrenders, EngineReturns, TypeOK
  <2>2. \E step \in Steps \ EngineSteps, result \in {"none", "success"} :
          Leaves(w, step, result)
    BY <1>1, <1>2 DEF EngineHalts, EngineSurrenders, EngineReturns
  <2>. QED  BY <2>1, <2>2, LeaveKeeps DEF EngineSteps
<1>3. CASE EngineFails(w)
  <2>1. Leaves(w, "gate", "error") /\ pc[w] \in EngineSteps
    BY <1>3 DEF EngineFails, EngineSteps
  <2>2. \/ faults' >= faults /\ pc[w] # "checkpoint"
        \/ faults' = faults + 1
        \/ faults' = faults /\ pos[w] + 1 < checkpoint
    BY <1>3, BoundsAssumption DEF EngineFails, Fault, TypeOK
  <2>. QED  BY <1>1, <2>1, <2>2, LeaveKeeps
<1>. QED  BY <1>2, <1>3, StartKeeps, NextChunkKeeps, InsertKeeps, CheckpointKeeps
          DEF EngineNext

LEMMA DeskKeeps ==
  ASSUME TypeOK, TypeOK', Paid,
         \/ Submit \/ Cancel \/ Pause \/ Resume \/ DeskCrash
         \/ DlqReconcile \/ DlqCrash \/ StaleRecovery \/ StaleCrash
  PROVE  Paid'
<1>1. UNCHANGED <<data, lease, attempts>>
  BY Zenon DEF Submit, Cancel, Pause, Resume, DeskCrash, DlqReconcile, DlqCrash,
     StaleRecovery, StaleCrash, DeskUnchanged, data
<1>2. faults' = faults \/ Fault
  BY Zenon DEF Submit, Cancel, Pause, Resume, DeskCrash, DlqReconcile, DlqCrash,
     StaleRecovery, StaleCrash, DeskUnchanged
<1>3. faults' >= faults
  BY <1>2, BoundsAssumption DEF Fault, TypeOK
<1>. QED  BY <1>1, <1>3, OutsideIsCalm, CalmKeeps DEF lease, attempts

LEMMA StepIsPaidFor ==
  ASSUME TypeOK, TypeOK', Paid, [Next]_vars
  PROVE  Paid'
<1>1. CASE UNCHANGED vars
  BY <1>1 DEF vars, data, lease, attempts, Paid, Rework, Ahead, Recording, Late,
     Holds, Owns
<1>2. ASSUME NEW w \in Workers, WorkerNext(w)
      PROVE  Paid'
  BY <1>2, OthersKeep, EndKeeps, EngineKeeps DEF WorkerNext
<1>3. CASE DeskNext
  BY <1>3, DeskKeeps, RetryKeeps DEF DeskNext
<1>4. CASE Faults
  BY <1>4, OthersKeep, CrashKeeps, DeskKeeps DEF Faults
<1>. QED  BY <1>1, <1>2, <1>3, <1>4, LeaseExpiresKeeps, DeskKeeps DEF Next

(* A crash, a shutdown, a lost receipt or a lost lease costs at most one chunk
   written twice, a full re-run at most the table, however many attempts
   overlap: the lease is refreshed before each insert, an insert is followed by
   its checkpoint, and the checkpoint never goes back (LeaseController,
   write_checkpoint, the engine's resume). *)
THEOREM RewritesArePaid == Spec => []RewritesArePaidFor
<1>1. Init => Paid
  <2> SUFFICES ASSUME Init
               PROVE  Paid
    OBVIOUS
  <2>1. Rework = {} /\ Late = {}
    BY DEF Init, Rework, Late
  <2>2. rewrites = 0 /\ faults = 0 /\ reruns = 0 /\ Chunks * reruns = 0
    BY BoundsAssumption DEF Init
  <2>. QED  BY <2>1, <2>2, FS_EmptySet DEF Paid
<1>2. TypeOK /\ TypeOK' /\ Paid /\ [Next]_vars => Paid'
  BY StepIsPaidFor
<1>3. TypeOK /\ Paid => RewritesArePaidFor
  <2> SUFFICES ASSUME TypeOK, Paid
               PROVE  RewritesArePaidFor
    OBVIOUS
  <2>1. Cardinality(Rework) \in Nat /\ Cardinality(Late) \in Nat
    BY ReworkIsFinite, FS_CardinalityType DEF Paid
  <2>2. Chunks * reruns \in Nat /\ faults \in Nat /\ rewrites \in Nat
    BY BudgetIsNat
  <2> DEFINE budget == Chunks * reruns
  <2> HIDE DEF budget
  <2>. QED  BY <2>1, <2>2 DEF Paid, RewritesArePaidFor, budget
<1>. QED  BY <1>1, <1>2, <1>3, TypeCorrect, PTL DEF Spec
=============================================================================

--------------------------- MODULE MCIngestPipeline ---------------------------
(* One job of the ingestion fleet. *)
EXTENDS IngestPipeline, TLC

CONSTANTS p1, p2, i1, i2

(* Workers of one kind are interchangeable. *)
WorkerSymmetry == Permutations(ParseWorkers) \cup Permutations(IngestWorkers)

(* Side by side are at most two attempts, of one kind or of both, and one of the
   two reconcilers and the request of the operator. *)
Working == {w \in Workers : pc[w] # "idle"}
ThreeAtATime ==
  /\ Cardinality(Working) <= 2
  /\ desk # NoRequest => dlqCron = NoDlq /\ staleCron = "idle"
  /\ dlqCron # NoDlq => staleCron = "idle"
=============================================================================

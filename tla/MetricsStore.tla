----------------------------- MODULE MetricsStore -----------------------------
(***************************************************************************)
(* The table of polled values after migration 011 has partitioned it by    *)
(* month: the worker inserts and prunes, and the backfill job copies the   *)
(* rows of the table's predecessor, metrics_legacy, in batches and drops   *)
(* it when none remains.  The job's statements are transactions of their   *)
(* own, so the worker and a second job run between them, and a job can be  *)
(* killed after any of them.                                               *)
(*                                                                         *)
(* Months are counted; month m is the calendar month m % 12 + 1 of year    *)
(* m \div 12.  A row lies in the partition of its month when there is one  *)
(* and in metrics_default otherwise: PostgreSQL refuses to create a        *)
(* partition while the default one holds rows of its range.                *)
(***************************************************************************)
EXTENDS Naturals, FiniteSets, FiniteSetsExt

CONSTANTS
    Legacy,     (* rows [id, month] that migration 011 leaves in metrics_legacy *)
    Jobs,       (* runs of the backfill job that may overlap               *)
    BatchSize,  (* --batch-size                                            *)
    Retain,     (* NMS_METRICS_RETENTION_MONTHS                            *)
    First,      (* the month in which migration 011 runs                   *)
    MaxMonth,   (* bound: months                                           *)
    MaxId       (* bound: values of the sequence                           *)

ASSUME MetricsAssumption ==
    /\ Retain \in Nat \ {0} /\ BatchSize \in Nat \ {0}
    /\ First \in Nat /\ First >= Retain
    /\ MaxMonth \in Nat /\ MaxId \in Nat
    /\ IsFiniteSet(Legacy)
    /\ \A r \in Legacy : r.id \in Nat /\ r.month \in 0..First
    /\ \A r, s \in Legacy : r.id = s.id => r = s

VARIABLES
    month,      (* the month of NOW()                                      *)
    parts,      (* months that have a partition                            *)
    metrics,    (* rows of table metrics                                   *)
    legacy,     (* rows of metrics_legacy                                  *)
    exists,     (* whether metrics_legacy exists                           *)
    nextId,     (* metrics_id_seq; 0 when the sequence is gone             *)
    pc,         (* where each backfill job is                              *)
    final,      (* whether the job was given --finalize                    *)
    pruned      (* history: rows the retention has removed                 *)

vars == <<month, parts, metrics, legacy, exists, nextId, pc, final, pruned>>
jobVars == <<pc, final>>

(* Mutant: the sequence starts behind the partitioned table alone. *)
FirstIdOfMetrics == 1

(* setval past the ids of both tables; metrics is still empty. *)
FirstId == Max({0} \union {r.id : r \in Legacy}) + 1

Init ==
    /\ month = First
    /\ parts = {First - 1, First, First + 1, First + 2}
    /\ metrics = {} /\ legacy = Legacy /\ exists = TRUE
    /\ nextId = FirstId
    /\ pc = [j \in Jobs |-> "idle"] /\ final = [j \in Jobs |-> FALSE]
    /\ pruned = {}

-----------------------------------------------------------------------------
(* The worker *)

(* INSERT INTO metrics without an id, which the sequence provides; without *)
(* the sequence every insert is refused, because id may not be null.       *)
SaveMetric ==
    /\ nextId \in 1..MaxId
    /\ metrics' = metrics \union {[id |-> nextId, month |-> month]}
    /\ nextId' = nextId + 1
    /\ UNCHANGED <<month, parts, legacy, exists, jobVars, pruned>>

KeepFrom == month + 1 - Retain

(* What to_date makes of the name of m's partition: substr(name, 16, 2)    *)
(* is the last digit of the month alone, and month 0 means January.        *)
PartitionMonth(m) ==
    LET digit == ((m % 12) + 1) % 10
    IN  12 * (m \div 12) + (IF digit = 0 THEN 1 ELSE digit) - 1

Ensured == parts \union {month, month + 1}

(* ensure_metrics_partition_for raises when the default partition holds    *)
(* rows of the month.                                                      *)
CanEnsure == \A r \in metrics : r.month \in {month, month + 1} => r.month \in parts

Outdated == {m \in Ensured : PartitionMonth(m) < KeepFrom}

(* Mutant: only whole partitions are dropped, as before migration 016. *)
KeptByDropping ==
    {r \in metrics : r.month \notin Outdated}

(* A partition is dropped by its name, a row of metrics_default by its     *)
(* timestamp.                                                              *)
Kept ==
    {r \in metrics : IF r.month \in Ensured THEN r.month \notin Outdated
                                            ELSE r.month >= KeepFrom}

(* prune_old_metrics_partitions, called at the start of the worker and     *)
(* once a day; an error rolls everything back and is logged.               *)
PruneOldMetricPartitions ==
    /\ CanEnsure
    /\ parts' = Ensured \ Outdated
    /\ metrics' = Kept
    /\ pruned' = pruned \union (metrics \ Kept)
    /\ UNCHANGED <<month, legacy, exists, nextId, jobVars>>

NextMonth ==
    /\ month < MaxMonth
    /\ month' = month + 1
    /\ UNCHANGED <<parts, metrics, legacy, exists, nextId, jobVars, pruned>>

-----------------------------------------------------------------------------
(* The backfill job *)

Goto(j, l) == pc' = [pc EXCEPT ![j] = l]
others == <<month, parts, nextId, pruned>>

(* metricsLegacyExists *)
StartJob(j) ==
    /\ pc[j] = "idle"
    /\ exists
    /\ Goto(j, "copy")
    /\ \E f \in BOOLEAN : final' = [final EXCEPT ![j] = f]
    /\ UNCHANGED <<others, metrics, legacy, exists>>

Remaining == legacy \ metrics

(* The rows with the lowest ids of those that remain. *)
Batch == {r \in Remaining : Cardinality({s \in Remaining : s.id < r.id}) < BatchSize}

CopyBatch(j) ==
    /\ pc[j] = "copy"
    /\ exists
    /\ metrics' = metrics \union Batch
    /\ IF Batch = {} THEN Goto(j, "count") ELSE UNCHANGED pc
    /\ UNCHANGED <<others, legacy, exists, final>>

(* A dry run copies nothing, and --max-batches ends the copying early. *)
StopCopying(j) ==
    /\ pc[j] = "copy"
    /\ Goto(j, "count")
    /\ UNCHANGED <<others, metrics, legacy, exists, final>>

(* Mutant: the job that was told to finalize does not look at the rest. *)
CountNothing(j) ==
    /\ pc[j] = "count"
    /\ exists
    /\ Goto(j, IF final[j] THEN "drop" ELSE "idle")
    /\ UNCHANGED <<others, metrics, legacy, exists, final>>

(* remainingRows *)
CountRemaining(j) ==
    /\ pc[j] = "count"
    /\ exists
    /\ Goto(j, IF final[j] /\ Remaining = {} THEN "drop" ELSE "idle")
    /\ UNCHANGED <<others, metrics, legacy, exists, final>>

(* DROP TABLE IF EXISTS metrics_legacy CASCADE.  The table's id column     *)
(* owns metrics_id_seq since migration 001 (BIGSERIAL): the sequence goes  *)
(* with it, and with the sequence the default of metrics.id.               *)
DropLegacyTable(j) ==
    /\ pc[j] = "drop"
    /\ Goto(j, "idle")
    /\ legacy' = {} /\ exists' = FALSE
    /\ nextId' = 0
    /\ UNCHANGED <<month, parts, metrics, final, pruned>>

(* A timeout, a failed statement or a kill. *)
JobDies(j) ==
    /\ pc[j] # "idle"
    /\ Goto(j, "idle")
    /\ UNCHANGED <<others, metrics, legacy, exists, final>>

Backfill(j) ==
    \/ StartJob(j) \/ CopyBatch(j) \/ StopCopying(j)
    \/ CountRemaining(j) \/ DropLegacyTable(j) \/ JobDies(j)

Worker == SaveMetric \/ PruneOldMetricPartitions

Next == Worker \/ NextMonth \/ \E j \in Jobs : Backfill(j)

Spec == Init /\ [][Next]_vars

-----------------------------------------------------------------------------
(* Properties *)

(* An id names one measurement, although the worker draws ids from the     *)
(* sequence while the backfill job inserts rows with the ids they had.     *)
IdsUnique == \A r, s \in metrics \union pruned \union Legacy : r.id = s.id => r = s

(* metrics_legacy is given up only when all of it is in metrics or has     *)
(* been there until the retention removed it, although the count and the   *)
(* drop are two statements and jobs overlap, stop early and die.           *)
DropLosesNothing == ~exists => Legacy \subseteq metrics \union pruned

Misdated(m) == (m % 12) + 1 \in 10..12

(* A prune that succeeds leaves nothing behind that is older than the      *)
(* retention, in a partition, in the default one or copied late.  What it  *)
(* removes is older, but for partitions of October to December, whose      *)
(* names it reads as months of the beginning of the year.                  *)
PruneIsExact ==
    [][PruneOldMetricPartitions =>
          /\ \A r \in metrics' : r.month >= KeepFrom
          /\ \A r \in metrics \ metrics' : r.month < KeepFrom \/ Misdated(r.month)]_vars
=============================================================================

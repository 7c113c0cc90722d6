-------------------------- MODULE MetricsStore_proofs --------------------------
(***************************************************************************)
(* What every instance of MetricsStore satisfies, whatever the legacy      *)
(* rows, the jobs, the batch size and the retention.                       *)
(***************************************************************************)
EXTENDS MetricsStore, FiniteSetTheorems, WellFoundedInduction, TLAPS

-----------------------------------------------------------------------------
(* The sequence starts past every id *)

(* A finite, nonempty set of numbers has a greatest one: otherwise there   *)
(* would be a smallest set without, and taking an element from it leaves   *)
(* either nothing or a set that has a greatest.                            *)
LEMMA FiniteSetHasMax ==
    ASSUME NEW S \in SUBSET Nat, IsFiniteSet(S), S # {}
    PROVE  Max(S) \in S /\ \A x \in S : Max(S) >= x
<1> DEFINE HasMax(T) == \E m \in T : \A x \in T : m >= x
           Bad == {T \in FiniteSubsetsOf(Nat) : T # {} /\ ~HasMax(T)}
<1>1. Bad = {}
  <2> SUFFICES ASSUME Bad # {} PROVE FALSE
    OBVIOUS
  <2>1. PICK T \in Bad : \A U \in Bad : <<U, T>> \notin StrictSubsetOrdering(Nat)
    <3>1. Bad \subseteq FiniteSubsetsOf(Nat)
      OBVIOUS
    <3> QED
      BY <3>1, WFMin, FS_StrictSubsetOrderingWellFounded
  <2>2. T \subseteq Nat /\ IsFiniteSet(T) /\ T # {} /\ ~HasMax(T)
    BY DEF FiniteSubsetsOf
  <2>3. PICK x \in T : TRUE
    BY <2>2
  <2>4. IsFiniteSet(T \ {x}) /\ T \ {x} \in SUBSET Nat /\ T \ {x} # T
    BY <2>2, FS_RemoveElement
  <2>5. T \ {x} \notin Bad
    BY <2>1, <2>2, <2>4 DEF StrictSubsetOrdering
  <2>6. CASE T \ {x} = {}
    <3>1. \A y \in T : y = x
      BY <2>6
    <3> QED
      BY <3>1, <2>2
  <2>7. CASE T \ {x} # {}
    <3>1. PICK m \in T \ {x} : \A y \in T \ {x} : m >= y
      BY <2>4, <2>5, <2>7 DEF FiniteSubsetsOf
    <3>2. CASE m >= x
      BY <3>1, <3>2, <2>2
    <3>3. CASE ~(m >= x)
      <4>1. \A y \in T : x >= y
        BY <3>1, <3>3, <2>2
      <4> QED
        BY <4>1, <2>2
    <3> QED
      BY <3>2, <3>3
  <2> QED
    BY <2>6, <2>7
<1>2. HasMax(S)
  BY <1>1 DEF FiniteSubsetsOf
<1> QED
  BY <1>2 DEF Max

LEMMA FirstIdIsNew ==
    /\ FirstId \in Nat \ {0}
    /\ \A r \in Legacy : r.id < FirstId
<1> DEFINE ids == {r.id : r \in Legacy}
           S == {0} \union ids
<1>1. IsFiniteSet(ids)
  <2> DEFINE f == [r \in Legacy |-> r.id]
  <2>1. f \in Surjection(Legacy, ids)
    BY DEF Surjection
  <2> QED
    BY <2>1, FS_Surjection, MetricsAssumption
<1>2. S \in SUBSET Nat /\ 0 \in S
  BY MetricsAssumption
<1>3. IsFiniteSet(S)
  BY <1>1, FS_Union, FS_Singleton
<1>4. \A r \in Legacy : r.id \in S
  OBVIOUS
<1>5. FirstId = Max(S) + 1
  BY DEF FirstId
<1> HIDE DEF S
<1>6. Max(S) \in S /\ \A x \in S : Max(S) >= x
  BY <1>2, <1>3, FiniteSetHasMax
<1>7. Max(S) \in Nat
  BY <1>2, <1>6
<1>8. ASSUME NEW r \in Legacy PROVE r.id < FirstId
  BY <1>4, <1>5, <1>6, <1>7, MetricsAssumption
<1> QED
  BY <1>5, <1>7, <1>8

-----------------------------------------------------------------------------
(* The invariant *)

(* Every row that has ever been stored. *)
Rows == metrics \union pruned \union Legacy

TypeOK ==
    /\ month \in Nat /\ nextId \in Nat
    /\ pc \in [Jobs -> {"idle", "copy", "count", "drop"}]
    /\ legacy = IF exists THEN Legacy ELSE {}
    /\ \A r \in Rows : r.id \in Nat /\ r.month \in Nat

(* The sequence is past every id, the legacy ones included, as long as it  *)
(* exists.                                                                 *)
IdsAreSpent == nextId # 0 => \A r \in Rows : r.id < nextId

(* A job about to drop the table has seen that nothing remains; what is in *)
(* metrics by then stays there or is pruned.                               *)
DropIsSafe == (\E j \in Jobs : pc[j] = "drop") => Legacy \subseteq metrics \union pruned

IndInv == TypeOK /\ IdsAreSpent /\ IdsUnique /\ DropIsSafe /\ DropLosesNothing

LEMMA InitIndInv == Init => IndInv
<1> SUFFICES ASSUME Init PROVE IndInv
  OBVIOUS
<1>1. Rows = Legacy /\ nextId = FirstId
  BY DEF Init, Rows
<1>2. TypeOK
  BY <1>1, FirstIdIsNew, MetricsAssumption DEF Init, TypeOK
<1>3. IdsAreSpent
  BY <1>1, FirstIdIsNew DEF IdsAreSpent
<1>4. IdsUnique
  BY MetricsAssumption DEF Init, IdsUnique
<1> QED
  BY <1>2, <1>3, <1>4 DEF Init, IndInv, DropIsSafe, DropLosesNothing

(* A step that stores no new row and leaves the sequence alone or removes  *)
(* it keeps what is known of the ids.                                      *)
LEMMA SameRowsKeepIds ==
    ASSUME IndInv, Rows' = Rows, nextId' \in {0, nextId}
    PROVE  IdsAreSpent' /\ IdsUnique'
<1>1. IdsAreSpent'
  BY DEF IndInv, IdsAreSpent
<1>2. IdsUnique'
  BY DEF IndInv, IdsUnique, Rows
<1> QED
  BY <1>1, <1>2

(* An insert takes an id that no row has. *)
LEMMA SaveMetricStep ==
    ASSUME IndInv, SaveMetric
    PROVE  IndInv'
<1> DEFINE row == [id |-> nextId, month |-> month]
<1>1. Rows' = Rows \union {row} /\ nextId' = nextId + 1 /\ nextId # 0
  BY DEF SaveMetric, Rows
<1>2. nextId \in Nat /\ month \in Nat /\ row.id = nextId /\ row.month = month
  BY DEF IndInv, TypeOK
<1>3. \A r \in Rows : r.id < nextId /\ r.id \in Nat /\ r.month \in Nat
  BY <1>1 DEF IndInv, TypeOK, IdsAreSpent
<1> HIDE DEF row
<1>4. \A r \in Rows' : r.id \in Nat /\ r.month \in Nat /\ r.id < nextId'
  BY <1>1, <1>2, <1>3
<1>5. TypeOK'
  BY <1>1, <1>2, <1>4 DEF IndInv, TypeOK, SaveMetric, jobVars
<1>6. IdsAreSpent'
  BY <1>4 DEF IdsAreSpent
<1>7. IdsUnique'
  <2>1. \A r \in Rows : r.id # row.id
    BY <1>2, <1>3
  <2>2. \A r, s \in Rows : r.id = s.id => r = s
    BY DEF IndInv, IdsUnique, Rows
  <2>3. \A r, s \in Rows' : r.id = s.id => r = s
    BY <1>1, <2>1, <2>2
  <2> QED
    BY <2>3 DEF IdsUnique, Rows
<1>8. DropIsSafe' /\ DropLosesNothing'
  BY DEF IndInv, DropIsSafe, DropLosesNothing, SaveMetric, jobVars
<1> QED
  BY <1>5, <1>6, <1>7, <1>8 DEF IndInv

(* Pruning moves rows from the table to the history. *)
LEMMA PruneStep ==
    ASSUME IndInv, PruneOldMetricPartitions
    PROVE  IndInv'
<1>1. metrics' \union pruned' = metrics \union pruned
  BY DEF PruneOldMetricPartitions, Kept
<1>2. Rows' = Rows
  BY <1>1 DEF Rows
<1>3. UNCHANGED <<month, nextId, pc, legacy, exists>>
  BY DEF PruneOldMetricPartitions, jobVars
<1>4. TypeOK'
  BY <1>2, <1>3 DEF IndInv, TypeOK
<1>5. IdsAreSpent' /\ IdsUnique'
  BY <1>2, <1>3, SameRowsKeepIds
<1>6. DropIsSafe' /\ DropLosesNothing'
  BY <1>1, <1>3 DEF IndInv, DropIsSafe, DropLosesNothing
<1> QED
  BY <1>4, <1>5, <1>6 DEF IndInv

(* The job's statements store no row that metrics_legacy did not have. *)
LEMMA BackfillStep ==
    ASSUME IndInv, NEW j \in Jobs, Backfill(j)
    PROVE  IndInv'
<1> USE DEF IndInv, TypeOK, others, Goto
<1>1. Batch \subseteq Legacy /\ pruned' = pruned /\ month' = month
  BY DEF Batch, Remaining, Backfill, StartJob, CopyBatch, StopCopying,
         CountRemaining, DropLegacyTable, JobDies
<1>2. metrics' \in {metrics, metrics \union Batch}
  BY DEF Backfill, StartJob, CopyBatch, StopCopying,
         CountRemaining, DropLegacyTable, JobDies
<1>3. Rows' = Rows /\ metrics \subseteq metrics'
  BY <1>1, <1>2 DEF Rows
<1>4. nextId' \in {0, nextId}
  BY DEF Backfill, StartJob, CopyBatch, StopCopying,
         CountRemaining, DropLegacyTable, JobDies
<1>5. TypeOK'
  <2>1. legacy' = IF exists' THEN Legacy ELSE {}
    BY DEF Backfill, StartJob, CopyBatch, StopCopying,
           CountRemaining, DropLegacyTable, JobDies
  <2>2. pc' \in [Jobs -> {"idle", "copy", "count", "drop"}]
    BY DEF Backfill, StartJob, CopyBatch, StopCopying,
           CountRemaining, DropLegacyTable, JobDies
  <2> QED
    BY <1>1, <1>3, <1>4, <2>1, <2>2
<1>6. IdsAreSpent' /\ IdsUnique'
  BY <1>3, <1>4, SameRowsKeepIds
<1>7. DropIsSafe'
  <2>1. CASE CountRemaining(j)
    <3>1. CASE Remaining = {}
      <4>1. Legacy \subseteq metrics
        BY <2>1, <3>1 DEF CountRemaining, Remaining
      <4> QED
        BY <4>1, <1>3 DEF DropIsSafe
    <3>2. CASE Remaining # {}
      <4>1. \A i \in Jobs : pc'[i] = "drop" => pc[i] = "drop"
        BY <2>1, <3>2 DEF CountRemaining
      <4> QED
        BY <4>1, <1>1, <1>3 DEF DropIsSafe
    <3> QED
      BY <3>1, <3>2
  <2>2. CASE ~CountRemaining(j)
    <3>1. \A i \in Jobs : pc'[i] = "drop" => pc[i] = "drop"
      BY <2>2 DEF Backfill, StartJob, CopyBatch, StopCopying, DropLegacyTable, JobDies
    <3> QED
      BY <3>1, <1>1, <1>3 DEF DropIsSafe
  <2> QED
    BY <2>1, <2>2
<1>8. DropLosesNothing'
  <2>1. CASE DropLegacyTable(j)
    BY <2>1, <1>1, <1>3 DEF DropLegacyTable, DropIsSafe, DropLosesNothing
  <2>2. CASE ~DropLegacyTable(j)
    <3>1. exists' = exists
      BY <2>2 DEF Backfill, StartJob, CopyBatch, StopCopying, CountRemaining, JobDies
    <3> QED
      BY <3>1, <1>1, <1>3 DEF DropLosesNothing
  <2> QED
    BY <2>1, <2>2
<1> QED
  BY <1>5, <1>6, <1>7, <1>8

LEMMA NextKeepsIndInv == IndInv /\ [Next]_vars => IndInv'
<1> SUFFICES ASSUME IndInv, [Next]_vars PROVE IndInv'
  OBVIOUS
<1>1. CASE SaveMetric
  BY <1>1, SaveMetricStep
<1>2. CASE PruneOldMetricPartitions
  BY <1>2, PruneStep
<1>3. CASE NextMonth
  <2>1. Rows' = Rows
    BY <1>3 DEF NextMonth, Rows
  <2> QED
    BY <1>3, <2>1, SameRowsKeepIds
    DEF IndInv, TypeOK, DropIsSafe, DropLosesNothing, NextMonth, jobVars
<1>4. CASE \E j \in Jobs : Backfill(j)
  BY <1>4, BackfillStep
<1>5. CASE UNCHANGED vars
  <2>1. Rows' = Rows
    BY <1>5 DEF vars, Rows
  <2> QED
    BY <1>5, <2>1, SameRowsKeepIds
    DEF IndInv, TypeOK, DropIsSafe, DropLosesNothing, vars
<1> QED
  BY <1>1, <1>2, <1>3, <1>4, <1>5 DEF Next, Worker

(* The inductive invariant holds in every state. *)
THEOREM InvariantHolds == Spec => []IndInv
  BY InitIndInv, NextKeepsIndInv, PTL DEF Spec

(* No two measurements ever share an id, the copied ones included: an      *)
(* insert draws a number beyond every id stored before, and is refused     *)
(* when the sequence is gone.                                              *)
THEOREM IdsStayUnique == Spec => []IdsUnique
<1>1. IndInv => IdsUnique
  BY DEF IndInv
<1> QED
  BY <1>1, InvariantHolds, PTL

(* However many backfill jobs overlap, stop early or die, the legacy table *)
(* is dropped only after all its rows have reached metrics.                *)
THEOREM NothingIsLost == Spec => []DropLosesNothing
<1>1. IndInv => DropLosesNothing
  BY DEF IndInv
<1> QED
  BY <1>1, InvariantHolds, PTL

-----------------------------------------------------------------------------
(* What a prune removes *)

(* The date read from a partition's name is its month or, for the last     *)
(* three months of a year, an earlier one.                                 *)
LEMMA PartitionMonthIsMonth ==
    ASSUME NEW m \in Nat
    PROVE  /\ PartitionMonth(m) \in Int
           /\ PartitionMonth(m) <= m
           /\ PartitionMonth(m) = m \/ Misdated(m)
<1> DEFINE k == m % 12
           y == m \div 12
           d == (k + 1) % 10
<1>1. k \in 0..11 /\ y \in Nat /\ m = 12 * y + k
  OBVIOUS
<1>2. PartitionMonth(m) = 12 * y + (IF d = 0 THEN 1 ELSE d) - 1
  BY DEF PartitionMonth
<1>3. Misdated(m) <=> k + 1 \in 10..12
  BY DEF Misdated
<1> HIDE DEF k, y
<1>4. CASE k <= 8
  <2>1. d = k + 1
    BY <1>1, <1>4
  <2> QED
    BY <1>1, <1>2, <1>4, <2>1
<1>5. CASE k \in 9..11
  <2>1. d = k - 9
    BY <1>1, <1>5
  <2> QED
    BY <1>1, <1>2, <1>3, <1>5, <2>1
<1> QED
  BY <1>1, <1>4, <1>5

(* A prune that succeeds leaves no row behind that is older than the       *)
(* retention, and removes a younger one only when it lies in a partition   *)
(* of October to December, whose name it misreads.                         *)
THEOREM PruningIsExact == Spec => PruneIsExact
<1> DEFINE Exact == PruneOldMetricPartitions =>
          /\ \A r \in metrics' : r.month >= KeepFrom
          /\ \A r \in metrics \ metrics' : r.month < KeepFrom \/ Misdated(r.month)
<1>1. ASSUME IndInv, PruneOldMetricPartitions
      PROVE  /\ \A r \in metrics' : r.month >= KeepFrom
             /\ \A r \in metrics \ metrics' : r.month < KeepFrom \/ Misdated(r.month)
  <2>1. KeepFrom \in Int
    BY <1>1, MetricsAssumption DEF IndInv, TypeOK, KeepFrom
  <2>2. \A r \in metrics : r.month \in Nat
    BY <1>1 DEF IndInv, TypeOK, Rows
  <2>3. metrics' = Kept
    BY <1>1 DEF PruneOldMetricPartitions
  <2>4. ASSUME NEW r \in metrics' PROVE r.month >= KeepFrom
    <3>1. r \in metrics /\ r.month \in Nat
      BY <2>2, <2>3 DEF Kept
    <3>2. CASE r.month \in Ensured
      <4>1. ~(PartitionMonth(r.month) < KeepFrom)
        BY <2>3, <3>2 DEF Kept, Outdated
      <4> QED
        BY <2>1, <3>1, <4>1, PartitionMonthIsMonth
    <3>3. CASE r.month \notin Ensured
      BY <2>3, <3>3 DEF Kept
    <3> QED
      BY <3>2, <3>3
  <2>5. ASSUME NEW r \in metrics \ metrics' PROVE r.month < KeepFrom \/ Misdated(r.month)
    <3>1. r.month \in Nat
      BY <2>2
    <3>2. CASE r.month \in Ensured
      <4>1. PartitionMonth(r.month) < KeepFrom
        BY <2>3, <3>2 DEF Kept, Outdated
      <4> QED
        BY <3>1, <4>1, PartitionMonthIsMonth
    <3>3. CASE r.month \notin Ensured
      <4>1. ~(r.month >= KeepFrom)
        BY <2>3, <3>3 DEF Kept
      <4> QED
        BY <2>1, <3>1, <4>1
    <3> QED
      BY <3>2, <3>3
  <2> QED
    BY <2>4, <2>5
<1>2. IndInv /\ [Next]_vars => [Exact]_vars
  BY <1>1
<1> QED
  BY <1>2, InvariantHolds, PTL DEF Spec, PruneIsExact
=============================================================================

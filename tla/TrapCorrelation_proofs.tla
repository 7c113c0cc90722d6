------------------------ MODULE TrapCorrelation_proofs ------------------------
(***************************************************************************)
(* What the locks of the trap transactions achieve, for any number of      *)
(* alarms, recoveries and others.                                          *)
(***************************************************************************)
EXTENDS TrapCorrelation, SequenceTheorems, TLAPS

-----------------------------------------------------------------------------
(* The invariant *)

Labels == {"idle", "begun", "choose", "touch", "touched", "insert", "open", "one", "unacked",
           "recover", "change", "escalate", "done", "cancelled"}

Incidents == [open : BOOLEAN, updated : Nat]

TypeOK ==
    /\ clock \in Nat
    /\ rows \in Seq(Incidents)
    /\ owner \in Seq(Transactions \union {Nobody})
    /\ Len(owner) = Len(rows)
    /\ pc \in [Transactions -> Labels]
    /\ start \in [Transactions -> Nat]
    /\ want \in [Transactions -> SUBSET Nat]
    /\ seen \in [Recoveries -> SUBSET Ids]
    /\ since \in [Alarms -> SUBSET Nat]

(* A recovery goes the recovery's way. *)
KindKept == \A t \in Recoveries : pc[t] \in {"idle", "open", "recover", "done", "cancelled"}

(* An alarm that has begun to look at the incidents holds the lock of the  *)
(* key.                                                                    *)
HasLock ==
    \A t \in Alarms : pc[t] \in {"choose", "touch", "touched", "insert"} => advisory = t

(* What an alarm that is about to insert has found is still so, of the     *)
(* rows nobody has written without the lock of the key.                    *)
StillQuiet ==
    \A t \in Alarms : pc[t] = "insert" =>
        \A i \in OpenRows \ since[t] : rows[i].updated + Window < start[t]

(* A row the recovery has found open is still to be locked, or locked, or  *)
(* somebody else has resolved it.                                          *)
NoneForgotten ==
    \A t \in Recoveries : pc[t] = "recover" =>
        \A i \in seen[t] : i \in want[t] \/ owner[i] = t \/ ~rows[i].open

IndInv == TypeOK /\ KindKept /\ HasLock /\ StillQuiet /\ NoneForgotten /\ RecoveryIsComplete

LEMMA InitIndInv == Init => IndInv
<1> SUFFICES ASSUME Init PROVE IndInv
  OBVIOUS
<1>1. (\A t \in Transactions : pc[t] = "idle") /\ (\A t \in Recoveries : seen[t] = {})
  BY DEF Init
<1>2. TypeOK
  BY DEF Init, TypeOK, Ids, Labels
<1>3. KindKept /\ HasLock /\ StillQuiet /\ NoneForgotten /\ RecoveryIsComplete
  BY <1>1 DEF KindKept, HasLock, StillQuiet, NoneForgotten, RecoveryIsComplete, Transactions
<1> QED
  BY <1>2, <1>3 DEF IndInv

(* Rows keep their place, keep their type and never open again. *)
RowsKept ==
    /\ rows' \in Seq(Incidents)
    /\ owner' \in Seq(Transactions \union {Nobody})
    /\ Len(owner') = Len(rows')
    /\ Len(rows) <= Len(rows')
    /\ \A i \in Ids : rows'[i].open => rows[i].open

LEMMA UnchangedRowsKept ==
    ASSUME IndInv, UNCHANGED rows, owner' \in Seq(Transactions \union {Nobody}),
           Len(owner') = Len(owner)
    PROVE  RowsKept
BY DEF IndInv, TypeOK, RowsKept, Ids

(* Granting row i to transaction t. *)
LEMMA GrantType ==
    ASSUME IndInv, NEW t \in Transactions, NEW i, owner' = [owner EXCEPT ![i] = t]
    PROVE  owner' \in Seq(Transactions \union {Nobody}) /\ Len(owner') = Len(owner)
<1>1. /\ Len(owner) \in Nat /\ DOMAIN owner = 1..Len(owner)
      /\ \A k \in 1..Len(owner) : owner[k] \in Transactions \union {Nobody}
  BY ElementOfSeq DEF IndInv, TypeOK
<1>2. owner' \in [1..Len(owner) -> Transactions \union {Nobody}]
  BY <1>1
<1> QED
  BY <1>1, <1>2, SeqDef

LEMMA ReleaseType ==
    ASSUME IndInv, NEW t \in Transactions, Release(t)
    PROVE  /\ owner' \in Seq(Transactions \union {Nobody}) /\ Len(owner') = Len(owner)
           /\ \A i \in Ids : owner'[i] = IF owner[i] = t THEN Nobody ELSE owner[i]
<1>1. DOMAIN owner = 1..Len(owner) /\ Len(owner) \in Nat /\ Len(owner) = Len(rows)
  BY DEF IndInv, TypeOK
<1>2. \A i \in 1..Len(owner) : owner[i] \in Transactions \union {Nobody}
  BY ElementOfSeq DEF IndInv, TypeOK
<1>3. owner' \in [1..Len(owner) -> Transactions \union {Nobody}]
  BY <1>1, <1>2 DEF Release
<1>4. owner' \in Seq(Transactions \union {Nobody}) /\ Len(owner') = Len(owner)
  BY <1>1, <1>3, SeqDef
<1> QED
  BY <1>1, <1>4 DEF Release, Ids

-----------------------------------------------------------------------------
(* The steps *)

(* Steps that write no row: what is left to show is that the transaction   *)
(* that takes the step keeps its part of the invariant.                    *)

LEMMA BeginStep ==
    ASSUME IndInv, NEW t \in Transactions, Begin(t)
    PROVE  IndInv'
<1>1. /\ pc'[t] \in {"begun", "open", "one", "unacked"}
      /\ t \in Recoveries => pc'[t] = "open"
      /\ \A u \in Transactions \ {t} : pc'[u] = pc[u]
  BY CorrelationAssumption DEF Begin, Goto, IndInv, TypeOK
<1>2. \A u \in Transactions \ {t} : start'[u] = start[u]
  BY DEF Begin, IndInv, TypeOK
<1>3. UNCHANGED <<rows, owner, advisory, want, seen, since>>
  BY DEF Begin, tables, history
<1>4. TypeOK'
  BY <1>3 DEF Begin, Goto, IndInv, TypeOK, Labels, Ids
<1>5. HasLock' /\ KindKept'
  BY <1>1, <1>3 DEF IndInv, HasLock, KindKept, Transactions
<1>6. StillQuiet'
  BY <1>1, <1>2, <1>3 DEF IndInv, StillQuiet, OpenRows, Ids, Transactions
<1>7. NoneForgotten' /\ RecoveryIsComplete'
  BY <1>1, <1>3 DEF IndInv, NoneForgotten, RecoveryIsComplete, OpenRows, Ids, Transactions
<1> QED
  BY <1>4, <1>5, <1>6, <1>7 DEF IndInv

LEMMA TakeLockStep ==
    ASSUME IndInv, NEW t \in Alarms, TakeLock(t)
    PROVE  IndInv'
<1>1. /\ pc'[t] = "choose" /\ t \in Transactions
      /\ \A u \in Transactions \ {t} : pc'[u] = pc[u]
  BY DEF TakeLock, Goto, IndInv, TypeOK, Transactions
<1>2. UNCHANGED <<rows, owner, want, seen, since, start>> /\ t \notin Recoveries
  BY CorrelationAssumption DEF TakeLock, tables, history
<1>3. TypeOK'
  BY <1>2 DEF TakeLock, Goto, IndInv, TypeOK, Labels, Ids
<1>4. HasLock'
  <2>1. \A u \in Alarms : u # Nobody
    BY CorrelationAssumption
  <2> QED
    BY <1>1, <2>1 DEF TakeLock, IndInv, HasLock, Transactions
<1>5. StillQuiet' /\ KindKept'
  BY <1>1, <1>2 DEF IndInv, StillQuiet, KindKept, OpenRows, Ids, Transactions
<1>6. NoneForgotten' /\ RecoveryIsComplete'
  BY <1>1, <1>2 DEF IndInv, NoneForgotten, RecoveryIsComplete, OpenRows, Ids, Transactions
<1> QED
  BY <1>3, <1>4, <1>5, <1>6 DEF IndInv

LEMMA ChooseStep ==
    ASSUME IndInv, NEW t \in Alarms, Choose(t)
    PROVE  IndInv'
<1>1. /\ pc[t] = "choose" /\ pc'[t] \in {"insert", "touch"} /\ t \in Transactions
      /\ \A u \in Transactions \ {t} : pc'[u] = pc[u] /\ want'[u] = want[u]
      /\ t \notin Recoveries
  BY CorrelationAssumption DEF Choose, Goto, IndInv, TypeOK, Transactions
<1>2. UNCHANGED <<rows, owner, seen, since, start, clock, advisory>>
  BY DEF Choose, tables, history
<1>3. TypeOK'
  <2>1. Recent(t) \subseteq Nat
    BY DEF Recent, OpenRows, Ids
  <2>2. want' \in [Transactions -> SUBSET Nat]
    BY <2>1, ZenonT(30) DEF Choose, IndInv, TypeOK
  <2> QED
    BY <1>2, <2>2 DEF Choose, Goto, IndInv, TypeOK, Labels, Ids
<1>4. HasLock' /\ KindKept'
  BY <1>1, <1>2 DEF IndInv, HasLock, KindKept, Transactions
<1>5. StillQuiet'
  <2>1. ASSUME pc'[t] = "insert", NEW i \in OpenRows
        PROVE  rows[i].updated + Window < start[t]
    <3>1. Recent(t) = {}
      BY <1>1, <2>1 DEF Choose, Goto, IndInv, TypeOK
    <3>2. rows[i] \in Incidents
      BY ElementOfSeq DEF OpenRows, Ids, IndInv, TypeOK
    <3>3. rows[i].updated + Window \in Nat /\ start[t] \in Nat
      BY <1>1, <3>2, CorrelationAssumption DEF Incidents, IndInv, TypeOK
    <3> QED
      BY <3>1, <3>3 DEF Recent
  <2> QED
    BY <1>1, <1>2, <2>1 DEF IndInv, StillQuiet, OpenRows, Ids, Transactions
<1>6. NoneForgotten' /\ RecoveryIsComplete'
  BY <1>1, <1>2 DEF IndInv, NoneForgotten, RecoveryIsComplete, OpenRows, Ids, Transactions
<1> QED
  BY <1>3, <1>4, <1>5, <1>6 DEF IndInv

LEMMA LockChosenStep ==
    ASSUME IndInv, NEW t \in Alarms, LockChosen(t)
    PROVE  IndInv'
<1>1. /\ pc[t] = "touch" /\ pc'[t] = "touched" /\ t \in Transactions /\ t \notin Recoveries
      /\ \A u \in Transactions \ {t} : pc'[u] = pc[u] /\ want'[u] = want[u]
  BY CorrelationAssumption DEF LockChosen, Goto, IndInv, TypeOK, Transactions
<1>2. UNCHANGED <<rows, seen, since, start, clock, advisory>>
  BY DEF LockChosen, history
<1>3. PICK i : owner[i] = Nobody /\ owner' = [owner EXCEPT ![i] = t]
  BY DEF LockChosen
<1>4. owner' \in Seq(Transactions \union {Nobody}) /\ Len(owner') = Len(owner)
  BY <1>1, <1>3, GrantType
<1>5. TypeOK'
  BY <1>2, <1>4 DEF LockChosen, Goto, IndInv, TypeOK, Labels, Ids
<1>6. HasLock' /\ KindKept'
  BY <1>1, <1>2 DEF IndInv, HasLock, KindKept, Transactions
<1>7. StillQuiet'
  BY <1>1, <1>2 DEF IndInv, StillQuiet, OpenRows, Ids, Transactions
<1>8. NoneForgotten'
  <2>1. ASSUME NEW u \in Recoveries, NEW k \in seen[u], owner[k] = u
        PROVE  owner'[k] = u
    <3>1. k \in DOMAIN owner /\ u # Nobody
      BY CorrelationAssumption DEF IndInv, TypeOK, Ids, Transactions
    <3> QED
      BY <1>3, <2>1, <3>1
  <2> QED
    BY <1>1, <1>2, <2>1 DEF IndInv, NoneForgotten, Transactions
<1>9. RecoveryIsComplete'
  BY <1>1, <1>2 DEF IndInv, RecoveryIsComplete, OpenRows, Ids, Transactions
<1> QED
  BY <1>5, <1>6, <1>7, <1>8, <1>9 DEF IndInv

LEMMA SelectStep ==
    ASSUME IndInv, NEW t \in Transactions, t \notin Alarms,
           SelectOpen(t) \/ SelectOne(t) \/ SelectUnacked(t)
    PROVE  IndInv'
<1>1. /\ pc'[t] \in {"recover", "change", "escalate"}
      /\ t \in Recoveries => pc'[t] = "recover" /\ seen'[t] = want'[t]
      /\ \A u \in Transactions \ {t} : pc'[u] = pc[u] /\ want'[u] = want[u]
      /\ \A u \in Recoveries \ {t} : seen'[u] = seen[u]
  BY DEF SelectOpen, SelectOne, SelectUnacked, Goto, history, IndInv, TypeOK, KindKept
<1>2. UNCHANGED <<rows, owner, start, clock, advisory, since>>
  BY DEF SelectOpen, SelectOne, SelectUnacked, tables, history
<1>3. TypeOK'
  <2>1. OpenRows \in SUBSET Ids /\ Ids \in SUBSET Nat
    BY DEF OpenRows, Ids
  <2>2. want' \in [Transactions -> SUBSET Nat]
    <3>1. \E W \in SUBSET Ids : want' = [want EXCEPT ![t] = W]
      <4>1. CASE SelectOpen(t)
        BY <2>1, <4>1 DEF SelectOpen
      <4>2. CASE SelectOne(t)
        <5>1. PICK i \in Ids : want' = [want EXCEPT ![t] = {i}]
          BY <4>2 DEF SelectOne
        <5>2. {i} \in SUBSET Ids
          OBVIOUS
        <5> QED
          BY <5>1, <5>2
      <4>3. CASE SelectUnacked(t)
        <5>1. PICK W \in SUBSET OpenRows : want' = [want EXCEPT ![t] = W]
          BY <4>3 DEF SelectUnacked
        <5> QED
          BY <2>1, <5>1
      <4> QED
        BY <4>1, <4>2, <4>3
    <3>2. PICK W \in SUBSET Ids : want' = [want EXCEPT ![t] = W]
      BY <3>1
    <3>3. W \in SUBSET Nat
      BY <2>1
    <3> QED
      BY <3>2, <3>3 DEF IndInv, TypeOK
  <2>3. seen' \in [Recoveries -> SUBSET Ids]
    <3>1. seen' = seen \/ seen' = [seen EXCEPT ![t] = OpenRows]
      BY DEF SelectOpen, SelectOne, SelectUnacked, history
    <3> QED
      BY <2>1, <3>1 DEF IndInv, TypeOK
  <2>4. pc' \in [Transactions -> Labels]
    BY DEF SelectOpen, SelectOne, SelectUnacked, Goto, IndInv, TypeOK, Labels
  <2> QED
    BY <1>2, <2>2, <2>3, <2>4 DEF IndInv, TypeOK, Ids
<1>4. HasLock' /\ KindKept'
  BY <1>1, <1>2 DEF IndInv, HasLock, KindKept, Transactions
<1>5. StillQuiet'
  BY <1>1, <1>2 DEF IndInv, StillQuiet, OpenRows, Ids, Transactions
<1>6. NoneForgotten'
  BY <1>1, <1>2 DEF IndInv, NoneForgotten, Transactions
<1>7. RecoveryIsComplete'
  BY <1>1, <1>2 DEF IndInv, RecoveryIsComplete, OpenRows, Ids, Transactions
<1> QED
  BY <1>3, <1>4, <1>5, <1>6, <1>7 DEF IndInv

(* The row is locked now, or a recovery finds it resolved. *)
LEMMA LockNextStep ==
    ASSUME IndInv, NEW t \in Transactions, t \notin Alarms, LockNext(t)
    PROVE  IndInv'
<1> DEFINE i == Front(t)
<1>1. /\ pc' = pc
      /\ \A u \in Transactions \ {t} : want'[u] = want[u]
      /\ want'[t] = want[t] \ {i}
  BY DEF LockNext, IndInv, TypeOK
<1>2. UNCHANGED <<rows, seen, since, start, clock, advisory>>
  BY DEF LockNext, history
<1>3. /\ owner[i] = Nobody
      /\ \/ owner' = [owner EXCEPT ![i] = t]
         \/ owner' = owner /\ Passed(t, i)
  BY DEF LockNext
<1>4. want' \in [Transactions -> SUBSET Nat]
  BY DEF LockNext, IndInv, TypeOK
<1> HIDE DEF i
<1>5. owner' \in Seq(Transactions \union {Nobody}) /\ Len(owner') = Len(owner)
  BY <1>3, GrantType DEF IndInv, TypeOK
<1>6. TypeOK'
  BY <1>1, <1>2, <1>4, <1>5 DEF IndInv, TypeOK, Ids
<1>7. HasLock' /\ KindKept'
  BY <1>1, <1>2 DEF IndInv, HasLock, KindKept
<1>8. StillQuiet'
  BY <1>1, <1>2 DEF IndInv, StillQuiet, OpenRows, Ids
<1>9. NoneForgotten'
  <2> SUFFICES ASSUME NEW u \in Recoveries, pc[u] = "recover", NEW k \in seen[u]
               PROVE  k \in want'[u] \/ owner'[k] = u \/ ~rows[k].open
    BY <1>1, <1>2 DEF NoneForgotten
  <2>1. k \in DOMAIN owner /\ u # Nobody /\ u \in Transactions
    BY CorrelationAssumption DEF IndInv, TypeOK, Ids, Transactions
  <2>2. k \in want[u] \/ owner[k] = u \/ ~rows[k].open
    BY DEF IndInv, NoneForgotten
  <2>3. CASE owner[k] = u
    BY <1>3, <2>1, <2>3
  <2>4. CASE k \in want[u] /\ rows[k].open
    <3>1. CASE u = t /\ k = i
      BY <1>3, <2>1, <2>4, <3>1 DEF Passed
    <3>2. CASE u # t \/ k # i
      BY <1>1, <2>1, <2>4, <3>2
    <3> QED
      BY <3>1, <3>2
  <2> QED
    BY <2>2, <2>3, <2>4
<1>10. RecoveryIsComplete'
  BY <1>1, <1>2 DEF IndInv, RecoveryIsComplete, OpenRows, Ids
<1> QED
  BY <1>6, <1>7, <1>8, <1>9, <1>10 DEF IndInv

(* What a step that ends transaction t and opens no row leaves of the      *)
(* recoveries' part of the invariant.                                      *)
LEMMA OthersNotForgotten ==
    ASSUME IndInv, NEW t \in Transactions, RowsKept, UNCHANGED seen,
           \A u \in Transactions \ {t} : pc'[u] = pc[u] /\ want'[u] = want[u],
           pc'[t] # "recover",
           \A i \in Ids : owner[i] # t => owner'[i] = owner[i],
           t \in Recoveries /\ pc'[t] = "done" => \A i \in seen[t] : ~rows'[i].open
    PROVE  NoneForgotten' /\ RecoveryIsComplete'
<1>1. \A u \in Recoveries : seen[u] \subseteq Ids /\ u \in Transactions
  BY DEF IndInv, TypeOK, Transactions
<1>2. NoneForgotten'
  <2> SUFFICES ASSUME NEW u \in Recoveries, pc'[u] = "recover", NEW i \in seen[u]
               PROVE  i \in want'[u] \/ owner'[i] = u \/ ~rows'[i].open
    BY DEF NoneForgotten
  <2>1. u # t /\ i \in Ids /\ pc[u] = "recover" /\ want'[u] = want[u]
    BY <1>1
  <2>2. i \in want[u] \/ owner[i] = u \/ ~rows[i].open
    BY <2>1 DEF IndInv, NoneForgotten
  <2> QED
    BY <2>1, <2>2 DEF RowsKept
<1>3. RecoveryIsComplete'
  <2> SUFFICES ASSUME NEW u \in Recoveries, pc'[u] = "done", NEW i \in seen[u]
               PROVE  ~rows'[i].open
    BY DEF RecoveryIsComplete, OpenRows
  <2>1. CASE u # t
    <3>1. i \notin OpenRows
      BY <1>1, <2>1 DEF IndInv, RecoveryIsComplete
    <3> QED
      BY <1>1, <3>1 DEF RowsKept, OpenRows
  <2>2. CASE u = t
    BY <2>2
  <2> QED
    BY <2>1, <2>2
<1> QED
  BY <1>2, <1>3

LEMMA CommitTouchStep ==
    ASSUME IndInv, NEW t \in Alarms, CommitTouch(t)
    PROVE  IndInv'
<1>1. /\ pc[t] = "touched" /\ pc'[t] = "done" /\ t \in Transactions /\ t \notin Recoveries
      /\ \A u \in Transactions \ {t} : pc'[u] = pc[u]
  BY CorrelationAssumption DEF CommitTouch, End, Goto, IndInv, TypeOK, Transactions
<1>2. /\ UNCHANGED <<seen, since, clock, want>> /\ start' \in [Transactions -> Nat]
      /\ pc' \in [Transactions -> Labels]
  BY DEF CommitTouch, End, Goto, history, IndInv, TypeOK, Labels
<1>3. /\ owner' \in Seq(Transactions \union {Nobody}) /\ Len(owner') = Len(owner)
      /\ \A i \in Ids : owner'[i] = IF owner[i] = t THEN Nobody ELSE owner[i]
  BY <1>1, ReleaseType DEF CommitTouch
<1>4. RowsKept /\ Len(rows') = Len(rows)
  <2>1. \A i \in Ids : rows[i] \in Incidents
    BY ElementOfSeq DEF Ids, IndInv, TypeOK
  <2>2. start[t] \in Nat /\ Len(rows) \in Nat
    BY <1>1 DEF IndInv, TypeOK
  <2>3. \A i \in Ids : rows'[i] \in Incidents /\ rows'[i].open = rows[i].open
    BY <2>1, <2>2 DEF CommitTouch, Incidents
  <2>4. rows' \in [1..Len(rows) -> Incidents]
    BY <2>3 DEF CommitTouch, Ids
  <2>5. rows' \in Seq(Incidents) /\ Len(rows') = Len(rows)
    BY <2>2, <2>4, SeqDef
  <2> QED
    BY <1>3, <2>2, <2>3, <2>5 DEF RowsKept, IndInv, TypeOK
<1>5. TypeOK'
  <2>1. advisory' = Nobody
    BY DEF CommitTouch
  <2> QED
    BY <1>2, <1>4, <2>1 DEF IndInv, TypeOK, Ids, RowsKept
<1>6. \A u \in Alarms \ {t} : pc[u] \notin {"choose", "touch", "touched", "insert"}
  BY <1>1 DEF IndInv, HasLock
<1>7. HasLock' /\ StillQuiet' /\ KindKept'
  BY <1>1, <1>6 DEF IndInv, HasLock, StillQuiet, KindKept, Transactions
<1>8. NoneForgotten' /\ RecoveryIsComplete'
  BY <1>1, <1>2, <1>3, <1>4, OthersNotForgotten
<1> QED
  BY <1>5, <1>7, <1>8 DEF IndInv

LEMMA CommitInsertStep ==
    ASSUME IndInv, NEW t \in Alarms, CommitInsert(t)
    PROVE  IndInv'
<1>1. /\ pc[t] = "insert" /\ pc'[t] = "done" /\ t \in Transactions /\ t \notin Recoveries
      /\ \A u \in Transactions \ {t} : pc'[u] = pc[u]
  BY CorrelationAssumption DEF CommitInsert, End, Goto, IndInv, TypeOK, Transactions
<1>2. /\ UNCHANGED <<seen, clock, want>> /\ start' \in [Transactions -> Nat]
      /\ pc' \in [Transactions -> Labels] /\ since' \in [Alarms -> SUBSET Nat]
  BY DEF CommitInsert, End, Goto, IndInv, TypeOK, Labels
<1> DEFINE new == [open |-> TRUE, updated |-> start[t]]
<1>3. new \in Incidents
  BY <1>1 DEF IndInv, TypeOK, Incidents
<1>4. /\ rows' = Append(rows, new) /\ owner' = Append(owner, Nobody)
      /\ rows \in Seq(Incidents) /\ owner \in Seq(Transactions \union {Nobody})
      /\ Len(owner) = Len(rows) /\ Len(rows) \in Nat
  BY DEF CommitInsert, NewRow, IndInv, TypeOK
<1> HIDE DEF new
<1>5. /\ rows' \in Seq(Incidents) /\ Len(rows') = Len(rows) + 1
      /\ owner' \in Seq(Transactions \union {Nobody}) /\ Len(owner') = Len(owner) + 1
      /\ \A i \in Ids : rows'[i] = rows[i] /\ owner'[i] = owner[i]
  BY <1>3, <1>4, AppendProperties DEF Ids
<1>6. RowsKept
  BY <1>4, <1>5 DEF RowsKept, Ids
<1>7. TypeOK'
  <2>1. Ids \subseteq Ids'
    BY <1>4, <1>5 DEF Ids
  <2> QED
    BY <1>2, <1>4, <1>5, <2>1 DEF IndInv, TypeOK
<1>8. \A u \in Alarms \ {t} : pc[u] \notin {"choose", "touch", "touched", "insert"}
  BY <1>1 DEF IndInv, HasLock
<1>9. HasLock' /\ StillQuiet' /\ KindKept'
  BY <1>1, <1>8 DEF IndInv, HasLock, StillQuiet, KindKept, Transactions
<1>10. NoneForgotten' /\ RecoveryIsComplete'
  BY <1>1, <1>2, <1>5, <1>6, OthersNotForgotten
<1> QED
  BY <1>7, <1>9, <1>10 DEF IndInv

LEMMA CommitResolveStep ==
    ASSUME IndInv, NEW t \in Transactions, t \notin Alarms, CommitResolve(t)
    PROVE  IndInv'
<1>1. /\ pc'[t] = "done" /\ want[t] = {} /\ (t \in Recoveries => pc[t] = "recover")
      /\ \A u \in Transactions \ {t} : pc'[u] = pc[u] /\ start'[u] = start[u]
  BY DEF CommitResolve, End, Goto, IndInv, TypeOK, KindKept
<1>2. /\ UNCHANGED <<seen, since, clock, want, advisory>> /\ start' \in [Transactions -> Nat]
      /\ pc' \in [Transactions -> Labels]
  BY DEF CommitResolve, End, Goto, history, IndInv, TypeOK, Labels
<1>3. /\ owner' \in Seq(Transactions \union {Nobody}) /\ Len(owner') = Len(owner)
      /\ \A i \in Ids : owner'[i] = IF owner[i] = t THEN Nobody ELSE owner[i]
  BY ReleaseType DEF CommitResolve
<1>4. \A i \in Ids : rows'[i].open => owner[i] # t /\ rows'[i] = rows[i]
  <2>1. \A i \in Ids : rows[i] \in Incidents
    BY ElementOfSeq DEF Ids, IndInv, TypeOK
  <2> QED
    BY <2>1 DEF CommitResolve, Incidents
<1>5. RowsKept /\ Len(rows') = Len(rows)
  <2>1. \A i \in Ids : rows[i] \in Incidents
    BY ElementOfSeq DEF Ids, IndInv, TypeOK
  <2>2. start[t] \in Nat /\ Len(rows) \in Nat
    BY DEF IndInv, TypeOK
  <2>3. \A i \in Ids : rows'[i] \in Incidents
    BY <2>1, <2>2 DEF CommitResolve, Incidents
  <2>4. rows' \in [1..Len(rows) -> Incidents]
    BY <2>3 DEF CommitResolve, Ids
  <2>5. rows' \in Seq(Incidents) /\ Len(rows') = Len(rows)
    BY <2>2, <2>4, SeqDef
  <2> QED
    BY <1>3, <1>4, <2>2, <2>5 DEF RowsKept, IndInv, TypeOK
<1>6. TypeOK'
  BY <1>2, <1>5 DEF IndInv, TypeOK, Ids, RowsKept
<1>7. HasLock' /\ KindKept'
  BY <1>1, <1>2 DEF IndInv, HasLock, KindKept, Transactions
<1>8. StillQuiet'
  <2>1. \A i \in OpenRows' : i \in OpenRows /\ rows'[i] = rows[i]
    BY <1>4, <1>5 DEF OpenRows, Ids
  <2> QED
    BY <1>1, <1>2, <2>1 DEF IndInv, StillQuiet, Transactions
<1>9. NoneForgotten' /\ RecoveryIsComplete'
  <2>1. ASSUME t \in Recoveries, NEW i \in seen[t] PROVE ~rows'[i].open
    <3>1. i \in Ids /\ (owner[i] = t \/ ~rows[i].open)
      BY <1>1, <2>1 DEF IndInv, TypeOK, NoneForgotten
    <3> QED
      BY <1>4, <3>1
  <2> QED
    BY <1>1, <1>2, <1>3, <1>5, <2>1, OthersNotForgotten
<1> QED
  BY <1>6, <1>7, <1>8, <1>9 DEF IndInv

(* Who changes a row without the lock of the key is noted. *)
LEMMA WroteIs ==
    ASSUME IndInv, NEW S \in SUBSET Nat, Wrote(S)
    PROVE  /\ since' \in [Alarms -> SUBSET Nat]
           /\ \A u \in Alarms : /\ since[u] \subseteq since'[u]
                                /\ pc[u] = "insert" => S \subseteq since'[u]
BY DEF Wrote, IndInv, TypeOK

LEMMA CommitWriteStep ==
    ASSUME IndInv, NEW t \in Transactions, t \notin Alarms, CommitWrite(t)
    PROVE  IndInv'
<1>1. /\ pc'[t] = "done" /\ t \notin Recoveries
      /\ \A u \in Transactions \ {t} : pc'[u] = pc[u] /\ start'[u] = start[u]
  BY DEF CommitWrite, End, Goto, IndInv, TypeOK, KindKept
<1>2. /\ UNCHANGED <<seen, clock, want, advisory>> /\ start' \in [Transactions -> Nat]
      /\ pc' \in [Transactions -> Labels]
  BY DEF CommitWrite, End, Goto, IndInv, TypeOK, Labels
<1>3. /\ owner' \in Seq(Transactions \union {Nobody}) /\ Len(owner') = Len(owner)
      /\ \A i \in Ids : owner'[i] = IF owner[i] = t THEN Nobody ELSE owner[i]
  BY ReleaseType DEF CommitWrite
<1>4. RowsKept /\ Len(rows') = Len(rows)
  <2>1. \A i \in Ids : rows[i] \in Incidents
    BY ElementOfSeq DEF Ids, IndInv, TypeOK
  <2>2. start[t] \in Nat /\ Len(rows) \in Nat
    BY DEF IndInv, TypeOK
  <2>3. \A i \in Ids : rows'[i] \in Incidents /\ rows'[i].open = rows[i].open
    BY <2>1, <2>2 DEF CommitWrite, Incidents
  <2>4. rows' \in [1..Len(rows) -> Incidents]
    BY <2>3 DEF CommitWrite, Ids
  <2>5. rows' \in Seq(Incidents) /\ Len(rows') = Len(rows)
    BY <2>2, <2>4, SeqDef
  <2> QED
    BY <1>3, <2>2, <2>3, <2>5 DEF RowsKept, IndInv, TypeOK
<1>5. /\ since' \in [Alarms -> SUBSET Nat]
      /\ \A u \in Alarms : /\ since[u] \subseteq since'[u]
                           /\ pc[u] = "insert" => Held(t) \subseteq since'[u]
  <2>1. Held(t) \in SUBSET Nat /\ Wrote(Held(t))
    BY DEF Held, Ids, CommitWrite
  <2> QED
    BY <2>1, WroteIs
<1>6. TypeOK'
  BY <1>2, <1>4, <1>5 DEF IndInv, TypeOK, Ids, RowsKept
<1>7. HasLock' /\ KindKept'
  BY <1>1, <1>2 DEF IndInv, HasLock, KindKept, Transactions
<1>8. StillQuiet'
  <2> SUFFICES ASSUME NEW u \in Alarms, pc'[u] = "insert", NEW i \in (OpenRows \ since[u])'
               PROVE  (rows[i].updated + Window < start[u])'
    BY DEF StillQuiet
  <2>1. u # t /\ u \in Transactions /\ pc[u] = "insert" /\ start'[u] = start[u]
    BY <1>1 DEF Transactions
  <2>2. i \in Ids /\ i \in OpenRows /\ i \notin since[u] /\ i \notin Held(t)
    BY <1>4, <1>5, <2>1 DEF OpenRows, Ids, RowsKept
  <2>3. rows'[i] = rows[i]
    BY <2>2 DEF CommitWrite, Held
  <2> QED
    BY <2>1, <2>2, <2>3 DEF IndInv, StillQuiet
<1>9. NoneForgotten' /\ RecoveryIsComplete'
  BY <1>1, <1>2, <1>3, <1>4, OthersNotForgotten
<1> QED
  BY <1>6, <1>7, <1>8, <1>9 DEF IndInv

LEMMA CommitCreateStep ==
    ASSUME IndInv, NEW t \in Transactions, CommitCreate(t)
    PROVE  IndInv'
<1>1. /\ pc'[t] = "done" /\ t \notin Recoveries /\ t \notin Alarms
      /\ \A u \in Transactions \ {t} : pc'[u] = pc[u]
      /\ pc' \in [Transactions -> Labels]
  BY CorrelationAssumption DEF CommitCreate, Goto, IndInv, TypeOK, Labels
<1>2. UNCHANGED <<seen, start, clock, want, advisory>>
  BY DEF CommitCreate
<1>3. PICK now \in 1..clock : NewRow(now)
  BY DEF CommitCreate
<1> DEFINE new == [open |-> TRUE, updated |-> now]
<1>4. new \in Incidents
  BY DEF IndInv, TypeOK, Incidents
<1>5. /\ rows' = Append(rows, new) /\ owner' = Append(owner, Nobody)
      /\ rows \in Seq(Incidents) /\ owner \in Seq(Transactions \union {Nobody})
      /\ Len(owner) = Len(rows) /\ Len(rows) \in Nat
  BY <1>3 DEF NewRow, IndInv, TypeOK
<1> HIDE DEF new
<1>6. /\ rows' \in Seq(Incidents) /\ Len(rows') = Len(rows) + 1
      /\ owner' \in Seq(Transactions \union {Nobody}) /\ Len(owner') = Len(owner) + 1
      /\ \A i \in Ids : rows'[i] = rows[i] /\ owner'[i] = owner[i]
  BY <1>4, <1>5, AppendProperties DEF Ids
<1>7. RowsKept
  BY <1>5, <1>6 DEF RowsKept, Ids
<1>8. /\ since' \in [Alarms -> SUBSET Nat]
      /\ \A u \in Alarms : /\ since[u] \subseteq since'[u]
                           /\ pc[u] = "insert" => {Len(rows) + 1} \subseteq since'[u]
  <2>1. {Len(rows) + 1} \in SUBSET Nat /\ Wrote({Len(rows) + 1})
    BY <1>5 DEF CommitCreate
  <2> QED
    BY <2>1, WroteIs
<1>9. TypeOK'
  <2>1. Ids \subseteq Ids'
    BY <1>5, <1>6 DEF Ids
  <2> QED
    BY <1>1, <1>2, <1>5, <1>6, <1>8, <2>1 DEF IndInv, TypeOK
<1>10. HasLock' /\ KindKept'
  BY <1>1, <1>2 DEF IndInv, HasLock, KindKept, Transactions
<1>11. StillQuiet'
  <2> SUFFICES ASSUME NEW u \in Alarms, pc'[u] = "insert", NEW i \in (OpenRows \ since[u])'
               PROVE  (rows[i].updated + Window < start[u])'
    BY DEF StillQuiet
  <2>1. u # t /\ u \in Transactions /\ pc[u] = "insert"
    BY <1>1 DEF Transactions
  <2>2. i \in Ids /\ i \notin since[u]
    BY <1>5, <1>6, <1>8, <2>1 DEF OpenRows, Ids
  <2>3. rows'[i] = rows[i] /\ i \in OpenRows
    BY <1>6, <2>2 DEF OpenRows
  <2> QED
    BY <1>2, <2>1, <2>2, <2>3 DEF IndInv, StillQuiet
<1>12. NoneForgotten' /\ RecoveryIsComplete'
  BY <1>1, <1>2, <1>6, <1>7, OthersNotForgotten
<1> QED
  BY <1>9, <1>10, <1>11, <1>12 DEF IndInv

(* A cancelled transaction takes its locks with it and leaves no row. *)
LEMMA CancelStep ==
    ASSUME IndInv, NEW t \in Transactions, Cancel(t)
    PROVE  IndInv'
<1>1. /\ pc'[t] = "cancelled"
      /\ \A u \in Transactions \ {t} : /\ pc'[u] = pc[u] /\ want'[u] = want[u]
                                         /\ start'[u] = start[u]
      /\ \A u \in Alarms \ {t} : since'[u] = since[u]
  BY DEF Cancel, End, Goto, IndInv, TypeOK
<1>2. /\ UNCHANGED <<rows, seen, clock>> /\ start' \in [Transactions -> Nat]
      /\ pc' \in [Transactions -> Labels] /\ want' \in [Transactions -> SUBSET Nat]
      /\ since' \in [Alarms -> SUBSET Nat]
  BY DEF Cancel, End, Goto, IndInv, TypeOK, Labels
<1>3. /\ owner' \in Seq(Transactions \union {Nobody}) /\ Len(owner') = Len(owner)
      /\ \A i \in Ids : owner'[i] = IF owner[i] = t THEN Nobody ELSE owner[i]
  BY ReleaseType DEF Cancel
<1>4. RowsKept
  BY <1>2, <1>3, UnchangedRowsKept
<1>5. TypeOK'
  BY <1>2, <1>3 DEF IndInv, TypeOK, Ids
<1>6. HasLock' /\ KindKept'
  BY <1>1 DEF Cancel, IndInv, HasLock, KindKept, Transactions
<1>7. StillQuiet'
  BY <1>1, <1>2 DEF IndInv, StillQuiet, OpenRows, Ids, Transactions
<1>8. NoneForgotten' /\ RecoveryIsComplete'
  BY <1>1, <1>2, <1>3, <1>4, OthersNotForgotten
<1> QED
  BY <1>5, <1>6, <1>7, <1>8 DEF IndInv

LEMMA NextKeepsIndInv == IndInv /\ [Next]_vars => IndInv'
<1> SUFFICES ASSUME IndInv, [Next]_vars PROVE IndInv'
  OBVIOUS
<1>1. CASE Tick \/ UNCHANGED vars
  <2>1. UNCHANGED <<rows, owner, advisory, pc, start, want, seen, since>> /\ clock' \in Nat
    BY <1>1 DEF Tick, vars, tables, history, IndInv, TypeOK
  <2> QED
    BY <2>1 DEF IndInv, TypeOK, KindKept, HasLock, StillQuiet, NoneForgotten, RecoveryIsComplete,
                OpenRows, Ids
<1>2. ASSUME NEW t \in Transactions, Begin(t) \/ Proceed(t) \/ CommitCreate(t) \/ Cancel(t)
      PROVE  IndInv'
  <2>1. CASE Begin(t)
    BY <2>1, BeginStep
  <2>2. CASE Cancel(t)
    BY <2>2, CancelStep
  <2>3. CASE Proceed(t) /\ t \in Alarms
    BY <2>3, TakeLockStep, ChooseStep, LockChosenStep, CommitTouchStep, CommitInsertStep
    DEF Proceed, Alarm
  <2>4. CASE Proceed(t) /\ t \notin Alarms
    BY <2>4, SelectStep, LockNextStep, CommitResolveStep, CommitWriteStep DEF Proceed, Change
  <2>5. CASE CommitCreate(t)
    BY <2>5, CommitCreateStep
  <2> QED
    BY <1>2, <2>1, <2>2, <2>3, <2>4, <2>5
<1> QED
  BY <1>1, <1>2 DEF Next

-----------------------------------------------------------------------------
(* The results *)

(* The inductive invariant holds in every state. *)
THEOREM InvariantHolds == Spec => []IndInv
  BY InitIndInv, NextKeepsIndInv, PTL DEF Spec

(* A recovery that commits leaves nothing open that was open when it       *)
(* looked, whoever held the locks it had to wait for.                      *)
THEOREM RecoveriesAreComplete == Spec => []RecoveryIsComplete
<1>1. IndInv => RecoveryIsComplete
  BY DEF IndInv
<1> QED
  BY <1>1, InvariantHolds, PTL

(* An alarm inserts an incident only when every open one of the key has    *)
(* been quiet for longer than the window, however alarms overlap; but for  *)
(* those that were changed or reported meanwhile without the key's lock.   *)
THEOREM NoTwinsAppear == Spec => NoTwins
<1> DEFINE Quiet == \A t \in Alarms :
          pc[t] = "insert" /\ Len(rows') > Len(rows) /\ pc'[t] = "done" =>
             \A i \in OpenRows \ since[t] : rows[i].updated + Window < start[t]
<1>1. ASSUME IndInv, [Next]_vars PROVE [Quiet]_vars
  BY <1>1 DEF IndInv, StillQuiet
<1> QED
  BY <1>1, InvariantHolds, PTL DEF Spec, NoTwins
=============================================================================

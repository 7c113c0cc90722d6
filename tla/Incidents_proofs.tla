---------------------------- MODULE Incidents_proofs ----------------------------
(***************************************************************************)
(* The incident store and its three users, in this order: the store alone, *)
(* the polling transactions, the escalation and the events of the API.     *)
(* The proofs about a part cite the assumption of its own module and that  *)
(* of the store, and what has been proved about the store.                 *)
(***************************************************************************)
EXTENDS DevicePolling, Escalation, IncidentEvents, SequenceTheorems, FiniteSetTheorems, TLAPS

-----------------------------------------------------------------------------
(***************************************************************************)
(* What every instance of IncidentStore satisfies, whatever its devices,   *)
(* classes, policies, window and bounds.                                   *)
(***************************************************************************)

(* Statuses have ranks 1..5, and StatusOrder lists them by rank. *)
LEMMA RankFacts ==
    /\ Rank \in [Statuses -> 1..5]
    /\ StatusOrder \in Seq(Statuses)
    /\ Len(StatusOrder) = 5
    /\ \A s \in Statuses : StatusOrder[Rank[s]] = s
    /\ \A k \in 1..5 : StatusOrder[k] \in Statuses /\ Rank[StatusOrder[k]] = k
BY DEF Rank, Statuses, StatusOrder

(* incidentStatusPath(f, t) lists the statuses of the ranks between the    *)
(* rank of f, excluded, and the rank of t.                                 *)
LEMMA PathFacts ==
    ASSUME NEW f \in Statuses, NEW t \in Statuses, StatusPath(f, t) # <<>>
    PROVE  /\ Rank[f] < Rank[t]
           /\ Len(StatusPath(f, t)) = Rank[t] - Rank[f]
           /\ \A k \in 1..(Rank[t] - Rank[f]) : StatusPath(f, t)[k] = StatusOrder[Rank[f] + k]
<1>1. Rank[f] \in 1..5 /\ Rank[t] \in 1..5
  BY RankFacts
<1>2. \A k \in (Rank[f] + 1)..Rank[t] : StatusOrder[k] \in Statuses
  BY <1>1, RankFacts
<1>3. Rank[f] + 1 <= Rank[t]
  BY <1>1, <1>2, SubSeqEmpty DEF StatusPath
<1> DEFINE m == Rank[f] + 1
           n == Rank[t]
<1>4. m \in Int /\ n \in Int /\ m <= n /\ \A k \in m..n : StatusOrder[k] \in Statuses
  BY <1>1, <1>2, <1>3
<1>5. /\ Len(SubSeq(StatusOrder, m, n)) = n - m + 1
      /\ \A k \in 1..(n - m + 1) : SubSeq(StatusOrder, m, n)[k] = StatusOrder[m + k - 1]
  <2> HIDE DEF m, n
  <2> QED
    BY <1>4, SubSeqProperties, RankFacts
<1>6. \A k \in 1..(Rank[t] - Rank[f]) : k \in 1..(n - m + 1) /\ m + k - 1 = Rank[f] + k
  BY <1>1, SMTT(30)
<1>7. n - m + 1 = Rank[t] - Rank[f] /\ Rank[f] < Rank[t]
  BY <1>1, <1>3
<1>8. StatusPath(f, t) = SubSeq(StatusOrder, m, n)
  BY DEF StatusPath
<1>9. \A k \in 1..(Rank[t] - Rank[f]) : StatusPath(f, t)[k] = StatusOrder[Rank[f] + k]
  <2> TAKE k \in 1..(Rank[t] - Rank[f])
  <2>1. SubSeq(StatusOrder, m, n)[k] = StatusOrder[m + k - 1]
    <3> HIDE DEF m, n
    <3> QED BY <1>5, <1>6
  <2>2. QED
    BY <2>1, <1>6, <1>8
<1>10. QED
  BY <1>5, <1>7, <1>8, <1>9

(* A function on 1..n with values in S is a sequence over S. *)
LEMMA FunctionIsSeq ==
    ASSUME NEW S, NEW n \in Nat, NEW f \in [1..n -> S]
    PROVE  f \in Seq(S) /\ Len(f) = n
BY SeqDef

(* Writing one incident keeps the types of the tables. *)
LEMMA UpdateType ==
    ASSUME TypeOK, NEW i \in Ids, NEW r \in Row, NEW w \in Seq(AuditRows), Update(i, r, w)
    PROVE  /\ incidents' \in Seq(Row)
           /\ audit' \in Seq(Seq(AuditRows))
           /\ Len(audit') = Len(incidents')
           /\ Len(incidents') = Len(incidents)
           /\ incidents'[i] = r
           /\ audit'[i] = audit[i] \o w
           /\ \A j \in Ids \ {i} : incidents'[j] = incidents[j] /\ audit'[j] = audit[j]
<1>1. audit[i] \in Seq(AuditRows) /\ audit[i] \o w \in Seq(AuditRows)
  BY ElementOfSeq, ConcatProperties DEF TypeOK, Ids
<1>2. QED
  BY <1>1, ExceptSeq, SMTT(30) DEF TypeOK, Update, Ids

(* Inserting a row keeps the types of the tables and every other row. *)
LEMMA InsertType ==
    ASSUME TypeOK, NEW r \in Row, Insert(r)
    PROVE  /\ incidents' \in Seq(Row)
           /\ audit' \in Seq(Seq(AuditRows))
           /\ Len(audit') = Len(incidents')
           /\ Len(incidents') = Len(incidents) + 1
           /\ incidents'[Len(incidents) + 1] = r
           /\ audit'[Len(incidents) + 1] = <<>>
           /\ \A j \in Ids : incidents'[j] = incidents[j] /\ audit'[j] = audit[j]
<1>1. <<>> \in Seq(AuditRows)
  OBVIOUS
<1>2. QED
  BY <1>1, AppendProperties DEF TypeOK, Insert, Ids

-----------------------------------------------------------------------------
(***************************************************************************)
(* What one operation does to one incident: r becomes q and gains the      *)
(* audit rows w.                                                           *)
(***************************************************************************)
RowStep(r, w, q) ==
    /\ q \in Row /\ w \in Seq(AuditRows)
    /\ q.class = r.class /\ q.key = r.key /\ q.created = r.created
    /\ q.device \in {r.device, NoDevice}
    /\ q.updated = r.updated \/ q.updated \in 1..now
    /\ Rank[r.status] <= Rank[q.status]
    /\ Len(w) = 0 => q.status = r.status
    /\ Len(w) # 0 => w[1].from = r.status /\ w[Len(w)].to = q.status
    /\ \A k \in 2..Len(w) : w[k].from = w[k - 1].to
    /\ \A k \in 1..Len(w) : /\ w[k].at = now
                            /\ Lifecycle!LegalEdge(w[k])
                            /\ Rank[r.status] <= Rank[w[k].from]
                            /\ Rank[w[k].from] <= Rank[w[k].to]
                            /\ Rank[w[k].to] <= Rank[q.status]
    /\ \A s \in StampedStatuses :
          q.stamps[s] = IF Entries(w, s) = {} THEN r.stamps[s] ELSE now

(* A status ahead of the current one has not been stamped. *)
Unstamped(r) ==
    \A s \in StampedStatuses : Rank[r.status] < Rank[s] => r.stamps[s] = Never

(* A row that is left alone. *)
LEMMA SameRow ==
    ASSUME NEW r \in Row
    PROVE  RowStep(r, <<>>, r)
<1>1. Rank[r.status] \in 1..5
  BY RankFacts DEF Row
<1>2. \A s \in StampedStatuses : Entries(<<>>, s) = {}
  BY DEF Entries
<1>3. QED
  BY <1>1, <1>2 DEF RowStep

(* Correlation touches a row without an audit row. *)
LEMMA TouchedRow ==
    ASSUME NEW r \in Row, now \in Nat, NEW start \in 1..now
    PROVE  RowStep(r, <<>>, Touched(r, start))
<1>1. Rank[r.status] \in 1..5
  BY RankFacts DEF Row
<1>2. \A s \in StampedStatuses : Entries(<<>>, s) = {}
  BY DEF Entries
<1>3. QED
  BY <1>1, <1>2, SMTT(30) DEF RowStep, Touched, Row

(* ON DELETE SET NULL changes the device alone. *)
LEMMA ForgottenRow ==
    ASSUME NEW r \in Row, now \in Nat
    PROVE  RowStep(r, <<>>, [r EXCEPT !.device = NoDevice, !.unlocked = now])
<1>1. Rank[r.status] \in 1..5
  BY RankFacts DEF Row
<1>2. \A s \in StampedStatuses : Entries(<<>>, s) = {}
  BY DEF Entries
<1> DEFINE q == [r EXCEPT !.device = NoDevice, !.unlocked = now]
<1>3. /\ q \in Row /\ q.device = NoDevice /\ q.class = r.class /\ q.key = r.key
      /\ q.created = r.created /\ q.updated = r.updated /\ q.status = r.status
      /\ q.stamps = r.stamps
  BY DEF Row
<1> SUFFICES RowStep(r, <<>>, q)
  OBVIOUS
<1> HIDE DEF q
<1>4. QED
  BY <1>1, <1>2, <1>3 DEF RowStep

(* A single audit row records one legal step at the current time. *)
LEMMA OneRow ==
    ASSUME now \in Nat, NEW f \in Statuses, NEW t \in Statuses
    PROVE  LET w == <<AuditRow(f, t)>>
           IN  /\ w \in Seq(AuditRows) /\ Len(w) = 1
               /\ w[1].from = f /\ w[1].to = t /\ w[1].at = now
               /\ \A s : (Entries(w, s) = {}) <=> (s # t \/ f = t)
<1> DEFINE w == <<AuditRow(f, t)>>
<1>1. /\ w \in Seq(AuditRows) /\ Len(w) = 1
      /\ w[1].from = f /\ w[1].to = t /\ w[1].at = now
  BY DEF AuditRow, AuditRows
<1>2. \A s : (Entries(w, s) = {}) <=> (s # t \/ f = t)
  <2> HIDE DEF w
  <2> QED BY <1>1 DEF Entries
<1>3. QED
  BY <1>1, <1>2

(* A change of assignee leaves the status and records it as a step to itself. *)
LEMMA ReassignedRow ==
    ASSUME now \in Nat \ {Never}, NEW r \in Row, NEW a \in Assignees \union {NoAssignee}
    PROVE  RowStep(r, <<AuditRow(r.status, r.status)>>, Reassigned(r, a))
<1> DEFINE w == <<AuditRow(r.status, r.status)>>
           q == Reassigned(r, a)
<1>1. r.status \in Statuses /\ Rank[r.status] \in 1..5
  BY RankFacts DEF Row
<1>2. q \in Row /\ q = [r EXCEPT !.assignee = a, !.updated = now, !.unlocked = now]
  BY DEF Reassigned, Row
<1>3. /\ w \in Seq(AuditRows) /\ Len(w) = 1
      /\ w[1].from = r.status /\ w[1].to = r.status /\ w[1].at = now
      /\ \A s : Entries(w, s) = {}
  BY <1>1, OneRow
<1>4. Lifecycle!LegalEdge(w[1])
  BY <1>3 DEF Lifecycle!LegalEdge
<1>5. RowStep(r, w, q)
  <2> HIDE DEF w, q
  <2>1. /\ q.class = r.class /\ q.key = r.key /\ q.created = r.created
        /\ q.device = r.device /\ q.updated = now /\ q.status = r.status
        /\ q.stamps = r.stamps
    BY <1>2 DEF Row
  <2>2. QED
    BY <1>1, <1>2, <1>3, <1>4, <2>1 DEF RowStep, Never
<1>6. QED
  BY <1>5

(* One legal step forward: the ITSM system's, or the system resolving. *)
LEMMA SteppedRow ==
    ASSUME now \in Nat \ {Never}, NEW r \in Row, Unstamped(r), NEW t \in Statuses,
           t \in NextAllowed[r.status] \/ (IsOpen(r) /\ t = "resolved")
    PROVE  RowStep(r, <<AuditRow(r.status, t)>>, Entered(r, {t}, t))
<1> DEFINE w == <<AuditRow(r.status, t)>>
           q == Entered(r, {t}, t)
<1>1. r.status \in Statuses /\ Rank[r.status] \in 1..5 /\ Rank[t] \in 1..5
  BY RankFacts DEF Row
<1>2. Rank[r.status] < Rank[t]
  BY <1>1 DEF NextAllowed, IsOpen, OpenStatuses, Rank, Statuses
<1>3. /\ w \in Seq(AuditRows) /\ Len(w) = 1
      /\ w[1].from = r.status /\ w[1].to = t /\ w[1].at = now
      /\ \A s : (Entries(w, s) = {}) <=> (s # t)
  BY <1>1, <1>2, OneRow
<1>4. Lifecycle!LegalEdge(w[1])
  BY <1>1, <1>3 DEF Lifecycle!LegalEdge, Lifecycle!NextAllowed, NextAllowed,
                    Lifecycle!OpenStatuses, IsOpen, OpenStatuses
<1>5. /\ q \in Row /\ q.status = t /\ q.updated = now
      /\ q.class = r.class /\ q.key = r.key /\ q.created = r.created /\ q.device = r.device
      /\ \A s \in StampedStatuses : q.stamps[s] = IF s = t THEN now ELSE r.stamps[s]
  BY <1>2 DEF Entered, Row, Unstamped
<1>6. RowStep(r, w, q)
  <2> HIDE DEF w, q
  <2> QED BY <1>1, <1>2, <1>3, <1>4, <1>5, SMTT(30) DEF RowStep, Never
<1>7. QED
  BY <1>6

(* Arithmetic on the ranks passed by a path. *)
LEMMA RankArithmetic ==
    ASSUME NEW a \in 1..5, NEW b \in 1..5, a < b
    PROVE  /\ b - a \in 1..4
           /\ a + 1 - 1 = a
           /\ a + (b - a) = b
           /\ \A k \in 1..(b - a) : /\ a + k \in 2..5
                                    /\ a + k - 1 \in 1..4
                                    /\ (a + k - 1) + 1 = a + k
                                    /\ a <= a + k - 1
                                    /\ a + k - 1 <= a + k
                                    /\ a + k <= b
                                    /\ a + k - 1 # a + k
           /\ \A k \in 2..(b - a) : k \in 1..(b - a) /\ k - 1 \in 1..(b - a) /\ a + (k - 1) = a + k - 1
           /\ \A c \in 1..5 : a < c /\ c <= b => c - a \in 1..(b - a) /\ a + (c - a) = c
OBVIOUS

(* TransitionIncidentStatus records every step of its path. *)
LEMMA MovedRow ==
    ASSUME now \in Nat \ {Never}, NEW r \in Row, Unstamped(r), NEW t \in Statuses,
           StatusPath(r.status, t) # <<>>
    PROVE  LET P == StatusPath(r.status, t)
           IN  RowStep(r, PathRows(r.status, t), Entered(r, {P[k] : k \in 1..Len(P)}, t))
<1> DEFINE f == r.status
           P == StatusPath(f, t)
           n == Rank[t] - Rank[f]
           w == PathRows(f, t)
           E == {P[k] : k \in 1..Len(P)}
           q == Entered(r, E, t)
<1>1. f \in Statuses /\ Rank[f] \in 1..5 /\ Rank[t] \in 1..5
  BY RankFacts DEF Row
<1>2. /\ Rank[f] < Rank[t]
      /\ Len(P) = n
      /\ \A k \in 1..n : P[k] = StatusOrder[Rank[f] + k]
  BY <1>1, PathFacts
<1>3. n \in 1..4 /\ \A k \in 1..n : Rank[f] + k \in 2..5 /\ Rank[f] + k - 1 \in 1..4
  BY <1>1, <1>2, RankArithmetic
<1>4. \A k \in 1..n : /\ StatusOrder[Rank[f] + k] \in Statuses
                      /\ StatusOrder[Rank[f] + k - 1] \in Statuses
                      /\ Rank[StatusOrder[Rank[f] + k]] = Rank[f] + k
                      /\ Rank[StatusOrder[Rank[f] + k - 1]] = Rank[f] + k - 1
  BY <1>3, RankFacts
<1>5. w = [k \in 1..n |-> AuditRow(StatusOrder[Rank[f] + k - 1], StatusOrder[Rank[f] + k])]
  BY <1>2 DEF PathRows
<1>6. w \in [1..n -> AuditRows]
  BY <1>4, <1>5 DEF AuditRow, AuditRows
<1>7. w \in Seq(AuditRows) /\ Len(w) = n
  BY <1>3, <1>6, FunctionIsSeq
<1>8. \A k \in 1..n : /\ w[k].from = StatusOrder[Rank[f] + k - 1]
                      /\ w[k].to = StatusOrder[Rank[f] + k]
                      /\ w[k].at = now
  BY <1>5 DEF AuditRow
<1>9. \A k \in 1..n : Lifecycle!LegalEdge(w[k])
  <2>1. \A j \in 1..4 : StatusOrder[j + 1] \in Lifecycle!NextAllowed[StatusOrder[j]]
    BY DEF StatusOrder, Lifecycle!NextAllowed
  <2>2. \A k \in 1..n : StatusOrder[Rank[f] + k] \in Lifecycle!NextAllowed[StatusOrder[Rank[f] + k - 1]]
    <3> TAKE k \in 1..n
    <3>1. Rank[f] + k - 1 \in 1..4 /\ (Rank[f] + k - 1) + 1 = Rank[f] + k
      BY <1>1, <1>3, SMTT(30)
    <3>2. QED BY <3>1, <2>1
  <2>3. QED
    BY <2>2, <1>8 DEF Lifecycle!LegalEdge
<1>10. \A k \in 2..n : w[k].from = w[k - 1].to
  <2> TAKE k \in 2..n
  <2>1. k \in 1..n /\ k - 1 \in 1..n /\ Rank[f] + (k - 1) = Rank[f] + k - 1
    BY <1>1, <1>2, RankArithmetic
  <2>2. QED
    BY <2>1, <1>8
<1>11. w[1].from = f /\ w[n].to = t
  <2>1. 1 \in 1..n /\ n \in 1..n
    BY <1>3
  <2>2. Rank[f] + 1 - 1 = Rank[f] /\ Rank[f] + n = Rank[t]
    BY <1>1, <1>2, RankArithmetic
  <2>3. StatusOrder[Rank[f]] = f /\ StatusOrder[Rank[t]] = t
    BY <1>1, RankFacts
  <2>4. w[1].from = StatusOrder[Rank[f] + 1 - 1] /\ w[n].to = StatusOrder[Rank[f] + n]
    <3> HIDE DEF w, n
    <3> QED BY <2>1, <1>8
  <2>5. QED
    BY <2>2, <2>3, <2>4
<1>15. \A k \in 1..n : /\ Rank[f] <= Rank[w[k].from]
                       /\ Rank[w[k].from] <= Rank[w[k].to]
                       /\ Rank[w[k].from] # Rank[w[k].to]
                       /\ Rank[w[k].to] <= Rank[t]
  <2> TAKE k \in 1..n
  <2>1. Rank[w[k].from] = Rank[f] + k - 1 /\ Rank[w[k].to] = Rank[f] + k
    BY <1>4, <1>8
  <2>2. /\ Rank[f] <= Rank[f] + k - 1
        /\ Rank[f] + k - 1 <= Rank[f] + k
        /\ Rank[f] + k - 1 # Rank[f] + k
        /\ Rank[f] + k <= Rank[t]
    <3> DEFINE a == Rank[f]
               b == Rank[t]
    <3>1. a \in 1..5 /\ b \in 1..5 /\ a < b /\ k \in 1..(b - a)
      BY <1>1, <1>2
    <3> HIDE DEF a, b
    <3>2. a <= a + k - 1 /\ a + k - 1 <= a + k /\ a + k - 1 # a + k /\ a + k <= b
      BY <3>1
    <3>3. QED
      BY <3>2 DEF a, b
  <2>3. QED
    BY <2>1, <2>2
<1>12. \A s \in StampedStatuses : s \in E <=> Rank[f] < Rank[s] /\ Rank[s] <= Rank[t]
  <2> TAKE s \in StampedStatuses
  <2>1. s \in Statuses /\ Rank[s] \in 1..5 /\ StatusOrder[Rank[s]] = s
    BY RankFacts DEF StampedStatuses, Statuses
  <2>2. ASSUME s \in E PROVE Rank[f] < Rank[s] /\ Rank[s] <= Rank[t]
    <3>1. PICK k \in 1..n : s = StatusOrder[Rank[f] + k]
      BY <2>2, <1>2
    <3>2. Rank[s] = Rank[f] + k
      BY <3>1, <1>4
    <3> DEFINE a == Rank[f]
               b == Rank[t]
    <3>3. a \in 1..5 /\ b \in 1..5 /\ a < b /\ k \in 1..(b - a)
      BY <1>1, <1>2
    <3> HIDE DEF a, b
    <3>4. a < a + k /\ a + k <= b
      BY <3>3
    <3>5. QED
      BY <3>2, <3>4 DEF a, b
  <2>3. ASSUME Rank[f] < Rank[s], Rank[s] <= Rank[t] PROVE s \in E
    <3> DEFINE k == Rank[s] - Rank[f]
    <3>1. k \in 1..n /\ Rank[f] + k = Rank[s]
      <4> DEFINE a == Rank[f]
                 b == Rank[t]
                 c == Rank[s]
      <4>1. a \in 1..5 /\ b \in 1..5 /\ c \in 1..5 /\ a < c /\ c <= b
        BY <2>1, <2>3, <1>1
      <4> HIDE DEF a, b, c
      <4>2. c - a \in 1..(b - a) /\ a + (c - a) = c
        BY <4>1
      <4>3. QED
        BY <4>2 DEF a, b, c
    <3> HIDE DEF k
    <3>2. P[k] = s
      BY <3>1, <2>1, <1>2
    <3>3. QED
      BY <3>1, <3>2, <1>2
  <2>4. QED
    BY <2>2, <2>3
<1>13. \A s \in StampedStatuses : Entries(w, s) # {} <=> s \in E
  <2> TAKE s \in StampedStatuses
  <2>1. Entries(w, s) # {} <=> \E k \in 1..n : s = StatusOrder[Rank[f] + k]
    <3>2. \A k \in 1..n : w[k].from # w[k].to
      BY <1>15
    <3> HIDE DEF w, n
    <3>3. Entries(w, s) = {k \in 1..n : w[k].to = s}
      BY <3>2, <1>7 DEF Entries
    <3>4. QED
      BY <3>3, <1>8
  <2>2. s \in E <=> \E k \in 1..n : s = StatusOrder[Rank[f] + k]
    BY <1>2
  <2>3. QED
    BY <2>1, <2>2
<1>14. /\ q \in Row /\ q.status = t /\ q.updated = now
       /\ q.class = r.class /\ q.key = r.key /\ q.created = r.created /\ q.device = r.device
       /\ \A s \in StampedStatuses : q.stamps[s] = IF s \in E THEN now ELSE r.stamps[s]
  <2>1. \A s \in StampedStatuses : s \in E => r.stamps[s] = Never
    BY <1>12 DEF Unstamped
  <2> HIDE DEF E
  <2>2. QED
    BY <2>1 DEF Entered, Row
<1>16. RowStep(r, w, q)
  <2> HIDE DEF w, q, E, P
  <2>1. Len(w) = n /\ n # 0
    BY <1>3, <1>7
  <2>2. /\ q \in Row /\ w \in Seq(AuditRows)
        /\ q.class = r.class /\ q.key = r.key /\ q.created = r.created
        /\ q.device = r.device /\ q.updated = now /\ q.status = t
    BY <1>7, <1>14
  <2>3. Rank[r.status] <= Rank[t] /\ w[1].from = r.status /\ w[Len(w)].to = t
    BY <1>1, <1>2, <1>11, <2>1
  <2>4. \A k \in 2..Len(w) : w[k].from = w[k - 1].to
    BY <1>10, <2>1
  <2>5. \A k \in 1..Len(w) : /\ w[k].at = now
                             /\ Lifecycle!LegalEdge(w[k])
                             /\ Rank[r.status] <= Rank[w[k].from]
                             /\ Rank[w[k].from] <= Rank[w[k].to]
                             /\ Rank[w[k].to] <= Rank[t]
    BY <1>8, <1>9, <1>15, <2>1
  <2>6. \A s \in StampedStatuses :
            q.stamps[s] = IF Entries(w, s) = {} THEN r.stamps[s] ELSE now
    BY <1>13, <1>14
  <2> HIDE DEF f, n
  <2>7. QED
    BY <2>1, <2>2, <2>3, <2>4, <2>5, <2>6 DEF RowStep, Never
<1>17. QED
  BY <1>16

(* The ITSM webhook: a step, a change of assignee, or one after the other. *)
LEMMA InboundRowStep ==
    ASSUME now \in Nat \ {Never}, NEW r \in Row, Unstamped(r),
           NEW t \in {NoStatus, r.status} \union NextAllowed[r.status],
           NEW a \in Assignees \union {NoAssignee}
    PROVE  RowStep(r, InboundRows(r, t, a), InboundRow(r, t, a))
<1>1. r.status \in Statuses /\ NextAllowed[r.status] \subseteq Statuses
  BY DEF Row, NextAllowed, Statuses
<1>2. NoStatus \notin Statuses /\ r.status \notin NextAllowed[r.status]
  <2>1. \A s \in Statuses : s # NoStatus
    BY DEF NoStatus, Statuses
  <2>2. \A s \in Statuses : s \notin NextAllowed[s]
    BY DEF Statuses, NextAllowed
  <2>3. QED
    BY <1>1, <2>1, <2>2
<1>3. CASE t \in {NoStatus, r.status} /\ a = r.assignee
  <2>1. InboundRows(r, t, a) = <<>> /\ InboundRow(r, t, a) = r
    BY <1>1, <1>2, <1>3 DEF InboundRows, InboundRow
  <2>2. QED
    BY <2>1, SameRow
<1>4. CASE t \in {NoStatus, r.status} /\ a # r.assignee
  <2>1. /\ InboundRows(r, t, a) = <<>> \o <<AuditRow(r.status, r.status)>>
        /\ InboundRow(r, t, a) = Reassigned(r, a)
    BY <1>4 DEF InboundRows, InboundRow
  <2>3. <<AuditRow(r.status, r.status)>> \in Seq(AuditRows)
    BY <1>1, OneRow
  <2>4. <<>> \o <<AuditRow(r.status, r.status)>> = <<AuditRow(r.status, r.status)>>
    BY <2>3, ConcatEmptySeq
  <2>2. QED
    BY <2>1, <2>4, ReassignedRow
<1>5. CASE t \notin {NoStatus, r.status} /\ a = r.assignee
  <2>1. /\ InboundRows(r, t, a) = <<AuditRow(r.status, t)>>
        /\ InboundRow(r, t, a) = Entered(r, {t}, t)
    BY <1>5 DEF InboundRows, InboundRow
  <2>2. t \in Statuses /\ t \in NextAllowed[r.status]
    BY <1>1, <1>5
  <2>3. QED
    BY <2>1, <2>2, SteppedRow
<1>6. CASE t \notin {NoStatus, r.status} /\ a # r.assignee
  <2> DEFINE m == Entered(r, {t}, t)
             w == <<AuditRow(r.status, t)>> \o <<AuditRow(t, t)>>
             q == Reassigned(m, a)
  <2>1. InboundRows(r, t, a) = w /\ InboundRow(r, t, a) = q
    BY <1>6 DEF InboundRows, InboundRow
  <2>2. t \in Statuses /\ t \in NextAllowed[r.status]
    BY <1>1, <1>6
  <2>3. RowStep(r, <<AuditRow(r.status, t)>>, m)
    BY <2>2, SteppedRow
  <2>4. m \in Row /\ m.status = t
    BY <2>3, <2>2 DEF RowStep, Entered, Row
  <2>5. RowStep(m, <<AuditRow(t, t)>>, q)
    BY <2>4, ReassignedRow
  <2>6. /\ w \in Seq(AuditRows) /\ Len(w) = 2
        /\ w[1] = AuditRow(r.status, t) /\ w[2] = AuditRow(t, t)
    BY <1>1, <2>2 DEF AuditRow, AuditRows
  <2>7. /\ Rank[r.status] \in 1..5 /\ Rank[t] \in 1..5
        /\ Rank[r.status] <= Rank[t] /\ r.status # t
        /\ Lifecycle!LegalEdge(w[1]) /\ Lifecycle!LegalEdge(w[2])
    BY <1>1, <1>2, <2>2, <2>3, <2>4, <2>6, RankFacts, SMTT(30) DEF RowStep, AuditRow, Lifecycle!LegalEdge
  <2>8. \A s \in StampedStatuses : Entries(w, s) = {} <=> s # t
    <3> HIDE DEF w
    <3> QED BY <2>6, <2>7 DEF Entries, AuditRow
  <2>9. /\ q \in Row /\ q.status = t /\ q.updated = now /\ q.stamps = m.stamps
        /\ q.class = r.class /\ q.key = r.key /\ q.created = r.created /\ q.device = r.device
    BY <2>4, <2>5 DEF RowStep, Reassigned, Entered, Row
  <2>10. \A s \in StampedStatuses : m.stamps[s] = IF s = t THEN now ELSE r.stamps[s]
    <3> DEFINE v == <<AuditRow(r.status, t)>>
    <3>1. \A s \in StampedStatuses : (Entries(v, s) = {}) <=> (s # t \/ r.status = t)
      BY <1>1, <2>2, OneRow
    <3>2. RowStep(r, v, m) /\ r.status # t
      BY <2>3, <2>7
    <3> HIDE DEF v, m
    <3>3. QED
      BY <3>1, <3>2 DEF RowStep
  <2>11. w[1].from = r.status /\ w[1].to = t /\ w[2].from = t /\ w[2].to = t
         /\ w[1].at = now /\ w[2].at = now
    BY <2>6 DEF AuditRow
  <2>12. RowStep(r, w, q)
    <3> HIDE DEF w, q, m
    <3> QED BY <2>6, <2>7, <2>8, <2>9, <2>10, <2>11 DEF RowStep, Never
  <2>13. QED
    BY <2>1, <2>12
<1>7. QED
  BY <1>3, <1>4, <1>5, <1>6

-----------------------------------------------------------------------------
(***************************************************************************)
(* The strengthening: what holds of each incident r with audit log L.      *)
(* StampsMatchAudit alone is not inductive: that entering a status twice   *)
(* cannot happen needs the log to stay at or below the incident's status.  *)
(***************************************************************************)
RowInv(r, L, time) ==
    /\ Chain(L, r.status)
    /\ \A s \in StampedStatuses : StampMatches(L, s, r.stamps[s])
    /\ \A k \in 1..Len(L) : Rank[L[k].to] <= Rank[r.status]
    /\ r.created <= time /\ r.updated <= time

IndInv ==
    /\ TypeOK
    /\ \A i \in Ids : RowInv(incidents[i], audit[i], now)

(* The log bounds the stamps: no status ahead of the incident is stamped. *)
LEMMA RowInvUnstamped ==
    ASSUME NEW r \in Row, NEW L \in Seq(AuditRows), NEW time, RowInv(r, L, time)
    PROVE  Unstamped(r)
<1> SUFFICES ASSUME NEW s \in StampedStatuses, Rank[r.status] < Rank[s]
             PROVE  r.stamps[s] = Never
  BY DEF Unstamped
<1>1. Rank[r.status] \in 1..5 /\ Rank[s] \in 1..5
  BY RankFacts DEF Row, StampedStatuses, Statuses
<1>2. \A k \in 1..Len(L) : Rank[L[k].to] <= Rank[r.status]
  BY DEF RowInv
<1>3. \A k \in 1..Len(L) : L[k].to # s
  BY <1>1, <1>2
<1>4. Entries(L, s) = {}
  BY <1>3 DEF Entries
<1>5. QED
  BY <1>4 DEF RowInv, StampMatches

(* A row that steps keeps its invariant. *)
LEMMA RowInvStep ==
    ASSUME now \in Nat, NEW r \in Row, NEW L \in Seq(AuditRows), RowInv(r, L, now),
           NEW w, NEW q, RowStep(r, w, q)
    PROVE  RowInv(q, L \o w, now)
<1> DEFINE M == L \o w
           m == Len(L)
           n == Len(w)
<1>1. q \in Row /\ w \in Seq(AuditRows) /\ m \in Nat /\ n \in Nat
  BY DEF RowStep
<1>2. /\ M \in Seq(AuditRows) /\ Len(M) = m + n
      /\ \A k \in 1..(m + n) : M[k] = IF k <= m THEN L[k] ELSE w[k - m]
  BY <1>1, ConcatProperties
<1>3. \A k \in 1..m : k \in 1..(m + n) /\ M[k] = L[k]
  BY <1>1, <1>2
<1>4. \A k \in 1..n : m + k \in 1..(m + n) /\ M[m + k] = w[k]
  BY <1>1, <1>2
<1>5. \A k \in 1..(m + n) : k \in 1..m \/ \E j \in 1..n : k = m + j
  <2> TAKE k \in 1..(m + n)
  <2>1. k \in 1..m \/ (k - m \in 1..n /\ k = m + (k - m))
    BY <1>1
  <2>2. QED
    BY <2>1
<1>6. Rank[r.status] \in 1..5 /\ Rank[q.status] \in 1..5 /\ Rank[r.status] <= Rank[q.status]
  BY <1>1, RankFacts DEF Row, RowStep
<1>7. Chain(M, q.status)
  <2>1. \A k \in 1..(m + n) : M[k].from = IF k = 1 THEN "new" ELSE M[k - 1].to
    <3> TAKE k \in 1..(m + n)
    <3>1. CASE k \in 1..m
      <4>1. k # 1 => k - 1 \in 1..m
        BY <3>1, <1>1
      <4>2. L[k].from = IF k = 1 THEN "new" ELSE L[k - 1].to
        BY <3>1 DEF RowInv, Chain
      <4>3. QED
        BY <3>1, <4>1, <4>2, <1>3
    <3>2. CASE \E j \in 1..n : k = m + j
      <4>1. PICK j \in 1..n : k = m + j
        BY <3>2
      <4>2. CASE j = 1
        <5>1. w[1].from = r.status
          BY <4>2, <1>1 DEF RowStep
        <5>2. M[k] = w[1]
          BY <4>1, <4>2, <1>4
        <5>3. CASE m = 0
          BY <5>1, <5>2, <5>3, <4>1, <4>2 DEF RowInv, Chain
        <5>4. CASE m # 0
          <6>1. r.status = L[m].to
            BY <5>4 DEF RowInv, Chain
          <6>2. k # 1 /\ k - 1 = m /\ m \in 1..m
            BY <4>1, <4>2, <5>4, <1>1
          <6>3. QED
            BY <5>1, <5>2, <6>1, <6>2, <1>3
        <5>5. QED
          BY <5>3, <5>4
      <4>3. CASE j # 1
        <5>1. j \in 2..n /\ j - 1 \in 1..n /\ k # 1 /\ k - 1 = m + (j - 1)
          BY <4>1, <4>3, <1>1
        <5>2. w[j].from = w[j - 1].to
          BY <5>1 DEF RowStep
        <5>3. QED
          BY <4>1, <5>1, <5>2, <1>4
      <4>4. QED
        BY <4>2, <4>3
    <3>3. QED
      BY <3>1, <3>2, <1>5
  <2>2. q.status = IF m + n = 0 THEN "new" ELSE M[m + n].to
    <3>1. CASE n = 0
      <4>1. q.status = r.status /\ r.status = (IF m = 0 THEN "new" ELSE L[m].to)
        BY <3>1 DEF RowStep, RowInv, Chain
      <4>2. m + n = m /\ (m # 0 => m \in 1..m)
        BY <3>1, <1>1
      <4>3. QED
        BY <4>1, <4>2, <1>3
    <3>2. CASE n # 0
      <4>1. q.status = w[n].to /\ n \in 1..n /\ m + n # 0
        BY <3>2, <1>1 DEF RowStep
      <4>2. QED
        BY <4>1, <1>4
    <3>3. QED
      BY <3>1, <3>2
  <2> HIDE DEF M
  <2>3. QED
    BY <2>1, <2>2, <1>2 DEF Chain
<1>8. \A k \in 1..n : /\ Rank[r.status] <= Rank[w[k].from]
                      /\ Rank[w[k].from] <= Rank[w[k].to]
                      /\ Rank[w[k].to] <= Rank[q.status]
                      /\ w[k].at = now /\ w[k].from \in Statuses /\ w[k].to \in Statuses
  <2>1. \A k \in 1..n : w[k] \in AuditRows
    BY <1>1, ElementOfSeq
  <2>2. QED
    BY <2>1 DEF RowStep, AuditRows
<1>9. \A k \in 1..(m + n) : Rank[M[k].to] <= Rank[q.status]
  <2> TAKE k \in 1..(m + n)
  <2>1. CASE k \in 1..m
    <3>1. L[k] \in AuditRows /\ Rank[L[k].to] <= Rank[r.status]
      BY <2>1, ElementOfSeq DEF RowInv
    <3>2. Rank[L[k].to] \in 1..5
      BY <3>1, RankFacts DEF AuditRows
    <3>3. QED
      BY <3>1, <3>2, <2>1, <1>3, <1>6
  <2>2. CASE \E j \in 1..n : k = m + j
    BY <2>2, <1>4, <1>8
  <2>3. QED
    BY <2>1, <2>2, <1>5
<1>10. \A s \in StampedStatuses : StampMatches(M, s, q.stamps[s])
  <2> TAKE s \in StampedStatuses
  <2>1. s \in Statuses /\ Rank[s] \in 1..5
    BY RankFacts DEF StampedStatuses, Statuses
  <2>2. StampMatches(L, s, r.stamps[s])
    BY DEF RowInv
  <2>3. q.stamps[s] = IF Entries(w, s) = {} THEN r.stamps[s] ELSE now
    BY DEF RowStep
  <2>4. \A k \in Entries(M, s) : \/ k \in Entries(L, s) /\ M[k] = L[k]
                                 \/ \E j \in Entries(w, s) : k = m + j /\ M[k] = w[j]
    <3> TAKE k \in Entries(M, s)
    <3>1. k \in 1..(m + n) /\ M[k].to = s /\ M[k].from # s
      <4> HIDE DEF M
      <4> QED BY <1>2 DEF Entries
    <3>2. CASE k \in 1..m
      BY <3>1, <3>2, <1>3 DEF Entries
    <3>3. CASE \E j \in 1..n : k = m + j
      <4>1. PICK j \in 1..n : k = m + j
        BY <3>3
      <4>2. M[k] = w[j] /\ j \in Entries(w, s)
        BY <4>1, <3>1, <1>4 DEF Entries
      <4>3. QED
        BY <4>1, <4>2
    <3>4. QED
      BY <3>1, <3>2, <3>3, <1>5
  <2>5. CASE Entries(w, s) = {}
    <3>1. \A k \in Entries(L, s) : k \in Entries(M, s)
      <4> TAKE k \in Entries(L, s)
      <4>1. k \in 1..m /\ L[k].to = s /\ L[k].from # s
        BY DEF Entries
      <4>2. k \in 1..(m + n) /\ M[k] = L[k]
        BY <4>1, <1>3
      <4> HIDE DEF M
      <4>3. QED
        BY <4>1, <4>2, <1>2 DEF Entries
    <3> HIDE DEF M
    <3>2. QED
      BY <2>2, <2>3, <2>4, <2>5, <3>1 DEF StampMatches
  <2>6. CASE Entries(w, s) # {}
    <3>1. PICK j \in 1..n : w[j].to = s /\ w[j].from # s
      BY <2>6 DEF Entries
    <3>2. Rank[w[j].from] \in 1..5 /\ Rank[w[j].from] # Rank[s]
      <4>1. w[j].from \in Statuses
        BY <1>8
      <4>2. StatusOrder[Rank[w[j].from]] = w[j].from /\ StatusOrder[Rank[s]] = s
        BY <4>1, <2>1, RankFacts
      <4>3. Rank[w[j].from] \in 1..5
        BY <4>1, RankFacts
      <4>4. QED
        BY <3>1, <4>2, <4>3
    <3>3. Rank[r.status] < Rank[s]
      BY <3>1, <3>2, <2>1, <1>6, <1>8
    <3>4. \A k \in 1..m : L[k].to # s
      BY <3>3, <1>6, <2>1 DEF RowInv
    <3>5. Entries(L, s) = {}
      BY <3>4 DEF Entries
    <3>6. \A k \in Entries(M, s) : M[k].at = now
      <4> TAKE k \in Entries(M, s)
      <4>1. PICK i \in Entries(w, s) : k = m + i /\ M[k] = w[i]
        BY <2>4, <3>5
      <4>2. QED
        BY <4>1, <1>8 DEF Entries
    <3>7. m + j \in Entries(M, s)
      <4>1. m + j \in 1..(m + n) /\ M[m + j] = w[j]
        BY <1>4
      <4> HIDE DEF M
      <4>2. QED
        BY <4>1, <3>1, <1>2 DEF Entries
    <3> HIDE DEF M
    <3>8. QED
      BY <3>6, <3>7, <2>3, <2>6 DEF StampMatches
  <2>7. QED
    BY <2>5, <2>6
<1>11. q.created <= now /\ q.updated <= now
  <2>1. r.created \in Nat /\ r.updated \in Nat
    BY DEF Row
  <2>2. r.created <= now /\ r.updated <= now
    BY DEF RowInv
  <2>3. q.created = r.created /\ (q.updated = r.updated \/ q.updated \in 1..now)
    BY DEF RowStep
  <2>4. QED
    BY <2>1, <2>2, <2>3
<1>12. RowInv(q, M, now)
  <2>1. \A k \in 1..Len(M) : Rank[M[k].to] <= Rank[q.status]
    BY <1>2, <1>9
  <2> HIDE DEF M
  <2>2. QED
    BY <2>1, <1>7, <1>10, <1>11 DEF RowInv
<1>13. QED
  BY <1>12

-----------------------------------------------------------------------------
(***************************************************************************)
(* What a step does to the tables: every incident makes a RowStep and at   *)
(* most one incident is new.                                               *)
(***************************************************************************)
Grown(i) ==
    \E w \in Seq(AuditRows) :
        audit'[i] = audit[i] \o w /\ RowStep(incidents[i], w, incidents'[i])

Newborn(r) ==
    /\ r.status = "new" /\ r.created \in 1..now /\ r.updated = r.created
    /\ \A s \in StampedStatuses : r.stamps[s] = Never

StepShape ==
    /\ incidents' \in Seq(Row)
    /\ audit' \in Seq(Seq(AuditRows))
    /\ Len(audit') = Len(incidents')
    /\ \A i \in Ids : Grown(i)
    /\ \/ Len(incidents') = Len(incidents)
       \/ /\ Len(incidents') = Len(incidents) + 1
          /\ \A i \in Ids : incidents'[i] = incidents[i] /\ audit'[i] = audit[i]
          /\ audit'[Len(incidents) + 1] = <<>>
          /\ Newborn(incidents'[Len(incidents) + 1])

(* What IndInv says of one incident. *)
LEMMA OfIncident ==
    ASSUME IndInv, NEW i \in Ids
    PROVE  /\ now \in Nat /\ now \in Nat \ {Never}
           /\ incidents[i] \in Row /\ audit[i] \in Seq(AuditRows)
           /\ RowInv(incidents[i], audit[i], now)
           /\ Unstamped(incidents[i])
<1>1. incidents[i] \in Row /\ audit[i] \in Seq(AuditRows) /\ now \in Nat \ {Never}
  BY ElementOfSeq DEF IndInv, TypeOK, Ids
<1>2. RowInv(incidents[i], audit[i], now)
  BY DEF IndInv
<1>3. QED
  BY <1>1, <1>2, RowInvUnstamped

(* An incident the step leaves alone, or changes without an audit row. *)
LEMMA SilentGrown ==
    ASSUME IndInv, NEW i \in Ids, audit'[i] = audit[i],
           RowStep(incidents[i], <<>>, incidents'[i])
    PROVE  Grown(i)
<1>1. audit[i] \in Seq(AuditRows) /\ <<>> \in Seq(AuditRows)
  BY OfIncident
<1>2. audit'[i] = audit[i] \o <<>>
  BY <1>1, ConcatEmptySeq
<1>3. QED
  BY <1>1, <1>2 DEF Grown

(* An incident the step does not write. *)
LEMMA SameGrown ==
    ASSUME IndInv, NEW i \in Ids, audit'[i] = audit[i], incidents'[i] = incidents[i]
    PROVE  Grown(i)
BY OfIncident, SameRow, SilentGrown

(* A step that does not write the tables: a tick, or no step at all. *)
LEMMA StutterShape ==
    ASSUME IndInv, UNCHANGED <<incidents, audit>>
    PROVE  StepShape
<1>1. \A i \in Ids : Grown(i)
  BY SameGrown
<1>2. QED
  BY <1>1 DEF StepShape, IndInv, TypeOK

(* A transaction that writes one incident. *)
LEMMA UpdateShape ==
    ASSUME IndInv, NEW i \in Ids, NEW r, NEW w, RowStep(incidents[i], w, r), Update(i, r, w)
    PROVE  StepShape
<1>1. r \in Row /\ w \in Seq(AuditRows) /\ TypeOK
  BY DEF RowStep, IndInv
<1>2. /\ incidents' \in Seq(Row)
      /\ audit' \in Seq(Seq(AuditRows))
      /\ Len(audit') = Len(incidents')
      /\ Len(incidents') = Len(incidents)
      /\ incidents'[i] = r
      /\ audit'[i] = audit[i] \o w
      /\ \A j \in Ids \ {i} : incidents'[j] = incidents[j] /\ audit'[j] = audit[j]
  BY <1>1, UpdateType
<1>3. Grown(i)
  BY <1>1, <1>2 DEF Grown
<1>4. \A j \in Ids \ {i} : Grown(j)
  BY <1>2, SameGrown
<1>5. QED
  BY <1>2, <1>3, <1>4 DEF StepShape

(* A transaction that inserts one incident. *)
LEMMA InsertShape ==
    ASSUME IndInv, NEW r \in Row, Newborn(r), Insert(r)
    PROVE  StepShape
<1>1. /\ incidents' \in Seq(Row)
      /\ audit' \in Seq(Seq(AuditRows))
      /\ Len(audit') = Len(incidents')
      /\ Len(incidents') = Len(incidents) + 1
      /\ incidents'[Len(incidents) + 1] = r
      /\ audit'[Len(incidents) + 1] = <<>>
      /\ \A j \in Ids : incidents'[j] = incidents[j] /\ audit'[j] = audit[j]
  BY InsertType DEF IndInv
<1>2. \A i \in Ids : Grown(i)
  BY <1>1, SameGrown
<1>3. QED
  BY <1>1, <1>2 DEF StepShape

(* One statement that writes a set of rows. *)
LEMMA BulkShape ==
    ASSUME IndInv, NEW R, NEW L, incidents' = [i \in Ids |-> R[i]], audit' = [i \in Ids |-> L[i]],
           \A i \in Ids : \E w \in Seq(AuditRows) :
               L[i] = audit[i] \o w /\ RowStep(incidents[i], w, R[i])
    PROVE  StepShape
<1>1. \A i \in Ids : Grown(i) /\ R[i] \in Row
  <2> TAKE i \in Ids
  <2>1. PICK w \in Seq(AuditRows) : L[i] = audit[i] \o w /\ RowStep(incidents[i], w, R[i])
    OBVIOUS
  <2>2. incidents'[i] = R[i] /\ audit'[i] = L[i]
    OBVIOUS
  <2>3. Grown(i)
    BY <2>1, <2>2 DEF Grown
  <2>4. QED
    BY <2>1, <2>3 DEF RowStep
<1>2. \A i \in Ids : L[i] \in Seq(AuditRows)
  <2> TAKE i \in Ids
  <2>1. PICK w \in Seq(AuditRows) : L[i] = audit[i] \o w
    OBVIOUS
  <2>2. QED
    BY <2>1, OfIncident, ConcatProperties
<1>3. incidents' \in [1..Len(incidents) -> Row] /\ audit' \in [1..Len(incidents) -> Seq(AuditRows)]
  BY <1>1, <1>2 DEF Ids
<1>4. Len(incidents) \in Nat
  BY DEF IndInv, TypeOK
<1>5. /\ incidents' \in Seq(Row) /\ Len(incidents') = Len(incidents)
      /\ audit' \in Seq(Seq(AuditRows)) /\ Len(audit') = Len(incidents)
  BY <1>3, <1>4, FunctionIsSeq
<1>6. QED
  BY <1>1, <1>5 DEF StepShape

-----------------------------------------------------------------------------
(* The operations, one by one *)

(* The row an INSERT writes is a row of the table, as old as the step. *)
LEMMA NewRowFacts ==
    ASSUME now \in Nat, NEW d \in Devices \union {NoDevice}, NEW c \in Classes,
           NEW a \in Assignees \union {NoAssignee}, NEW key \in {"none", "incident", "trap"},
           NEW time \in 1..now
    PROVE  /\ NewRow(d, c, a, key, time) \in Row
           /\ Newborn(NewRow(d, c, a, key, time))
BY DEF NewRow, Row, Newborn, Statuses, Never

(* defaultIncidentAssignee returns an owner or none. *)
LEMMA DefaultAssigneeType ==
    ASSUME NEW c \in Classes
    PROVE  DefaultAssignee(c) \in Assignees \union {NoAssignee}
<1>1. c.source \in Sources
  BY ConstantsAssumption
<1>2. Sources \subseteq {"critical", "trap", "polling", "manual", "default"}
  BY DEF Sources
<1>3. \A k \in {"critical", "trap", "polling", "manual", "default"} :
         EnvAssignee[k] \in Assignees \union {NoAssignee}
  BY ConstantsAssumption
<1>4. QED
  BY <1>1, <1>2, <1>3 DEF DefaultAssignee

(* Both correlations: a touch, or an insert when nothing matches. *)
LEMMA CorrelateShape ==
    ASSUME IndInv, live \subseteq Devices, NEW d \in live \union {NoDevice}, NEW c \in Classes,
           NEW key \in {"incident", "trap"}, NEW start \in 1..now, CreateOrTouch(d, c, key, start)
    PROVE  StepShape
<1> DEFINE r == NewRow(d, c, DefaultAssignee(c), key, start)
<1>1. now \in Nat /\ r \in Row /\ Newborn(r)
  BY NewRowFacts, DefaultAssigneeType DEF IndInv, TypeOK
<1>2. \/ \E i \in Ids : Update(i, Touched(incidents[i], start), <<>>)
      \/ Insert(r)
  BY DEF CreateOrTouch, Latest, Matching, SameKey
<1>3. ASSUME NEW i \in Ids, Update(i, Touched(incidents[i], start), <<>>) PROVE StepShape
  BY <1>1, <1>3, OfIncident, TouchedRow, UpdateShape
<1> QED
  BY <1>1, <1>2, <1>3, InsertShape

(* One statement resolves every open incident of a set. *)
LEMMA ResolveShape ==
    ASSUME IndInv, NEW I, I \subseteq Ids, \A i \in I : IsOpen(incidents[i]), ResolveAll(I)
    PROVE  StepShape
<1> DEFINE R == [i \in Ids |-> IF i \in I THEN Entered(incidents[i], {"resolved"}, "resolved")
                               ELSE incidents[i]]
           L == [i \in Ids |-> IF i \in I
                               THEN audit[i] \o <<AuditRow(incidents[i].status, "resolved")>>
                               ELSE audit[i]]
<1>1. incidents' = [i \in Ids |-> R[i]] /\ audit' = [i \in Ids |-> L[i]]
  BY DEF ResolveAll
<1>2. \A i \in Ids : \E w \in Seq(AuditRows) :
         L[i] = audit[i] \o w /\ RowStep(incidents[i], w, R[i])
  <2> TAKE i \in Ids
  <2>1. /\ now \in Nat \ {Never} /\ incidents[i] \in Row /\ audit[i] \in Seq(AuditRows)
        /\ Unstamped(incidents[i])
    BY OfIncident
  <2>2. CASE i \in I
    <3> DEFINE w == <<AuditRow(incidents[i].status, "resolved")>>
    <3>1. "resolved" \in Statuses
      BY DEF Statuses
    <3>2. RowStep(incidents[i], w, R[i]) /\ L[i] = audit[i] \o w
      BY <2>1, <2>2, <3>1, SteppedRow
    <3>3. w \in Seq(AuditRows)
      BY <2>1, <3>1, OneRow DEF Row
    <3>4. QED
      BY <3>2, <3>3
  <2>3. CASE i \notin I
    <3>1. L[i] = audit[i] \o <<>> /\ <<>> \in Seq(AuditRows)
      BY <2>1, <2>3, ConcatEmptySeq
    <3>2. RowStep(incidents[i], <<>>, R[i])
      BY <2>1, <2>3, SameRow
    <3>3. QED
      BY <3>1, <3>2
  <2>4. QED
    BY <2>2, <2>3
<1> HIDE DEF R, L
<1>3. QED
  BY <1>1, <1>2, BulkShape

(* TransitionIncidentStatus walks its path. *)
LEMMA TransitionShape ==
    ASSUME IndInv, NEW i \in Ids, NEW t \in Statuses, TransitionIncidentStatus(i, t)
    PROVE  StepShape
<1> DEFINE P == StatusPath(incidents[i].status, t)
           q == Entered(incidents[i], {P[k] : k \in 1..Len(P)}, t)
           w == PathRows(incidents[i].status, t)
<1>1. now \in Nat \ {Never} /\ incidents[i] \in Row /\ Unstamped(incidents[i])
  BY OfIncident
<1>2. P # <<>> /\ Update(i, q, w)
  BY DEF TransitionIncidentStatus
<1>3. RowStep(incidents[i], w, q)
  BY <1>1, <1>2, MovedRow
<1> HIDE DEF w, q
<1>4. QED
  BY <1>2, <1>3, UpdateShape

(* AssignIncident records the change of owner. *)
LEMMA AssignShape ==
    ASSUME IndInv, NEW i \in Ids, NEW a \in Assignees \union {NoAssignee}, AssignIncident(i, a)
    PROVE  StepShape
<1>1. now \in Nat \ {Never} /\ incidents[i] \in Row
  BY OfIncident
<1>2. RowStep(incidents[i], <<AuditRow(incidents[i].status, incidents[i].status)>>,
              Reassigned(incidents[i], a))
  BY <1>1, ReassignedRow
<1>3. QED
  BY <1>2, UpdateShape DEF AssignIncident

(* ApplyITSMInboundUpdate takes its step, its change of owner, or both. *)
LEMMA InboundShape ==
    ASSUME IndInv, NEW i \in Ids, NEW t \in Statuses \union {NoStatus},
           NEW a \in Assignees \union {NoAssignee}, ApplyITSMInboundUpdate(i, t, a)
    PROVE  StepShape
<1> DEFINE r == incidents[i]
<1>1. now \in Nat \ {Never} /\ r \in Row /\ Unstamped(r)
  BY OfIncident
<1>2. t \in {NoStatus, r.status} \union NextAllowed[r.status]
  BY DEF ApplyITSMInboundUpdate
<1>3. Update(i, InboundRow(r, t, a), InboundRows(r, t, a))
  BY DEF ApplyITSMInboundUpdate
<1>4. RowStep(r, InboundRows(r, t, a), InboundRow(r, t, a))
  BY <1>1, <1>2, InboundRowStep
<1>5. QED
  BY <1>3, <1>4, UpdateShape

(* EscalateUnackedIncidents gives every stale new incident its owner. *)
LEMMA EscalateShape ==
    ASSUME IndInv, NEW p \in Policies, EscalateUnackedIncidents(p)
    PROVE  StepShape
<1> DEFINE R == [i \in Ids |-> IF i \in Unacked(p) THEN Reassigned(incidents[i], p.target)
                               ELSE incidents[i]]
           L == [i \in Ids |-> IF i \in Unacked(p)
                               THEN audit[i] \o <<AuditRow("new", "new")>>
                               ELSE audit[i]]
<1>1. incidents' = [i \in Ids |-> R[i]] /\ audit' = [i \in Ids |-> L[i]]
  BY DEF EscalateUnackedIncidents
<1>2. \A i \in Ids : \E w \in Seq(AuditRows) :
         L[i] = audit[i] \o w /\ RowStep(incidents[i], w, R[i])
  <2> TAKE i \in Ids
  <2>1. now \in Nat \ {Never} /\ incidents[i] \in Row /\ audit[i] \in Seq(AuditRows)
    BY OfIncident
  <2>2. CASE i \in Unacked(p)
    <3> DEFINE w == <<AuditRow("new", "new")>>
    <3>1. incidents[i].status = "new" /\ "new" \in Statuses
      BY <2>2 DEF Unacked, Statuses
    <3>2. p.target \in Assignees \union {NoAssignee}
      BY ConstantsAssumption
    <3>3. RowStep(incidents[i], w, R[i]) /\ L[i] = audit[i] \o w
      BY <2>1, <2>2, <3>1, <3>2, ReassignedRow
    <3>4. w \in Seq(AuditRows)
      BY <2>1, <3>1, OneRow
    <3>5. QED
      BY <3>3, <3>4
  <2>3. CASE i \notin Unacked(p)
    <3>1. L[i] = audit[i] \o <<>> /\ <<>> \in Seq(AuditRows)
      BY <2>1, <2>3, ConcatEmptySeq
    <3>2. RowStep(incidents[i], <<>>, R[i])
      BY <2>1, <2>3, SameRow
    <3>3. QED
      BY <3>1, <3>2
  <2>4. QED
    BY <2>2, <2>3
<1> HIDE DEF R, L
<1>3. QED
  BY <1>1, <1>2, BulkShape

(* Deleting a device keeps its incidents. *)
LEMMA ForgetShape ==
    ASSUME IndInv, NEW d, ForgetDevice(d), audit' = audit
    PROVE  StepShape
<1> DEFINE R == [i \in Ids |-> IF incidents[i].device = d
                               THEN [incidents[i] EXCEPT !.device = NoDevice, !.unlocked = now]
                               ELSE incidents[i]]
<1>1. incidents' = [i \in Ids |-> R[i]]
  BY DEF ForgetDevice
<1>2. \A i \in Ids : Grown(i) /\ R[i] \in Row
  <2> TAKE i \in Ids
  <2>1. now \in Nat /\ incidents[i] \in Row /\ incidents'[i] = R[i]
    BY <1>1, OfIncident
  <2>2. RowStep(incidents[i], <<>>, R[i])
    BY <2>1, SameRow, ForgottenRow
  <2> HIDE DEF R
  <2>3. Grown(i)
    BY <2>1, <2>2, SilentGrown
  <2>4. QED
    BY <2>2, <2>3 DEF RowStep
<1>3. Len(incidents) \in Nat /\ incidents' \in [1..Len(incidents) -> Row]
  <2>1. incidents' = [i \in 1..Len(incidents) |-> R[i]]
    BY <1>1 DEF Ids
  <2>2. \A i \in 1..Len(incidents) : R[i] \in Row
    BY <1>2 DEF Ids
  <2> HIDE DEF R
  <2>3. QED
    BY <2>1, <2>2 DEF IndInv, TypeOK
<1>4. incidents' \in Seq(Row) /\ Len(incidents') = Len(incidents)
  BY <1>3, FunctionIsSeq
<1>5. QED
  BY <1>2, <1>4 DEF StepShape, IndInv, TypeOK

(* Every step of the system has the shape. *)
LEMMA NextShape ==
    ASSUME IndInv, [Next]_vars
    PROVE  StepShape /\ now' \in Nat \ {Never} /\ now <= now' /\ live' \subseteq Devices
<1>1. now \in Nat /\ now # Never /\ live \subseteq Devices
  BY DEF IndInv, TypeOK
<1>2. CASE Correlate
  <2>1. ASSUME NEW d \in Devices \union {NoDevice}, NEW c \in Classes,
               NEW start \in 1..now, CreateOrTouchOpenIncident(d, c, start)
        PROVE  StepShape
    BY <1>1, <2>1, CorrelateShape DEF CreateOrTouchOpenIncident
  <2>2. ASSUME NEW d \in Devices \union {NoDevice}, NEW c \in Classes,
               NEW start \in 1..now, CreateOrTouchOpenTrapIncident(d, c, start)
        PROVE  StepShape
    BY <1>1, <2>2, CorrelateShape DEF CreateOrTouchOpenTrapIncident
  <2>3. ASSUME NEW d \in Devices, ResolveOpenTrapIncidents(d)
        PROVE  StepShape
    BY <2>3, ResolveShape DEF ResolveOpenTrapIncidents
  <2>4. ASSUME NEW d \in Devices, NEW src \in Sources, ResolveOpenIncidentsBySource(d, src)
        PROVE  StepShape
    BY <2>4, ResolveShape DEF ResolveOpenIncidentsBySource, OpenIncidentsOf
  <2>5. UNCHANGED <<now, live>>
    BY <1>2 DEF Correlate, CreateOrTouchOpenIncident, CreateOrTouchOpenTrapIncident,
                ResolveOpenTrapIncidents, ResolveOpenIncidentsBySource
  <2>6. StepShape
    BY <1>2, <2>1, <2>2, <2>3, <2>4 DEF Correlate
  <2>7. QED
    BY <1>1, <2>5, <2>6
<1>3. CASE Operate
  <2>1. ASSUME NEW d \in Devices \union {NoDevice}, NEW c \in Classes,
               NEW a \in Assignees \union {NoAssignee}, CreateIncident(d, c, a)
        PROVE  StepShape
    <3> DEFINE b == IF a = NoAssignee THEN DefaultAssignee(c) ELSE a
    <3>1. b \in Assignees \union {NoAssignee}
      BY DefaultAssigneeType
    <3>2. Insert(NewRow(d, c, b, "none", now)) /\ now \in 1..now
      BY <1>1, <2>1 DEF CreateIncident, Never
    <3> HIDE DEF b
    <3>3. NewRow(d, c, b, "none", now) \in Row /\ Newborn(NewRow(d, c, b, "none", now))
      BY <1>1, <3>1, <3>2, NewRowFacts
    <3>4. QED
      BY <3>2, <3>3, InsertShape
  <2>2. ASSUME NEW i \in Ids, NEW t \in Statuses, TransitionIncidentStatus(i, t)
        PROVE  StepShape
    BY <2>2, TransitionShape
  <2>3. ASSUME NEW i \in Ids, NEW a \in Assignees \union {NoAssignee}, AssignIncident(i, a)
        PROVE  StepShape
    BY <2>3, AssignShape
  <2>4. ASSUME NEW i \in Ids, NEW t \in Statuses \union {NoStatus},
               NEW a \in Assignees \union {NoAssignee}, ApplyITSMInboundUpdate(i, t, a)
        PROVE  StepShape
    BY <2>4, InboundShape
  <2>5. UNCHANGED <<now, live>>
    BY <1>3 DEF Operate, CreateIncident, TransitionIncidentStatus, AssignIncident,
                ApplyITSMInboundUpdate
  <2>6. StepShape
    BY <1>3, <2>1, <2>2, <2>3, <2>4 DEF Operate
  <2>7. QED
    BY <1>1, <2>5, <2>6
<1>4. CASE \E p \in Policies : EscalateUnackedIncidents(p)
  BY <1>1, <1>4, EscalateShape DEF EscalateUnackedIncidents
<1>5. CASE \E d \in Devices : DeleteDevice(d)
  BY <1>1, <1>5, ForgetShape DEF DeleteDevice
<1>6. CASE Tick
  <2>1. UNCHANGED <<incidents, audit, live>> /\ now' = now + 1
    BY <1>6 DEF Tick, store
  <2>2. QED
    BY <1>1, <2>1, StutterShape DEF Never
<1>7. CASE UNCHANGED vars
  BY <1>1, <1>7, StutterShape DEF vars, store
<1>8. QED
  BY <1>2, <1>3, <1>4, <1>5, <1>6, <1>7 DEF Next

-----------------------------------------------------------------------------
(* Theorems *)

(* The rows of a later state: an old incident has stepped, a new one is    *)
(* as the INSERT left it.                                                  *)
LEMMA LaterRows ==
    ASSUME IndInv, [Next]_vars, NEW i \in Ids'
    PROVE  \/ i \in Ids /\ Grown(i)
           \/ /\ i \notin Ids /\ i = Len(incidents) + 1
              /\ audit'[i] = <<>> /\ Newborn(incidents'[i])
              /\ \A j \in Ids : incidents'[j] = incidents[j]
<1>1. StepShape
  BY NextShape
<1>2. Len(incidents) \in Nat
  BY DEF IndInv, TypeOK
<1>3. QED
  BY <1>1, <1>2 DEF StepShape, Ids

(* The invariant of one incident survives every step. *)
LEMMA RowInvNext ==
    ASSUME IndInv, [Next]_vars, NEW i \in Ids'
    PROVE  RowInv(incidents'[i], audit'[i], now')
<1>1. now \in Nat /\ now' \in Nat /\ now <= now' /\ StepShape
  BY NextShape DEF IndInv, TypeOK
<1>2. CASE i \in Ids /\ Grown(i)
  <2>1. PICK w \in Seq(AuditRows) :
               audit'[i] = audit[i] \o w /\ RowStep(incidents[i], w, incidents'[i])
    BY <1>2 DEF Grown
  <2>2. /\ incidents[i] \in Row /\ audit[i] \in Seq(AuditRows)
        /\ RowInv(incidents[i], audit[i], now)
    BY <1>2, OfIncident
  <2>3. RowInv(incidents'[i], audit[i] \o w, now)
    BY <1>1, <2>1, <2>2, RowInvStep
  <2>4. incidents'[i].updated \in Nat /\ incidents'[i].created \in Nat
    BY <2>1 DEF RowStep, Row
  <2>5. RowInv(incidents'[i], audit'[i], now)
    BY <2>1, <2>3
  <2>6. QED
    BY <1>1, <2>4, <2>5 DEF RowInv
<1>3. CASE audit'[i] = <<>> /\ Newborn(incidents'[i])
  <2>1. \A s : Entries(<<>>, s) = {}
    BY DEF Entries
  <2>2. QED
    BY <1>1, <1>3, <2>1 DEF Newborn, RowInv, Chain, StampMatches
<1>4. QED
  BY <1>2, <1>3, LaterRows

(* A step keeps what correlation compares: a row that is open after the    *)
(* step was open before it, and its key changes only to no device at all.  *)
LEMMA KeptKey ==
    ASSUME IndInv, NEW i \in Ids, Grown(i)
    PROVE  /\ incidents[i] \in Row /\ incidents'[i] \in Row
           /\ incidents'[i].class = incidents[i].class
           /\ incidents'[i].key = incidents[i].key
           /\ incidents'[i].created = incidents[i].created
           /\ incidents'[i].device # NoDevice => incidents'[i].device = incidents[i].device
           /\ IsOpen(incidents'[i]) => IsOpen(incidents[i])
<1>1. PICK w \in Seq(AuditRows) : RowStep(incidents[i], w, incidents'[i])
  BY DEF Grown
<1>2. incidents[i] \in Row /\ incidents'[i] \in Row
  BY <1>1, OfIncident DEF RowStep
<1>3. incidents[i].status \in Statuses /\ incidents'[i].status \in Statuses
  BY <1>2 DEF Row
<1>4. \A f, t \in Statuses : Rank[f] <= Rank[t] /\ t \in OpenStatuses => f \in OpenStatuses
  BY DEF Statuses, OpenStatuses, Rank
<1>5. Rank[incidents[i].status] <= Rank[incidents'[i].status]
  BY <1>1 DEF RowStep
<1>6. IsOpen(incidents'[i]) => IsOpen(incidents[i])
  BY <1>3, <1>4, <1>5 DEF IsOpen
<1>7. QED
  BY <1>1, <1>2, <1>6 DEF RowStep

(* The tables start empty. *)
LEMMA IndInvInit == Init => IndInv
BY DEF Init, IndInv, TypeOK, Ids, Never

(* The strengthened invariant is inductive. *)
LEMMA IndInvNext == IndInv /\ [Next]_vars => IndInv'
<1> SUFFICES ASSUME IndInv, [Next]_vars PROVE IndInv'
  OBVIOUS
<1>1. TypeOK'
  BY NextShape DEF StepShape, TypeOK
<1>2. \A i \in Ids' : RowInv(incidents'[i], audit'[i], now')
  BY RowInvNext
<1> QED
  BY <1>1, <1>2 DEF IndInv, RowInv, Chain, StampMatches, Entries

(* Every reachable state satisfies the strengthened invariant. *)
THEOREM Invariance == Spec => []IndInv
BY IndInvInit, IndInvNext, PTL DEF Spec

(* The tables keep their types. *)
THEOREM TypeCorrect == Spec => []TypeOK
<1>1. IndInv => TypeOK
  BY DEF IndInv
<1>2. QED
  BY <1>1, Invariance, PTL

(* The audit log of every incident is an unbroken chain to its status. *)
THEOREM AuditChainHolds == Spec => []AuditChain
<1>1. IndInv => AuditChain
  BY DEF IndInv, AuditChain, RowInv
<1>2. QED
  BY <1>1, Invariance, PTL

(* The timestamps agree with the audit log. *)
THEOREM StampsMatchAuditHolds == Spec => []StampsMatchAudit
<1>1. IndInv => StampsMatchAudit
  BY DEF IndInv, StampsMatchAudit, RowInv
<1>2. QED
  BY <1>1, Invariance, PTL

-----------------------------------------------------------------------------
(* The action property and the refinement *)

(* A log that grew by w still starts with what it was and goes on with w. *)
LEMMA GrownLog ==
    ASSUME NEW L \in Seq(AuditRows), NEW w \in Seq(AuditRows)
    PROVE  /\ Len(L) <= Len(L \o w)
           /\ SubSeq(L \o w, 1, Len(L)) = L
           /\ SubSeq(L \o w, Len(L) + 1, Len(L \o w)) = w
<1>1. /\ Len(L) \in Nat /\ Len(w) \in Nat /\ Len(L \o w) = Len(L) + Len(w)
      /\ (L = <<>> <=> Len(L) = 0) /\ (w = <<>> <=> Len(w) = 0)
  BY ConcatProperties, EmptySeq
<1>2. SubSeq(L \o w, 1, Len(L)) = L
  <2>1. CASE Len(L) = 0
    <3>1. SubSeq(L \o w, 1, 0) = <<>>
      BY SubSeqEmpty
    <3>2. QED
      BY <1>1, <2>1, <3>1
  <2>2. CASE Len(L) # 0
    <3>1. 1 \in 1..Len(L) /\ Len(L) \in 1..Len(L)
      BY <1>1, <2>2
    <3>2. SubSeq(L \o w, 1, Len(L)) = SubSeq(L, 1, Len(L))
      BY <3>1, SubSeqOfConcat1
    <3>3. QED
      BY <3>2, SubSeqFull
  <2>3. QED
    BY <2>1, <2>2
<1>3. SubSeq(L \o w, Len(L) + 1, Len(L \o w)) = w
  <2>1. CASE Len(w) = 0
    <3>1. SubSeq(L \o w, Len(L) + 1, Len(L)) = <<>>
      BY <1>1, SubSeqEmpty
    <3>2. QED
      BY <1>1, <2>1, <3>1
  <2>2. CASE Len(w) # 0
    <3> DEFINE m == Len(L) + 1
               n == Len(L) + Len(w)
    <3>1. /\ m \in (Len(L) + 1)..(Len(L) + Len(w)) /\ n \in (Len(L) + 1)..(Len(L) + Len(w))
          /\ m - Len(L) = 1 /\ n - Len(L) = Len(w)
      BY <1>1, <2>2
    <3>2. SubSeq(L \o w, m, n) = SubSeq(w, m - Len(L), n - Len(L))
      BY <3>1, SubSeqOfConcat2
    <3>3. SubSeq(w, 1, Len(w)) = w
      BY SubSeqFull
    <3>4. QED
      BY <1>1, <3>1, <3>2, <3>3
  <2>3. QED
    BY <2>1, <2>2
<1>4. QED
  BY <1>1, <1>2, <1>3

(* A stamp that is set is not written again: its status lies behind.       *)
LEMMA StampsKept ==
    ASSUME NEW r \in Row, Unstamped(r), NEW w, NEW q, RowStep(r, w, q),
           NEW s \in StampedStatuses, r.stamps[s] # Never
    PROVE  q.stamps[s] = r.stamps[s]
<1>1. SUFFICES Entries(w, s) = {}
  BY DEF RowStep
<1>2. SUFFICES ASSUME NEW k \in 1..Len(w), w[k].to = s, w[k].from # s PROVE FALSE
  BY DEF Entries
<1>3. s \in Statuses /\ w[k].from \in Statuses /\ r.status \in Statuses
  <2>1. w[k] \in AuditRows
    BY ElementOfSeq DEF RowStep
  <2>2. QED
    BY <2>1 DEF AuditRows, StampedStatuses, Statuses, Row
<1>4. /\ Rank[s] \in 1..5 /\ Rank[w[k].from] \in 1..5 /\ Rank[r.status] \in 1..5
      /\ StatusOrder[Rank[s]] = s /\ StatusOrder[Rank[w[k].from]] = w[k].from
  BY <1>3, RankFacts
<1>5. Rank[r.status] <= Rank[w[k].from] /\ Rank[w[k].from] <= Rank[s]
  BY <1>2 DEF RowStep
<1>6. Rank[w[k].from] # Rank[s]
  BY <1>2, <1>4
<1>7. Rank[r.status] < Rank[s]
  BY <1>4, <1>5, <1>6
<1>8. QED
  BY <1>7 DEF Unstamped

(* What a step never does to an incident's history. *)
Preserved(i) ==
    /\ Len(audit[i]) <= Len(audit'[i])
    /\ SubSeq(audit'[i], 1, Len(audit[i])) = audit[i]
    /\ \A s \in StampedStatuses :
          incidents[i].stamps[s] # Never => incidents'[i].stamps[s] = incidents[i].stamps[s]

(* An incident that grows keeps its history. *)
LEMMA GrownPreserved ==
    ASSUME IndInv, NEW i \in Ids, Grown(i)
    PROVE  Preserved(i)
<1>1. PICK w \in Seq(AuditRows) :
             audit'[i] = audit[i] \o w /\ RowStep(incidents[i], w, incidents'[i])
  BY DEF Grown
<1>2. /\ incidents[i] \in Row /\ audit[i] \in Seq(AuditRows) /\ now \in Nat
      /\ Unstamped(incidents[i])
  BY OfIncident DEF RowInv
<1>3. \A s \in StampedStatuses :
         incidents[i].stamps[s] # Never => incidents'[i].stamps[s] = incidents[i].stamps[s]
  BY <1>1, <1>2, StampsKept
<1>4. Len(audit[i]) <= Len(audit'[i]) /\ SubSeq(audit'[i], 1, Len(audit[i])) = audit[i]
  BY <1>1, <1>2, GrownLog
<1>5. QED
  BY <1>3, <1>4 DEF Preserved

(* No operation rewrites an incident's history. *)
THEOREM HistoryPreservedHolds == Spec => HistoryPreserved
<1>1. IndInv /\ [Next]_vars => [\A i \in Ids : Preserved(i)]_vars
  <2> SUFFICES ASSUME IndInv, [Next]_vars PROVE \A i \in Ids : Preserved(i)
    OBVIOUS
  <2>1. \A i \in Ids : Grown(i)
    BY NextShape DEF StepShape
  <2>2. QED
    BY <2>1, GrownPreserved
<1>2. QED
  BY <1>1, Invariance, PTL DEF Spec, HistoryPreserved, Preserved

(* The audit rows of one step are a walk of the lifecycle. *)
LEMMA StepWalks ==
    ASSUME NEW r \in Row, NEW w, NEW q, RowStep(r, w, q)
    PROVE  Lifecycle!Walk(r.status, q.status, w)
<1>1. w \in Seq(AuditRows) /\ Len(w) \in Nat /\ (w = <<>> <=> Len(w) = 0)
  BY EmptySeq DEF RowStep
<1>2. QED
  BY <1>1 DEF Lifecycle!Walk, RowStep

(* A step of the store is a step of the lifecycle. *)
LEMMA LifecycleStep ==
    ASSUME IndInv, [Next]_vars
    PROVE  Lifecycle!Next
<1> DEFINE S == [i \in Ids |-> incidents[i].status]
           T == [i \in Ids' |-> incidents'[i].status]
           n == Len(incidents)
<1>1. /\ n \in Nat /\ audit \in Seq(Seq(AuditRows)) /\ Len(audit) = n
      /\ audit' \in Seq(Seq(AuditRows)) /\ Len(audit') = Len(incidents')
      /\ Ids = 1..n /\ Ids' = 1..Len(incidents')
      /\ \A i \in Ids : Grown(i)
  BY NextShape DEF IndInv, TypeOK, StepShape, Ids
<1>2. CASE Len(incidents') = n
  <2>1. DOMAIN T = DOMAIN S /\ DOMAIN audit' = DOMAIN audit /\ DOMAIN S = Ids
    BY <1>1, <1>2
  <2>2. ASSUME NEW i \in Ids
        PROVE  /\ Len(audit'[i]) >= Len(audit[i])
               /\ SubSeq(audit'[i], 1, Len(audit[i])) = audit[i]
               /\ Lifecycle!Walk(S[i], T[i], Lifecycle!Added(i))
    <3>1. PICK w \in Seq(AuditRows) :
                 audit'[i] = audit[i] \o w /\ RowStep(incidents[i], w, incidents'[i])
      BY <1>1 DEF Grown
    <3>2. incidents[i] \in Row /\ audit[i] \in Seq(AuditRows)
      BY OfIncident
    <3>3. Lifecycle!Added(i) = w
      <4>1. SubSeq(audit[i] \o w, Len(audit[i]) + 1, Len(audit[i] \o w)) = w
        BY <3>2, GrownLog
      <4>2. audit'[i] = audit[i] \o w
        BY <3>1
      <4>3. QED
        BY <4>1, <4>2 DEF Lifecycle!Added
    <3>4. S[i] = incidents[i].status /\ T[i] = incidents'[i].status
      BY <1>1, <1>2
    <3>5. Lifecycle!Walk(S[i], T[i], w)
      BY <3>1, <3>2, <3>4, StepWalks
    <3>6. Len(audit[i]) \in Nat /\ Len(audit'[i]) \in Nat /\ Len(audit[i]) <= Len(audit'[i])
      BY <3>1, <3>2, GrownLog, ConcatProperties
    <3>7. SubSeq(audit'[i], 1, Len(audit[i])) = audit[i]
      BY <3>1, <3>2, GrownLog
    <3>8. QED
      BY <3>3, <3>5, <3>6, <3>7
  <2>3. QED
    BY <2>1, <2>2 DEF Lifecycle!Next, Lifecycle!Advance
<1>3. CASE /\ Len(incidents') = n + 1
           /\ \A i \in Ids : incidents'[i] = incidents[i] /\ audit'[i] = audit[i]
           /\ audit'[n + 1] = <<>>
           /\ Newborn(incidents'[n + 1])
  <2>1. audit' = Append(audit, <<>>)
    <3>1. <<>> \in Seq(AuditRows)
      OBVIOUS
    <3>2. /\ Append(audit, <<>>) \in Seq(Seq(AuditRows))
          /\ Len(Append(audit, <<>>)) = n + 1
          /\ \A i \in 1..n : Append(audit, <<>>)[i] = audit[i]
          /\ Append(audit, <<>>)[n + 1] = <<>>
      BY <3>1, <1>1, AppendProperties
    <3>3. \A i \in 1..(n + 1) : i \in 1..n \/ i = n + 1
      BY <1>1
    <3>4. QED
      BY <3>2, <3>3, <1>1, <1>3, SeqEqual
  <2>2. T = Append(S, "new")
    <3>1. S \in [1..n -> Statuses] /\ T \in [1..(n + 1) -> Statuses]
      <4>1. \A i \in Ids : incidents[i] \in Row
        BY OfIncident
      <4>2. \A i \in Ids' : incidents'[i] \in Row
        BY <1>1, <1>3, NextShape, ElementOfSeq DEF StepShape
      <4>3. QED
        BY <4>1, <4>2, <1>1, <1>3 DEF Row
    <3>2. S \in Seq(Statuses) /\ Len(S) = n /\ T \in Seq(Statuses) /\ Len(T) = n + 1
      BY <3>1, <1>1, FunctionIsSeq
    <3>3. /\ Append(S, "new") \in Seq(Statuses)
          /\ Len(Append(S, "new")) = n + 1
          /\ \A i \in 1..n : Append(S, "new")[i] = S[i]
          /\ Append(S, "new")[n + 1] = "new"
      <4>1. "new" \in Statuses /\ n \in Nat
        BY <1>1 DEF Statuses
      <4> HIDE DEF S
      <4>2. QED
        BY <4>1, <3>2, AppendProperties
    <3>4. \A i \in 1..(n + 1) : T[i] = Append(S, "new")[i]
      <4> TAKE i \in 1..(n + 1)
      <4>1. i \in 1..n \/ i = n + 1
        BY <1>1
      <4>2. CASE i \in 1..n
        BY <4>2, <3>3, <1>1, <1>3
      <4>3. CASE i = n + 1
        BY <4>3, <3>3, <1>1, <1>3 DEF Newborn
      <4>4. QED
        BY <4>1, <4>2, <4>3
    <3>5. QED
      BY <3>2, <3>3, <3>4, SeqEqual
  <2>3. QED
    BY <2>1, <2>2 DEF Lifecycle!Next, Lifecycle!Raise
<1>4. QED
  BY <1>2, <1>3, NextShape DEF StepShape

(* The store starts as the lifecycle does. *)
LEMMA LifecycleInit == Init => Lifecycle!Init
BY DEF Init, Lifecycle!Init, Ids

(* The tables implement the lifecycle, whatever the constants. *)
THEOREM Refinement == Spec => ImplementsLifecycle
<1>1. IndInv /\ [Next]_vars => [Lifecycle!Next]_(Lifecycle!lifecycleVars)
  BY LifecycleStep
<1>2. QED
  BY <1>1, LifecycleInit, Invariance, PTL DEF Spec, ImplementsLifecycle, Lifecycle!Spec

-----------------------------------------------------------------------------
(***************************************************************************)
(* What the polling transactions keep together in three tables, for any    *)
(* number of devices and failures and whatever else writes incidents.      *)
(***************************************************************************)

-----------------------------------------------------------------------------
(* The polling transactions use the store *)

LEMMA InitIsStores == PollInit => Init
BY DEF PollInit

LEMMA NextIsStores == [PollNext]_pollVars => [Next]_vars
<1> SUFFICES ASSUME [PollNext]_pollVars PROVE [Next]_vars
  OBVIOUS
<1>1. ASSUME NEW d \in Devices, NEW f \in Failures, RecordPollFailureTransition(d, f)
      PROVE  [Next]_vars
  BY <1>1, PollingAssumption DEF RecordPollFailureTransition, OpenOutage, Next, Correlate
<1>2. ASSUME NEW d \in Devices, RecordPollRecoveryTransition(d)
      PROVE  [Next]_vars
  BY <1>2 DEF RecordPollRecoveryTransition, ResolvePolled, Next, Correlate, Sources
<1>3. ASSUME NEW d \in Devices, RemoveDevice(d)
      PROVE  [Next]_vars
  BY <1>3 DEF RemoveDevice, Next
<1>4. CASE OtherWriters
  BY <1>4 DEF OtherWriters, Traps, Next, Correlate
<1> QED
  BY <1>1, <1>2, <1>3, <1>4 DEF PollNext, pollVars

-----------------------------------------------------------------------------
(* The invariant *)

AvailabilityEvents == [kind : {"unavailable", "available"}, at : Nat]

PollTypeOK ==
    /\ status \in [Devices -> {"active", "deleted"} \union Failures]
    /\ events \in [Devices -> Seq(AvailabilityEvents)]
    /\ \A d \in live : status[d] # "deleted"

(* Only the poller correlates by severity, and only for outages. *)
OutagesAreKeyed == \A i \in Ids : incidents[i].key = "incident" => incidents[i].class = Outage

PollTables == PollTypeOK /\ EventsAlternate /\ OutagesAreKeyed /\ OutagesMatchIncidents

PollInv == IndInv /\ PollTables

(* What EventsAlternate says of one device's events and status. *)
Alternates(L, s) ==
    /\ \A k \in 1..Len(L) : L[k].kind = IF k % 2 = 1 THEN "unavailable" ELSE "available"
    /\ WasFailure(s) <=> Len(L) % 2 = 1

LEMMA EventsAlternateIs ==
    /\ EventsAlternate <=> \A d \in live : Alternates(events[d], status[d])
    /\ EventsAlternate' <=> \A d \in live' : Alternates(events'[d], status'[d])
BY DEF EventsAlternate, Alternates, WasFailure

LEMMA PollInitInv == PollInit => PollInv
<1> SUFFICES ASSUME PollInit PROVE PollInv
  OBVIOUS
<1>1. Ids = {} /\ IndInv
  BY InitIsStores, IndInvInit DEF Init, Ids
<1>2. \A d \in Devices : Len(events[d]) = 0 /\ ~WasFailure(status[d])
  BY PollingAssumption DEF PollInit, WasFailure
<1>3. PollTypeOK
  BY DEF PollInit, Init, PollTypeOK
<1>4. live \subseteq Devices
  BY DEF PollInit, Init
<1>5. EventsAlternate
  <2>1. 1..0 = {} /\ 0 % 2 # 1
    OBVIOUS
  <2> QED
    BY <1>2, <1>4, <2>1 DEF EventsAlternate
<1> QED
  BY <1>1, <1>2, <1>3, <1>4, <1>5 DEF PollInv, PollTables, OutagesAreKeyed, OutagesMatchIncidents

(* A device with a row is active or it has failed, not both. *)
LEMMA LiveStatus ==
    ASSUME PollInv, NEW d \in live
    PROVE  d \in Devices /\ d # NoDevice /\ (WasOK(status[d]) <=> ~WasFailure(status[d]))
BY PollingAssumption, ConstantsAssumption DEF PollInv, PollTables, IndInv, TypeOK, PollTypeOK, WasOK, WasFailure

-----------------------------------------------------------------------------
(* What the steps of the store leave of an incident *)

DevicesKept == \A i \in Ids : incidents'[i].device = incidents[i].device

NewKeys(K) == \A i \in Ids' \ Ids : incidents'[i].key \in K

(* The time of update does not go back. *)
Fresher(i) == incidents'[i].updated >= incidents[i].updated

OutagesFresher == \A i \in Ids : incidents[i].class = Outage => Fresher(i)

LEMMA OlderThanNow ==
    ASSUME IndInv, NEW i \in Ids
    PROVE  /\ incidents[i].updated \in Nat /\ incidents[i].updated <= now
           /\ incidents'[i].updated \in {incidents[i].updated, now} => Fresher(i)
BY OfIncident DEF Row, RowInv, Fresher

LEMMA UpdateKeeps ==
    ASSUME IndInv, NEW i \in Ids, NEW r, NEW w, Update(i, r, w),
           r.device = incidents[i].device
    PROVE  /\ DevicesKept /\ Ids' = Ids
           /\ \A j \in Ids \ {i} : Fresher(j)
           /\ r.updated \in {incidents[i].updated, now} => Fresher(i)
<1>1. DevicesKept /\ Ids' = Ids
  BY DEF IndInv, TypeOK, Update, DevicesKept, Ids
<1>2. \A j \in Ids : incidents'[j] = IF j = i THEN r ELSE incidents[j]
  BY DEF IndInv, TypeOK, Update, Ids
<1> QED
  BY <1>1, <1>2, OlderThanNow

LEMMA InsertKeeps ==
    ASSUME IndInv, NEW r \in Row, Insert(r)
    PROVE  /\ DevicesKept /\ \A i \in Ids : Fresher(i)
           /\ Ids' = Ids \union {Len(incidents) + 1}
           /\ incidents'[Len(incidents) + 1] = r
<1>1. /\ TypeOK /\ Len(incidents) \in Nat
      /\ Len(incidents') = Len(incidents) + 1
      /\ incidents'[Len(incidents) + 1] = r
      /\ \A j \in Ids : incidents'[j] = incidents[j]
  BY InsertType DEF IndInv, TypeOK
<1> QED
  BY <1>1, OlderThanNow DEF DevicesKept, Ids

LEMMA ResolveKeeps ==
    ASSUME IndInv, NEW I, ResolveAll(I)
    PROVE  /\ DevicesKept /\ Ids' = Ids /\ \A i \in Ids : Fresher(i)
           /\ \A i \in I \intersect Ids : ~IsOpen(incidents'[i])
<1>1. \A i \in Ids : incidents[i] \in Row
  BY OfIncident
<1>2. Len(incidents) \in Nat
  BY DEF IndInv, TypeOK
<1>3. DevicesKept /\ \A i \in I \intersect Ids : ~IsOpen(incidents'[i])
  BY <1>1 DEF ResolveAll, DevicesKept, Entered, Row, IsOpen, OpenStatuses
<1>4. Ids' = Ids
  <2>1. Len(incidents') = Len(incidents)
    BY <1>2, LenProperties DEF ResolveAll, Ids
  <2> QED
    BY <2>1 DEF Ids
<1>5. ASSUME NEW i \in Ids PROVE Fresher(i)
  <2>1. incidents'[i].updated \in {incidents[i].updated, now}
    BY <1>1 DEF ResolveAll, Entered, Row
  <2> QED
    BY <2>1, OlderThanNow
<1> QED
  BY <1>3, <1>4, <1>5

(* A correlation touches a row of the key or inserts one. *)
LEMMA CorrelateKeeps ==
    ASSUME IndInv, NEW d \in Devices \union {NoDevice}, NEW c \in Classes,
           NEW key \in {"incident", "trap"}, NEW start \in 1..now, CreateOrTouch(d, c, key, start)
    PROVE  /\ DevicesKept /\ NewKeys({key})
           /\ \A i \in Ids' \ Ids : incidents'[i].device = d /\ incidents'[i].class = c
           /\ \A i \in Ids :
                 Fresher(i) \/ (incidents[i].device = d /\ incidents[i].class.source = c.source)
           /\ \E i \in Ids' : /\ incidents'[i].updated = start /\ incidents'[i].device = d
                              /\ KeyOf(incidents'[i], key)
                                   = KeyOf(NewRow(d, c, NoAssignee, key, start), key)
<1> DEFINE r == NewRow(d, c, DefaultAssignee(c), key, start)
<1>1. now \in Nat
  BY DEF IndInv, TypeOK
<1>2. r \in Row
  BY <1>1, NewRowFacts, DefaultAssigneeType
<1>3. /\ r.device = d /\ r.class = c /\ r.key = key /\ r.updated = start
      /\ KeyOf(r, key) = KeyOf(NewRow(d, c, NoAssignee, key, start), key)
      /\ \A q : KeyOf(q, key) = KeyOf(r, key) => q.device = d /\ q.class.source = c.source
  BY DEF NewRow, KeyOf
<1>4. \/ \E i \in Ids : /\ Update(i, Touched(incidents[i], start), <<>>)
                       /\ KeyOf(incidents[i], key) = KeyOf(r, key)
      \/ Insert(r)
  BY DEF CreateOrTouch, Latest, Matching, SameKey
<1> HIDE DEF r
<1>5. CASE \E i \in Ids : /\ Update(i, Touched(incidents[i], start), <<>>)
                        /\ KeyOf(incidents[i], key) = KeyOf(r, key)
  <2>1. PICK i \in Ids : /\ Update(i, Touched(incidents[i], start), <<>>)
                       /\ KeyOf(incidents[i], key) = KeyOf(r, key)
    BY <1>5
  <2>2. incidents[i] \in Row
    BY OfIncident
  <2>3. /\ Touched(incidents[i], start).device = incidents[i].device
        /\ Touched(incidents[i], start).class = incidents[i].class
        /\ Touched(incidents[i], start).updated = start
    BY <2>2 DEF Touched, Row
  <2>4. DevicesKept /\ Ids' = Ids /\ \A j \in Ids \ {i} : Fresher(j)
    BY <2>1, <2>3, UpdateKeeps
  <2>5. incidents'[i] = Touched(incidents[i], start)
    BY <2>1 DEF Update, IndInv, TypeOK, Ids
  <2>6. KeyOf(incidents'[i], key) = KeyOf(r, key)
    BY <2>1, <2>3, <2>5 DEF KeyOf
  <2> QED
    BY <1>3, <2>1, <2>3, <2>4, <2>5, <2>6 DEF NewKeys
<1>6. CASE Insert(r)
  <2>1. /\ DevicesKept /\ Ids' = Ids \union {Len(incidents) + 1}
        /\ incidents'[Len(incidents) + 1] = r /\ \A i \in Ids : Fresher(i)
    BY <1>2, <1>6, InsertKeeps
  <2> QED
    BY <1>3, <2>1 DEF NewKeys
<1> QED
  BY <1>4, <1>5, <1>6

(* The steps of the store that the poller does not take. *)
LEMMA OthersKeep ==
    ASSUME IndInv, OtherWriters
    PROVE  /\ DevicesKept /\ NewKeys({"none", "trap"}) /\ OutagesFresher
           /\ UNCHANGED <<live, status, events>> /\ now <= now'
<1>1. now \in Nat \ {Never}
  BY DEF IndInv, TypeOK
<1>2. ASSUME UNCHANGED now PROVE now <= now'
  BY <1>1, <1>2
<1>3. UNCHANGED <<status, events>>
  BY DEF OtherWriters
<1>4. CASE Traps
  <2>1. ASSUME NEW d \in Devices \union {NoDevice}, NEW c \in Classes, NEW start \in 1..now,
               CreateOrTouchOpenTrapIncident(d, c, start)
        PROVE  DevicesKept /\ NewKeys({"none", "trap"}) /\ OutagesFresher /\ UNCHANGED <<now, live>>
    <3>1. CreateOrTouch(d, c, "trap", start) /\ c.source # Outage.source /\ UNCHANGED <<now, live>>
      BY <2>1, PollingAssumption DEF CreateOrTouchOpenTrapIncident
    <3>2. /\ DevicesKept /\ NewKeys({"trap"})
          /\ \A i \in Ids : Fresher(i) \/ incidents[i].class.source = c.source
      BY <3>1, CorrelateKeeps
    <3> QED
      BY <3>1, <3>2 DEF NewKeys, OutagesFresher
  <2>2. ASSUME NEW d \in Devices, ResolveOpenTrapIncidents(d)
        PROVE  DevicesKept /\ NewKeys({"none", "trap"}) /\ OutagesFresher /\ UNCHANGED <<now, live>>
    BY <2>2, ResolveKeeps DEF ResolveOpenTrapIncidents, NewKeys, OutagesFresher
  <2> QED
    BY <1>2, <1>3, <1>4, <2>1, <2>2 DEF Traps
<1>5. CASE Operate
  <2>1. ASSUME NEW d \in Devices \union {NoDevice}, NEW c \in Classes,
               NEW a \in Assignees \union {NoAssignee}, CreateIncident(d, c, a)
        PROVE  DevicesKept /\ NewKeys({"none", "trap"}) /\ OutagesFresher /\ UNCHANGED <<now, live>>
    <3> DEFINE b == IF a = NoAssignee THEN DefaultAssignee(c) ELSE a
    <3>1. b \in Assignees \union {NoAssignee}
      BY DefaultAssigneeType
    <3>2. Insert(NewRow(d, c, b, "none", now)) /\ UNCHANGED <<now, live>>
      BY <2>1 DEF CreateIncident
    <3> HIDE DEF b
    <3>3. NewRow(d, c, b, "none", now) \in Row /\ NewRow(d, c, b, "none", now).key = "none"
      BY <1>1, <3>1, NewRowFacts DEF NewRow, Never
    <3> QED
      BY <3>2, <3>3, InsertKeeps DEF NewKeys, OutagesFresher
  <2>2. ASSUME NEW i \in Ids,
               \/ \E t \in Statuses : TransitionIncidentStatus(i, t)
               \/ \E a \in Assignees \union {NoAssignee} : AssignIncident(i, a)
               \/ \E t \in Statuses \union {NoStatus}, a \in Assignees \union {NoAssignee} :
                     ApplyITSMInboundUpdate(i, t, a)
        PROVE  DevicesKept /\ NewKeys({"none", "trap"}) /\ OutagesFresher /\ UNCHANGED <<now, live>>
    <3>1. incidents[i] \in Row
      BY OfIncident
    <3> DEFINE Good(r) == /\ r.device = incidents[i].device
                          /\ r.updated \in {incidents[i].updated, now}
    <3>2. \A r \in Row : \A E, t, a :
             /\ Entered(r, E, t).device = r.device /\ Entered(r, E, t).updated = now
             /\ Reassigned(r, a).device = r.device /\ Reassigned(r, a).updated = now
      BY DEF Entered, Reassigned, Row
    <3>3. \A E, t, a : Good(Reassigned(Entered(incidents[i], E, t), a))
      BY <3>1 DEF Entered, Reassigned, Row
    <3>4. \A t, a : Good(InboundRow(incidents[i], t, a))
      BY <3>1, <3>2, <3>3 DEF InboundRow
    <3>5. PICK r, w : Update(i, r, w) /\ Good(r)
      <4>1. ASSUME NEW t \in Statuses, TransitionIncidentStatus(i, t)
            PROVE  \E r, w : Update(i, r, w) /\ Good(r)
        <5> DEFINE path == StatusPath(incidents[i].status, t)
                   E == {path[k] : k \in 1..Len(path)}
        <5>1. Update(i, Entered(incidents[i], E, t), PathRows(incidents[i].status, t))
          BY <4>1 DEF TransitionIncidentStatus
        <5> HIDE DEF path, E
        <5>2. Good(Entered(incidents[i], E, t))
          BY <3>1, <3>2
        <5> QED
          BY <5>1, <5>2
      <4>2. ASSUME NEW a \in Assignees \union {NoAssignee}, AssignIncident(i, a)
            PROVE  \E r, w : Update(i, r, w) /\ Good(r)
        BY <3>1, <3>2, <4>2 DEF AssignIncident
      <4>3. ASSUME NEW t, NEW a, ApplyITSMInboundUpdate(i, t, a)
            PROVE  \E r, w : Update(i, r, w) /\ Good(r)
        BY <3>4, <4>3 DEF ApplyITSMInboundUpdate
      <4> QED
        BY <2>2, <4>1, <4>2, <4>3
    <3>6. UNCHANGED <<now, live>>
      BY <2>2 DEF TransitionIncidentStatus, AssignIncident, ApplyITSMInboundUpdate
    <3> QED
      BY <3>5, <3>6, UpdateKeeps DEF NewKeys, OutagesFresher
  <2> QED
    BY <1>2, <1>3, <1>5, <2>1, <2>2 DEF Operate
<1>6. CASE \E p \in Policies : EscalateUnackedIncidents(p)
  <2>1. PICK p \in Policies : EscalateUnackedIncidents(p)
    BY <1>6
  <2>2. \A i \in Ids : incidents[i] \in Row
    BY OfIncident
  <2>3. /\ DevicesKept /\ UNCHANGED <<now, live>>
        /\ \A i \in Ids : incidents'[i].updated \in {incidents[i].updated, now}
    BY <2>1, <2>2 DEF EscalateUnackedIncidents, DevicesKept, Reassigned, Row
  <2>4. Len(incidents') = Len(incidents)
    BY <2>1, LenProperties DEF EscalateUnackedIncidents, IndInv, TypeOK, Ids
  <2> QED
    BY <1>2, <1>3, <2>3, <2>4, OlderThanNow DEF NewKeys, Ids, OutagesFresher
<1>7. CASE Tick
  BY <1>1, <1>3, <1>7, OlderThanNow DEF Tick, store, DevicesKept, NewKeys, Ids, OutagesFresher
<1> QED
  BY <1>4, <1>5, <1>6, <1>7 DEF OtherWriters

(* What every polling step leaves of an incident: it keeps its class and   *)
(* its key, it keeps its device when that has a row, and it does not open  *)
(* again.                                                                  *)
LEMMA IncidentsKept ==
    ASSUME PollInv, [PollNext]_pollVars, NEW i \in Ids
    PROVE  /\ i \in Ids' /\ incidents'[i] \in Row
           /\ incidents'[i].class = incidents[i].class
           /\ incidents'[i].key = incidents[i].key
           /\ incidents'[i].device # NoDevice => incidents'[i].device = incidents[i].device
           /\ IsOpen(incidents'[i]) => IsOpen(incidents[i])
<1>1. IndInv /\ StepShape
  BY NextIsStores, NextShape DEF PollInv, PollTables
<1>2. Grown(i)
  BY <1>1 DEF StepShape
<1>3. i \in Ids'
  BY <1>1 DEF StepShape, IndInv, TypeOK, Ids
<1> QED
  BY <1>1, <1>2, <1>3, KeptKey

-----------------------------------------------------------------------------
(* The steps *)

(* Appending an event of the right kind keeps the history alternating. *)
LEMMA RecordStep ==
    ASSUME PollInv, NEW d \in live, NEW kind \in {"unavailable", "available"}, NEW time \in Nat,
           Record(d, kind, time), kind = "unavailable" <=> ~WasFailure(status[d])
    PROVE  /\ events' \in [Devices -> Seq(AvailabilityEvents)]
           /\ \A e \in Devices \ {d} : events'[e] = events[e]
           /\ \A k \in 1..Len(events'[d]) :
                 events'[d][k].kind = IF k % 2 = 1 THEN "unavailable" ELSE "available"
           /\ Len(events'[d]) % 2 = 1 <=> kind = "unavailable"
           /\ events'[d][Len(events'[d])].at = time
<1> DEFINE L == events[d]
           n == Len(L)
           e == Availability(kind, time)
<1>1. d \in Devices /\ L \in Seq(AvailabilityEvents) /\ n \in Nat
  BY LiveStatus DEF PollInv, PollTables, PollTypeOK
<1>2. e \in AvailabilityEvents /\ e.kind = kind /\ e.at = time
  BY DEF Availability, AvailabilityEvents
<1>3. /\ \A k \in 1..n : L[k].kind = IF k % 2 = 1 THEN "unavailable" ELSE "available"
      /\ WasFailure(status[d]) <=> n % 2 = 1
  BY DEF PollInv, PollTables, EventsAlternate
<1>4. events \in [Devices -> Seq(AvailabilityEvents)] /\ events' = [events EXCEPT ![d] = Append(L, e)]
  BY DEF Record, PollInv, PollTables, PollTypeOK
<1> HIDE DEF e, L
<1>5. /\ Append(L, e) \in Seq(AvailabilityEvents) /\ Len(Append(L, e)) = n + 1
      /\ \A k \in 1..n : Append(L, e)[k] = L[k]
      /\ Append(L, e)[n + 1] = e
  BY <1>1, <1>2, AppendProperties
<1>6. /\ events'[d] = Append(L, e) /\ events' \in [Devices -> Seq(AvailabilityEvents)]
      /\ \A x \in Devices \ {d} : events'[x] = events[x]
  BY <1>1, <1>4, <1>5
<1>7. (n + 1) % 2 = 1 <=> n % 2 # 1
  BY <1>1
<1>8. \A k \in 1..(n + 1) : k \in 1..n \/ k = n + 1
  BY <1>1
<1>9. (n + 1) % 2 = 1 <=> kind = "unavailable"
  BY <1>3, <1>7
<1>10. ASSUME NEW k \in 1..(n + 1)
       PROVE  Append(L, e)[k].kind = IF k % 2 = 1 THEN "unavailable" ELSE "available"
  BY <1>2, <1>3, <1>5, <1>8, <1>9
<1> QED
  BY <1>2, <1>5, <1>6, <1>9, <1>10

(* What remains to be shown of a step that keeps every live device: that   *)
(* its new incidents fit, that the statuses fit the events, and that the   *)
(* outages it begins have their incident.                                  *)
LEMMA IncidentsFit ==
    ASSUME PollInv, [PollNext]_pollVars, live' \subseteq live,
           \A i \in Ids' \ Ids :
               incidents'[i].key = "incident" =>
                   incidents'[i].class = Outage /\ WasFailure(status'[incidents'[i].device]),
           \A i \in Ids' :
               (/\ incidents'[i].key = "incident" /\ IsOpen(incidents'[i])
                /\ incidents'[i].device \in live')
               => (WasFailure(status[incidents'[i].device]) => WasFailure(status'[incidents'[i].device]))
    PROVE  /\ OutagesAreKeyed'
           /\ \A i \in Ids' :
                 (/\ incidents'[i].key = "incident" /\ IsOpen(incidents'[i])
                  /\ incidents'[i].device \in live')
                 => WasFailure(status'[incidents'[i].device])
<1>1. OutagesAreKeyed'
  BY IncidentsKept DEF PollInv, PollTables, OutagesAreKeyed
<1>2. ASSUME NEW i \in Ids', incidents'[i].key = "incident", IsOpen(incidents'[i]),
             incidents'[i].device \in live'
      PROVE  WasFailure(status'[incidents'[i].device])
  <2>1. CASE i \in Ids
    <3>1. incidents'[i].device # NoDevice
      BY <1>2, LiveStatus
    <3>2. WasFailure(status[incidents[i].device])
      BY <1>2, <2>1, <3>1, IncidentsKept DEF PollInv, PollTables, OutagesMatchIncidents
    <3> QED
      BY <1>2, <2>1, <3>1, <3>2, IncidentsKept
  <2>2. CASE i \notin Ids
    BY <1>2, <2>2
  <2> QED
    BY <2>1, <2>2
<1> QED
  BY <1>1, <1>2

(* The incident of an outage that goes on stays. *)
LEMMA OutageKept ==
    ASSUME PollInv, [PollNext]_pollVars, NEW d \in live, WasFailure(status[d]),
           events'[d] = events[d],
           \A i \in Ids : incidents[i].device = d /\ incidents[i].class = Outage
                             => incidents'[i].device = d /\ Fresher(i)
    PROVE  \E i \in Ids' : /\ incidents'[i].device = d
                            /\ incidents'[i].class = Outage
                            /\ incidents'[i].updated >= events'[d][Len(events'[d])].at
<1>1. PICK i \in Ids : /\ incidents[i].device = d
                       /\ incidents[i].class = Outage
                       /\ incidents[i].updated >= events[d][Len(events[d])].at
  BY DEF PollInv, PollTables, OutagesMatchIncidents
<1>2. /\ i \in Ids' /\ incidents'[i].class = Outage /\ incidents'[i].device = d
      /\ incidents'[i].updated >= incidents[i].updated
  BY <1>1, IncidentsKept DEF Fresher
<1>3. incidents[i].updated \in Nat /\ incidents'[i].updated \in Nat
  BY IncidentsKept, OfIncident DEF PollInv, PollTables, Row
<1>4. events[d][Len(events[d])].at \in Nat
  <2>1. d \in Devices /\ events[d] \in Seq(AvailabilityEvents) /\ Len(events[d]) \in Nat
    BY LiveStatus DEF PollInv, PollTables, PollTypeOK
  <2>2. Len(events[d]) % 2 = 1
    BY DEF PollInv, PollTables, EventsAlternate
  <2>3. Len(events[d]) \in 1..Len(events[d])
    <3>1. \A n \in Nat : n % 2 = 1 => n \in 1..n
      <4>1. 0 % 2 = 0
        OBVIOUS
      <4> QED
        BY <4>1
    <3> QED
      BY <2>1, <2>2, <3>1
  <2>4. events[d][Len(events[d])] \in AvailabilityEvents
    BY <2>1, <2>3, ElementOfSeq
  <2> QED
    BY <2>4 DEF AvailabilityEvents
<1>5. incidents'[i].updated >= events'[d][Len(events'[d])].at
  BY <1>1, <1>2, <1>3, <1>4
<1> QED
  BY <1>2, <1>5

(* The key of a polling incident tells its class. *)
LEMMA KeyIsClass ==
    ASSUME NEW r \in Row, NEW d, NEW time,
           KeyOf(r, "incident") = KeyOf(NewRow(d, Outage, NoAssignee, "incident", time), "incident")
    PROVE  r.class = Outage
<1>1. r.class \in Classes /\ Outage \in Classes
  BY PollingAssumption DEF Row
<1>2. /\ r.class.source = Outage.source /\ r.class.title = Outage.title
      /\ r.class.severity = Outage.severity
  BY DEF KeyOf, NewRow
<1>3. \A c \in Classes : c = [title |-> c.title, severity |-> c.severity, source |-> c.source]
  BY PollingAssumption
<1> QED
  BY <1>1, <1>2, <1>3

(* A failed poll that begins an outage has an incident for it. *)
LEMMA FailureStep ==
    ASSUME PollInv, NEW d \in Devices, NEW f \in Failures, RecordPollFailureTransition(d, f),
           WasOK(status[d])
    PROVE  PollTables'
<1>1. [PollNext]_pollVars
  BY DEF PollNext
<1> PICK start \in 1..now : OpenOutage(d, start)
  BY DEF RecordPollFailureTransition
<1>2. /\ d \in live /\ Record(d, "unavailable", start) /\ CreateOrTouch(d, Outage, "incident", start)
      /\ UNCHANGED <<now, live>>
      /\ status' = [status EXCEPT ![d] = f]
  BY DEF RecordPollFailureTransition, OpenOutage, CreateOrTouchOpenIncident
<1>3. IndInv /\ PollTypeOK /\ live \subseteq Devices /\ now \in Nat /\ start \in Nat
  BY DEF PollInv, PollTables, IndInv, TypeOK
<1>4. ~WasFailure(status[d]) /\ Outage \in Classes
  BY <1>2, LiveStatus, PollingAssumption
<1>5. /\ status'[d] = f /\ f # "deleted" /\ WasFailure(f)
      /\ \A e \in Devices \ {d} : status'[e] = status[e]
  BY <1>2, <1>3, PollingAssumption DEF PollTypeOK, WasFailure
<1>6. /\ events' \in [Devices -> Seq(AvailabilityEvents)]
      /\ \A e \in Devices \ {d} : events'[e] = events[e]
      /\ \A k \in 1..Len(events'[d]) :
            events'[d][k].kind = IF k % 2 = 1 THEN "unavailable" ELSE "available"
      /\ Len(events'[d]) % 2 = 1
      /\ events'[d][Len(events'[d])].at = start
  BY <1>2, <1>3, <1>4, RecordStep
<1>7. /\ DevicesKept /\ NewKeys({"incident"})
      /\ \A i \in Ids' \ Ids : incidents'[i].device = d /\ incidents'[i].class = Outage
      /\ \A i \in Ids : Fresher(i) \/ incidents[i].device = d
      /\ \E i \in Ids' : /\ incidents'[i].updated = start /\ incidents'[i].device = d
                         /\ KeyOf(incidents'[i], "incident")
                              = KeyOf(NewRow(d, Outage, NoAssignee, "incident", start), "incident")
  BY <1>2, <1>3, <1>4, CorrelateKeeps
<1>8. PollTypeOK'
  BY <1>2, <1>3, <1>5, <1>6 DEF PollTypeOK
<1>9. EventsAlternate'
  <2>1. \A e \in live : e # d => Alternates(events'[e], status'[e])
    BY <1>3, <1>5, <1>6, EventsAlternateIs DEF PollInv, PollTables
  <2>2. Alternates(events'[d], status'[d])
    BY <1>5, <1>6 DEF Alternates
  <2> QED
    BY <1>2, <2>1, <2>2, EventsAlternateIs
<1>10. ASSUME NEW e \in live, WasFailure(status[e]) PROVE WasFailure(status'[e])
  BY <1>3, <1>5, <1>10
<1>11. /\ OutagesAreKeyed'
       /\ \A i \in Ids' :
             (/\ incidents'[i].key = "incident" /\ IsOpen(incidents'[i])
              /\ incidents'[i].device \in live')
             => WasFailure(status'[incidents'[i].device])
  BY <1>1, <1>2, <1>5, <1>7, <1>10, IncidentsFit
<1>12. ASSUME NEW e \in live', WasFailure(status'[e])
       PROVE  \E i \in Ids' : /\ incidents'[i].device = e
                              /\ incidents'[i].class = Outage
                              /\ incidents'[i].updated >= events'[e][Len(events'[e])].at
  <2>1. CASE e = d
    <3>1. PICK i \in Ids' : /\ incidents'[i].updated = start /\ incidents'[i].device = d
                            /\ KeyOf(incidents'[i], "incident")
                                 = KeyOf(NewRow(d, Outage, NoAssignee, "incident", start), "incident")
      BY <1>7
    <3>2. incidents'[i] \in Row
      <4>1. TypeOK'
        BY <1>1, <1>3, NextIsStores, IndInvNext DEF IndInv
      <4> QED
        BY <4>1, ElementOfSeq DEF TypeOK, Ids
    <3>3. incidents'[i].class = Outage
      BY <3>1, <3>2, KeyIsClass
    <3> QED
      BY <1>3, <1>6, <2>1, <3>1, <3>3
  <2>2. CASE e # d
    <3>1. e \in live /\ WasFailure(status[e]) /\ events'[e] = events[e]
      BY <1>2, <1>3, <1>5, <1>6, <1>12, <2>2
    <3>2. \A i \in Ids : incidents[i].device = e => incidents'[i].device = e /\ Fresher(i)
      BY <1>7, <2>2 DEF DevicesKept
    <3> QED
      BY <1>1, <3>1, <3>2, OutageKept
  <2> QED
    BY <2>1, <2>2
<1> QED
  BY <1>8, <1>9, <1>11, <1>12 DEF PollTables, OutagesMatchIncidents

(* A successful poll that ends an outage leaves none of the worker's       *)
(* incidents of the device open.                                           *)
LEMMA RecoveryStep ==
    ASSUME PollInv, NEW d \in Devices, RecordPollRecoveryTransition(d), WasFailure(status[d])
    PROVE  PollTables'
<1>1. [PollNext]_pollVars
  BY DEF PollNext
<1>2. /\ d \in live /\ Record(d, "available", now) /\ ResolvePolled(d)
      /\ UNCHANGED <<now, live>>
      /\ status' = [status EXCEPT ![d] = "active"]
  BY DEF RecordPollRecoveryTransition, ResolvePolled, ResolveOpenIncidentsBySource, vars, store
<1>3. IndInv /\ PollTypeOK /\ live \subseteq Devices /\ NoDevice \notin Devices /\ now \in Nat
  BY ConstantsAssumption DEF PollInv, PollTables, IndInv, TypeOK
<1>4. /\ status'[d] = "active" /\ ~WasFailure("active")
      /\ \A e \in Devices \ {d} : status'[e] = status[e]
  BY <1>2, <1>3, PollingAssumption DEF PollTypeOK, WasFailure
<1>5. /\ events' \in [Devices -> Seq(AvailabilityEvents)]
      /\ \A e \in Devices \ {d} : events'[e] = events[e]
      /\ \A k \in 1..Len(events'[d]) :
            events'[d][k].kind = IF k % 2 = 1 THEN "unavailable" ELSE "available"
      /\ Len(events'[d]) % 2 # 1
  BY <1>2, <1>3, RecordStep
<1>6. /\ DevicesKept /\ Ids' = Ids /\ \A i \in Ids : Fresher(i)
      /\ \A i \in OpenIncidentsOf(d, "polling") : ~IsOpen(incidents'[i])
  <2>1. CASE OpenIncidentsOf(d, "polling") = {}
    BY <1>2, <1>3, <2>1, OlderThanNow DEF ResolvePolled, vars, store, DevicesKept, Ids
  <2>2. CASE OpenIncidentsOf(d, "polling") # {}
    <3>1. ResolveAll(OpenIncidentsOf(d, "polling"))
      BY <1>2, <2>2 DEF ResolvePolled, ResolveOpenIncidentsBySource
    <3>2. OpenIncidentsOf(d, "polling") \subseteq Ids
      BY DEF OpenIncidentsOf
    <3> QED
      BY <1>3, <3>1, <3>2, ResolveKeeps
  <2> QED
    BY <2>1, <2>2
<1>7. PollTypeOK'
  BY <1>2, <1>3, <1>5 DEF PollTypeOK
<1>8. EventsAlternate'
  <2>1. \A e \in live : e # d => Alternates(events'[e], status'[e])
    BY <1>3, <1>4, <1>5, EventsAlternateIs DEF PollInv, PollTables
  <2>2. Alternates(events'[d], status'[d])
    BY <1>4, <1>5 DEF Alternates
  <2> QED
    BY <1>2, <2>1, <2>2, EventsAlternateIs
<1>9. ASSUME NEW i \in Ids', incidents'[i].key = "incident", IsOpen(incidents'[i])
      PROVE  incidents'[i].device # d
  <2>1. /\ incidents[i].key = "incident" /\ IsOpen(incidents[i])
        /\ incidents'[i].device = incidents[i].device /\ i \in Ids
    BY <1>1, <1>6, <1>9, IncidentsKept DEF DevicesKept
  <2>2. incidents[i].class.source = "polling"
    BY <2>1, PollingAssumption DEF PollInv, PollTables, OutagesAreKeyed
  <2> QED
    BY <1>6, <1>9, <2>1, <2>2 DEF OpenIncidentsOf
<1>10. /\ OutagesAreKeyed'
       /\ \A i \in Ids' :
             (/\ incidents'[i].key = "incident" /\ IsOpen(incidents'[i])
              /\ incidents'[i].device \in live')
             => WasFailure(status'[incidents'[i].device])
  <2>1. \A i \in Ids' :
           (/\ incidents'[i].key = "incident" /\ IsOpen(incidents'[i])
            /\ incidents'[i].device \in live')
           => (WasFailure(status[incidents'[i].device]) => WasFailure(status'[incidents'[i].device]))
    BY <1>2, <1>3, <1>4, <1>9
  <2> QED
    BY <1>1, <1>2, <1>6, <2>1, IncidentsFit
<1>11. ASSUME NEW e \in live', WasFailure(status'[e])
       PROVE  \E i \in Ids' : /\ incidents'[i].device = e
                              /\ incidents'[i].class = Outage
                              /\ incidents'[i].updated >= events'[e][Len(events'[e])].at
  <2>1. e \in live /\ e # d /\ WasFailure(status[e]) /\ events'[e] = events[e]
    BY <1>2, <1>3, <1>4, <1>5, <1>11
  <2> QED
    BY <1>1, <1>6, <2>1, OutageKept DEF DevicesKept
<1> QED
  BY <1>7, <1>8, <1>10, <1>11 DEF PollTables, OutagesMatchIncidents

(* A step that writes no event and begins or ends no outage. *)
LEMMA QuietStep ==
    ASSUME PollInv, [PollNext]_pollVars, UNCHANGED live, DevicesKept, NewKeys({"none", "trap"}),
           OutagesFresher,
           status' \in [Devices -> {"active", "deleted"} \union Failures],
           events' = events,
           \A d \in live : status'[d] # "deleted" /\ (WasFailure(status'[d]) <=> WasFailure(status[d]))
    PROVE  PollTables'
<1>1. PollTypeOK'
  BY DEF PollInv, PollTables, PollTypeOK
<1>2. EventsAlternate'
  BY DEF PollInv, PollTables, EventsAlternate
<1>3. /\ OutagesAreKeyed'
      /\ \A i \in Ids' :
            (/\ incidents'[i].key = "incident" /\ IsOpen(incidents'[i])
             /\ incidents'[i].device \in live')
            => WasFailure(status'[incidents'[i].device])
  <2>1. \A i \in Ids' \ Ids : incidents'[i].key # "incident"
    BY DEF NewKeys
  <2> QED
    BY <2>1, IncidentsFit
<1>4. ASSUME NEW d \in live', WasFailure(status'[d])
      PROVE  \E i \in Ids' : /\ incidents'[i].device = d
                             /\ incidents'[i].class = Outage
                             /\ incidents'[i].updated >= events'[d][Len(events'[d])].at
  BY <1>4, OutageKept DEF DevicesKept, OutagesFresher
<1> QED
  BY <1>1, <1>2, <1>3, <1>4 DEF PollTables, OutagesMatchIncidents

(* The deletion of a device takes its events away and its name from its    *)
(* incidents, and touches no other device.                                 *)
LEMMA RemoveStep ==
    ASSUME PollInv, NEW d \in Devices, RemoveDevice(d)
    PROVE  PollTables'
<1>1. [PollNext]_pollVars
  BY DEF PollNext
<1>2. /\ live' = live \ {d} /\ ForgetDevice(d)
      /\ status' = [status EXCEPT ![d] = "deleted"]
      /\ events' = [events EXCEPT ![d] = <<>>]
  BY DEF RemoveDevice, DeleteDevice
<1>3. IndInv /\ PollTypeOK /\ live \subseteq Devices
  BY DEF PollInv, PollTables, IndInv, TypeOK
<1>4. \A e \in live' : e \in live /\ e # d /\ status'[e] = status[e] /\ events'[e] = events[e]
  BY <1>2, <1>3 DEF PollTypeOK
<1>5. PollTypeOK'
  BY <1>2, <1>3, <1>4 DEF PollTypeOK
<1>6. EventsAlternate'
  BY <1>4, EventsAlternateIs DEF PollInv, PollTables
<1>7. Ids' = Ids
  <2> DEFINE R(i) == IF incidents[i].device = d
                     THEN [incidents[i] EXCEPT !.device = NoDevice, !.unlocked = now]
                     ELSE incidents[i]
  <2>0. Len(incidents) \in Nat
    BY <1>3 DEF IndInv, TypeOK
  <2>1. incidents' = [i \in 1..Len(incidents) |-> R(i)]
    BY <1>2, Zenon DEF ForgetDevice, Ids
  <2> HIDE DEF R
  <2>2. Len(incidents') = Len(incidents)
    BY <2>0, <2>1, LenProperties
  <2> QED
    BY <2>2 DEF Ids
<1>8. /\ OutagesAreKeyed'
      /\ \A i \in Ids' :
            (/\ incidents'[i].key = "incident" /\ IsOpen(incidents'[i])
             /\ incidents'[i].device \in live')
            => WasFailure(status'[incidents'[i].device])
  BY <1>1, <1>4, <1>7, <1>2, IncidentsFit
<1>9. ASSUME NEW e \in live', WasFailure(status'[e])
      PROVE  \E i \in Ids' : /\ incidents'[i].device = e
                             /\ incidents'[i].class = Outage
                             /\ incidents'[i].updated >= events'[e][Len(events'[e])].at
  <2>1. \A i \in Ids : incidents[i].device = e => incidents'[i] = incidents[i]
    BY <1>2, <1>4 DEF ForgetDevice
  <2>2. \A i \in Ids : incidents[i].device = e => incidents'[i].device = e /\ Fresher(i)
    BY <1>3, <2>1, OlderThanNow
  <2> QED
    BY <1>1, <1>4, <1>9, <2>2, OutageKept
<1> QED
  BY <1>5, <1>6, <1>8, <1>9 DEF PollTables, OutagesMatchIncidents

LEMMA PollNextInv == PollInv /\ [PollNext]_pollVars => PollInv'
<1> SUFFICES ASSUME PollInv, [PollNext]_pollVars PROVE PollInv'
  OBVIOUS
<1>1. IndInv'
  BY NextIsStores, IndInvNext DEF PollInv, PollTables
<1>2. PollTypeOK
  BY DEF PollInv, PollTables
<1>3. ASSUME UNCHANGED vars PROVE UNCHANGED live /\ DevicesKept /\ NewKeys({"none", "trap"}) /\ OutagesFresher
  BY <1>3, OlderThanNow DEF vars, store, DevicesKept, NewKeys, Ids, OutagesFresher, PollInv
<1>4. ASSUME NEW d \in Devices, NEW f \in Failures, RecordPollFailureTransition(d, f)
      PROVE  PollTables'
  <2>1. CASE WasOK(status[d])
    BY <1>4, <2>1, FailureStep
  <2>2. CASE ~WasOK(status[d])
    <3>1. UNCHANGED vars /\ events' = events /\ d \in live /\ status' = [status EXCEPT ![d] = f]
      BY <1>4, <2>2 DEF RecordPollFailureTransition
    <3>2. WasFailure(status[d]) /\ WasFailure(f) /\ f # "deleted"
      BY <2>2, <3>1, LiveStatus, PollingAssumption DEF WasFailure
    <3>3. status' \in [Devices -> {"active", "deleted"} \union Failures]
      BY <1>2, <3>1 DEF PollTypeOK
    <3>4. \A e \in live : status'[e] # "deleted" /\ (WasFailure(status'[e]) <=> WasFailure(status[e]))
      BY <1>2, <3>1, <3>2 DEF PollTypeOK
    <3> QED
      BY <1>3, <3>1, <3>3, <3>4, QuietStep
  <2> QED
    BY <2>1, <2>2
<1>5. ASSUME NEW d \in Devices, RecordPollRecoveryTransition(d)
      PROVE  PollTables'
  <2>1. CASE WasFailure(status[d])
    BY <1>5, <2>1, RecoveryStep
  <2>2. CASE ~WasFailure(status[d])
    <3>1. UNCHANGED vars /\ events' = events /\ d \in live /\ status' = [status EXCEPT ![d] = "active"]
      BY <1>5, <2>2 DEF RecordPollRecoveryTransition
    <3>2. status'  = status
      BY <1>2, <2>2, <3>1, LiveStatus DEF PollTypeOK, WasOK
    <3> QED
      BY <1>2, <1>3, <3>1, <3>2, QuietStep DEF PollTypeOK
  <2> QED
    BY <2>1, <2>2
<1>6. ASSUME NEW d \in Devices, RemoveDevice(d)
      PROVE  PollTables'
  BY <1>6, RemoveStep
<1>7. ASSUME OtherWriters PROVE PollTables'
  <2>1. DevicesKept /\ NewKeys({"none", "trap"}) /\ OutagesFresher /\ UNCHANGED <<live, status, events>>
    BY <1>7, OthersKeep DEF PollInv, PollTables
  <2>2. status' \in [Devices -> {"active", "deleted"} \union Failures]
    BY <1>2, <2>1 DEF PollTypeOK
  <2>3. \A d \in live : status'[d] # "deleted" /\ (WasFailure(status'[d]) <=> WasFailure(status[d]))
    BY <1>2, <2>1 DEF PollTypeOK
  <2> QED
    BY <2>1, <2>2, <2>3, QuietStep
<1>8. ASSUME UNCHANGED pollVars PROVE PollTables'
  <2>1. UNCHANGED vars /\ UNCHANGED <<status, events>>
    BY <1>8 DEF pollVars
  <2>2. status' \in [Devices -> {"active", "deleted"} \union Failures]
    BY <1>2, <2>1 DEF PollTypeOK
  <2>3. \A d \in live : status'[d] # "deleted" /\ (WasFailure(status'[d]) <=> WasFailure(status[d]))
    BY <1>2, <2>1 DEF PollTypeOK
  <2> QED
    BY <1>3, <2>1, <2>2, <2>3, QuietStep
<1>9. PollTables'
  BY <1>4, <1>5, <1>6, <1>7, <1>8 DEF PollNext
<1> QED
  BY <1>1, <1>9 DEF PollInv, PollTables

-----------------------------------------------------------------------------
(* The results *)

(* The inductive invariant holds in every state. *)
THEOREM PollInvariance == PollSpec => []PollInv
BY PollInitInv, PollNextInv, PTL DEF PollSpec

(* The availability history of every device alternates between outages and *)
(* recoveries and ends with what the device's status says.                 *)
THEOREM EventsAlternateHolds == PollSpec => []EventsAlternate
<1>1. PollInv => EventsAlternate
  BY DEF PollInv, PollTables
<1> QED
  BY <1>1, PollInvariance, PTL

(* No incident of an outage outlives it, and no outage that goes on is     *)
(* without an incident written since it began.                             *)
THEOREM OutagesMatchIncidentsHolds == PollSpec => []OutagesMatchIncidents
<1>1. PollInv => OutagesMatchIncidents
  BY DEF PollInv, PollTables
<1> QED
  BY <1>1, PollInvariance, PTL

-----------------------------------------------------------------------------
(***************************************************************************)
(* The escalation among the writers of the store.                          *)
(***************************************************************************)

-----------------------------------------------------------------------------
(* How many rows of a log are handovers *)

SelfRows(L) == {k \in 1..Len(L) : L[k].from = L[k].to}

OneHandover(w) == \A j, k \in SelfRows(w) : j = k

LEMMA OneMore ==
    ASSUME NEW S, IsFiniteSet(S), NEW x
    PROVE  /\ IsFiniteSet(S \union {x}) /\ Cardinality(S \union {x}) \in Nat
           /\ Cardinality(S \union {x}) <= Cardinality(S) + 1
<1>1. Cardinality(S) \in Nat
  BY FS_CardinalityType
<1>2. CASE x \in S
  <2>1. S \union {x} = S
    BY <1>2
  <2>2. Cardinality(S) <= Cardinality(S) + 1
    BY <1>1
  <2> QED
    BY <1>1, <2>1, <2>2
<1>3. CASE x \notin S
  <2>1. IsFiniteSet(S \union {x}) /\ Cardinality(S \union {x}) = Cardinality(S) + 1
    BY <1>3, FS_AddElement
  <2> QED
    BY <1>1, <2>1
<1> QED
  BY <1>2, <1>3

LEMMA LogsGrowSlowly ==
    ASSUME NEW L \in Seq(AuditRows), NEW w \in Seq(AuditRows), OneHandover(w)
    PROVE  /\ Cardinality(SelfRows(L)) \in Nat /\ Cardinality(SelfRows(L \o w)) \in Nat
           /\ Cardinality(SelfRows(L \o w)) <= Cardinality(SelfRows(L)) + 1
<1> DEFINE n == Len(L)
           m == Len(w)
           M == L \o w
<1>1. /\ n \in Nat /\ m \in Nat /\ Len(M) = n + m
      /\ \A k \in 1..(n + m) : M[k] = IF k <= n THEN L[k] ELSE w[k - n]
  BY ConcatProperties
<1>2. IsFiniteSet(SelfRows(L)) /\ Cardinality(SelfRows(L)) \in Nat
  <2>1. 1 \in Int /\ n \in Int
    BY <1>1
  <2>2. IsFiniteSet(1..n)
    BY <2>1, FS_Interval, ZenonT(30)
  <2> QED
    BY <2>2, FS_Subset, FS_CardinalityType DEF SelfRows
<1>3. \A k \in SelfRows(M) : k \in SelfRows(L) \/ (k - n \in SelfRows(w) /\ k \in Int)
  <2> SUFFICES ASSUME NEW k \in SelfRows(M)
      PROVE  k \in SelfRows(L) \/ (k - n \in SelfRows(w) /\ k \in Int)
    OBVIOUS
  <2>1. k \in 1..(n + m) /\ M[k].from = M[k].to
    BY <1>1 DEF SelfRows
  <2>2. CASE k <= n
    BY <1>1, <2>1, <2>2 DEF SelfRows
  <2>3. CASE ~(k <= n)
    <3>1. k - n \in 1..m /\ M[k] = w[k - n]
      BY <1>1, <2>1, <2>3
    <3> QED
      BY <2>1, <3>1 DEF SelfRows
  <2> QED
    BY <2>2, <2>3
<1>4. \E x : SelfRows(M) \subseteq SelfRows(L) \union {x}
  <2>1. CASE SelfRows(w) = {}
    BY <1>3, <2>1
  <2>2. CASE SelfRows(w) # {}
    <3>1. PICK j \in SelfRows(w) : SelfRows(w) = {j}
      BY <2>2 DEF OneHandover
    <3>2. j \in Int
      BY <1>1 DEF SelfRows
    <3>3. \A k \in SelfRows(M) : k \in SelfRows(L) \/ k = n + j
      BY <1>1, <1>3, <3>1, <3>2
    <3> QED
      BY <3>3
  <2> QED
    BY <2>1, <2>2
<1>5. PICK x : SelfRows(M) \subseteq SelfRows(L) \union {x}
  BY <1>4
<1>6. /\ IsFiniteSet(SelfRows(L) \union {x})
      /\ Cardinality(SelfRows(L) \union {x}) \in Nat
      /\ Cardinality(SelfRows(L) \union {x}) <= Cardinality(SelfRows(L)) + 1
  BY <1>2, OneMore
<1>7. Cardinality(SelfRows(M)) <= Cardinality(SelfRows(L) \union {x}) /\ Cardinality(SelfRows(M)) \in Nat
  BY <1>5, <1>6, FS_Subset, FS_CardinalityType
<1> QED
  BY <1>2, <1>6, <1>7

LEMMA ShortLogs ==
    /\ OneHandover(<<>>)
    /\ \A r : OneHandover(<<r>>)
<1>1. Len(<<>>) = 0 /\ 1..0 = {}
  OBVIOUS
<1>2. \A r : Len(<<r>>) = 1 /\ 1..1 = {1}
  OBVIOUS
<1> QED
  BY <1>1, <1>2 DEF OneHandover, SelfRows

-----------------------------------------------------------------------------
(* An operation of somebody else hands an incident over at most once. *)

GrowsOnce(i) == \E w \in Seq(AuditRows) : audit'[i] = audit[i] \o w /\ OneHandover(w)

LEMMA SameGrowsOnce ==
    ASSUME IndInv, NEW i \in Ids, audit'[i] = audit[i]
    PROVE  GrowsOnce(i)
<1>1. audit[i] \in Seq(AuditRows) /\ <<>> \in Seq(AuditRows)
  BY OfIncident
<1>2. audit'[i] = audit[i] \o <<>>
  BY <1>1, ConcatEmptySeq
<1> QED
  BY <1>1, <1>2, ShortLogs DEF GrowsOnce

LEMMA UpdateGrowsOnce ==
    ASSUME IndInv, NEW j \in Ids, NEW r, NEW w, RowStep(incidents[j], w, r), Update(j, r, w),
           OneHandover(w)
    PROVE  \A i \in Ids : GrowsOnce(i)
<1>1. r \in Row /\ w \in Seq(AuditRows) /\ TypeOK
  BY DEF RowStep, IndInv
<1>2. /\ audit'[j] = audit[j] \o w
      /\ \A i \in Ids \ {j} : audit'[i] = audit[i]
  BY <1>1, UpdateType
<1>3. GrowsOnce(j)
  BY <1>1, <1>2 DEF GrowsOnce
<1> QED
  BY <1>2, <1>3, SameGrowsOnce

LEMMA InsertGrowsOnce ==
    ASSUME IndInv, NEW r \in Row, Insert(r)
    PROVE  \A i \in Ids : GrowsOnce(i)
<1>1. \A i \in Ids : audit'[i] = audit[i]
  BY InsertType DEF IndInv
<1> QED
  BY <1>1, SameGrowsOnce

LEMMA ResolveGrowsOnce ==
    ASSUME IndInv, NEW I, ResolveAll(I)
    PROVE  \A i \in Ids : GrowsOnce(i)
<1> TAKE i \in Ids
<1>1. now \in Nat /\ incidents[i] \in Row /\ "resolved" \in Statuses
  BY OfIncident DEF Statuses
<1>2. CASE i \in I
  <2> DEFINE w == <<AuditRow(incidents[i].status, "resolved")>>
  <2>1. audit'[i] = audit[i] \o w
    BY <1>2 DEF ResolveAll
  <2>2. w \in Seq(AuditRows) /\ OneHandover(w)
    BY <1>1, OneRow, ShortLogs DEF Row
  <2> QED
    BY <2>1, <2>2 DEF GrowsOnce
<1>3. CASE i \notin I
  BY <1>3, SameGrowsOnce DEF ResolveAll
<1> QED
  BY <1>2, <1>3

LEMMA CorrelationGrowsOnce ==
    ASSUME IndInv, live \subseteq Devices, NEW d \in live \union {NoDevice}, NEW c \in Classes,
           NEW key \in {"incident", "trap"}, NEW start \in 1..now, CreateOrTouch(d, c, key, start)
    PROVE  \A i \in Ids : GrowsOnce(i)
<1> DEFINE r == NewRow(d, c, DefaultAssignee(c), key, start)
<1>1. now \in Nat /\ r \in Row
  BY NewRowFacts, DefaultAssigneeType DEF IndInv, TypeOK
<1>2. \/ \E j \in Ids : Update(j, Touched(incidents[j], start), <<>>)
      \/ Insert(r)
  BY DEF CreateOrTouch, Latest, Matching, SameKey
<1>3. ASSUME NEW j \in Ids, Update(j, Touched(incidents[j], start), <<>>)
      PROVE  \A i \in Ids : GrowsOnce(i)
  <2>1. RowStep(incidents[j], <<>>, Touched(incidents[j], start))
    BY <1>1, OfIncident, TouchedRow
  <2> QED
    BY <1>3, <2>1, UpdateGrowsOnce, ShortLogs
<1> QED
  BY <1>1, <1>2, <1>3, InsertGrowsOnce

LEMMA TransitionGrowsOnce ==
    ASSUME IndInv, NEW j \in Ids, NEW t \in Statuses, TransitionIncidentStatus(j, t)
    PROVE  \A i \in Ids : GrowsOnce(i)
<1> DEFINE f == incidents[j].status
           P == StatusPath(f, t)
           q == Entered(incidents[j], {P[k] : k \in 1..Len(P)}, t)
           w == PathRows(f, t)
<1>1. now \in Nat \ {Never} /\ incidents[j] \in Row /\ Unstamped(incidents[j]) /\ f \in Statuses
  BY OfIncident DEF Row
<1>2. P # <<>> /\ Update(j, q, w)
  BY DEF TransitionIncidentStatus
<1>3. RowStep(incidents[j], w, q)
  BY <1>1, <1>2, MovedRow
<1>4. w \in Seq(AuditRows)
  BY <1>3 DEF RowStep
<1>5. SelfRows(w) = {}
  <2>1. /\ Rank[f] \in 1..5 /\ Rank[t] \in 1..5 /\ Rank[f] < Rank[t] /\ Len(P) = Rank[t] - Rank[f]
    BY <1>1, <1>2, PathFacts, RankFacts
  <2>2. ASSUME NEW k \in 1..Len(P) PROVE w[k].from # w[k].to
    <3>0. k \in 1..(Rank[t] - Rank[f])
      BY <2>1
    <3>1. Rank[f] + k - 1 \in 1..5 /\ Rank[f] + k \in 1..5 /\ Rank[f] + k - 1 # Rank[f] + k
      <4>1. \A x, y \in 1..5 : \A l \in 1..(y - x) : x + l - 1 \in 1..5 /\ x + l \in 1..5 /\ x + l - 1 # x + l
        OBVIOUS
      <4> QED
        BY <2>1, <3>0, <4>1
    <3>2. StatusOrder[Rank[f] + k - 1] # StatusOrder[Rank[f] + k]
      BY <3>1, RankFacts
    <3>3. /\ w[k].from = StatusOrder[Rank[f] + k - 1] /\ w[k].to = StatusOrder[Rank[f] + k]
      BY DEF PathRows, AuditRow
    <3> QED
      BY <3>2, <3>3
  <2>3. Len(w) = Len(P)
    <3>1. w = [k \in 1..Len(P) |-> w[k]] /\ Len(P) \in Nat
      BY <2>1 DEF PathRows
    <3> QED
      BY <1>4, <3>1, LenProperties
  <2> QED
    BY <2>2, <2>3 DEF SelfRows
<1> HIDE DEF w, q
<1> QED
  BY <1>2, <1>3, <1>5, UpdateGrowsOnce DEF OneHandover

(* The ITSM webhook logs the move first and then the change of owner. *)
LEMMA InboundGrowsOnce ==
    ASSUME IndInv, NEW j \in Ids, NEW t \in Statuses \union {NoStatus},
           NEW a \in Assignees \union {NoAssignee}, ApplyITSMInboundUpdate(j, t, a)
    PROVE  \A i \in Ids : GrowsOnce(i)
<1> DEFINE r == incidents[j]
           after == IF t = NoStatus THEN r.status ELSE t
           A == IF after = r.status THEN <<>> ELSE <<AuditRow(r.status, after)>>
           B == IF a = r.assignee THEN <<>> ELSE <<AuditRow(after, after)>>
<1>1. now \in Nat \ {Never} /\ r \in Row /\ Unstamped(r)
  BY OfIncident
<1>2. t \in {NoStatus, r.status} \union NextAllowed[r.status]
  BY DEF ApplyITSMInboundUpdate
<1>3. Update(j, InboundRow(r, t, a), InboundRows(r, t, a))
  BY DEF ApplyITSMInboundUpdate
<1>4. RowStep(r, InboundRows(r, t, a), InboundRow(r, t, a))
  BY <1>1, <1>2, InboundRowStep
<1>5. InboundRows(r, t, a) = A \o B
  BY DEF InboundRows
<1>6. SelfRows(A) = {} /\ OneHandover(B)
  <2>1. CASE after = r.status
    BY <2>1, ShortLogs DEF SelfRows
  <2>2. CASE after # r.status
    <3>1. A = <<AuditRow(r.status, after)>> /\ Len(A) = 1 /\ A[1].from = r.status /\ A[1].to = after
      BY <2>2 DEF AuditRow
    <3>2. OneHandover(B)
      BY ShortLogs
    <3> HIDE DEF A, B, after
    <3> QED
      BY <2>2, <3>1, <3>2 DEF SelfRows
  <2> QED
    BY <2>1, <2>2
<1>7. A \in Seq(AuditRows) /\ B \in Seq(AuditRows)
  <2>1. after \in Statuses /\ r.status \in Statuses
    BY <1>1 DEF Row, NoStatus
  <2>2. <<AuditRow(r.status, after)>> \in Seq(AuditRows) /\ <<AuditRow(after, after)>> \in Seq(AuditRows)
    <3> HIDE DEF after, r
    <3> QED
      BY <1>1, <2>1, OneRow
  <2>3. <<>> \in Seq(AuditRows)
    OBVIOUS
  <2> HIDE DEF after
  <2> QED
    BY <2>2, <2>3
<1> HIDE DEF A, B
<1>8. OneHandover(A \o B)
  <2>1. /\ Len(A) \in Nat /\ Len(B) \in Nat /\ Len(A \o B) = Len(A) + Len(B)
        /\ \A k \in 1..(Len(A) + Len(B)) : (A \o B)[k] = IF k <= Len(A) THEN A[k] ELSE B[k - Len(A)]
    BY <1>7, ConcatProperties
  <2>2. ASSUME NEW k \in SelfRows(A \o B) PROVE k \in Int /\ k - Len(A) \in SelfRows(B)
    <3>1. k \in 1..(Len(A) + Len(B)) /\ (A \o B)[k].from = (A \o B)[k].to
      BY <2>1 DEF SelfRows
    <3>2. ~(k <= Len(A))
      BY <1>6, <2>1, <3>1 DEF SelfRows
    <3>3. k - Len(A) \in 1..Len(B) /\ (A \o B)[k] = B[k - Len(A)]
      BY <2>1, <3>1, <3>2
    <3> QED
      BY <3>1, <3>3 DEF SelfRows
  <2>3. \A k, l \in SelfRows(A \o B) : k - Len(A) = l - Len(A)
    BY <1>6, <2>2 DEF OneHandover
  <2> QED
    BY <2>1, <2>2, <2>3 DEF OneHandover
<1> QED
  BY <1>3, <1>4, <1>5, <1>8, UpdateGrowsOnce

LEMMA OthersGrowOnce ==
    ASSUME IndInv, Correlate \/ Operate
    PROVE  \A i \in Ids : GrowsOnce(i)
<1>1. now \in Nat \ {Never} /\ live \subseteq Devices
  BY DEF IndInv, TypeOK
<1>2. ASSUME NEW d, NEW c \in Classes, NEW start \in 1..now,
             CreateOrTouchOpenIncident(d, c, start) \/ CreateOrTouchOpenTrapIncident(d, c, start)
      PROVE  \A i \in Ids : GrowsOnce(i)
  BY <1>1, <1>2, CorrelationGrowsOnce DEF CreateOrTouchOpenIncident, CreateOrTouchOpenTrapIncident
<1>3. ASSUME NEW d, ResolveOpenTrapIncidents(d) PROVE \A i \in Ids : GrowsOnce(i)
  BY <1>3, ResolveGrowsOnce DEF ResolveOpenTrapIncidents
<1>4. ASSUME NEW d, NEW src, ResolveOpenIncidentsBySource(d, src) PROVE \A i \in Ids : GrowsOnce(i)
  BY <1>4, ResolveGrowsOnce DEF ResolveOpenIncidentsBySource
<1>5. ASSUME NEW d \in Devices \union {NoDevice}, NEW c \in Classes,
             NEW a \in Assignees \union {NoAssignee}, CreateIncident(d, c, a)
      PROVE  \A i \in Ids : GrowsOnce(i)
  <2> DEFINE owner == IF a = NoAssignee THEN DefaultAssignee(c) ELSE a
  <2>1. owner \in Assignees \union {NoAssignee}
    BY DefaultAssigneeType
  <2>2. NewRow(d, c, owner, "none", now) \in Row
    BY <1>1, <2>1, NewRowFacts DEF Never
  <2> QED
    BY <1>5, <2>2, InsertGrowsOnce DEF CreateIncident
<1>6. ASSUME NEW j \in Ids, NEW a \in Assignees \union {NoAssignee}, AssignIncident(j, a)
      PROVE  \A i \in Ids : GrowsOnce(i)
  <2>1. incidents[j] \in Row
    BY OfIncident
  <2>2. RowStep(incidents[j], <<AuditRow(incidents[j].status, incidents[j].status)>>,
                Reassigned(incidents[j], a))
    BY <1>1, <2>1, ReassignedRow
  <2> QED
    BY <1>6, <2>2, UpdateGrowsOnce, ShortLogs DEF AssignIncident
<1>7. CASE Correlate
  BY <1>2, <1>3, <1>4, <1>7 DEF Correlate
<1>8. CASE Operate
  BY <1>5, <1>6, <1>8, TransitionGrowsOnce, InboundGrowsOnce DEF Operate
<1> QED
  BY <1>7, <1>8

-----------------------------------------------------------------------------
(* The escalation writes as the store allows. *)

TurnOK == turn \in LoadedPolicies \union {0}

LEMMA AppliedPolicy ==
    ASSUME TurnOK, turn # 0
    PROVE  /\ Policy(StageNames[turn]) \in Policies /\ StageNames[turn] \in Stages
           /\ Configured(Policy(StageNames[turn]))
BY EscalationAssumption DEF TurnOK, LoadedPolicies, Stages

LEMMA TurnNext == TurnOK /\ [EscalationNext]_escalationVars => TurnOK'
<1>1. Advance => TurnOK'
  BY DEF Advance, TurnOK, LoadedPolicies, Policy, Configured
<1>2. UNCHANGED turn /\ TurnOK => TurnOK'
  BY DEF TurnOK, LoadedPolicies, Policy, Configured
<1> QED
  BY <1>1, <1>2 DEF EscalationNext, StartCheck, ApplyPolicy, PolicyFails, OthersWrite, TimePasses,
                    escalationVars

LEMMA EscalationNextIsStores == TurnOK /\ [EscalationNext]_escalationVars => [Next]_vars
<1> SUFFICES ASSUME TurnOK, [EscalationNext]_escalationVars PROVE [Next]_vars
  OBVIOUS
<1>1. CASE ApplyPolicy
  <2>1. Policy(StageNames[turn]) \in Policies
    BY <1>1, AppliedPolicy DEF ApplyPolicy
  <2> QED
    BY <1>1, <2>1 DEF ApplyPolicy, Next
<1>2. CASE StartCheck \/ PolicyFails \/ OthersWrite \/ TimePasses
  BY <1>2 DEF StartCheck, PolicyFails, OthersWrite, TimePasses, Next
<1>3. CASE UNCHANGED escalationVars
  BY <1>3 DEF escalationVars
<1> QED
  BY <1>1, <1>2, <1>3 DEF EscalationNext

-----------------------------------------------------------------------------
(***************************************************************************)
(* What the escalation may still do to an incident that nobody else        *)
(* writes: stage 1 and stage 2 while it has no owner, stage 2 while it is  *)
(* owned by somebody else than the stage-2 assignee.                       *)
(***************************************************************************)
Budget(r) ==
    IF r.status # "new" THEN 0
    ELSE IF r.assignee = NoAssignee THEN 2
    ELSE IF r.assignee = Settings["stage2"].target THEN 0 ELSE 1

HandoversOK ==
    /\ ops \in Nat /\ (Ids # {} => ops # 0)
    /\ \A i \in Ids : Handovers(i) + Budget(incidents[i]) <= 2 + 3 * (ops - 1)

EscalationInv == IndInv /\ TurnOK /\ HandoversOK

LEMMA BudgetSize == \A r : Budget(r) \in 0..2
BY DEF Budget

LEMMA HandoversAreRows ==
    ASSUME IndInv, NEW i \in Ids
    PROVE  Handovers(i) = Cardinality(SelfRows(audit[i])) /\ Handovers(i) \in Nat
<1>1. audit[i] \in Seq(AuditRows)
  BY OfIncident
<1>2. Cardinality(SelfRows(audit[i])) \in Nat
  BY <1>1, ShortLogs, EmptySeq, LogsGrowSlowly
<1> QED
  BY <1>2 DEF Handovers, SelfRows

(* What a step that grows a log by at most one handover does to the count. *)
LEMMA HandoversGrow ==
    ASSUME IndInv, NEW i \in Ids, GrowsOnce(i)
    PROVE  /\ Handovers(i)' \in Nat /\ Handovers(i)' <= Handovers(i) + 1
<1>1. audit[i] \in Seq(AuditRows)
  BY OfIncident
<1>2. PICK w \in Seq(AuditRows) : audit'[i] = audit[i] \o w /\ OneHandover(w)
  BY DEF GrowsOnce
<1>3. /\ Cardinality(SelfRows(audit'[i])) \in Nat
      /\ Cardinality(SelfRows(audit'[i])) <= Cardinality(SelfRows(audit[i])) + 1
  BY <1>1, <1>2, LogsGrowSlowly
<1>4. Handovers(i) = Cardinality(SelfRows(audit[i]))
  BY HandoversAreRows
<1>5. Handovers(i)' = Cardinality(SelfRows(audit'[i]))
  BY DEF Handovers, SelfRows
<1> QED
  BY <1>3, <1>4, <1>5

(* A new incident has not been handed over. *)
LEMMA NoHandoversYet ==
    ASSUME NEW i, audit'[i] = <<>>
    PROVE  Handovers(i)' = 0
<1>1. SelfRows(<<>>) = {}
  BY DEF SelfRows
<1>2. Handovers(i)' = Cardinality(SelfRows(audit'[i]))
  BY DEF Handovers, SelfRows
<1> QED
  BY <1>1, <1>2, FS_EmptySet

LEMMA OthersKeepHandovers ==
    ASSUME EscalationInv, OthersWrite
    PROVE  HandoversOK'
<1>1. /\ IndInv /\ [Next]_vars /\ (Correlate \/ Operate) /\ ops' = ops + 1 /\ ops \in Nat
  BY DEF EscalationInv, HandoversOK, OthersWrite, Next
<1>2. ASSUME NEW i \in Ids'
      PROVE  Handovers(i)' + Budget(incidents'[i]) <= 2 + 3 * (ops' - 1)
  <2>1. Budget(incidents'[i]) \in 0..2 /\ Budget(incidents[i]) \in 0..2
    BY BudgetSize
  <2>2. CASE i \in Ids
    <3>1. Handovers(i)' \in Nat /\ Handovers(i)' <= Handovers(i) + 1 /\ Handovers(i) \in Nat
      BY <1>1, <2>2, OthersGrowOnce, HandoversGrow, HandoversAreRows
    <3>2. Handovers(i) + Budget(incidents[i]) <= 2 + 3 * (ops - 1)
      BY <2>2 DEF EscalationInv, HandoversOK
    <3> QED
      BY <1>1, <2>1, <3>1, <3>2
  <2>3. CASE i \notin Ids
    <3>1. Handovers(i)' = 0
      BY <1>1, <2>3, LaterRows, NoHandoversYet
    <3> QED
      BY <1>1, <2>1, <3>1
  <2> QED
    BY <2>2, <2>3
<1> QED
  BY <1>1, <1>2 DEF HandoversOK

(* A handover of the escalation is paid from the budget of the incident. *)
LEMMA PolicyKeepsHandovers ==
    ASSUME EscalationInv, ApplyPolicy
    PROVE  HandoversOK'
<1> DEFINE name == StageNames[turn]
           p == Policy(name)
<1>1. /\ IndInv /\ TurnOK /\ turn # 0 /\ ops' = ops /\ ops \in Nat
      /\ \A i \in Ids : Handovers(i) + Budget(incidents[i]) <= 2 + 3 * (ops - 1)
      /\ Ids # {} => ops # 0
  BY DEF EscalationInv, HandoversOK, ApplyPolicy
<1>2. /\ p.target = Settings[name].target /\ p.target # NoAssignee
      /\ p.onlyIfUnassigned <=> name # "stage2"
  BY <1>1, AppliedPolicy DEF Policy, Configured
<1>3. CASE Unacked(p) = {}
  <2>1. UNCHANGED <<incidents, audit>>
    BY <1>3 DEF ApplyPolicy, vars, store
  <2>2. Ids' = Ids /\ \A i \in Ids : Handovers(i)' = Handovers(i)
    BY <2>1 DEF Ids, Handovers
  <2> QED
    BY <1>1, <2>1, <2>2 DEF HandoversOK
<1>4. CASE Unacked(p) # {}
  <2>1. EscalateUnackedIncidents(p)
    BY <1>4 DEF ApplyPolicy
  <2> HIDE DEF p
  <2>2. Ids' = Ids
    <3>1. Len(incidents) \in Nat
      BY <1>1 DEF IndInv, TypeOK
    <3>2. DOMAIN incidents' = Ids
      BY <2>1 DEF EscalateUnackedIncidents
    <3>3. incidents' \in Seq(Row)
      BY <1>1, <2>1, EscalationNextIsStores, NextShape DEF StepShape, EscalationNext
    <3>4. Len(incidents') = Len(incidents)
      BY <3>1, <3>2, <3>3, LenProperties DEF Ids
    <3> QED
      BY <3>4 DEF Ids
  <2>3. ASSUME NEW i \in Ids
        PROVE  Handovers(i)' + Budget(incidents'[i]) <= 2 + 3 * (ops - 1)
    <3>1. CASE i \in Unacked(p)
      <4>1. audit'[i] = audit[i] \o <<AuditRow("new", "new")>>
        BY <2>1, <3>1 DEF EscalateUnackedIncidents
      <4>2. <<AuditRow("new", "new")>> \in Seq(AuditRows) /\ OneHandover(<<AuditRow("new", "new")>>)
        BY <1>1, OneRow, ShortLogs DEF Statuses, IndInv, TypeOK
      <4>3. GrowsOnce(i)
        BY <4>1, <4>2 DEF GrowsOnce
      <4>4. /\ Handovers(i) \in Nat /\ Handovers(i)' \in Nat /\ Handovers(i)' <= Handovers(i) + 1
        BY <1>1, <4>3, HandoversGrow, HandoversAreRows
      <4>5. incidents'[i] = Reassigned(incidents[i], p.target) /\ incidents[i] \in Row
        BY <1>1, <2>1, <3>1, OfIncident DEF EscalateUnackedIncidents
      <4>6. incidents'[i].status = incidents[i].status /\ incidents'[i].assignee = p.target
        BY <4>5 DEF Reassigned, Row
      <4>7. /\ incidents[i].status = "new" /\ incidents[i].assignee # p.target
            /\ name # "stage2" => incidents[i].assignee = NoAssignee
        BY <1>2, <3>1 DEF Unacked
      <4>8. Budget(incidents'[i]) + 1 <= Budget(incidents[i])
        <5> HIDE DEF name
        <5>1. CASE name = "stage2"
          BY <1>2, <4>6, <4>7, <5>1 DEF Budget
        <5>2. CASE name # "stage2"
          BY <1>2, <4>6, <4>7, <5>2 DEF Budget
        <5> QED
          BY <5>1, <5>2
      <4> QED
        BY <1>1, <4>4, <4>8, BudgetSize
    <3>2. CASE i \notin Unacked(p)
      <4>1. incidents'[i] = incidents[i] /\ audit'[i] = audit[i]
        BY <2>1, <3>2 DEF EscalateUnackedIncidents
      <4>2. Handovers(i)' = Handovers(i)
        BY <4>1 DEF Handovers
      <4> QED
        BY <1>1, <4>1, <4>2
    <3> QED
      BY <3>1, <3>2
  <2> QED
    BY <1>1, <2>2, <2>3 DEF HandoversOK
<1> QED
  BY <1>3, <1>4

LEMMA EscalationInvInit == EscalationInit => EscalationInv
<1>1. EscalationInit => IndInv /\ TurnOK
  BY IndInvInit DEF EscalationInit, TurnOK
<1>2. EscalationInit => HandoversOK
  <2>1. EscalationInit => Ids = {} /\ ops = 0
    BY DEF EscalationInit, Init, Ids
  <2> QED
    BY <2>1 DEF HandoversOK
<1> QED
  BY <1>1, <1>2 DEF EscalationInv

LEMMA EscalationInvNext == EscalationInv /\ [EscalationNext]_escalationVars => EscalationInv'
<1> SUFFICES ASSUME EscalationInv, [EscalationNext]_escalationVars PROVE EscalationInv'
  OBVIOUS
<1>1. IndInv' /\ TurnOK'
  BY IndInvNext, EscalationNextIsStores, TurnNext DEF EscalationInv
<1>2. CASE UNCHANGED <<incidents, audit, ops>>
  <2>1. Ids' = Ids /\ \A i \in Ids : Handovers(i)' = Handovers(i)
    BY <1>2 DEF Ids, Handovers
  <2>2. HandoversOK'
    BY <1>2, <2>1 DEF EscalationInv, HandoversOK
  <2> QED
    BY <1>1, <2>2 DEF EscalationInv
<1>3. CASE StartCheck \/ PolicyFails \/ TimePasses \/ UNCHANGED escalationVars
  BY <1>2, <1>3 DEF StartCheck, PolicyFails, TimePasses, Tick, escalationVars, vars, store
<1> QED
  BY <1>1, <1>3, OthersKeepHandovers, PolicyKeepsHandovers DEF EscalationInv, EscalationNext

(* The tables are those of the store, and every handover was paid for.     *)
THEOREM EscalationInvariance == EscalationSpec => []EscalationInv
BY EscalationInvInit, EscalationInvNext, PTL DEF EscalationSpec

(* However often the checks repeat and whatever the settings are, an       *)
(* incident changes hands at most twice between two writes of others.      *)
THEOREM HandoversBoundedHolds == EscalationSpec => []HandoversBounded
<1>1. EscalationInv => HandoversBounded
  <2> SUFFICES ASSUME EscalationInv, NEW i \in Ids PROVE Handovers(i) <= 2 + 3 * (ops - 1)
    BY DEF HandoversBounded
  <2>1. Handovers(i) \in Nat /\ Budget(incidents[i]) \in 0..2 /\ ops \in Nat
    BY HandoversAreRows, BudgetSize DEF EscalationInv, HandoversOK
  <2> QED
    BY <2>1 DEF EscalationInv, HandoversOK
<1> QED
  BY <1>1, EscalationInvariance, PTL

-----------------------------------------------------------------------------
(***************************************************************************)
(* What the events of the API say and that none is lost in silence, for    *)
(* any number of requests and workers and any size of the queue.           *)
(***************************************************************************)

-----------------------------------------------------------------------------
(* Sequences as sets *)

LEMMA ElementsOfEmpty == Elements(<<>>) = {}
BY DEF Elements

LEMMA ElementsOfHead ==
    ASSUME NEW S, NEW s \in Seq(S), s # <<>>
    PROVE  Elements(s) = {Head(s)} \union Elements(Tail(s)) /\ Head(s) \in S /\ Tail(s) \in Seq(S)
<1>1. /\ Head(s) \in S /\ Tail(s) \in Seq(S) /\ Len(s) \in Nat /\ Len(s) # 0
      /\ Len(Tail(s)) = Len(s) - 1 /\ Head(s) = s[1]
      /\ \A k \in 1..Len(Tail(s)) : Tail(s)[k] = s[k + 1]
  BY HeadTailProperties, EmptySeq
<1>2. ASSUME NEW k \in 1..Len(s) PROVE s[k] \in {Head(s)} \union Elements(Tail(s))
  <2>1. CASE k = 1
    BY <1>1, <2>1
  <2>2. CASE k # 1
    <3>1. k - 1 \in 1..Len(Tail(s)) /\ (k - 1) + 1 = k
      BY <1>1, <2>2
    <3> QED
      BY <1>1, <3>1 DEF Elements
  <2> QED
    BY <2>1, <2>2
<1>3. ASSUME NEW k \in 1..Len(Tail(s)) PROVE Tail(s)[k] \in Elements(s)
  <2>1. k + 1 \in 1..Len(s)
    BY <1>1
  <2> QED
    BY <1>1, <2>1 DEF Elements
<1>4. s[1] \in Elements(s)
  BY <1>1 DEF Elements
<1>5. Elements(s) \subseteq {Head(s)} \union Elements(Tail(s))
  BY <1>2 DEF Elements
<1>6. {Head(s)} \union Elements(Tail(s)) \subseteq Elements(s)
  BY <1>1, <1>3, <1>4 DEF Elements
<1> QED
  BY <1>1, <1>5, <1>6

LEMMA ElementsOfAppend ==
    ASSUME NEW S, NEW s \in Seq(S), NEW e \in S
    PROVE  Elements(Append(s, e)) = Elements(s) \union {e} /\ Append(s, e) \in Seq(S)
<1>1. /\ Append(s, e) \in Seq(S) /\ Len(s) \in Nat /\ Len(Append(s, e)) = Len(s) + 1
      /\ \A k \in 1..Len(s) : Append(s, e)[k] = s[k]
      /\ Append(s, e)[Len(s) + 1] = e
  BY AppendProperties
<1>2. 1..(Len(s) + 1) = 1..Len(s) \union {Len(s) + 1}
  BY <1>1
<1> QED
  BY <1>1, <1>2 DEF Elements

-----------------------------------------------------------------------------
(* The invariant *)

IsBulk(b) ==
    \E ids, t : b = [ids |-> ids, status |-> t] /\ (ids # <<>> => t \in Statuses)

BulkOK == bulk = [r \in Requests |-> bulk[r]] /\ \A r \in Requests : IsBulk(bulk[r])

(* A request has no event to send while it waits for a row. *)
QueuesOK ==
    /\ unread \in [Requests -> Seq(Events)]
    /\ pending \in [Requests -> Seq(Events)]
    /\ \A r \in Requests : unread[r] = <<>> \/ pending[r] = <<>>
    /\ queue \in Seq(Events)
    /\ task \in [Workers -> Events \union {NoEvent}]
    /\ received \subseteq Events

(* The event e tells of a change of an incident that is there, and of a    *)
(* status that this change or a later one has led to.                      *)
UpToDate(e, L) ==
    \E n \in e.change..Len(L) : e.status = StatusAfter(L, n) /\ (e.type = "created" => n = 0)

IsFact(e, ids, logs) ==
    /\ e \in Events /\ e.id \in ids /\ e.change \in 0..Len(logs[e.id])
    /\ UpToDate(e, logs[e.id])

AllFacts == \A e \in InMemory \union received : IsFact(e, Ids, audit)

Known == InMemory \union received \union reported \union answered

(* Every change that was made is told of somewhere. *)
NoneVanishes == \A e \in made : \E x \in Known : Key(x) = Key(e)

EventsInv == IndInv /\ BulkOK /\ QueuesOK /\ AllFacts /\ NoneVanishes

Waiting(p) == UNION {Elements(p[r]) : r \in Requests}
Posting(t) == {t[w] : w \in Workers} \ {NoEvent}

LEMMA InMemoryIs ==
    /\ InMemory = Waiting(unread) \union Waiting(pending) \union Elements(queue) \union Posting(task)
    /\ InMemory' = Waiting(unread') \union Waiting(pending') \union Elements(queue') \union Posting(task')
BY DEF InMemory, Elements, Waiting, Posting

LEMMA EventsInitInv == EventsInit => EventsInv
<1> SUFFICES ASSUME EventsInit PROVE EventsInv
  OBVIOUS
<1>1. IndInv
  BY IndInvInit DEF EventsInit
<1>2. BulkOK
  <2>1. \A r \in Requests : bulk[r] = [ids |-> <<>>, status |-> NoStatus]
    BY DEF EventsInit, NoBulk
  <2>2. bulk = [r \in Requests |-> bulk[r]]
    BY DEF EventsInit
  <2> QED
    BY <2>1, <2>2 DEF BulkOK, IsBulk
<1>3. QueuesOK
  BY DEF EventsInit, QueuesOK
<1>4. InMemory = {} /\ received = {} /\ made = {}
  BY InMemoryIs, ElementsOfEmpty DEF EventsInit, Waiting, Posting
<1> QED
  BY <1>1, <1>2, <1>3, <1>4 DEF EventsInv, AllFacts, NoneVanishes

-----------------------------------------------------------------------------
(* The steps and the store *)

(* A change the requests or the other programs make is one of the store's. *)
LEMMA EffectiveOwner ==
    ASSUME NEW q \in InboundRequests
    PROVE  EffectiveAssignee(q) \in Assignees \union {NoAssignee}
<1>1. CASE ResolveITSMInboundMapping(q) # {}
  <2>1. (CHOOSE row \in ResolveITSMInboundMapping(q) : TRUE) \in InboundMappings
    BY <1>1 DEF ResolveITSMInboundMapping
  <2> QED
    BY <2>1, EventsAssumption DEF EffectiveAssignee
<1>2. CASE ResolveITSMInboundMapping(q) = {}
  BY <1>2, EventsAssumption DEF EffectiveAssignee
<1> QED
  BY <1>1, <1>2

LEMMA InboundIsStores ==
    ASSUME NEW i \in Ids, NEW q \in InboundRequests, IndInv,
           ApplyITSMInboundUpdate(i, EffectiveStatus(q), EffectiveAssignee(q))
    PROVE  Next /\ EffectiveStatus(q) \in Statuses \union {NoStatus}
<1>1. incidents[i].status \in Statuses
  BY OfIncident DEF Row
<1>2. NextAllowed[incidents[i].status] \subseteq Statuses
  BY <1>1 DEF NextAllowed, Statuses
<1>3. EffectiveStatus(q) \in Statuses \union {NoStatus}
  BY <1>1, <1>2 DEF ApplyITSMInboundUpdate
<1> QED
  BY <1>3, EffectiveOwner DEF Next, Operate

LEMMA EventsNextIsStores == EventsInv /\ [EventsNext]_eventVars => [Next]_vars
<1> SUFFICES ASSUME EventsInv, [EventsNext]_eventVars PROVE [Next]_vars
  OBVIOUS
<1>1. ASSUME NEW r \in Requests, Handle(r) PROVE [Next]_vars
  <2>1. ASSUME NEW d \in live \union {NoDevice}, NEW c \in Classes,
               NEW a \in Assignees \union {NoAssignee}, CreateIncident(d, c, a)
        PROVE  Next
    <3>1. d \in Devices \union {NoDevice}
      BY DEF EventsInv, IndInv, TypeOK
    <3> QED
      BY <2>1, <3>1 DEF Next, Operate
  <2>2. ASSUME NEW i \in Ids, NEW t \in Statuses, TransitionIncidentStatus(i, t) PROVE Next
    BY <2>2 DEF Next, Operate
  <2>3. ASSUME NEW i \in Ids, NEW a \in Assignees \union {NoAssignee}, AssignIncident(i, a)
        PROVE  Next
    BY <2>3 DEF Next, Operate
  <2>4. ASSUME NEW i \in Ids, NEW q \in InboundRequests,
               ApplyITSMInboundUpdate(i, EffectiveStatus(q), EffectiveAssignee(q))
        PROVE  Next
    BY <2>4, InboundIsStores DEF EventsInv
  <2> QED
    BY <1>1, <2>1, <2>2, <2>3, <2>4 DEF Handle
<1>2. ASSUME NEW r \in Requests, NextOfBulk(r) PROVE [Next]_vars
  <2>1. bulk[r].status \in Statuses
    <3>1. PICK ids, t : bulk[r] = [ids |-> ids, status |-> t] /\ (ids # <<>> => t \in Statuses)
      BY DEF EventsInv, BulkOK, IsBulk
    <3> QED
      BY <1>2, <3>1 DEF NextOfBulk
  <2> QED
    BY <1>2, <2>1 DEF NextOfBulk, Next, Operate
<1>3. ASSUME Others PROVE [Next]_vars
  BY <1>3 DEF Others, Next
<1>4. ASSUME \/ \E r \in Requests : StartBulk(r) \/ ReadBack(r) \/ ReadBackFails(r) \/ Notify(r)
             \/ \E w \in Workers : Take(w) \/ Post(w)
             \/ Restart
             \/ UNCHANGED eventVars
      PROVE  [Next]_vars
  BY <1>4 DEF StartBulk, ReadBack, ReadBackFails, Notify, Take, Post, Restart, eventVars
<1> QED
  BY <1>1, <1>2, <1>3, <1>4 DEF EventsNext, Serve

(* Hence the tables the API writes are those of IncidentStore. *)
LEMMA EventsIndInv ==
    ASSUME EventsInv, [EventsNext]_eventVars
    PROVE  [Next]_vars /\ IndInv /\ IndInv'
BY EventsNextIsStores, IndInvNext DEF EventsInv

(* What was a fact stays one: the store only appends to an incident's log. *)
LEMMA FactsStay ==
    ASSUME IndInv, [Next]_vars, NEW e, IsFact(e, Ids, audit)
    PROVE  IsFact(e, Ids', audit')
<1>1. StepShape
  BY NextShape
<1>2. PICK w \in Seq(AuditRows) : audit'[e.id] = audit[e.id] \o w
  BY <1>1 DEF StepShape, IsFact, Grown
<1>3. audit[e.id] \in Seq(AuditRows) /\ Len(audit[e.id]) \in Nat /\ Len(incidents) \in Nat
  BY OfIncident DEF IsFact, IndInv, TypeOK
<1>4. /\ Len(audit'[e.id]) = Len(audit[e.id]) + Len(w) /\ Len(w) \in Nat
      /\ \A k \in 1..Len(audit[e.id]) : audit'[e.id][k] = audit[e.id][k]
  BY <1>2, <1>3, ConcatProperties
<1>5. e.id \in Ids'
  BY <1>1, <1>3 DEF StepShape, IsFact, Ids
<1>6. PICK n \in e.change..Len(audit[e.id]) :
         e.status = StatusAfter(audit[e.id], n) /\ (e.type = "created" => n = 0)
  BY DEF IsFact, UpToDate
<1>7. e.change \in Nat
  BY DEF IsFact, Events
<1>8. /\ e.change \in 0..Len(audit'[e.id]) /\ n \in e.change..Len(audit'[e.id])
      /\ n # 0 => audit'[e.id][n] = audit[e.id][n]
  BY <1>3, <1>4, <1>6, <1>7 DEF IsFact
<1>9. UpToDate(e, audit'[e.id])
  BY <1>6, <1>8 DEF UpToDate, StatusAfter
<1> QED
  BY <1>5, <1>8, <1>9 DEF IsFact

(* The last row of an incident's log has led to its status. *)
LEMMA LastChangeIsFact ==
    ASSUME IndInv, [Next]_vars, NEW i \in Ids',
           NEW type \in {"created", "status_changed", "assignment_changed"},
           type = "created" => Len(audit'[i]) = 0
    PROVE  IsFact(Event(type, i, incidents'[i].status, Len(audit'[i])), Ids', audit')
<1> DEFINE e == Event(type, i, incidents'[i].status, Len(audit'[i]))
<1>1. /\ incidents'[i] \in Row /\ audit'[i] \in Seq(AuditRows) /\ i \in Nat
  <2>1. TypeOK'
    BY IndInvNext DEF IndInv
  <2> QED
    BY <2>1, ElementOfSeq DEF TypeOK, Ids
<1>2. Chain(audit'[i], incidents'[i].status)
  BY RowInvNext DEF RowInv
<1>3. incidents'[i].status \in Statuses /\ Len(audit'[i]) \in Nat
  BY <1>1 DEF Row
<1>4. /\ e \in Events /\ e.id = i /\ e.change = Len(audit'[i])
      /\ e.status = incidents'[i].status /\ e.type = type
  BY <1>1, <1>3 DEF Event, Events
<1>5. e.status = StatusAfter(audit'[i], Len(audit'[i]))
  BY <1>2, <1>4 DEF Chain, StatusAfter
<1> HIDE DEF e
<1>6. UpToDate(e, audit'[i])
  BY <1>3, <1>4, <1>5 DEF UpToDate
<1>7. IsFact(e, Ids', audit')
  BY <1>3, <1>4, <1>6 DEF IsFact
<1> QED
  BY <1>7 DEF e

(* So it is of the row that is read now for a change of the past. *)
LEMMA AsReadIsFact ==
    ASSUME IndInv, NEW e, IsFact(e, Ids, audit)
    PROVE  IsFact(AsRead(e), Ids, audit) /\ Key(AsRead(e)) = Key(e)
<1>1. /\ e \in Events /\ e.id \in Ids /\ e.change \in 0..Len(audit[e.id])
  BY DEF IsFact
<1>2. CASE e.change = 0
  BY <1>2 DEF AsRead
<1>3. CASE e.change # 0
  <2> DEFINE i == e.id
             x == [e EXCEPT !.status = incidents[i].status]
  <2>1. /\ incidents[i] \in Row /\ audit[i] \in Seq(AuditRows) /\ Len(audit[i]) \in Nat
        /\ Chain(audit[i], incidents[i].status)
    BY <1>1, OfIncident DEF RowInv
  <2>2. incidents[i].status \in Statuses
    BY <2>1 DEF Row
  <2>3. /\ x \in Events /\ x.id = i /\ x.change = e.change /\ x.type = e.type
        /\ x.status = incidents[i].status
    BY <1>1, <2>2 DEF Events
  <2>4. e.type # "created" /\ e.change \in Nat
    <3>1. e.change \in Nat
      BY <1>1 DEF Events
    <3>2. \A n \in e.change..Len(audit[i]) : n # 0
      BY <1>3, <2>1, <3>1
    <3> QED
      BY <3>1, <3>2 DEF IsFact, UpToDate
  <2>5. x.status = StatusAfter(audit[i], Len(audit[i]))
    BY <2>1, <2>3 DEF Chain, StatusAfter
  <2> HIDE DEF x
  <2>6. Len(audit[i]) \in x.change..Len(audit[i])
    BY <1>1, <2>1, <2>3, <2>4
  <2>7. UpToDate(x, audit[i])
    BY <2>3, <2>4, <2>5, <2>6 DEF UpToDate
  <2>8. IsFact(x, Ids, audit) /\ Key(x) = Key(e)
    BY <1>1, <2>3, <2>7 DEF IsFact, Key
  <2> QED
    BY <1>3, <2>8 DEF AsRead, x
<1> QED
  BY <1>2, <1>3

-----------------------------------------------------------------------------
(* What the handlers tell *)

(* The incident an update leaves. *)
LEMMA UpdatedStatus ==
    ASSUME IndInv, NEW i \in Ids, NEW r, NEW w, Update(i, r, w)
    PROVE  i \in Ids' /\ incidents'[i] = r /\ audit'[i] = audit[i] \o w
BY SMTT(30) DEF IndInv, TypeOK, Update, Ids

(* The events of an inbound request carry the status its last row leads    *)
(* to; every row before leads there as well.                               *)
LEMMA InboundFacts ==
    ASSUME IndInv, [Next]_vars, NEW i \in Ids, NEW t \in Statuses \union {NoStatus},
           NEW a \in Assignees \union {NoAssignee}, ApplyITSMInboundUpdate(i, t, a)
    PROVE  LET brought == InboundEvents(i, InboundRows(incidents[i], t, a))
           IN  brought \in Seq(Events) /\ \A e \in Elements(brought) : IsFact(e, Ids', audit')
<1> DEFINE r == incidents[i]
           rows == InboundRows(r, t, a)
           n == Len(audit[i])
           after == IF t = NoStatus THEN r.status ELSE t
           A == IF after = r.status THEN <<>> ELSE <<AuditRow(r.status, after)>>
           B == IF a = r.assignee THEN <<>> ELSE <<AuditRow(after, after)>>
<1>1. /\ now \in Nat \ {Never} /\ r \in Row /\ Unstamped(r) /\ r.status \in Statuses
      /\ audit[i] \in Seq(AuditRows) /\ n \in Nat
  BY OfIncident DEF Row
<1>2. /\ t \in {NoStatus, r.status} \union NextAllowed[r.status]
      /\ Update(i, InboundRow(r, t, a), rows)
  BY DEF ApplyITSMInboundUpdate
<1>3. rows \in Seq(AuditRows) /\ Len(rows) \in Nat
  <2>1. RowStep(r, rows, InboundRow(r, t, a))
    BY <1>1, <1>2, InboundRowStep
  <2> HIDE DEF rows
  <2> QED
    BY <2>1 DEF RowStep
<1>4. /\ i \in Ids' /\ audit'[i] = audit[i] \o rows
  BY <1>2, UpdatedStatus
<1>5. \A k \in 1..Len(rows) : rows[k].to = after
  <2>1. rows = A \o B
    BY DEF InboundRows
  <2>2. after \in Statuses
    BY <1>1, <1>2
  <2>3. /\ A \in Seq(AuditRows) /\ B \in Seq(AuditRows)
        /\ \A k \in 1..Len(A) : A[k].to = after
        /\ \A k \in 1..Len(B) : B[k].to = after
    <3>1. <<>> \in Seq(AuditRows) /\ Len(<<>>) = 0 /\ 1..0 = {}
      BY EmptySeq
    <3>2. \A f \in Statuses : LET w == <<AuditRow(f, after)>>
                             IN  w \in Seq(AuditRows) /\ \A k \in 1..Len(w) : w[k].to = after
      <4> HIDE DEF after
      <4> TAKE f \in Statuses
      <4> DEFINE w == <<AuditRow(f, after)>>
      <4>1. w \in Seq(AuditRows) /\ Len(w) = 1 /\ w[1].to = after
        BY <1>1, <2>2, OneRow, ZenonT(30)
      <4>2. \A k \in 1..1 : k = 1
        OBVIOUS
      <4> HIDE DEF w
      <4>3. \A k \in 1..Len(w) : w[k].to = after
        BY <4>1, <4>2
      <4> QED
        BY <4>1, <4>3 DEF w
    <3>3. A = <<>> \/ A = <<AuditRow(r.status, after)>>
      OBVIOUS
    <3>4. B = <<>> \/ B = <<AuditRow(after, after)>>
      OBVIOUS
    <3> HIDE DEF A, B, after
    <3>5. A \in Seq(AuditRows) /\ \A k \in 1..Len(A) : A[k].to = after
      BY <1>1, <3>1, <3>2, <3>3
    <3>6. B \in Seq(AuditRows) /\ \A k \in 1..Len(B) : B[k].to = after
      BY <2>2, <3>1, <3>2, <3>4
    <3> QED
      BY <3>5, <3>6
  <2> HIDE DEF A, B, rows, after
  <2>4. /\ Len(rows) = Len(A) + Len(B) /\ Len(A) \in Nat /\ Len(B) \in Nat
        /\ \A k \in 1..Len(rows) : rows[k] = IF k <= Len(A) THEN A[k] ELSE B[k - Len(A)]
    BY <2>1, <2>3, ConcatProperties
  <2>5. TAKE k \in 1..Len(rows)
  <2>6. CASE k <= Len(A)
    BY <2>3, <2>4, <2>6
  <2>7. CASE ~(k <= Len(A))
    <3>1. k - Len(A) \in 1..Len(B)
      BY <2>4, <2>7
    <3> QED
      BY <2>3, <2>4, <2>7, <3>1
  <2> QED
    BY <2>6, <2>7
<1> DEFINE event(k) ==
             Event(IF rows[k].from # rows[k].to THEN "status_changed" ELSE "assignment_changed",
                   i, rows[Len(rows)].to, n + k)
<1>6. ASSUME NEW k \in 1..Len(rows)
      PROVE  event(k) \in Events /\ IsFact(event(k), Ids', audit')
  <2>1. Len(rows) \in 1..Len(rows)
    BY <1>3
  <2>2. rows[k] \in AuditRows /\ rows[Len(rows)] \in AuditRows
    BY <1>3, <2>1, ElementOfSeq
  <2>3. rows[Len(rows)].to = rows[k].to /\ rows[k].to \in Statuses
    BY <1>5, <2>1, <2>2 DEF AuditRows
  <2>4. /\ Len(audit[i] \o rows) = n + Len(rows)
        /\ (audit[i] \o rows)[n + k] = rows[k]
        /\ n + k \in 0..(n + Len(rows)) /\ n + k # 0 /\ n + k \in Nat
    <3> HIDE DEF rows
    <3>1. /\ Len(audit[i] \o rows) = Len(audit[i]) + Len(rows)
          /\ \A m \in 1..(Len(audit[i]) + Len(rows)) :
                (audit[i] \o rows)[m] = IF m <= Len(audit[i]) THEN audit[i][m]
                                                             ELSE rows[m - Len(audit[i])]
      BY <1>1, <1>3, ConcatProperties
    <3> HIDE DEF n
    <3>2. /\ n + k \in 1..(n + Len(rows)) /\ ~(n + k <= n) /\ (n + k) - n = k
          /\ n + k \in 0..(n + Len(rows)) /\ n + k # 0 /\ n + k \in Nat
      BY <1>1, <1>3
    <3>3. (audit[i] \o rows)[n + k] = rows[(n + k) - n]
      BY <3>1, <3>2 DEF n
    <3> QED
      BY <3>1, <3>2, <3>3 DEF n
  <2>5. i \in Nat
    BY DEF Ids
  <2> HIDE DEF rows, n
  <2>6. /\ event(k) \in Events /\ event(k).id = i /\ event(k).status = rows[Len(rows)].to
        /\ event(k).change = n + k /\ event(k).type # "created"
    BY <2>3, <2>4, <2>5 DEF Event, Events
  <2>7. Len(audit'[i]) = n + Len(rows) /\ audit'[i][n + k] = rows[k]
    BY <1>4, <2>4
  <2> HIDE DEF event
  <2>8. n + k \in (n + k)..(n + Len(rows))
    BY <1>1, <1>3, <2>4
  <2>9. UpToDate(event(k), audit'[i])
    BY <2>3, <2>4, <2>6, <2>7, <2>8 DEF UpToDate, StatusAfter
  <2> QED
    BY <1>4, <2>4, <2>6, <2>7, <2>9 DEF IsFact
<1>7. InboundEvents(i, rows) = [k \in 1..Len(rows) |-> event(k)]
  BY DEF InboundEvents
<1> HIDE DEF event, rows
<1>8. InboundEvents(i, rows) \in [1..Len(rows) -> Events]
  BY <1>6, <1>7
<1>9. InboundEvents(i, rows) \in Seq(Events) /\ Len(InboundEvents(i, rows)) = Len(rows)
  BY <1>3, <1>8, FunctionIsSeq
<1>10. \A e \in Elements(InboundEvents(i, rows)) : IsFact(e, Ids', audit')
  BY <1>6, <1>7, <1>9 DEF Elements
<1> QED
  BY <1>9, <1>10 DEF rows

(* A single event is a sequence of events. *)
LEMMA OneFact ==
    ASSUME NEW e, IsFact(e, Ids', audit')
    PROVE  <<e>> \in Seq(Events) /\ \A x \in Elements(<<e>>) : IsFact(x, Ids', audit')
<1>1. e \in Events /\ Len(<<e>>) = 1 /\ <<e>>[1] = e
  BY DEF IsFact
<1> QED
  BY <1>1 DEF Elements

LEMMA TransitionFacts ==
    ASSUME IndInv, [Next]_vars, NEW i \in Ids, NEW t \in Statuses, TransitionIncidentStatus(i, t)
    PROVE  /\ StatusChanged(i, t) \in Seq(Events)
           /\ \A e \in Elements(StatusChanged(i, t)) : IsFact(e, Ids', audit')
<1>1. PICK E, w : Update(i, Entered(incidents[i], E, t), w)
  BY DEF TransitionIncidentStatus
<1>2. Entered(incidents[i], E, t).status = t
  BY OfIncident DEF Entered, Row
<1>3. i \in Ids' /\ incidents'[i].status = t
  BY <1>1, <1>2, UpdatedStatus
<1>4. IsFact(Event("status_changed", i, t, Len(audit'[i])), Ids', audit')
  BY <1>3, LastChangeIsFact
<1> QED
  BY <1>4, OneFact DEF StatusChanged

(* What a handler tells is so. *)
LEMMA HandlerTellsFacts ==
    ASSUME EventsInv, NEW r \in Requests, Handle(r)
    PROVE  \E brought \in Seq(Events) :
              Tell(r, brought) /\ \A e \in Elements(brought) : IsFact(e, Ids', audit')
<1>1. [Next]_vars /\ IndInv
  BY EventsIndInv DEF EventsNext, Serve
<1>2. ASSUME NEW d \in live \union {NoDevice}, NEW c \in Classes,
             NEW a \in Assignees \union {NoAssignee}, CreateIncident(d, c, a)
      PROVE  LET e == Event("created", Len(incidents'), "new", 0)
             IN  <<e>> \in Seq(Events) /\ \A x \in Elements(<<e>>) : IsFact(x, Ids', audit')
  <2> DEFINE b == IF a = NoAssignee THEN DefaultAssignee(c) ELSE a
             n == Len(incidents)
  <2>1. now \in Nat \ {Never} /\ d \in Devices \union {NoDevice} /\ TypeOK /\ n \in Nat
    BY <1>1 DEF IndInv, TypeOK
  <2>2. b \in Assignees \union {NoAssignee}
    BY DefaultAssigneeType
  <2>3. Insert(NewRow(d, c, b, "none", now))
    BY <1>2 DEF CreateIncident
  <2> HIDE DEF b
  <2>4. NewRow(d, c, b, "none", now) \in Row /\ NewRow(d, c, b, "none", now).status = "new"
    <3>1. now \in 1..now
      BY <2>1 DEF Never
    <3> QED
      BY <2>1, <2>2, <3>1, NewRowFacts DEF NewRow
  <2>5. /\ Len(incidents') = n + 1 /\ incidents'[n + 1].status = "new" /\ audit'[n + 1] = <<>>
    BY <2>1, <2>3, <2>4, InsertType
  <2>6. n + 1 \in Ids' /\ Len(audit'[n + 1]) = 0
    BY <2>1, <2>5 DEF Ids
  <2>7. IsFact(Event("created", n + 1, "new", 0), Ids', audit')
    BY <1>1, <2>5, <2>6, LastChangeIsFact
  <2> QED
    BY <2>5, <2>7, OneFact
<1>3. ASSUME NEW i \in Ids, NEW a \in Assignees \union {NoAssignee}, AssignIncident(i, a)
      PROVE  LET e == Event("assignment_changed", i, incidents[i].status, Len(audit'[i]))
             IN  <<e>> \in Seq(Events) /\ \A x \in Elements(<<e>>) : IsFact(x, Ids', audit')
  <2>1. Reassigned(incidents[i], a).status = incidents[i].status
    BY <1>1, OfIncident DEF Reassigned, Row
  <2>2. i \in Ids' /\ incidents'[i].status = incidents[i].status
    BY <1>1, <1>3, <2>1, UpdatedStatus DEF AssignIncident
  <2>3. IsFact(Event("assignment_changed", i, incidents[i].status, Len(audit'[i])), Ids', audit')
    BY <1>1, <2>2, LastChangeIsFact
  <2> QED
    BY <2>3, OneFact
<1>4. ASSUME NEW i \in Ids, NEW q \in InboundRequests,
             ApplyITSMInboundUpdate(i, EffectiveStatus(q), EffectiveAssignee(q))
      PROVE  LET brought == InboundEvents(i, InboundRows(incidents[i], EffectiveStatus(q),
                                                        EffectiveAssignee(q)))
             IN  brought \in Seq(Events) /\ \A e \in Elements(brought) : IsFact(e, Ids', audit')
  <2>1. EffectiveStatus(q) \in Statuses \union {NoStatus}
    BY <1>1, <1>4, InboundIsStores
  <2>2. EffectiveAssignee(q) \in Assignees \union {NoAssignee}
    BY EffectiveOwner
  <2> QED
    BY <1>1, <1>4, <2>1, <2>2, InboundFacts
<1> QED
  BY <1>1, <1>2, <1>3, <1>4, TransitionFacts DEF Handle

-----------------------------------------------------------------------------
(* The steps *)

(* What a step has to show: the events that it brings tell facts, and no   *)
(* change that was made or that was known is forgotten.                    *)
StepOK ==
    /\ BulkOK' /\ QueuesOK'
    /\ \A e \in InMemory' \union received' :
          e \in InMemory \union received \/ IsFact(e, Ids', audit')
    /\ \A e \in made' : e \in made \/ e \in Known'
    /\ \A e \in Known : \E x \in Known' : Key(x) = Key(e)

LEMMA Accounted ==
    ASSUME EventsInv, [EventsNext]_eventVars, StepOK
    PROVE  EventsInv'
<1>1. [Next]_vars /\ IndInv /\ IndInv'
  BY EventsIndInv
<1>2. AllFacts'
  <2>1. \A e \in InMemory' \union received' : IsFact(e, Ids', audit')
    BY <1>1, FactsStay DEF EventsInv, AllFacts, StepOK
  <2> QED
    BY <2>1 DEF AllFacts
<1>3. NoneVanishes'
  <2> SUFFICES ASSUME NEW e \in made' PROVE \E x \in Known' : Key(x) = Key(e)
    BY DEF NoneVanishes, Key
  <2>1. CASE e \in Known'
    BY <2>1
  <2>2. CASE e \in made
    <3>1. PICK y \in Known : Key(y) = Key(e)
      BY <2>2 DEF EventsInv, NoneVanishes
    <3>2. PICK x \in Known' : Key(x) = Key(y)
      BY <3>1 DEF StepOK
    <3> QED
      BY <3>1, <3>2
  <2> QED
    BY <2>1, <2>2 DEF StepOK
<1> QED
  BY <1>1, <1>2, <1>3 DEF EventsInv, StepOK

(* What one request waits for, and what one worker posts, is exchanged.    *)
LEMMA BulkChanged ==
    ASSUME BulkOK, NEW r \in Requests, NEW b, bulk' = [bulk EXCEPT ![r] = b], IsBulk(b)
    PROVE  BulkOK'
<1>1. /\ bulk' = [x \in Requests |-> bulk'[x]] /\ bulk'[r] = b
      /\ \A x \in Requests \ {r} : bulk'[x] = bulk[x]
  BY DEF BulkOK
<1>2. \A x \in Requests : IsBulk(bulk'[x])
  BY <1>1 DEF BulkOK
<1> QED
  BY <1>1, <1>2 DEF BulkOK, IsBulk

Exchanged(p, q, r, s) ==
    /\ q \in [Requests -> Seq(Events)]
    /\ q[r] = s /\ \A x \in Requests \ {r} : q[x] = p[x]
    /\ Waiting(q) \union Elements(p[r]) = Waiting(p) \union Elements(s)

LEMMA WaitingChanged ==
    ASSUME NEW p \in [Requests -> Seq(Events)], NEW r \in Requests, NEW s \in Seq(Events)
    PROVE  Exchanged(p, [p EXCEPT ![r] = s], r, s)
<1> DEFINE q == [p EXCEPT ![r] = s]
<1>1. /\ q \in [Requests -> Seq(Events)] /\ q[r] = s
      /\ \A x \in Requests \ {r} : q[x] = p[x]
  OBVIOUS
<1> HIDE DEF q
<1>2. Waiting(q) \union Elements(p[r]) \subseteq Waiting(p) \union Elements(s)
  BY <1>1 DEF Waiting
<1>3. Waiting(p) \union Elements(s) \subseteq Waiting(q) \union Elements(p[r])
  BY <1>1 DEF Waiting
<1>4. Exchanged(p, q, r, s)
  BY <1>1, <1>2, <1>3 DEF Exchanged
<1> QED
  BY <1>4 DEF q

LEMMA PostingChanged ==
    ASSUME QueuesOK, NEW w \in Workers, NEW e \in Events \union {NoEvent},
           task' = [task EXCEPT ![w] = e]
    PROVE  /\ task' \in [Workers -> Events \union {NoEvent}]
           /\ Posting(task') \union ({task[w]} \ {NoEvent}) = Posting(task) \union ({e} \ {NoEvent})
<1>1. /\ task' \in [Workers -> Events \union {NoEvent}] /\ task'[w] = e
      /\ \A x \in Workers \ {w} : task'[x] = task[x]
  BY DEF QueuesOK
<1>2. Posting(task') \union ({task[w]} \ {NoEvent}) \subseteq Posting(task) \union ({e} \ {NoEvent})
  BY <1>1 DEF Posting
<1>3. Posting(task) \union ({e} \ {NoEvent}) \subseteq Posting(task') \union ({task[w]} \ {NoEvent})
  BY <1>1 DEF Posting
<1> QED
  BY <1>1, <1>2, <1>3

(* A handler that was free waits for the row of some facts.                *)
LEMMA TellOK ==
    ASSUME EventsInv, BulkOK', NEW r \in Requests, unread[r] = <<>>, pending[r] = <<>>,
           NEW brought \in Seq(Events), Tell(r, brought),
           \A e \in Elements(brought) : IsFact(e, Ids', audit'), UNCHANGED delivery
    PROVE  StepOK
<1>1. unread' = [unread EXCEPT ![r] = brought]
      /\ made' = made \union Elements(brought)
  BY DEF Tell
<1>2. QueuesOK /\ unread \in [Requests -> Seq(Events)]
  BY DEF EventsInv, QueuesOK
<1>3. Exchanged(unread, unread', r, brought)
  BY <1>1, <1>2, WaitingChanged
<1>4. Waiting(unread') = Waiting(unread) \union Elements(brought)
  BY <1>3, ElementsOfEmpty DEF Exchanged
<1>5. UNCHANGED <<pending, queue, task, received, reported, answered>>
  BY DEF delivery
<1>6. InMemory' = InMemory \union Elements(brought)
  BY <1>4, <1>5, InMemoryIs
<1>7. QueuesOK'
  BY <1>2, <1>3, <1>5 DEF QueuesOK, Exchanged
<1>8. Known \subseteq Known' /\ Elements(brought) \subseteq Known'
  BY <1>5, <1>6 DEF Known
<1> QED
  BY <1>1, <1>5, <1>6, <1>7, <1>8 DEF StepOK

(* A step that leaves the events alone. *)
LEMMA QuietOK ==
    ASSUME EventsInv, BulkOK', UNCHANGED <<unread, delivery, made>>
    PROVE  StepOK
<1>1. UNCHANGED <<unread, pending, queue, task, received, reported, answered, made>>
  BY DEF delivery
<1>2. QueuesOK'
  BY <1>1 DEF EventsInv, QueuesOK
<1>3. InMemory' = InMemory
  BY <1>1, InMemoryIs
<1>4. Known' = Known
  BY <1>1, <1>3 DEF Known
<1> QED
  BY <1>1, <1>2, <1>3, <1>4 DEF StepOK

LEMMA HandleOK ==
    ASSUME EventsInv, NEW r \in Requests, Handle(r)
    PROVE  StepOK
<1>1. PICK brought \in Seq(Events) :
         Tell(r, brought) /\ \A e \in Elements(brought) : IsFact(e, Ids', audit')
  BY HandlerTellsFacts
<1>2. /\ unread[r] = <<>> /\ pending[r] = <<>> /\ UNCHANGED delivery
      /\ bulk' = [bulk EXCEPT ![r] = NoBulk]
  BY DEF Handle, Free
<1>3. IsBulk(NoBulk)
  BY DEF IsBulk, NoBulk
<1>4. BulkOK'
  BY <1>2, <1>3, BulkChanged DEF EventsInv
<1> QED
  BY <1>1, <1>2, <1>4, TellOK

LEMMA StartBulkOK ==
    ASSUME EventsInv, NEW r \in Requests, StartBulk(r)
    PROVE  StepOK
<1>1. PICK ids \in BulkIds, t \in Statuses : bulk' = [bulk EXCEPT ![r] = [ids |-> ids, status |-> t]]
  BY DEF StartBulk
<1>2. IsBulk([ids |-> ids, status |-> t])
  BY DEF IsBulk
<1>3. BulkOK'
  BY <1>1, <1>2, BulkChanged DEF EventsInv
<1> QED
  BY <1>3, QuietOK DEF StartBulk

LEMMA NextOfBulkOK ==
    ASSUME EventsInv, NEW r \in Requests, NextOfBulk(r)
    PROVE  StepOK
<1> DEFINE i == Head(bulk[r].ids)
           t == bulk[r].status
           rest == SelectSeq(Tail(bulk[r].ids), LAMBDA j : j # Head(bulk[r].ids))
<1>1. /\ bulk[r].ids # <<>> /\ unread[r] = <<>> /\ pending[r] = <<>>
      /\ \/ i \in Ids /\ TransitionIncidentStatus(i, t) /\ Tell(r, StatusChanged(i, t))
         \/ UNCHANGED <<unread, made>>
      /\ bulk' = [bulk EXCEPT ![r].ids = rest]
      /\ UNCHANGED delivery
  BY DEF NextOfBulk
<1>2. t \in Statuses /\ bulk[r] = [ids |-> bulk[r].ids, status |-> t]
  <2>1. PICK ids, s : bulk[r] = [ids |-> ids, status |-> s] /\ (ids # <<>> => s \in Statuses)
    BY DEF EventsInv, BulkOK, IsBulk
  <2> QED
    BY <1>1, <2>1
<1> HIDE DEF i, rest, t
<1>3. bulk' = [bulk EXCEPT ![r] = [ids |-> rest, status |-> t]]
  <2>1. [bulk[r] EXCEPT !.ids = rest] = [ids |-> rest, status |-> t]
    BY <1>2
  <2> QED
    BY <1>1, <2>1
<1>4. BulkOK'
  <2>1. IsBulk([ids |-> rest, status |-> t])
    BY <1>2 DEF IsBulk
  <2> QED
    BY <1>3, <2>1, BulkChanged DEF EventsInv
<1>5. CASE i \in Ids /\ TransitionIncidentStatus(i, t) /\ Tell(r, StatusChanged(i, t))
  <2>1. IndInv /\ [Next]_vars
    BY EventsIndInv DEF EventsNext, Serve
  <2>2. /\ StatusChanged(i, t) \in Seq(Events)
        /\ \A e \in Elements(StatusChanged(i, t)) : IsFact(e, Ids', audit')
    BY <1>2, <1>5, <2>1, TransitionFacts
  <2> QED
    BY <1>1, <1>4, <1>5, <2>2, TellOK
<1>6. CASE UNCHANGED <<unread, made>>
  BY <1>1, <1>4, <1>6, QuietOK
<1> QED
  BY <1>1, <1>5, <1>6

(* The row that comes back brings an event of the same change. *)
LEMMA ReadBackOK ==
    ASSUME EventsInv, NEW r \in Requests, ReadBack(r)
    PROVE  StepOK
<1> DEFINE U == unread[r]
           P == [k \in 1..Len(U) |-> AsRead(U[k])]
<1>1. QueuesOK /\ U \in Seq(Events) /\ pending[r] = <<>> /\ Len(U) \in Nat
  BY DEF ReadBack, EventsInv, QueuesOK
<1>2. /\ pending' = [pending EXCEPT ![r] = P] /\ unread' = [unread EXCEPT ![r] = <<>>]
      /\ UNCHANGED <<vars, bulk, queue, task, received, reported, answered, made>>
  BY DEF ReadBack
<1>3. Ids' = Ids /\ audit' = audit
  BY <1>2 DEF vars, store, Ids
<1>4. Elements(U) \subseteq InMemory
  BY InMemoryIs DEF Waiting
<1>5. \A k \in 1..Len(U) : /\ IsFact(P[k], Ids, audit) /\ P[k] \in Events
                           /\ Key(P[k]) = Key(U[k])
  <2> TAKE k \in 1..Len(U)
  <2>1. IsFact(U[k], Ids, audit)
    BY <1>4 DEF Elements, EventsInv, AllFacts
  <2>2. IsFact(AsRead(U[k]), Ids, audit) /\ Key(AsRead(U[k])) = Key(U[k])
    BY <2>1, AsReadIsFact DEF EventsInv
  <2> QED
    BY <2>2 DEF IsFact
<1>6. P \in Seq(Events) /\ Len(P) = Len(U)
  <2>1. P \in [1..Len(U) -> Events]
    BY <1>5
  <2> QED
    BY <1>1, <2>1, FunctionIsSeq
<1> HIDE DEF P, U
<1>7. /\ \A e \in Elements(P) : IsFact(e, Ids, audit)
      /\ \A e \in Elements(U) : \E x \in Elements(P) : Key(x) = Key(e)
  BY <1>5, <1>6 DEF Elements
<1>8. Exchanged(unread, unread', r, <<>>) /\ Waiting(unread') \union Elements(U) = Waiting(unread)
  <2>1. unread \in [Requests -> Seq(Events)] /\ <<>> \in Seq(Events)
    BY <1>1 DEF QueuesOK
  <2>2. Exchanged(unread, unread', r, <<>>)
    BY <1>2, <2>1, WaitingChanged
  <2> QED
    BY <2>2, ElementsOfEmpty DEF Exchanged, U
<1>9. Exchanged(pending, pending', r, P) /\ Waiting(pending') = Waiting(pending) \union Elements(P)
  <2>1. pending \in [Requests -> Seq(Events)]
    BY <1>1 DEF QueuesOK
  <2>2. Exchanged(pending, pending', r, P)
    BY <1>2, <1>6, <2>1, WaitingChanged
  <2> QED
    BY <1>1, <2>2, ElementsOfEmpty DEF Exchanged
<1>10. QueuesOK' /\ BulkOK'
  BY <1>1, <1>2, <1>8, <1>9 DEF QueuesOK, EventsInv, BulkOK, IsBulk, Exchanged
<1>11. /\ InMemory' \subseteq InMemory \union Elements(P)
       /\ InMemory \subseteq InMemory' \union Elements(U) /\ Elements(P) \subseteq InMemory'
  BY <1>2, <1>8, <1>9, InMemoryIs
<1>12. \A e \in Known : \E x \in Known' : Key(x) = Key(e)
  <2> TAKE e \in Known
  <2>1. CASE e \in Elements(U)
    BY <1>7, <1>11, <2>1 DEF Known
  <2>2. CASE e \notin Elements(U)
    BY <1>2, <1>11, <2>2 DEF Known
  <2> QED
    BY <2>1, <2>2
<1>13. \A e \in InMemory' \union received' :
          e \in InMemory \union received \/ IsFact(e, Ids', audit')
  BY <1>2, <1>3, <1>7, <1>11
<1> QED
  BY <1>2, <1>10, <1>12, <1>13 DEF StepOK

(* The events of a row that does not come back are in the log or the answer. *)
LEMMA ReadBackFailsOK ==
    ASSUME EventsInv, NEW r \in Requests, ReadBackFails(r)
    PROVE  StepOK
<1>1. QueuesOK /\ unread \in [Requests -> Seq(Events)] /\ <<>> \in Seq(Events)
  BY DEF EventsInv, QueuesOK
<1>2. /\ unread' = [unread EXCEPT ![r] = <<>>]
      /\ UNCHANGED <<bulk, pending, queue, task, received, made>>
      /\ reported \subseteq reported' /\ answered \subseteq answered'
      /\ Elements(unread[r]) \subseteq reported' \union answered'
  BY DEF ReadBackFails
<1>3. Exchanged(unread, unread', r, <<>>)
  BY <1>1, <1>2, WaitingChanged
<1>4. QueuesOK' /\ BulkOK'
  BY <1>1, <1>2, <1>3 DEF QueuesOK, EventsInv, BulkOK, IsBulk, Exchanged
<1>5. InMemory' \subseteq InMemory /\ InMemory \subseteq InMemory' \union Elements(unread[r])
  BY <1>2, <1>3, ElementsOfEmpty, InMemoryIs DEF Exchanged
<1>6. Known \subseteq Known'
  BY <1>2, <1>5 DEF Known
<1> QED
  BY <1>2, <1>4, <1>5, <1>6 DEF StepOK

(* The first event a request has waiting goes on the queue or is logged.   *)
LEMMA NotifyOK ==
    ASSUME EventsInv, NEW r \in Requests, Notify(r)
    PROVE  StepOK
<1> DEFINE e == Head(pending[r])
<1>1. /\ pending[r] \in Seq(Events) /\ pending[r] # <<>> /\ queue \in Seq(Events) /\ QueuesOK
      /\ pending \in [Requests -> Seq(Events)] /\ unread[r] = <<>>
  BY DEF Notify, EventsInv, QueuesOK
<1>2. /\ Elements(pending[r]) = {e} \union Elements(Tail(pending[r]))
      /\ e \in Events /\ Tail(pending[r]) \in Seq(Events)
  BY <1>1, ElementsOfHead
<1>3. /\ pending' = [pending EXCEPT ![r] = Tail(pending[r])]
      /\ UNCHANGED <<bulk, unread, task, received, answered, made>>
      /\ \/ queue' = Append(queue, e) /\ reported' = reported
         \/ reported' = reported \union {e} /\ queue' = queue
  BY DEF Notify
<1> HIDE DEF e
<1>4. Exchanged(pending, pending', r, Tail(pending[r]))
  BY <1>1, <1>2, <1>3, WaitingChanged
<1>5. Elements(pending[r]) \subseteq Waiting(pending)
  BY DEF Waiting
<1>6. /\ Waiting(pending') \subseteq Waiting(pending)
      /\ Waiting(pending) \subseteq Waiting(pending') \union {e} /\ e \in Waiting(pending)
  <2>1. Elements(Tail(pending[r])) \subseteq Waiting(pending')
    BY <1>4 DEF Waiting, Exchanged
  <2> QED
    BY <1>2, <1>4, <1>5, <2>1 DEF Exchanged
<1>7. /\ Elements(Append(queue, e)) = Elements(queue) \union {e}
      /\ Append(queue, e) \in Seq(Events)
  BY <1>1, <1>2, ElementsOfAppend
<1>8. QueuesOK' /\ BulkOK'
  BY <1>1, <1>3, <1>4, <1>7 DEF QueuesOK, EventsInv, BulkOK, IsBulk, Exchanged
<1>9. InMemory' \subseteq InMemory /\ Known \subseteq Known'
  <2>1. CASE queue' = Append(queue, e) /\ reported' = reported
    <3>1. InMemory' = InMemory
      BY <1>3, <1>6, <1>7, <2>1, InMemoryIs
    <3> QED
      BY <1>3, <2>1, <3>1 DEF Known
  <2>2. CASE reported' = reported \union {e} /\ queue' = queue
    <3>1. InMemory' \subseteq InMemory /\ InMemory \subseteq InMemory' \union {e}
      BY <1>3, <1>6, <2>2, InMemoryIs
    <3> QED
      BY <1>3, <2>2, <3>1 DEF Known
  <2> QED
    BY <1>3, <2>1, <2>2
<1> QED
  BY <1>3, <1>8, <1>9 DEF StepOK

(* A worker takes the first event of the queue. *)
LEMMA TakeOK ==
    ASSUME EventsInv, NEW w \in Workers, Take(w)
    PROVE  StepOK
<1> DEFINE e == Head(queue)
<1>1. queue \in Seq(Events) /\ queue # <<>> /\ task[w] = NoEvent /\ QueuesOK
  BY DEF Take, EventsInv, QueuesOK
<1>2. /\ Elements(queue) = {e} \union Elements(Tail(queue))
      /\ e \in Events /\ Tail(queue) \in Seq(Events)
  BY <1>1, ElementsOfHead
<1>3. /\ task' = [task EXCEPT ![w] = e] /\ queue' = Tail(queue)
      /\ UNCHANGED <<bulk, unread, pending, received, reported, answered, made>>
  BY DEF Take
<1> HIDE DEF e
<1>4. /\ task' \in [Workers -> Events \union {NoEvent}]
      /\ Posting(task') = Posting(task) \union {e}
  <2>1. /\ task' \in [Workers -> Events \union {NoEvent}]
        /\ Posting(task') \union ({task[w]} \ {NoEvent}) = Posting(task) \union ({e} \ {NoEvent})
    BY <1>1, <1>2, <1>3, PostingChanged
  <2> QED
    BY <1>1, <1>2, <2>1, NoEventAssumption
<1>5. QueuesOK' /\ BulkOK'
  BY <1>1, <1>2, <1>3, <1>4 DEF QueuesOK, EventsInv, BulkOK, IsBulk
<1>6. InMemory' = InMemory
  BY <1>2, <1>3, <1>4, InMemoryIs
<1>7. Known' = Known
  BY <1>3, <1>6 DEF Known
<1> QED
  BY <1>3, <1>5, <1>6, <1>7 DEF StepOK

(* The event a worker has posted is processed, logged, or posted again.    *)
LEMMA PostOK ==
    ASSUME EventsInv, NEW w \in Workers, Post(w)
    PROVE  StepOK
<1> DEFINE e == task[w]
<1>1. e \in Events /\ QueuesOK /\ received \subseteq Events
  BY DEF Post, EventsInv, QueuesOK
<1>2. e \in Posting(task) /\ e # NoEvent
  BY DEF Posting, Post
<1>3. /\ UNCHANGED <<bulk, unread, pending, queue, answered, made>>
      /\ received' \in {received, received \union {e}}
      /\ reported \subseteq reported' /\ received \subseteq received'
      /\ \/ task' = task
         \/ task' = [task EXCEPT ![w] = NoEvent] /\ e \in received' \union reported'
  BY DEF Post, Accepted, Refused, Failed, Drop, Processed, Logged
<1> HIDE DEF e
<1>4. /\ task' \in [Workers -> Events \union {NoEvent}]
      /\ Posting(task') \subseteq Posting(task)
      /\ Posting(task) \subseteq Posting(task') \union received' \union reported'
  <2>1. CASE task' = task
    BY <1>1, <2>1 DEF QueuesOK
  <2>2. CASE task' = [task EXCEPT ![w] = NoEvent] /\ e \in received' \union reported'
    <3>1. /\ task' \in [Workers -> Events \union {NoEvent}]
          /\ Posting(task') \union ({task[w]} \ {NoEvent})
               = Posting(task) \union ({NoEvent} \ {NoEvent})
      BY <1>1, <2>2, PostingChanged
    <3> QED
      BY <2>2, <3>1 DEF e
  <2> QED
    BY <1>3, <2>1, <2>2
<1>5. QueuesOK' /\ BulkOK'
  BY <1>1, <1>3, <1>4 DEF QueuesOK, EventsInv, BulkOK, IsBulk
<1>6. /\ InMemory' \subseteq InMemory /\ e \in InMemory
      /\ InMemory \subseteq InMemory' \union received' \union reported'
  BY <1>2, <1>3, <1>4, InMemoryIs
<1>7. received' \subseteq received \union {e}
  BY <1>3
<1>8. Known \subseteq Known'
  BY <1>3, <1>6 DEF Known
<1> QED
  BY <1>3, <1>5, <1>6, <1>7, <1>8 DEF StepOK

(* What was in memory is counted as reported. *)
LEMMA RestartOK ==
    ASSUME EventsInv, Restart
    PROVE  StepOK
<1>1. /\ bulk' = [r \in Requests |-> NoBulk]
      /\ unread' = [r \in Requests |-> <<>>] /\ pending' = [r \in Requests |-> <<>>]
      /\ queue' = <<>> /\ task' = [w \in Workers |-> NoEvent]
      /\ reported' = reported \union InMemory
      /\ UNCHANGED <<received, answered, made>>
  BY DEF Restart
<1>2. InMemory' = {}
  BY <1>1, InMemoryIs, ElementsOfEmpty DEF Waiting, Posting
<1>3. QueuesOK'
  BY <1>1 DEF EventsInv, QueuesOK
<1>4. BulkOK'
  <2>1. \A r \in Requests : bulk'[r] = [ids |-> <<>>, status |-> NoStatus]
    BY <1>1 DEF NoBulk
  <2>2. bulk' = [r \in Requests |-> bulk'[r]]
    BY <1>1
  <2> QED
    BY <2>1, <2>2 DEF BulkOK, IsBulk
<1>5. Known \subseteq Known'
  BY <1>1 DEF Known
<1> QED
  BY <1>1, <1>2, <1>3, <1>4, <1>5 DEF StepOK

LEMMA EventsNextInv == EventsInv /\ [EventsNext]_eventVars => EventsInv'
<1> SUFFICES ASSUME EventsInv, [EventsNext]_eventVars PROVE StepOK
  BY Accounted
<1>1. ASSUME NEW r \in Requests, Serve(r) PROVE StepOK
  BY <1>1, HandleOK, StartBulkOK, NextOfBulkOK, ReadBackOK, ReadBackFailsOK, NotifyOK DEF Serve
<1>2. ASSUME NEW w \in Workers, Take(w) \/ Post(w) PROVE StepOK
  BY <1>2, TakeOK, PostOK
<1>3. ASSUME UNCHANGED bulk PROVE BulkOK'
  BY <1>3 DEF EventsInv, BulkOK, IsBulk
<1>4. CASE Others
  BY <1>3, <1>4, QuietOK DEF Others
<1>5. CASE Restart
  BY <1>5, RestartOK
<1>6. CASE UNCHANGED eventVars
  BY <1>3, <1>6, QuietOK DEF eventVars, delivery
<1> QED
  BY <1>1, <1>2, <1>4, <1>5, <1>6 DEF EventsNext

-----------------------------------------------------------------------------
(* The theorems *)

(* Every reachable state satisfies the strengthened invariant. *)
THEOREM EventsInvariance == EventsSpec => []EventsInv
BY EventsInitInv, EventsNextInv, PTL DEF EventsSpec

(* What the API says to the ITSM system is not out of date: an event       *)
(* carries the status that its own change or a later one has led to,       *)
(* whatever was written before the row was read again.                     *)
THEOREM EventsDoNotLagHolds == EventsSpec => []EventsDoNotLag
<1>1. EventsInv => EventsDoNotLag
  BY DEF EventsInv, AllFacts, IsFact, UpToDate, EventsDoNotLag
<1> QED
  BY <1>1, EventsInvariance, PTL

(* No change a request has made is passed over in silence: its event is on *)
(* its way, has been processed, or its loss is in the log, due to a        *)
(* restart, or in the answer of a bulk request.                            *)
THEOREM NoSilentLossHolds == EventsSpec => []NoSilentLoss
<1>1. EventsInv => NoSilentLoss
  BY DEF EventsInv, NoneVanishes, Known, NoSilentLoss, Keys
<1> QED
  BY <1>1, EventsInvariance, PTL
=============================================================================

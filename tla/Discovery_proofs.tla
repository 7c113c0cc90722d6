--------------------------- MODULE Discovery_proofs ---------------------------
(***************************************************************************)
(* What the table of devices and a scan of a subnet keep up for any number *)
(* of servers, handlers, workers and addresses, and however many edits and *)
(* rotations overlap.                                                      *)
(***************************************************************************)
EXTENDS Discovery, FiniteSetTheorems, WellFoundedInduction, TLAPS

-----------------------------------------------------------------------------
(* A set of numbers that is not empty has a least one. *)
LEMMA MinIsLeast ==
    ASSUME NEW S \in SUBSET Nat, S # {}
    PROVE  Min(S) \in S /\ \A x \in S : Min(S) <= x
<1> DEFINE Below == {0..n : n \in S}
<1>1. Below \subseteq FiniteSubsetsOf(Nat) /\ Below # {}
  <2>1. ASSUME NEW n \in S PROVE 0..n \in FiniteSubsetsOf(Nat)
    <3>1. n \in Int /\ 0 \in Int /\ 0..n \in SUBSET Nat
      OBVIOUS
    <3>2. IsFiniteSet(0..n)
      BY <3>1, FS_Interval
    <3> QED
      BY <3>1, <3>2 DEF FiniteSubsetsOf
  <2> QED
    BY <2>1
<1>2. PICK T \in Below : \A U \in Below : <<U, T>> \notin StrictSubsetOrdering(Nat)
  BY <1>1, WFMin, FS_StrictSubsetOrderingWellFounded
<1>3. PICK m \in S : T = 0..m
  OBVIOUS
<1>4. ASSUME NEW x \in S PROVE m <= x
  <2> SUFFICES ASSUME x < m PROVE FALSE
    OBVIOUS
  <2>1. x \in Nat /\ m \in Nat
    OBVIOUS
  <2>2. 0..x \subseteq 0..m /\ 0..x # 0..m
    BY <2>1
  <2>3. 0..x \in Below /\ 0..x \in SUBSET Nat /\ 0..m \in SUBSET Nat
    OBVIOUS
  <2> QED
    BY <1>2, <1>3, <2>2, <2>3 DEF StrictSubsetOrdering
<1> QED
  BY <1>4 DEF Min

-----------------------------------------------------------------------------
(* The types of the table *)

Secret == Values \union {Blank, Initial}

(* What is not set is stored as it is. *)
Cell == {c \in [val : Secret, under : {"plain", "old", "new"}] :
            c.val = Blank => c.under = "plain"}
DeviceRow == [id : Nat \ {0}, sec : [Fields -> Cell]]

Edit == [at : {"edit"}, server : Servers, ip : IPs, id : Nat \ {0},
         base : [Fields -> Secret], form : Forms]

TableType ==
    /\ rows \in [IPs -> {Absent} \union DeviceRow]
    /\ key \in [Servers -> {"old", "new"}]
    /\ req \in [Handlers -> {Idle} \union Edit]
    /\ entered \in [IPs -> [Fields -> Secret]]

(* The rotation holds a copy of the rows it has read and not found gone,   *)
(* and of those it has written it holds the lock.                          *)
JobType ==
    /\ job = [at |-> job.at, runs |-> job.runs, seen |-> job.seen, todo |-> job.todo,
              done |-> job.done]
    /\ job.at \in {"idle", "update"} /\ job.done \in BOOLEAN
    /\ job.seen = [i \in DOMAIN job.seen |-> job.seen[i]]
    /\ DOMAIN job.seen \subseteq IPs
    /\ \A i \in DOMAIN job.seen : job.seen[i] \in DeviceRow
    /\ job.at = "idle" => DOMAIN job.seen = {}
    /\ \A i \in DOMAIN job.seen : i \notin job.todo => rows[i].id = job.seen[i].id

LEMMA PresentRows ==
    ASSUME TableType, NEW i \in IPs
    PROVE  /\ Present(i) <=> rows[i] \in DeviceRow
           /\ Present(i) <=> rows[i].id # 0
           /\ ~Present(i) => rows[i] = Absent /\ rows[i].id = 0
<1>1. rows[i] \in {Absent} \union DeviceRow
  BY DEF TableType
<1>2. Absent.id = 0
  BY DEF Absent
<1>3. \A r \in DeviceRow : r.id \in Nat \ {0}
  BY DEF DeviceRow
<1> QED
  BY <1>1, <1>2, <1>3 DEF Present

LEMMA EditRequests ==
    ASSUME TableType, NEW h \in Handlers
    PROVE  /\ req[h] # Idle <=> req[h] \in Edit
           /\ req[h].at = "edit" <=> req[h] \in Edit
<1>1. req[h] \in {Idle} \union Edit
  BY DEF TableType
<1>2. Idle.at = "idle"
  BY DEF Idle
<1>3. \A r \in Edit : r.at = "edit"
  BY DEF Edit
<1> QED
  BY <1>1, <1>2, <1>3

(* A row that is written. *)
LEMMA RowWritten ==
    ASSUME NEW id \in Nat \ {0}, NEW values \in [Fields -> Secret], NEW k \in {"none", "old", "new"}
    PROVE  LET r == Row(id, values, k)
           IN  /\ r \in DeviceRow /\ r.id = id
               /\ \A f \in Fields : /\ r.sec[f].val = values[f]
                                    /\ r.sec[f].under \in {"plain", k}
                                    /\ k = "new" /\ values[f] # Blank => r.sec[f].under = "new"
<1> DEFINE r == Row(id, values, k)
<1>1. r = [id |-> id, sec |-> [f \in Fields |-> Split(values[f], k)]]
  BY DEF Row
<1>2. ASSUME NEW f \in Fields
      PROVE  /\ Split(values[f], k) \in Cell
             /\ Split(values[f], k).val = values[f]
             /\ Split(values[f], k).under \in {"plain", k}
             /\ k = "new" /\ values[f] # Blank => Split(values[f], k).under = "new"
  <2>1. values[f] \in Secret
    OBVIOUS
  <2> QED
    BY <2>1 DEF Split, Cell
<1> HIDE DEF r
<1>3. r.id = id /\ \A f \in Fields : r.sec[f] = Split(values[f], k)
  BY <1>1
<1>4. r \in DeviceRow
  BY <1>1, <1>2 DEF DeviceRow
<1> QED
  BY <1>2, <1>3, <1>4 DEF r

(* The id of a new device is none that anybody holds for its address. *)
LEMMA NewIdIsNew ==
    ASSUME TableType, NEW i \in IPs
    PROVE  NewId(i) \in Nat \ {0} /\ NewId(i) \notin HeldIds(i)
<1> DEFINE G == {g \in Handlers : req[g] # Idle}
           A == {req[h].id : h \in G}
           B == IF i \in DOMAIN job.seen THEN {job.seen[i].id} ELSE {}
           n == Cardinality(Handlers)
           S == (1..(n + 2)) \ HeldIds(i)
<1>1. IsFiniteSet(Handlers) /\ n \in Nat
  BY TableAssumption, FS_CardinalityType
<1>2. IsFiniteSet(G) /\ Cardinality(G) \in Nat /\ Cardinality(G) <= n
  BY <1>1, FS_Subset, FS_CardinalityType
<1>3. IsFiniteSet(A) /\ Cardinality(A) <= Cardinality(G) /\ Cardinality(A) \in Nat
  <2> DEFINE f == [h \in G |-> req[h].id]
  <2>1. f \in Surjection(G, A)
    BY DEF Surjection
  <2> QED
    BY <1>2, <2>1, FS_Surjection, FS_CardinalityType
<1>4. IsFiniteSet(A \union B) /\ Cardinality(A \union B) <= Cardinality(A) + 1
  <2> HIDE DEF A
  <2>1. CASE i \in DOMAIN job.seen
    BY <1>3, <2>1, FS_AddElement, SMTT(30)
  <2>2. CASE i \notin DOMAIN job.seen
    BY <1>3, <2>2
  <2> QED
    BY <2>1, <2>2
<1>5. HeldIds(i) = A \union B
  BY DEF HeldIds
<1> HIDE DEF A, B, G, n
<1>6. IsFiniteSet(1..(n + 2)) /\ Cardinality(1..(n + 2)) = n + 2
  BY <1>1, FS_Interval
<1>7. S # {}
  <2> SUFFICES ASSUME S = {} PROVE FALSE
    OBVIOUS
  <2>1. 1..(n + 2) \subseteq A \union B
    BY <1>5
  <2>2. Cardinality(1..(n + 2)) <= Cardinality(A \union B)
    BY <1>4, <2>1, FS_Subset
  <2>3. Cardinality(A \union B) \in Nat
    BY <1>4, FS_CardinalityType
  <2> QED
    BY <1>1, <1>2, <1>3, <1>4, <1>6, <2>2, <2>3
<1>8. S \in SUBSET Nat
  BY <1>1
<1>9. Min(S) \in S
  BY <1>7, <1>8, MinIsLeast
<1>10. NewId(i) = Min(S)
  BY DEF NewId, n
<1> QED
  BY <1>1, <1>9, <1>10

-----------------------------------------------------------------------------
(* The steps of the table, whoever takes them *)

Inserted ==
    \E i \in IPs, s \in Servers, values \in [Fields -> Secret] :
        ~Present(i) /\ Insert(i, values, key[s]) /\ UNCHANGED <<key, req, job>>

TableStep ==
    \/ Inserted \/ DeleteDevice
    \/ \E h \in Handlers : BeginEdit(h) \/ WriteEdit(h)
    \/ Rotate \/ CommitRotation \/ AbortRotation
    \/ \E i \in IPs : RotateRow(i)
    \/ \E s \in Servers : Redeploy(s)
    \/ UNCHANGED <<table, key, req, job>>

(* What each of them does to the rows, in the terms of the types. *)
LEMMA InsertedRow ==
    ASSUME TableType, NEW i \in IPs, NEW s \in Servers, NEW values \in [Fields -> Secret],
           Insert(i, values, key[s])
    PROVE  \E r \in DeviceRow :
              /\ rows' = [rows EXCEPT ![i] = r] /\ r.id \notin HeldIds(i)
              /\ r = Row(r.id, values, key[s])
              /\ \A f \in Fields : /\ r.sec[f].val = values[f]
                                   /\ r.sec[f].under \in {"plain", key[s]}
                                   /\ key[s] = "new" /\ values[f] # Blank => r.sec[f].under = "new"
<1>1. NewId(i) \in Nat \ {0} /\ NewId(i) \notin HeldIds(i)
  BY NewIdIsNew
<1>2. key[s] \in {"old", "new"}
  BY DEF TableType
<1> DEFINE r == Row(NewId(i), values, key[s])
<1>3. rows' = [rows EXCEPT ![i] = r]
  BY DEF Insert
<1>4. /\ r \in DeviceRow /\ r.id = NewId(i)
      /\ \A f \in Fields : /\ r.sec[f].val = values[f]
                           /\ r.sec[f].under \in {"plain", key[s]}
                           /\ key[s] = "new" /\ values[f] # Blank => r.sec[f].under = "new"
  BY <1>1, <1>2, RowWritten
<1>5. r = Row(r.id, values, key[s])
  BY <1>4
<1> HIDE DEF r
<1> QED
  BY <1>1, <1>3, <1>4, <1>5

(* An edit that finds the device it has read. *)
LEMMA WrittenRow ==
    ASSUME TableType, NEW h \in Handlers, WriteEdit(h)
    PROVE  /\ req[h] \in Edit /\ req' = [req EXCEPT ![h] = Idle] /\ UNCHANGED <<key, job>>
           /\ \/ UNCHANGED table
              \/ LET i == req[h].ip
                     k == key[req[h].server]
                     form == req[h].form
                     named == {f \in Fields : form[f] # Blank}
                 IN  /\ rows[i].id = req[h].id /\ ~Locked(i)
                     /\ \E r \in DeviceRow :
                           /\ Overwrite(h, i, r, named) /\ Stray(i, k) /\ r.id = req[h].id
                           /\ \A f \in Fields :
                                 /\ r.sec[f].val = IF f \in named THEN form[f] ELSE req[h].base[f]
                                 /\ r.sec[f].under \in {"plain", k}
                                 /\ k = "new" /\ r.sec[f].val # Blank => r.sec[f].under = "new"
<1>1. req[h] \in Edit
  BY EditRequests DEF WriteEdit
<1>2. req' = [req EXCEPT ![h] = Idle] /\ UNCHANGED <<key, job>>
  BY DEF WriteEdit
<1> DEFINE i == req[h].ip
           k == key[req[h].server]
           form == req[h].form
           base == req[h].base
           named == {f \in Fields : form[f] # Blank}
           r == Row(req[h].id, Merged(req[h]), k)
<1>3. CASE rows[i].id # req[h].id
  BY <1>1, <1>2, <1>3 DEF WriteEdit
<1>4. CASE rows[i].id = req[h].id
  <2>1. ~Locked(i) /\ Overwrite(h, i, r, named) /\ Stray(i, k)
    BY <1>4 DEF WriteEdit
  <2>2. /\ k \in {"old", "new"} /\ req[h].id \in Nat \ {0}
        /\ base \in [Fields -> Secret] /\ form \in [Fields -> Values \union {Blank}]
    BY <1>1 DEF Edit, TableType, Forms
  <2>3. /\ Merged(req[h]) \in [Fields -> Secret]
        /\ \A f \in Fields : Merged(req[h])[f] = IF f \in named THEN form[f] ELSE base[f]
    <3>1. Merged(req[h]) = [f \in Fields |-> IF form[f] = Blank THEN base[f] ELSE form[f]]
      BY DEF Merged
    <3> QED
      BY <2>2, <3>1 DEF Secret
  <2>4. /\ r \in DeviceRow /\ r.id = req[h].id
        /\ \A f \in Fields : /\ r.sec[f].val = Merged(req[h])[f]
                             /\ r.sec[f].under \in {"plain", k}
                             /\ k = "new" /\ Merged(req[h])[f] # Blank => r.sec[f].under = "new"
    <3> DEFINE id == req[h].id
               merged == Merged(req[h])
    <3>1. id \in Nat \ {0} /\ merged \in [Fields -> Secret] /\ k \in {"none", "old", "new"}
      BY <2>2, <2>3
    <3> HIDE DEF id, merged, k
    <3>2. /\ Row(id, merged, k) \in DeviceRow /\ Row(id, merged, k).id = id
          /\ \A f \in Fields : /\ Row(id, merged, k).sec[f].val = merged[f]
                               /\ Row(id, merged, k).sec[f].under \in {"plain", k}
                               /\ k = "new" /\ merged[f] # Blank
                                      => Row(id, merged, k).sec[f].under = "new"
      BY <3>1, RowWritten
    <3> QED
      BY <3>2 DEF id, merged
  <2> HIDE DEF r
  <2>5. \A f \in Fields :
            /\ r.sec[f].val = IF f \in named THEN form[f] ELSE base[f]
            /\ r.sec[f].under \in {"plain", k}
            /\ k = "new" /\ r.sec[f].val # Blank => r.sec[f].under = "new"
    <3> HIDE DEF named, form, base, k
    <3> QED
      BY <2>3, <2>4
  <2>6. /\ r \in DeviceRow /\ r.id = req[h].id
        /\ rows[i].id = req[h].id /\ ~Locked(i) /\ Overwrite(h, i, r, named) /\ Stray(i, k)
    BY <1>4, <2>1, <2>4
  <2> QED
    BY <1>1, <1>2, <2>5, <2>6, Zenon
<1> QED
  BY <1>3, <1>4

(* A row of the rotation. *)
LEMMA RotatedRow ==
    ASSUME NEW r \in DeviceRow
    PROVE  /\ Rotated(r) \in DeviceRow /\ Rotated(r).id = r.id
           /\ \A f \in Fields : /\ Rotated(r).sec[f].val = r.sec[f].val
                                /\ r.sec[f].val # Blank => Rotated(r).sec[f].under = "new"
<1> DEFINE sec == [f \in Fields |-> Reencrypted(r.sec[f])]
<1>1. ASSUME NEW f \in Fields
      PROVE  /\ Reencrypted(r.sec[f]) \in Cell
             /\ Reencrypted(r.sec[f]).val = r.sec[f].val
             /\ r.sec[f].val # Blank => Reencrypted(r.sec[f]).under = "new"
  <2>1. r.sec[f] \in Cell
    BY DEF DeviceRow
  <2> QED
    BY <2>1 DEF Reencrypted, Split, Cell
<1>2. sec \in [Fields -> Cell]
  BY <1>1
<1>3. Rotated(r) = [r EXCEPT !.sec = sec]
  BY DEF Rotated
<1>4. \A f \in Fields : sec[f] = Reencrypted(r.sec[f])
  OBVIOUS
<1> HIDE DEF sec
<1>5. Rotated(r) \in DeviceRow /\ Rotated(r).id = r.id /\ Rotated(r).sec = sec
  BY <1>2, <1>3 DEF DeviceRow
<1> QED
  BY <1>1, <1>4, <1>5

-----------------------------------------------------------------------------
(* The types hold on *)

LEMMA TableTypeNext ==
    ASSUME TableType, JobType, TableStep
    PROVE  TableType'
<1>1. /\ rows \in [IPs -> {Absent} \union DeviceRow]
      /\ key \in [Servers -> {"old", "new"}]
      /\ req \in [Handlers -> {Idle} \union Edit]
      /\ entered \in [IPs -> [Fields -> Secret]]
  BY DEF TableType
<1>2. CASE Inserted
  <2>1. PICK i \in IPs, s \in Servers, values \in [Fields -> Secret] :
           ~Present(i) /\ Insert(i, values, key[s]) /\ UNCHANGED <<key, req, job>>
    BY <1>2 DEF Inserted
  <2>2. PICK r \in DeviceRow : rows' = [rows EXCEPT ![i] = r]
    BY <2>1, InsertedRow
  <2>3. entered' = [entered EXCEPT ![i] = values]
    BY <2>1 DEF Insert
  <2> QED
    BY <1>1, <2>1, <2>2, <2>3 DEF TableType
<1>3. CASE DeleteDevice
  <2>1. PICK i \in IPs : /\ rows' = [rows EXCEPT ![i] = Absent]
                         /\ entered' = [entered EXCEPT ![i] = [f \in Fields |-> Blank]]
    BY <1>3 DEF DeleteDevice
  <2>2. [f \in Fields |-> Blank] \in [Fields -> Secret]
    BY DEF Secret
  <2>3. key' = key /\ req' = req
    BY <1>3 DEF DeleteDevice
  <2> QED
    BY <1>1, <2>1, <2>2, <2>3 DEF TableType
<1>4. ASSUME NEW h \in Handlers, BeginEdit(h) PROVE TableType'
  <2>1. PICK s \in Servers, i \in IPs, form \in Forms :
           /\ Present(i)
           /\ req' = [req EXCEPT ![h] = [at |-> "edit", server |-> s, ip |-> i, id |-> rows[i].id,
                        base |-> [f \in Fields |-> rows[i].sec[f].val], form |-> form]]
    BY <1>4 DEF BeginEdit
  <2> DEFINE base == [f \in Fields |-> rows[i].sec[f].val]
             r == [at |-> "edit", server |-> s, ip |-> i, id |-> rows[i].id, base |-> base,
                   form |-> form]
  <2>2. rows[i] \in DeviceRow
    BY <2>1, PresentRows
  <2>3. base \in [Fields -> Secret] /\ rows[i].id \in Nat \ {0}
    BY <2>2 DEF DeviceRow, Cell
  <2>4. r \in Edit
    BY <2>3 DEF Edit
  <2>5. req' = [req EXCEPT ![h] = r]
    BY <2>1
  <2>6. UNCHANGED <<rows, key, entered>>
    BY <1>4 DEF BeginEdit, table
  <2> HIDE DEF r
  <2> QED
    BY <1>1, <2>4, <2>5, <2>6 DEF TableType
<1>5. ASSUME NEW h \in Handlers, WriteEdit(h) PROVE TableType'
  <2>1. /\ req[h] \in Edit /\ req' = [req EXCEPT ![h] = Idle] /\ UNCHANGED <<key, job>>
    BY <1>5, WrittenRow
  <2>2. CASE UNCHANGED table
    <3>1. rows' = rows /\ entered' = entered
      BY <2>2 DEF table
    <3> QED
      BY <1>1, <2>1, <3>1 DEF TableType
  <2>3. CASE ~UNCHANGED table
    <3> DEFINE i == req[h].ip
               form == req[h].form
               base == req[h].base
               named == {f \in Fields : form[f] # Blank}
    <3>1. PICK r \in DeviceRow : Overwrite(h, i, r, named)
      BY <1>5, <2>3, WrittenRow
    <3>2. /\ rows' = [rows EXCEPT ![i] = r]
          /\ entered' = [entered EXCEPT ![i] =
                [f \in Fields |-> IF f \in named THEN r.sec[f].val ELSE @[f]]]
      BY <3>1 DEF Overwrite
    <3>3. i \in IPs
      BY <2>1 DEF Edit
    <3> HIDE DEF i, named
    <3>4. [f \in Fields |-> IF f \in named THEN r.sec[f].val ELSE entered[i][f]] \in [Fields -> Secret]
      BY <1>1, <3>3 DEF DeviceRow, Cell
    <3> QED
      BY <1>1, <2>1, <3>2, <3>3, <3>4 DEF TableType
  <2> QED
    BY <2>2, <2>3
<1>6. CASE CommitRotation
  <2>1. \A i \in DOMAIN job.seen : Rotated(job.seen[i]) \in DeviceRow
    BY RotatedRow DEF JobType
  <2>2. rows' = [i \in IPs |-> IF i \in DOMAIN job.seen THEN Rotated(job.seen[i]) ELSE rows[i]]
    BY <1>6 DEF CommitRotation
  <2>3. rows' \in [IPs -> {Absent} \union DeviceRow]
    BY <1>1, <2>1, <2>2
  <2>4. UNCHANGED <<key, req, entered>>
    BY <1>6 DEF CommitRotation
  <2> QED
    BY <1>1, <2>3, <2>4 DEF TableType
<1>7. ASSUME NEW s \in Servers, Redeploy(s) PROVE TableType'
  <2>1. /\ key' = [key EXCEPT ![s] = "new"]
        /\ req' = [h \in Handlers |-> IF req[h] # Idle /\ req[h].server = s THEN Idle ELSE req[h]]
        /\ UNCHANGED <<rows, entered>>
    BY <1>7 DEF Redeploy
  <2> QED
    BY <1>1, <2>1 DEF TableType
<1>8. ASSUME \/ Rotate \/ AbortRotation \/ UNCHANGED <<table, key, req, job>>
             \/ \E i \in IPs : RotateRow(i)
      PROVE  TableType'
  <2>1. UNCHANGED <<rows, key, req, entered>>
    BY <1>8 DEF Rotate, AbortRotation, RotateRow, table
  <2> QED
    BY <1>1, <2>1 DEF TableType
<1> QED
  BY <1>2, <1>3, <1>4, <1>5, <1>6, <1>7, <1>8 DEF TableStep

LEMMA JobTypeNext ==
    ASSUME TableType, TableType', JobType, TableStep
    PROVE  JobType'
<1>1. /\ job = [at |-> job.at, runs |-> job.runs, seen |-> job.seen, todo |-> job.todo,
                done |-> job.done]
      /\ job.at \in {"idle", "update"} /\ job.done \in BOOLEAN
      /\ job.seen = [i \in DOMAIN job.seen |-> job.seen[i]]
      /\ DOMAIN job.seen \subseteq IPs
      /\ \A i \in DOMAIN job.seen : job.seen[i] \in DeviceRow
      /\ job.at = "idle" => DOMAIN job.seen = {}
      /\ \A i \in DOMAIN job.seen : i \notin job.todo => rows[i].id = job.seen[i].id
  BY DEF JobType
<1>2. \A i \in DOMAIN job.seen : i \notin job.todo => Locked(i) /\ Present(i)
  <2> SUFFICES ASSUME NEW i \in DOMAIN job.seen, i \notin job.todo PROVE Locked(i) /\ Present(i)
    OBVIOUS
  <2>1. i \in IPs /\ job.at = "update"
    BY <1>1
  <2>2. rows[i].id \in Nat \ {0}
    BY <1>1 DEF DeviceRow
  <2> QED
    BY <2>1, <2>2, PresentRows DEF Locked
<1>3. ASSUME job' = job, \A i \in IPs : Locked(i) /\ Present(i) => rows'[i].id = rows[i].id
      PROVE  JobType'
  BY <1>1, <1>2, <1>3 DEF JobType
<1>4. CASE Inserted
  <2>1. PICK i \in IPs, s \in Servers, values \in [Fields -> Secret] :
           ~Present(i) /\ Insert(i, values, key[s]) /\ UNCHANGED <<key, req, job>>
    BY <1>4 DEF Inserted
  <2>2. \A j \in IPs : j # i => rows'[j] = rows[j]
    BY <2>1 DEF Insert, TableType
  <2> QED
    BY <1>3, <2>1, <2>2
<1>5. CASE DeleteDevice
  <2>1. PICK i \in IPs : ~Locked(i) /\ rows' = [rows EXCEPT ![i] = Absent]
    BY <1>5 DEF DeleteDevice
  <2>2. \A j \in IPs : j # i => rows'[j] = rows[j]
    BY <2>1 DEF TableType
  <2>3. job' = job
    BY <1>5 DEF DeleteDevice
  <2> QED
    BY <1>3, <2>1, <2>2, <2>3
<1>6. ASSUME NEW h \in Handlers, BeginEdit(h) PROVE JobType'
  <2>1. job' = job /\ rows' = rows
    BY <1>6 DEF BeginEdit, table
  <2> QED
    BY <1>3, <2>1
<1>7. ASSUME NEW h \in Handlers, WriteEdit(h) PROVE JobType'
  <2>1. job' = job /\ req[h] \in Edit
    BY <1>7, WrittenRow
  <2>2. \A j \in IPs : rows'[j].id = rows[j].id
    <3>1. CASE UNCHANGED table
      BY <3>1 DEF table
    <3>2. CASE ~UNCHANGED table
      <4> DEFINE i == req[h].ip
                 form == req[h].form
                 named == {f \in Fields : form[f] # Blank}
      <4>1. PICK r \in DeviceRow :
               Overwrite(h, i, r, named) /\ r.id = req[h].id /\ rows[i].id = req[h].id
        BY <1>7, <3>2, WrittenRow
      <4>2. rows' = [rows EXCEPT ![i] = r]
        BY <4>1 DEF Overwrite
      <4> QED
        BY <4>1, <4>2 DEF TableType
    <3> QED
      BY <3>1, <3>2
  <2> QED
    BY <1>3, <2>1, <2>2
<1>8. CASE Rotate
  <2> DEFINE present == {i \in IPs : Present(i)}
             some == {i \in present : \E f \in Fields : rows[i].sec[f].val # Blank}
             seen == [i \in some |-> rows[i]]
  <2>1. \/ job' = [job EXCEPT !.at = "update", !.runs = @ + 1, !.todo = some, !.seen = seen]
        \/ job' = [job EXCEPT !.runs = @ + 1]
    BY <1>8 DEF Rotate
  <2>2. rows' = rows
    BY <1>8 DEF Rotate, table
  <2>3. \A i \in some : i \in IPs /\ rows[i] \in DeviceRow
    BY PresentRows
  <2> HIDE DEF some
  <2>4. CASE job' = [job EXCEPT !.runs = @ + 1]
    <3>1. /\ job'.at = job.at /\ job'.seen = job.seen /\ job'.todo = job.todo /\ job'.done = job.done
          /\ job' = [at |-> job'.at, runs |-> job'.runs, seen |-> job'.seen, todo |-> job'.todo,
                     done |-> job'.done]
      BY <1>1, <2>4
    <3> QED
      BY <1>1, <2>2, <3>1 DEF JobType
  <2>5. CASE job' = [job EXCEPT !.at = "update", !.runs = @ + 1, !.todo = some, !.seen = seen]
    <3>1. /\ DOMAIN seen = some /\ seen = [i \in DOMAIN seen |-> seen[i]]
          /\ \A i \in some : seen[i] \in DeviceRow
      BY <2>3
    <3> HIDE DEF seen
    <3>2. /\ job'.at = "update" /\ job'.seen = seen /\ job'.todo = some /\ job'.done = job.done
          /\ job' = [at |-> job'.at, runs |-> job'.runs, seen |-> job'.seen, todo |-> job'.todo,
                     done |-> job'.done]
      BY <1>1, <2>5
    <3> QED
      BY <1>1, <2>3, <3>1, <3>2 DEF JobType
  <2> QED
    BY <2>1, <2>4, <2>5
<1>9. ASSUME NEW i \in IPs, RotateRow(i) PROVE JobType'
  <2> DEFINE seen == IF rows[i].id = job.seen[i].id THEN job.seen
                     ELSE [j \in (DOMAIN job.seen) \ {i} |-> job.seen[j]]
  <2>1. /\ job' = [job EXCEPT !.todo = job.todo \ {i}, !.seen = seen]
        /\ rows' = rows
    BY <1>9 DEF RotateRow, table
  <2>2. /\ seen = [j \in DOMAIN seen |-> seen[j]]
        /\ \A j \in DOMAIN seen : j \in DOMAIN job.seen /\ seen[j] = job.seen[j]
        /\ \A j \in DOMAIN seen : j = i => rows[i].id = job.seen[i].id
    BY <1>1
  <2> HIDE DEF seen
  <2>3. /\ job'.at = job.at /\ job'.seen = seen /\ job'.todo = job.todo \ {i} /\ job'.done = job.done
        /\ job' = [at |-> job'.at, runs |-> job'.runs, seen |-> job'.seen, todo |-> job'.todo,
                   done |-> job'.done]
    BY <1>1, <2>1
  <2>4. \A j \in DOMAIN seen : j \notin job.todo \ {i} => rows[j].id = seen[j].id
    <3> TAKE j \in DOMAIN seen
    <3> HAVE j \notin job.todo \ {i}
    <3>1. j \in DOMAIN job.seen /\ seen[j] = job.seen[j]
      BY <2>2
    <3>2. CASE j = i
      BY <2>2, <3>1, <3>2
    <3>3. CASE j # i
      <4>1. j \notin job.todo
        BY <3>3
      <4> QED
        BY <1>1, <3>1, <4>1
    <3> QED
      BY <3>2, <3>3
  <2>5. DOMAIN seen \subseteq IPs /\ \A j \in DOMAIN seen : seen[j] \in DeviceRow
    BY <1>1, <2>2
  <2>6. job.at = "idle" => DOMAIN seen = {}
    BY <1>1, <2>2
  <2> QED
    BY <1>1, <2>1, <2>2, <2>3, <2>4, <2>5, <2>6 DEF JobType
<1>10. CASE CommitRotation \/ AbortRotation
  <2>1. /\ job'.at = "idle" /\ DOMAIN job'.seen = {} /\ job'.done \in BOOLEAN
        /\ job'.seen = [i \in DOMAIN job'.seen |-> job'.seen[i]]
        /\ job' = [at |-> job'.at, runs |-> job'.runs, seen |-> job'.seen, todo |-> job'.todo,
                   done |-> job'.done]
    BY <1>1, <1>10 DEF CommitRotation, AbortRotation, NoJob
  <2> QED
    BY <2>1 DEF JobType
<1>11. ASSUME NEW s \in Servers, Redeploy(s) PROVE JobType'
  <2>1. job' = job /\ rows' = rows
    BY <1>11 DEF Redeploy
  <2> QED
    BY <1>3, <2>1
<1>12. CASE UNCHANGED <<table, key, req, job>>
  <2>1. job' = job /\ rows' = rows
    BY <1>12 DEF table
  <2> QED
    BY <1>3, <2>1
<1> QED
  BY <1>4, <1>5, <1>6, <1>7, <1>8, <1>9, <1>10, <1>11, <1>12 DEF TableStep

-----------------------------------------------------------------------------
(* Copies of a row *)

(* Where w has v as the value of field f of i, that is what was entered    *)
(* last, or the history says otherwise: w is behind, or a writer that was  *)
(* behind has overwritten it.                                              *)
Copied(v, w, i, f, e, b, l) == v = e[i][f] \/ <<w, i, f>> \in b \/ <<i, f>> \in l

EditsCopied ==
    \A h \in Handlers : req[h] \in Edit /\ rows[req[h].ip].id = req[h].id =>
        \A f \in Fields : Copied(req[h].base[f], h, req[h].ip, f, entered, behind, lost)

JobCopied ==
    \A i \in DOMAIN job.seen : rows[i].id = job.seen[i].id =>
        \A f \in Fields : Copied(job.seen[i].sec[f].val, "job", i, f, entered, behind, lost)

CopiesOK == EditsStick /\ EditsCopied /\ JobCopied

(* Nobody has a copy of a row whose id is new, or that is gone. *)
LEMMA IdsHeld ==
    ASSUME TableType, JobType, NEW i \in IPs
    PROVE  /\ \A h \in Handlers : req[h] \in Edit /\ req[h].ip = i => req[h].id \in HeldIds(i) \ {0}
           /\ i \in DOMAIN job.seen => job.seen[i].id \in HeldIds(i) \ {0}
<1>1. ASSUME NEW h \in Handlers, req[h] \in Edit, req[h].ip = i
      PROVE  req[h].id \in HeldIds(i) \ {0}
  <2>1. req[h] # Idle /\ req[h].id # 0
    BY <1>1, EditRequests DEF Edit
  <2> QED
    BY <2>1 DEF HeldIds
<1>2. ASSUME i \in DOMAIN job.seen PROVE job.seen[i].id \in HeldIds(i) \ {0}
  BY <1>2 DEF HeldIds, JobType, DeviceRow
<1> QED
  BY <1>1, <1>2

(* A step that leaves the copies of every row alone, but for those of one  *)
(* whose id afterwards is held by nobody.                                  *)
LEMMA CopiesKept ==
    ASSUME TableType, JobType, CopiesOK, NEW i \in IPs,
           UNCHANGED <<req, job>>, \A j \in IPs \ {i} : rows'[j] = rows[j],
           rows'[i].id \notin HeldIds(i) \ {0},
           \A f \in Fields : rows'[i] # Absent => rows'[i].sec[f].val = entered'[i][f],
           \A j \in IPs \ {i} : entered'[j] = entered[j],
           \A w, j, f : j # i /\ <<w, j, f>> \in behind => <<w, j, f>> \in behind',
           \A j, f : j # i /\ <<j, f>> \in lost => <<j, f>> \in lost'
    PROVE  CopiesOK'
<1>1. \A j \in IPs \ {i} : rows'[j] = rows[j]
  OBVIOUS
<1>2. \A j \in IPs \ {i}, f \in Fields : Present(j) => rows[j].sec[f].val = entered[j][f] \/ <<j, f>> \in lost
  BY DEF CopiesOK, EditsStick
<1>4. EditsStick'
  BY <1>1, <1>2 DEF EditsStick, Present
<1>5. EditsCopied'
  <2> SUFFICES ASSUME NEW h \in Handlers, req[h] \in Edit, rows'[req[h].ip].id = req[h].id, NEW f \in Fields
               PROVE  Copied(req[h].base[f], h, req[h].ip, f, entered', behind', lost')
    BY DEF EditsCopied
  <2>1. req[h].ip \in IPs
    BY DEF Edit
  <2>2. req[h].ip # i
    BY <1>1, IdsHeld
  <2>3. Copied(req[h].base[f], h, req[h].ip, f, entered, behind, lost)
    BY <1>1, <2>1, <2>2 DEF CopiesOK, EditsCopied
  <2> QED
    BY <2>1, <2>2, <2>3 DEF Copied
<1>6. JobCopied'
  <2> SUFFICES ASSUME NEW j \in DOMAIN job.seen, rows'[j].id = job.seen[j].id, NEW f \in Fields
               PROVE  Copied(job.seen[j].sec[f].val, "job", j, f, entered', behind', lost')
    BY DEF JobCopied
  <2>1. j \in IPs
    BY DEF JobType
  <2>2. j # i
    BY <1>1, IdsHeld
  <2>3. Copied(job.seen[j].sec[f].val, "job", j, f, entered, behind, lost)
    BY <1>1, <2>1, <2>2 DEF CopiesOK, JobCopied
  <2> QED
    BY <2>1, <2>2, <2>3 DEF Copied
<1> QED
  BY <1>4, <1>5, <1>6 DEF CopiesOK

LEMMA CopiesOfInsert ==
    ASSUME TableType, JobType, CopiesOK, Inserted \/ DeleteDevice
    PROVE  CopiesOK'
<1>1. CASE Inserted
  <2>1. PICK i \in IPs, s \in Servers, values \in [Fields -> Secret] :
           ~Present(i) /\ Insert(i, values, key[s]) /\ UNCHANGED <<key, req, job>>
    BY <1>1 DEF Inserted
  <2>2. PICK r \in DeviceRow : /\ rows' = [rows EXCEPT ![i] = r] /\ r.id \notin HeldIds(i)
                               /\ \A f \in Fields : r.sec[f].val = values[f]
    BY <2>1, InsertedRow
  <2>3. entered' = [entered EXCEPT ![i] = values]
    BY <2>1 DEF Insert
  <2>4. entered'[i] = values /\ \A j \in IPs \ {i} : entered'[j] = entered[j]
    BY <2>3 DEF TableType
  <2>5. /\ \A w, j, f : j # i /\ <<w, j, f>> \in behind => <<w, j, f>> \in behind'
        /\ \A j, f : j # i /\ <<j, f>> \in lost => <<j, f>> \in lost'
    BY <2>1 DEF Insert
  <2>6. /\ rows'[i] = r /\ \A j \in IPs \ {i} : rows'[j] = rows[j]
        /\ UNCHANGED <<req, job>>
    BY <2>1, <2>2 DEF TableType
  <2>7. /\ rows'[i].id \notin HeldIds(i) \ {0}
        /\ \A f \in Fields : rows'[i] # Absent => rows'[i].sec[f].val = entered'[i][f]
    BY <2>2, <2>4, <2>6
  <2> QED
    BY <2>4, <2>5, <2>6, <2>7, CopiesKept
<1>2. CASE DeleteDevice
  <2>1. PICK i \in IPs : /\ rows' = [rows EXCEPT ![i] = Absent]
                         /\ behind' = {b \in behind : b[2] # i}
                         /\ lost' = {l \in lost : l[1] # i}
                         /\ entered' = [entered EXCEPT ![i] = [f \in Fields |-> Blank]]
    BY <1>2 DEF DeleteDevice
  <2>2. /\ rows'[i] = Absent /\ Absent.id = 0
        /\ \A j \in IPs \ {i} : rows'[j] = rows[j]
    BY <2>1 DEF TableType, Absent
  <2>3. \A j \in IPs \ {i} : entered'[j] = entered[j]
    BY <2>1 DEF TableType
  <2>4. /\ \A w, j, f : j # i /\ <<w, j, f>> \in behind => <<w, j, f>> \in behind'
        /\ \A j, f : j # i /\ <<j, f>> \in lost => <<j, f>> \in lost'
    BY <2>1
  <2>5. UNCHANGED <<req, job>>
    BY <1>2 DEF DeleteDevice
  <2> QED
    BY <2>1, <2>2, <2>3, <2>4, <2>5, CopiesKept
<1> QED
  BY <1>1, <1>2

(* An edit puts back what it has read, and says so in the history. *)
LEMMA CopiesOfEdit ==
    ASSUME TableType, JobType, CopiesOK, NEW h \in Handlers, WriteEdit(h)
    PROVE  CopiesOK'
<1> DEFINE i == req[h].ip
           form == req[h].form
           base == req[h].base
           named == {f \in Fields : form[f] # Blank}
<1>1. /\ req[h] \in Edit /\ i \in IPs /\ job' = job
      /\ req' = [req EXCEPT ![h] = Idle] /\ req \in [Handlers -> {Idle} \union Edit]
  BY WrittenRow DEF TableType, Edit
<1>2. \A g \in Handlers : req'[g] \in Edit => g # h /\ req'[g] = req[g]
  <2>1. Idle \notin Edit
    BY DEF Idle, Edit
  <2> QED
    BY <1>1, <2>1
<1>3. CASE UNCHANGED table
  <2>1. UNCHANGED <<rows, entered, behind, lost>>
    BY <1>3 DEF table
  <2> QED
    BY <1>1, <1>2, <2>1 DEF CopiesOK, EditsStick, EditsCopied, JobCopied, Present
<1>4. CASE ~UNCHANGED table
  <2>1. PICK r \in DeviceRow :
           /\ Overwrite(h, i, r, named) /\ r.id = req[h].id /\ rows[i].id = req[h].id
           /\ ~Locked(i)
           /\ \A f \in Fields : r.sec[f].val = IF f \in named THEN form[f] ELSE base[f]
    BY <1>4, WrittenRow, ZenonT(30)
  <2>2. /\ rows' = [rows EXCEPT ![i] = r]
        /\ entered' = [entered EXCEPT ![i] =
               [f \in Fields |-> IF f \in named THEN r.sec[f].val ELSE @[f]]]
        /\ behind' = (behind \union {<<o, i, f>> : o \in Holders(i) \ {h}, f \in named})
                         \ {<<h, i, f>> : f \in Fields}
        /\ lost' = (lost \ {<<i, f>> : f \in named})
                       \union {<<i, f>> : f \in {f \in Fields : <<h, i, f>> \in behind} \ named}
    BY <2>1 DEF Overwrite
  <2>3. named \subseteq Fields
    OBVIOUS
  <2> HIDE DEF i, form, base, named
  <2>4. /\ rows'[i] = r /\ \A j \in IPs \ {i} : rows'[j] = rows[j]
        /\ \A f \in Fields : entered'[i][f] = IF f \in named THEN r.sec[f].val ELSE entered[i][f]
        /\ \A j \in IPs \ {i} : entered'[j] = entered[j]
    BY <1>1, <2>2 DEF TableType
  <2>5. ASSUME NEW w, NEW j \in IPs, NEW f \in Fields, NEW v, w # h,
               Copied(v, w, j, f, entered, behind, lost), j = i => w \in Holders(i)
        PROVE  Copied(v, w, j, f, entered', behind', lost')
    <3>1. CASE j # i
      <4>1. <<w, j, f>> \in behind => <<w, j, f>> \in behind'
        BY <2>2, <3>1
      <4>2. <<j, f>> \in lost => <<j, f>> \in lost'
        BY <2>2, <3>1
      <4> QED
        BY <2>4, <2>5, <3>1, <4>1, <4>2 DEF Copied
    <3>2. CASE j = i /\ f \in named
      <4>1. <<w, i, f>> \in behind'
        BY <2>2, <2>5, <3>2
      <4> QED
        BY <3>2, <4>1 DEF Copied
    <3>3. CASE j = i /\ f \notin named
      <4>1. <<w, j, f>> \in behind => <<w, j, f>> \in behind'
        BY <2>2, <2>5
      <4>2. <<j, f>> \in lost => <<j, f>> \in lost'
        BY <2>2, <3>3
      <4> QED
        BY <2>4, <2>5, <3>3, <4>1, <4>2 DEF Copied
    <3> QED
      BY <3>1, <3>2, <3>3
  <2>6. EditsStick'
    <3> SUFFICES ASSUME NEW j \in IPs, rows'[j] # Absent, NEW f \in Fields
                 PROVE  rows'[j].sec[f].val = entered'[j][f] \/ <<j, f>> \in lost'
      BY DEF EditsStick, Present
    <3>1. CASE j # i
      <4>1. rows[j].sec[f].val = entered[j][f] \/ <<j, f>> \in lost
        BY <2>4, <3>1 DEF CopiesOK, EditsStick, Present
      <4>2. <<j, f>> \in lost => <<j, f>> \in lost'
        BY <2>2, <3>1
      <4> QED
        BY <2>4, <3>1, <4>1, <4>2
    <3>2. CASE j = i /\ f \in named
      BY <2>4, <3>2
    <3>3. CASE j = i /\ f \notin named
      <4>1. Copied(base[f], h, i, f, entered, behind, lost)
        BY <1>1, <2>1 DEF CopiesOK, EditsCopied, base, i
      <4>2. <<h, i, f>> \in behind \/ <<i, f>> \in lost => <<i, f>> \in lost'
        BY <2>2, <3>3
      <4>3. rows'[j].sec[f].val = base[f] /\ entered'[j][f] = entered[i][f]
        BY <2>1, <2>4, <3>3
      <4> QED
        BY <3>3, <4>1, <4>2, <4>3 DEF Copied
    <3> QED
      BY <3>1, <3>2, <3>3
  <2>7. EditsCopied'
    <3> SUFFICES ASSUME NEW g \in Handlers, req'[g] \in Edit, rows'[req'[g].ip].id = req'[g].id,
                        NEW f \in Fields
                 PROVE  Copied(req'[g].base[f], g, req'[g].ip, f, entered', behind', lost')
      BY DEF EditsCopied
    <3>1. g # h /\ req'[g] = req[g] /\ req[g].ip \in IPs /\ req[g].at = "edit"
      BY <1>2 DEF Edit
    <3>2. rows[req[g].ip].id = req[g].id
      BY <2>1, <2>4, <3>1
    <3>3. Copied(req[g].base[f], g, req[g].ip, f, entered, behind, lost)
      BY <3>1, <3>2 DEF CopiesOK, EditsCopied
    <3>4. req[g].ip = i => g \in Holders(i)
      BY <3>1, <3>2 DEF Holders
    <3> QED
      BY <2>5, <3>1, <3>3, <3>4
  <2>8. JobCopied'
    <3> SUFFICES ASSUME NEW j \in DOMAIN job.seen, rows'[j].id = job.seen[j].id, NEW f \in Fields
                 PROVE  Copied(job.seen[j].sec[f].val, "job", j, f, entered', behind', lost')
      BY <1>1 DEF JobCopied
    <3>1. j \in IPs /\ "job" # h /\ job.at = "update"
      BY TableAssumption DEF JobType
    <3>2. rows[j].id = job.seen[j].id
      BY <2>1, <2>4, <3>1
    <3>3. Copied(job.seen[j].sec[f].val, "job", j, f, entered, behind, lost)
      BY <3>2 DEF CopiesOK, JobCopied
    <3>4. j = i => "job" \in Holders(i)
      BY <2>1, <3>1 DEF Holders, Locked
    <3> QED
      BY <2>5, <3>1, <3>3, <3>4
  <2> QED
    BY <2>6, <2>7, <2>8 DEF CopiesOK
<1> QED
  BY <1>3, <1>4

(* The other steps. *)
LEMMA CopiesNext ==
    ASSUME TableType, JobType, CopiesOK, TableStep
    PROVE  CopiesOK'
<1>1. /\ EditsStick /\ EditsCopied /\ JobCopied
      /\ req \in [Handlers -> {Idle} \union Edit] /\ "job" \notin Handlers
      /\ Idle \notin Edit
  <2>1. Idle \notin Edit
    BY DEF Idle, Edit
  <2> QED
    BY <2>1, TableAssumption DEF CopiesOK, TableType
<1>2. ASSUME NEW h \in Handlers, BeginEdit(h) PROVE CopiesOK'
  <2>1. UNCHANGED <<rows, entered, behind, lost, job>>
    BY <1>2 DEF BeginEdit, table
  <2>2. PICK s \in Servers, i \in IPs, form \in Forms :
           /\ Present(i)
           /\ req' = [req EXCEPT ![h] = [at |-> "edit", server |-> s, ip |-> i, id |-> rows[i].id,
                        base |-> [f \in Fields |-> rows[i].sec[f].val], form |-> form]]
    BY <1>2 DEF BeginEdit
  <2>3. EditsStick' /\ JobCopied'
    BY <1>1, <2>1 DEF EditsStick, Present, JobCopied
  <2>4. /\ \A g \in Handlers \ {h} : req'[g] = req[g]
        /\ req'[h].ip = i /\ \A f \in Fields : req'[h].base[f] = rows[i].sec[f].val
    BY <1>1, <2>2
  <2>5. \A f \in Fields : Copied(rows[i].sec[f].val, h, i, f, entered, behind, lost)
    BY <1>1, <2>2 DEF EditsStick, Copied
  <2>6. EditsCopied'
    BY <1>1, <2>1, <2>4, <2>5 DEF EditsCopied
  <2> QED
    BY <2>3, <2>6 DEF CopiesOK
<1>3. CASE Rotate
  <2>1. UNCHANGED <<rows, entered, behind, lost, req>>
    BY <1>3 DEF Rotate, table
  <2>2. EditsStick' /\ EditsCopied'
    BY <1>1, <2>1 DEF EditsStick, Present, EditsCopied
  <2> DEFINE present == {i \in IPs : Present(i)}
             some == {i \in present : \E f \in Fields : rows[i].sec[f].val # Blank}
             seen == [i \in some |-> rows[i]]
  <2>3. \/ job' = [job EXCEPT !.at = "update", !.runs = @ + 1, !.todo = some, !.seen = seen]
        \/ job' = [job EXCEPT !.runs = @ + 1]
    BY <1>3 DEF Rotate
  <2>4. \A i \in some : i \in IPs /\ Present(i)
    OBVIOUS
  <2> HIDE DEF some
  <2>5. job'.seen = seen \/ job'.seen = job.seen
    BY <2>3 DEF JobType
  <2>6. JobCopied'
    <3>1. CASE job'.seen = job.seen
      BY <1>1, <2>1, <3>1 DEF JobCopied
    <3>2. CASE job'.seen = seen
      <4>1. ASSUME NEW i \in some, NEW f \in Fields
            PROVE  Copied(rows[i].sec[f].val, "job", i, f, entered, behind, lost)
        BY <1>1, <2>4 DEF EditsStick, Copied
      <4>2. DOMAIN seen = some /\ \A i \in some : seen[i] = rows[i]
        OBVIOUS
      <4> HIDE DEF seen
      <4> QED
        BY <2>1, <3>2, <4>1, <4>2 DEF JobCopied
    <3> QED
      BY <2>5, <3>1, <3>2
  <2> QED
    BY <2>2, <2>6 DEF CopiesOK
<1>4. ASSUME NEW i \in IPs, RotateRow(i) PROVE CopiesOK'
  <2>1. UNCHANGED <<rows, entered, behind, lost, req>>
    BY <1>4 DEF RotateRow, table
  <2>2. EditsStick' /\ EditsCopied'
    BY <1>1, <2>1 DEF EditsStick, Present, EditsCopied
  <2> DEFINE seen == IF rows[i].id = job.seen[i].id THEN job.seen
                     ELSE [j \in (DOMAIN job.seen) \ {i} |-> job.seen[j]]
  <2>3. job' = [job EXCEPT !.todo = job.todo \ {i}, !.seen = seen]
    BY <1>4 DEF RotateRow
  <2>4. \A j \in DOMAIN seen : j \in DOMAIN job.seen /\ seen[j] = job.seen[j]
    OBVIOUS
  <2> HIDE DEF seen
  <2>5. job'.seen = seen
    BY <2>3 DEF JobType
  <2>6. JobCopied'
    BY <1>1, <2>1, <2>4, <2>5 DEF JobCopied
  <2> QED
    BY <2>2, <2>6 DEF CopiesOK
<1>5. CASE CommitRotation
  <2>1. /\ rows' = [i \in IPs |-> IF i \in DOMAIN job.seen THEN Rotated(job.seen[i]) ELSE rows[i]]
        /\ lost' = lost \union {l \in (DOMAIN job.seen) \X Fields : <<"job", l[1], l[2]>> \in behind}
        /\ behind' = {b \in behind : b[1] # "job"}
        /\ UNCHANGED <<req, entered>> /\ DOMAIN job'.seen = {} /\ job.todo = {}
    BY <1>5 DEF CommitRotation, NoJob, JobType
  <2>2. \A i \in DOMAIN job.seen : i \in IPs /\ job.seen[i] \in DeviceRow /\ rows[i].id = job.seen[i].id
    BY <2>1 DEF JobType
  <2>3. /\ \A i \in IPs : rows'[i].id = rows[i].id
        /\ \A i \in IPs : i \notin DOMAIN job.seen => rows'[i] = rows[i]
        /\ \A i \in DOMAIN job.seen, f \in Fields : rows'[i].sec[f].val = job.seen[i].sec[f].val
    BY <2>1, <2>2, RotatedRow
  <2>4. EditsStick'
    <3> SUFFICES ASSUME NEW i \in IPs, rows'[i] # Absent, NEW f \in Fields
                 PROVE  rows'[i].sec[f].val = entered[i][f] \/ <<i, f>> \in lost'
      BY <2>1 DEF EditsStick, Present
    <3>1. CASE i \notin DOMAIN job.seen
      BY <1>1, <2>1, <2>3, <3>1 DEF EditsStick, Present
    <3>2. CASE i \in DOMAIN job.seen
      <4>1. Copied(job.seen[i].sec[f].val, "job", i, f, entered, behind, lost)
        BY <1>1, <2>2, <3>2 DEF JobCopied
      <4>2. <<"job", i, f>> \in behind \/ <<i, f>> \in lost => <<i, f>> \in lost'
        BY <2>1, <3>2
      <4> QED
        BY <2>3, <3>2, <4>1, <4>2 DEF Copied
    <3> QED
      BY <3>1, <3>2
  <2>5. EditsCopied'
    <3> SUFFICES ASSUME NEW h \in Handlers, req[h] \in Edit, rows'[req[h].ip].id = req[h].id, NEW f \in Fields
                 PROVE  Copied(req[h].base[f], h, req[h].ip, f, entered, behind', lost')
      BY <2>1 DEF EditsCopied
    <3>1. rows[req[h].ip].id = req[h].id
      BY <2>3 DEF Edit
    <3>2. Copied(req[h].base[f], h, req[h].ip, f, entered, behind, lost)
      BY <1>1, <3>1 DEF EditsCopied
    <3>3. h # "job"
      BY <1>1
    <3>4. <<h, req[h].ip, f>> \in behind => <<h, req[h].ip, f>> \in behind'
      BY <2>1, <3>3
    <3>5. lost \subseteq lost'
      BY <2>1
    <3> QED
      BY <3>2, <3>4, <3>5 DEF Copied
  <2>6. JobCopied'
    BY <2>1 DEF JobCopied
  <2> QED
    BY <2>4, <2>5, <2>6 DEF CopiesOK
<1>6. CASE AbortRotation
  <2>1. /\ UNCHANGED <<rows, entered, lost, req>> /\ DOMAIN job'.seen = {}
        /\ behind' = {b \in behind : b[1] # "job"}
    BY <1>6 DEF AbortRotation, NoJob
  <2>2. EditsStick' /\ JobCopied'
    BY <1>1, <2>1 DEF EditsStick, Present, JobCopied
  <2>3. \A h \in Handlers : \A i, f : <<h, i, f>> \in behind => <<h, i, f>> \in behind'
    BY <1>1, <2>1
  <2>4. EditsCopied'
    BY <1>1, <2>1, <2>3 DEF EditsCopied, Copied
  <2> QED
    BY <2>2, <2>4 DEF CopiesOK
<1>7. ASSUME NEW s \in Servers, Redeploy(s) PROVE CopiesOK'
  <2>1. /\ UNCHANGED <<rows, entered, lost, job>>
        /\ req' = [h \in Handlers |-> IF req[h] # Idle /\ req[h].server = s THEN Idle ELSE req[h]]
        /\ behind' = {b \in behind : b[1] \in Handlers => req'[b[1]] # Idle}
    BY <1>7 DEF Redeploy
  <2>2. \A h \in Handlers : req'[h] \in Edit => req'[h] # Idle /\ req'[h] = req[h]
    BY <1>1, <2>1
  <2>3. /\ \A h \in Handlers : \A i, f : req'[h] \in Edit /\ <<h, i, f>> \in behind => <<h, i, f>> \in behind'
        /\ \A i, f : <<"job", i, f>> \in behind => <<"job", i, f>> \in behind'
    BY <1>1, <2>1, <2>2
  <2>4. EditsStick'
    BY <1>1, <2>1 DEF EditsStick, Present
  <2>5. EditsCopied'
    BY <1>1, <2>1, <2>2, <2>3 DEF EditsCopied, Copied
  <2>6. JobCopied'
    BY <1>1, <2>1, <2>3 DEF JobCopied, Copied
  <2> QED
    BY <2>4, <2>5, <2>6 DEF CopiesOK
<1>8. CASE UNCHANGED <<table, key, req, job>>
  BY <1>1, <1>8 DEF CopiesOK, EditsStick, Present, EditsCopied, JobCopied, table
<1> QED
  BY <1>2, <1>3, <1>4, <1>5, <1>6, <1>7, <1>8, CopiesOfInsert, CopiesOfEdit DEF TableStep

-----------------------------------------------------------------------------
(* Rotations *)

Whole(r) == \A f \in Fields : r.sec[f].val # Blank => r.sec[f].under = "new"

(* Before the first rotation has succeeded nothing is under the new key.   *)
(* Afterwards every row is whole but the strays.  While one is at work,    *)
(* every row that is not whole is one it has read, or a stray.             *)
RotationOK ==
    /\ ~job.done => /\ \A s \in Servers : key[s] = "old"
                    /\ \A i \in IPs : Present(i) => \A f \in Fields : rows[i].sec[f].under # "new"
    /\ job.done => \A i \in IPs \ strays : Present(i) => Whole(rows[i])
    /\ job.at = "update" => \A i \in IPs \ strays : Present(i) =>
           Whole(rows[i]) \/ (i \in DOMAIN job.seen /\ rows[i].id = job.seen[i].id)

(* A write under the key k: it strays, or is whole. *)
LEMMA RotationOfWrite ==
    ASSUME TableType, TableType', RotationOK, NEW i \in IPs, NEW k \in {"old", "new"},
           ~job.done => k = "old", UNCHANGED <<key, job>>, Stray(i, k),
           \A j \in IPs \ {i} : rows'[j] = rows[j],
           \A f \in Fields : /\ rows'[i].sec[f].under \in {"plain", k}
                             /\ k = "new" /\ rows'[i].sec[f].val # Blank => rows'[i].sec[f].under = "new"
    PROVE  RotationOK'
<1>1. /\ strays' \in {strays \union {i}, strays \ {i}}
      /\ k # "new" /\ (job.at = "update" \/ job.done) => i \in strays'
      /\ k = "new" => Whole(rows'[i])
  BY DEF Stray, Whole
<1>2. \A j \in IPs : j # i => (j \in strays' <=> j \in strays)
  BY <1>1
<1>3. ~job.done => /\ \A s \in Servers : key[s] = "old"
                  /\ \A j \in IPs : rows'[j] # Absent => \A f \in Fields : rows'[j].sec[f].under # "new"
  <2> SUFFICES ASSUME ~job.done, NEW j \in IPs, rows'[j] # Absent, NEW f \in Fields
               PROVE  rows'[j].sec[f].under # "new"
    BY DEF RotationOK
  <2>1. CASE j = i
    BY <2>1
  <2>2. CASE j # i
    BY <2>2 DEF RotationOK, Present
  <2> QED
    BY <2>1, <2>2
<1>4. job.done => \A j \in IPs \ strays' : rows'[j] # Absent => Whole(rows'[j])
  <2> SUFFICES ASSUME job.done, NEW j \in IPs \ strays', rows'[j] # Absent PROVE Whole(rows'[j])
    OBVIOUS
  <2>1. CASE j = i
    BY <1>1, <2>1
  <2>2. CASE j # i
    BY <1>2, <2>2 DEF RotationOK, Present
  <2> QED
    BY <2>1, <2>2
<1>5. job.at = "update" => \A j \in IPs \ strays' : rows'[j] # Absent =>
         Whole(rows'[j]) \/ (j \in DOMAIN job.seen /\ rows'[j].id = job.seen[j].id)
  <2> SUFFICES ASSUME job.at = "update", NEW j \in IPs \ strays', rows'[j] # Absent
               PROVE  Whole(rows'[j]) \/ (j \in DOMAIN job.seen /\ rows'[j].id = job.seen[j].id)
    OBVIOUS
  <2>1. CASE j = i
    BY <1>1, <2>1
  <2>2. CASE j # i
    BY <1>2, <2>2 DEF RotationOK, Present
  <2> QED
    BY <2>1, <2>2
<1> QED
  BY <1>3, <1>4, <1>5 DEF RotationOK, Present

LEMMA RotationNext ==
    ASSUME TableType, TableType', JobType, RotationOK, TableStep
    PROVE  RotationOK'
<1>1. /\ rows \in [IPs -> {Absent} \union DeviceRow] /\ key \in [Servers -> {"old", "new"}]
      /\ \A s \in Servers : ~job.done => key[s] = "old"
  BY DEF TableType, RotationOK
<1>2. CASE Inserted
  <2>1. PICK i \in IPs, s \in Servers, values \in [Fields -> Secret] :
           ~Present(i) /\ Insert(i, values, key[s]) /\ UNCHANGED <<key, req, job>>
    BY <1>2 DEF Inserted
  <2> DEFINE k == key[s]
  <2>2. PICK r \in DeviceRow :
           /\ rows' = [rows EXCEPT ![i] = r]
           /\ \A f \in Fields : /\ r.sec[f].val = values[f]
                                /\ r.sec[f].under \in {"plain", k}
                                /\ k = "new" /\ values[f] # Blank => r.sec[f].under = "new"
    BY <2>1, InsertedRow
  <2>3. Stray(i, k) /\ k \in {"old", "new"} /\ (~job.done => k = "old") /\ UNCHANGED <<key, job>>
    BY <1>1, <2>1 DEF Insert
  <2>4. rows'[i] = r /\ \A j \in IPs \ {i} : rows'[j] = rows[j]
    BY <1>1, <2>2
  <2> HIDE DEF k
  <2>5. \A f \in Fields :
           /\ rows'[i].sec[f].under \in {"plain", k}
           /\ k = "new" /\ rows'[i].sec[f].val # Blank => rows'[i].sec[f].under = "new"
    BY <2>2, <2>4
  <2> QED
    BY <2>3, <2>4, <2>5, RotationOfWrite
<1>3. CASE DeleteDevice
  <2>1. PICK i \in IPs : rows' = [rows EXCEPT ![i] = Absent] /\ strays' = strays \ {i}
    BY <1>3 DEF DeleteDevice
  <2>2. key' = key /\ job' = job
    BY <1>3 DEF DeleteDevice
  <2>3. \A j \in IPs : rows'[j] # Absent => j # i /\ rows'[j] = rows[j] /\ (j \in strays' <=> j \in strays)
    BY <1>1, <2>1
  <2> QED
    BY <2>2, <2>3 DEF RotationOK, Present
<1>4. ASSUME NEW h \in Handlers, WriteEdit(h) PROVE RotationOK'
  <2>1. req[h] \in Edit /\ UNCHANGED <<key, job>>
    BY <1>4, WrittenRow
  <2>2. CASE UNCHANGED table
    BY <2>1, <2>2 DEF RotationOK, Present, table
  <2>3. CASE ~UNCHANGED table
    <3> DEFINE i == req[h].ip
               k == key[req[h].server]
               form == req[h].form
               named == {f \in Fields : form[f] # Blank}
    <3>1. PICK r \in DeviceRow :
             /\ Overwrite(h, i, r, named) /\ Stray(i, k)
             /\ \A f \in Fields : /\ r.sec[f].under \in {"plain", k}
                                  /\ k = "new" /\ r.sec[f].val # Blank => r.sec[f].under = "new"
      BY <1>4, <2>3, WrittenRow, ZenonT(30)
    <3>2. i \in IPs /\ k \in {"old", "new"} /\ (~job.done => k = "old")
      BY <1>1, <2>1 DEF Edit
    <3>3. rows' = [rows EXCEPT ![i] = r]
      BY <3>1 DEF Overwrite
    <3> HIDE DEF i, k
    <3>4. rows'[i] = r /\ \A j \in IPs \ {i} : rows'[j] = rows[j]
      BY <1>1, <3>2, <3>3
    <3>5. \A f \in Fields :
             /\ rows'[i].sec[f].under \in {"plain", k}
             /\ k = "new" /\ rows'[i].sec[f].val # Blank => rows'[i].sec[f].under = "new"
      BY <3>1, <3>4
    <3> QED
      BY <2>1, <3>1, <3>2, <3>4, <3>5, RotationOfWrite
  <2> QED
    BY <2>2, <2>3
<1>5. CASE Rotate
  <2>1. UNCHANGED <<rows, strays, key>>
    BY <1>5 DEF Rotate, table
  <2> DEFINE present == {i \in IPs : Present(i)}
             some == {i \in present : \E f \in Fields : rows[i].sec[f].val # Blank}
             seen == [i \in some |-> rows[i]]
  <2>2. \/ job' = [job EXCEPT !.at = "update", !.runs = @ + 1, !.todo = some, !.seen = seen]
        \/ job' = [job EXCEPT !.runs = @ + 1]
    BY <1>5 DEF Rotate
  <2>3. job'.done = job.done
    BY <2>2 DEF JobType
  <2>4. CASE job' = [job EXCEPT !.runs = @ + 1]
    <3>1. job'.at = job.at /\ job'.seen = job.seen
      BY <2>4 DEF JobType
    <3> QED
      BY <2>1, <2>3, <3>1 DEF RotationOK, Present
  <2>5. CASE job' = [job EXCEPT !.at = "update", !.runs = @ + 1, !.todo = some, !.seen = seen]
    <3>1. \A i \in IPs : Present(i) => Whole(rows[i]) \/ i \in some
      BY DEF Whole
    <3>2. DOMAIN seen = some /\ \A i \in some : seen[i] = rows[i]
      OBVIOUS
    <3> HIDE DEF some, seen
    <3>3. job'.seen = seen
      BY <2>5 DEF JobType
    <3> QED
      BY <2>1, <2>3, <3>1, <3>2, <3>3 DEF RotationOK, Present
  <2> QED
    BY <2>2, <2>4, <2>5
<1>6. ASSUME NEW i \in IPs, RotateRow(i) PROVE RotationOK'
  <2>1. UNCHANGED <<rows, strays, key>>
    BY <1>6 DEF RotateRow, table
  <2> DEFINE seen == IF rows[i].id = job.seen[i].id THEN job.seen
                     ELSE [j \in (DOMAIN job.seen) \ {i} |-> job.seen[j]]
  <2>2. job' = [job EXCEPT !.todo = job.todo \ {i}, !.seen = seen]
    BY <1>6 DEF RotateRow
  <2>3. \A j \in DOMAIN job.seen : rows[j].id = job.seen[j].id => j \in DOMAIN seen /\ seen[j] = job.seen[j]
    OBVIOUS
  <2> HIDE DEF seen
  <2>4. job'.seen = seen /\ job'.at = job.at /\ job'.done = job.done
    BY <2>2 DEF JobType
  <2> QED
    BY <2>1, <2>3, <2>4 DEF RotationOK, Present
<1>7. CASE CommitRotation
  <2>1. /\ rows' = [i \in IPs |-> IF i \in DOMAIN job.seen THEN Rotated(job.seen[i]) ELSE rows[i]]
        /\ strays' = strays \ DOMAIN job.seen /\ job.at = "update"
        /\ job'.done /\ job'.at = "idle"
    BY <1>7 DEF CommitRotation, NoJob
  <2>2. ASSUME NEW i \in IPs \ strays', rows'[i] # Absent PROVE Whole(rows'[i])
    <3>1. CASE i \in DOMAIN job.seen
      <4>1. job.seen[i] \in DeviceRow
        BY <3>1 DEF JobType
      <4> QED
        BY <2>1, <3>1, <4>1, RotatedRow DEF Whole
    <3>2. CASE i \notin DOMAIN job.seen
      <4>1. rows'[i] = rows[i] /\ i \notin strays
        BY <2>1, <2>2, <3>2
      <4> QED
        BY <2>1, <2>2, <3>2, <4>1 DEF RotationOK, Present
    <3> QED
      BY <3>1, <3>2
  <2> QED
    BY <2>1, <2>2 DEF RotationOK, Present
<1>8. CASE AbortRotation
  <2>1. UNCHANGED <<rows, strays, key>> /\ job'.done = job.done /\ job'.at = "idle"
    BY <1>8 DEF AbortRotation, NoJob
  <2> QED
    BY <2>1 DEF RotationOK, Present
<1>9. ASSUME NEW s \in Servers, Redeploy(s) PROVE RotationOK'
  <2>1. UNCHANGED <<rows, strays, job>> /\ job.done
    BY <1>9 DEF Redeploy
  <2> QED
    BY <2>1 DEF RotationOK, Present
<1>10. ASSUME UNCHANGED <<table, key, req, job>> \/ \E h \in Handlers : BeginEdit(h)
       PROVE  RotationOK'
  <2>1. UNCHANGED <<rows, strays, key, job>>
    BY <1>10 DEF BeginEdit, table
  <2> QED
    BY <2>1 DEF RotationOK, Present
<1> QED
  BY <1>2, <1>3, <1>4, <1>5, <1>6, <1>7, <1>8, <1>9, <1>10 DEF TableStep

(* What the property says of it. *)
LEMMA WholeRotation ==
    ASSUME TableType, RotationOK
    PROVE  RotationIsWhole
<1>1. job.done => \A i \in IPs \ strays : Present(i) =>
         \A f \in Fields : rows[i].sec[f].val # Blank => rows[i].sec[f].under = "new"
  BY DEF RotationOK, Whole
<1>2. ASSUME NEW s \in Servers, job.done => key[s] = "new" /\ strays = {}, NEW i \in IPs, Present(i),
             NEW f \in Fields
      PROVE  Readable(rows[i].sec[f], key[s])
  <2>1. rows[i].sec[f] \in Cell
    BY <1>2, PresentRows DEF DeviceRow
  <2>2. CASE job.done
    <3>1. rows[i].sec[f].val # Blank => rows[i].sec[f].under = "new"
      BY <1>1, <1>2, <2>2
    <3> QED
      BY <1>2, <2>1, <2>2, <3>1 DEF Readable, Cell
  <2>3. CASE ~job.done
    <3>1. key[s] = "old" /\ rows[i].sec[f].under # "new"
      BY <1>2, <2>3 DEF RotationOK
    <3> QED
      BY <2>1, <3>1 DEF Readable, Cell
  <2> QED
    BY <2>2, <2>3
<1> QED
  BY <1>1, <1>2 DEF RotationIsWhole, ListDevices, ReadableRow

-----------------------------------------------------------------------------
(* A scan *)

Subnet == generateIPs(First, Last)
Host == [at : {"host", "add"}, ip : Subnet]
Found == [ip : Subnet, added : BOOLEAN]
Scan == [at : {"send", "wait", "result", "error"}, server : Servers, auto : BOOLEAN,
         cancelled : BOOLEAN, secret : Values, todo : SUBSET Subnet, found : Seq(Found)]

(* Workers are at work only in a scan, and a scan begins with nothing.     *)
ScanType ==
    /\ scan \in {NoScan} \union Scan
    /\ worker \in [Workers -> {Off, Waiting} \union Host]
    /\ ~Scanning => \A w \in Workers : worker[w] = Off
    /\ scan = NoScan => answered = {} /\ inserted = {}

Indices == 1..Len(scan.found)

FoundAnswered ==
    \A n \in Indices : scan.found[n].ip \in answered /\ scan.found[n].ip \notin scan.todo
AddedInserted == \A n \in Indices : scan.found[n].added => scan.found[n].ip \in inserted

(* No address is in two hands; what has answered is found or being added,  *)
(* and what was added is found as added.                                   *)
ScanParts ==
    /\ answered \subseteq Subnet
    /\ \A m, n \in Indices : scan.found[m].ip = scan.found[n].ip => m = n
    /\ FoundAnswered /\ AddedInserted
    /\ \A w \in Workers : worker[w] \in Host =>
          /\ worker[w].ip \notin scan.todo
          /\ \A n \in Indices : scan.found[n].ip # worker[w].ip
          /\ \A x \in Workers : worker[x] \in Host /\ worker[x].ip = worker[w].ip => x = w
          /\ worker[w].at = "add" => worker[w].ip \in answered
    /\ \A i \in answered : \/ \E n \in Indices : scan.found[n].ip = i
                          \/ \E w \in Workers : worker[w] = [at |-> "add", ip |-> i]
    /\ \A i \in inserted : \E n \in Indices : scan.found[n].ip = i /\ scan.found[n].added

(* That is so in every scan that nobody has cancelled.                     *)
ScanOK == scan # NoScan /\ ~scan.cancelled => ScanParts

LEMMA SubnetIs ==
    /\ Subnet \subseteq IPs /\ Subnet \subseteq Nat
    /\ Last - First >= 2 => First \notin Subnet /\ Last \notin Subnet
<1>1. First \in Nat /\ Last \in Nat
  BY ScanAssumption
<1>2. Subnet \subseteq IPs /\ IPs \subseteq Nat
  BY ScanAssumption, SubnetAssumption DEF Subnet
<1>3. Last - First >= 2 => Subnet = (First + 1)..(Last - 1)
  BY <1>1 DEF Subnet, generateIPs
<1> QED
  BY <1>1, <1>2, <1>3

LEMMA ScanIs ==
    ASSUME ScanType
    PROVE  /\ scan # NoScan <=> scan \in Scan
           /\ Scanning <=> scan \in Scan /\ scan.at \in {"send", "wait"}
           /\ scan.at \in {"send", "wait", "result", "error"} <=> scan \in Scan
           /\ \A w \in Workers : /\ worker[w].at \in {"host", "add"} <=> worker[w] \in Host
                                 /\ worker[w] \in Host => Scanning
<1>1. NoScan.at = "idle" /\ \A r \in Scan : r.at \in {"send", "wait", "result", "error"}
  BY DEF NoScan, Scan
<1>2. /\ Off.at = "off" /\ Waiting.at = "range"
      /\ \A r \in Host : r.at \in {"host", "add"}
  BY DEF Off, Waiting, Host
<1>3. scan \in {NoScan} \union Scan /\ \A w \in Workers : worker[w] \in {Off, Waiting} \union Host
  BY DEF ScanType
<1>4. ASSUME NEW w \in Workers
      PROVE  /\ worker[w].at \in {"host", "add"} <=> worker[w] \in Host
             /\ worker[w] \in Host => Scanning
  BY <1>2, <1>3 DEF ScanType
<1> QED
  BY <1>1, <1>3, <1>4 DEF Scanning

(* The scan's own steps, and the table's as the scan sees them. *)
ScanStep ==
    \/ ScanNetwork \/ Cancel \/ Produce \/ Respond
    \/ \E w \in Workers : Work(w)
    \/ scan' = NoScan /\ worker' = [w \in Workers |-> Off] /\ answered' = {} /\ inserted' = {}
    \/ UNCHANGED scanVars

LEMMA NextIs ==
    ASSUME ScanType, TableType, [Next]_vars
    PROVE  TableStep /\ ScanStep
<1>1. CASE TableNext /\ UNCHANGED scanVars
  <2>1. CASE CreateDevice
    <3>1. PICK s \in Servers, i \in IPs, v \in Values :
             /\ ~Present(i)
             /\ Insert(i, [f \in Fields |-> IF f = "community" THEN v ELSE Blank], key[s])
      BY <2>1 DEF CreateDevice
    <3>2. [f \in Fields |-> IF f = "community" THEN v ELSE Blank] \in [Fields -> Secret]
      BY DEF Secret
    <3>3. Inserted
      BY <2>1, <3>1, <3>2 DEF Inserted, CreateDevice
    <3> QED
      BY <1>1, <3>3 DEF TableStep, ScanStep
  <2>2. CASE ~CreateDevice
    BY <1>1, <2>2 DEF TableNext, TableStep, ScanStep
  <2> QED
    BY <2>1, <2>2
<1>2. ASSUME NEW s \in Servers, RedeployAll(s) PROVE TableStep /\ ScanStep
  BY <1>2 DEF RedeployAll, TableStep, ScanStep
<1>3. CASE ScanNetwork \/ Cancel \/ Produce \/ Respond
  <2>1. UNCHANGED <<table, key, req, job>>
    BY <1>3 DEF ScanNetwork, Cancel, Produce, CloseJobs, Return, HandOut, Respond, tableVars
  <2> QED
    BY <1>3, <2>1 DEF TableStep, ScanStep
<1>4. ASSUME NEW w \in Workers, Work(w) PROVE TableStep /\ ScanStep
  <2>1. CASE Leave(w) \/ Probe(w)
    <3>1. UNCHANGED <<table, key, req, job>>
      BY <2>1 DEF Leave, Probe, tableVars
    <3> QED
      BY <1>4, <3>1 DEF TableStep, ScanStep
  <2>2. CASE Add(w)
    <3>1. UNCHANGED <<key, req, job>>
      BY <2>2 DEF Add
    <3>2. CASE UNCHANGED table
      BY <1>4, <3>1, <3>2 DEF TableStep, ScanStep
    <3>3. CASE ~UNCHANGED table
      <4>1. ~Present(worker[w].ip) /\ Insert(worker[w].ip, Secrets, key[scan.server])
        BY <2>2, <3>3 DEF Add, ReportHost
      <4>2. worker[w] \in Host /\ scan \in Scan
        BY <2>2, ScanIs DEF Add
      <4>3. worker[w].ip \in IPs /\ scan.server \in Servers /\ scan.secret \in Values
        BY <4>2, SubnetIs DEF Host, Scan
      <4>4. Secrets \in [Fields -> Secret]
        BY <4>3 DEF Secrets, Secret
      <4>5. Inserted
        BY <3>1, <4>1, <4>3, <4>4 DEF Inserted
      <4> QED
        BY <1>4, <4>5 DEF TableStep, ScanStep
    <3> QED
      BY <3>2, <3>3
  <2> QED
    BY <1>4, <2>1, <2>2 DEF Work
<1>5. CASE UNCHANGED vars
  BY <1>5 DEF vars, tableVars, TableStep, ScanStep
<1> QED
  BY <1>1, <1>2, <1>3, <1>4, <1>5 DEF Next

(* A host that is reported comes last. *)
LEMMA Reported ==
    ASSUME ScanType, NEW w \in Workers, worker[w] \in Host, NEW added \in BOOLEAN, ReportHost(w, added)
    PROVE  /\ scan \in Scan /\ scan' \in Scan /\ scan'.at = scan.at
           /\ scan'.todo = scan.todo /\ scan'.cancelled = scan.cancelled
           /\ Len(scan.found) \in Nat /\ Len(scan'.found) = Len(scan.found) + 1
           /\ \A n \in Indices : scan'.found[n] = scan.found[n]
           /\ scan'.found[Len(scan.found) + 1].ip = worker[w].ip
           /\ scan'.found[Len(scan.found) + 1].added = added
           /\ worker' = [worker EXCEPT ![w] = Waiting]
<1>1. scan \in Scan
  BY ScanIs
<1> DEFINE e == [ip |-> worker[w].ip, added |-> added]
           s == scan.found
           t == Append(s, e)
<1>2. e \in Found /\ e.ip = worker[w].ip /\ e.added = added
  BY DEF Found, Host
<1>3. s \in Seq(Found)
  BY <1>1 DEF Scan
<1> HIDE DEF e
<1>4. /\ t \in Seq(Found) /\ Len(s) \in Nat /\ Len(t) = Len(s) + 1
      /\ \A n \in 1..Len(s) : t[n] = s[n]
      /\ t[Len(s) + 1] = e
  BY <1>2, <1>3
<1>5. scan' = [scan EXCEPT !.found = t]
  BY DEF ReportHost, e
<1> HIDE DEF t
<1>6. /\ scan' \in Scan /\ scan'.found = t /\ scan'.todo = scan.todo
      /\ scan'.cancelled = scan.cancelled /\ scan'.at = scan.at
  BY <1>1, <1>4, <1>5 DEF Scan
<1>7. worker' = [worker EXCEPT ![w] = Waiting]
  BY DEF ReportHost, Goto
<1> QED
  BY <1>1, <1>2, <1>4, <1>6, <1>7 DEF Indices

LEMMA ScanTypeNext ==
    ASSUME ScanType, ScanStep
    PROVE  ScanType'
<1>1. /\ scan \in {NoScan} \union Scan
      /\ worker \in [Workers -> {Off, Waiting} \union Host]
      /\ ~Scanning => \A w \in Workers : worker[w] = Off
      /\ scan = NoScan => answered = {} /\ inserted = {}
  BY DEF ScanType
<1>0. NoScan \notin Scan /\ NoScan.at = "idle"
  BY DEF NoScan, Scan
<1>2. CASE ScanNetwork
  <2>1. PICK s \in Servers, auto \in BOOLEAN :
           scan' = [at |-> "send", server |-> s, auto |-> auto, cancelled |-> FALSE,
                    secret |-> CHOOSE v \in Values : TRUE,
                    todo |-> generateIPs(First, Last), found |-> <<>>]
    BY <1>2 DEF ScanNetwork
  <2>2. (CHOOSE v \in Values : TRUE) \in Values
    BY TableAssumption
  <2>3. scan' \in Scan /\ scan'.at = "send"
    BY <2>1, <2>2 DEF Scan, Subnet
  <2>4. worker' = [w \in Workers |-> Waiting]
    BY <1>2 DEF ScanNetwork
  <2> QED
    BY <1>0, <2>3, <2>4 DEF ScanType, Scanning
<1>3. CASE Cancel
  <2>1. scan \in Scan /\ scan' = [scan EXCEPT !.cancelled = TRUE]
    BY <1>3, ScanIs DEF Cancel
  <2>2. scan' \in Scan /\ scan'.at = scan.at
    BY <2>1 DEF Scan
  <2>3. worker' = worker
    BY <1>3 DEF Cancel
  <2> QED
    BY <1>0, <1>1, <2>2, <2>3 DEF ScanType, Scanning
<1>4. ASSUME NEW w \in Workers, HandOut(w) PROVE ScanType'
  <2> DEFINE m == Min(scan.todo)
  <2>1. scan \in Scan /\ scan.todo # {} /\ scan.at = "send"
    BY <1>4, ScanIs DEF HandOut
  <2>2. m \in scan.todo /\ m \in Subnet
    BY <2>1, SubnetIs, MinIsLeast DEF Scan
  <2>3. scan' = [scan EXCEPT !.todo = scan.todo \ {m}] /\ worker' = [worker EXCEPT ![w] = [at |-> "host", ip |-> m]]
    BY <1>4 DEF HandOut
  <2> HIDE DEF m
  <2>4. scan' \in Scan /\ scan'.at = "send"
    BY <2>1, <2>3 DEF Scan
  <2>5. [at |-> "host", ip |-> m] \in Host
    BY <2>2 DEF Host
  <2> QED
    BY <1>0, <1>1, <2>3, <2>4, <2>5 DEF ScanType, Scanning
<1>5. CASE CloseJobs
  <2>1. scan \in Scan /\ scan' = [scan EXCEPT !.at = "wait"] /\ worker' = worker
    BY <1>5, ScanIs DEF CloseJobs
  <2>2. scan' \in Scan /\ scan'.at = "wait"
    BY <2>1 DEF Scan
  <2> QED
    BY <1>0, <1>1, <2>1, <2>2 DEF ScanType, Scanning
<1>6. CASE Return
  <2>1. /\ scan \in Scan /\ worker' = worker /\ \A w \in Workers : worker[w] = Off
        /\ scan' = [scan EXCEPT !.at = IF scan.todo = {} THEN "result" ELSE "error"]
    BY <1>6, ScanIs DEF Return
  <2>2. scan' \in Scan
    BY <2>1 DEF Scan
  <2> QED
    BY <1>0, <1>1, <2>1, <2>2 DEF ScanType, Scanning
<1>7. CASE Respond
  <2>1. /\ scan' = NoScan /\ worker' = worker /\ answered' = {} /\ inserted' = {}
        /\ ~Scanning
    BY <1>7 DEF Respond, Scanning
  <2> QED
    BY <1>0, <1>1, <2>1 DEF ScanType, Scanning
<1>8. ASSUME NEW w \in Workers, worker[w] # Off,
             scan' = scan, \E r \in {Off, Waiting} \union Host : worker' = [worker EXCEPT ![w] = r]
      PROVE  ScanType'
  <2>1. Scanning /\ scan \in Scan
    BY <1>1, <1>8, ScanIs
  <2> QED
    BY <1>0, <1>1, <1>8, <2>1 DEF ScanType, Scanning
<1>9. ASSUME NEW w \in Workers, NEW added \in BOOLEAN, worker[w] \in Host, ReportHost(w, added)
      PROVE  ScanType'
  <2>1. Scanning
    BY <1>9, ScanIs
  <2>2. scan' \in Scan /\ scan'.at = scan.at /\ worker' = [worker EXCEPT ![w] = Waiting]
    BY <1>9, Reported
  <2> QED
    BY <1>0, <1>1, <2>1, <2>2 DEF ScanType, Scanning
<1>10. ASSUME NEW w \in Workers, Work(w) PROVE ScanType'
  <2>1. CASE Leave(w)
    <3>1. worker[w] # Off
      BY <2>1 DEF Leave, Waiting, Off
    <3> QED
      BY <1>8, <2>1, <3>1 DEF Leave, Goto
  <2>2. CASE Probe(w)
    <3>1. worker[w] \in Host /\ worker[w] # Off
      BY <2>2, ScanIs DEF Probe, Off
    <3>2. [worker[w] EXCEPT !.at = "add"] \in Host
      BY <3>1 DEF Host
    <3>3. \/ scan' = scan /\ \E r \in {Off, Waiting} \union Host : worker' = [worker EXCEPT ![w] = r]
          \/ ReportHost(w, FALSE)
      BY <2>2, <3>2 DEF Probe, Goto
    <3> QED
      BY <1>8, <1>9, <3>1, <3>3
  <2>3. CASE Add(w)
    <3>1. worker[w] \in Host /\ scan \in Scan
      BY <2>3, ScanIs DEF Add
    <3>2. \E added \in BOOLEAN : ReportHost(w, added)
      <4>1. scan.cancelled \in {TRUE, FALSE}
        BY <3>1 DEF Scan
      <4>2. CASE scan.cancelled = TRUE
        <5>1. ReportHost(w, TRUE) \/ ReportHost(w, FALSE)
          BY <2>3, <4>2 DEF Add
        <5> QED
          BY <5>1
      <4>3. CASE scan.cancelled = FALSE
        <5>1. ReportHost(w, TRUE) \/ ReportHost(w, FALSE)
          BY <2>3, <4>3 DEF Add
        <5> QED
          BY <5>1
      <4> QED
        BY <4>1, <4>2, <4>3
    <3> QED
      BY <1>9, <3>1, <3>2
  <2> QED
    BY <1>10, <2>1, <2>2, <2>3 DEF Work
<1>11. CASE scan' = NoScan /\ worker' = [w \in Workers |-> Off] /\ answered' = {} /\ inserted' = {}
  BY <1>0, <1>11 DEF ScanType, Scanning
<1>12. CASE UNCHANGED scanVars
  BY <1>1, <1>12 DEF ScanType, Scanning, scanVars
<1> QED
  BY <1>2, <1>3, <1>4, <1>5, <1>6, <1>7, <1>10, <1>11, <1>12 DEF ScanStep, Produce

(* Workers that leave, and the end of the queue, disturb nothing. *)
LEMMA PartsKept ==
    ASSUME ScanParts, scan'.found = scan.found, scan'.todo = scan.todo,
           answered' = answered, inserted' = inserted,
           \A w \in Workers : worker'[w] \in Host => worker'[w] = worker[w],
           \A w \in Workers : worker[w].at = "add" => worker'[w] = worker[w]
    PROVE  ScanParts'
<1>1. Indices' = Indices /\ \A n \in Indices : scan'.found[n] = scan.found[n]
  BY DEF Indices
<1>2. ASSUME NEW i \in answered, NEW w \in Workers, worker[w] = [at |-> "add", ip |-> i]
      PROVE  worker'[w] = [at |-> "add", ip |-> i]
  BY <1>2
<1> QED
  BY <1>1, <1>2 DEF ScanParts, FoundAnswered, AddedInserted, Indices

LEMMA PartsHandedOut ==
    ASSUME ScanType, ScanParts, NEW w \in Workers, HandOut(w)
    PROVE  ScanParts'
<1>0. FoundAnswered /\ AddedInserted
  BY DEF ScanParts
<1> DEFINE m == Min(scan.todo)
<1>1. scan \in Scan /\ scan.todo # {} /\ worker[w] = Waiting
  BY ScanIs DEF HandOut
<1>2. m \in scan.todo /\ m \in Subnet
  BY <1>1, SubnetIs, MinIsLeast DEF Scan
<1>3. /\ scan' = [scan EXCEPT !.todo = scan.todo \ {m}]
      /\ worker' = [worker EXCEPT ![w] = [at |-> "host", ip |-> m]]
      /\ answered' = answered /\ inserted' = inserted
  BY DEF HandOut
<1> HIDE DEF m
<1>4. scan'.todo = scan.todo \ {m} /\ scan'.found = scan.found
  BY <1>1, <1>3 DEF Scan
<1>5. Indices' = Indices /\ \A n \in Indices : scan'.found[n].ip = scan.found[n].ip
  BY <1>4 DEF Indices
<1>6. worker[w] \notin Host /\ Waiting.at # "add"
  BY <1>1 DEF Host, Waiting
<1>7. /\ worker'[w] = [at |-> "host", ip |-> m]
      /\ \A x \in Workers \ {w} : worker'[x] = worker[x]
  BY <1>3 DEF ScanType
<1>8. ASSUME NEW i \in answered
      PROVE  \/ \E n \in Indices : scan.found[n].ip = i
             \/ \E x \in Workers : worker'[x] = [at |-> "add", ip |-> i]
  BY <1>1, <1>6, <1>7 DEF ScanParts
<1>9. ASSUME NEW x \in Workers, worker'[x] \in Host
      PROVE  /\ worker'[x].ip \notin scan'.todo
             /\ \A n \in Indices : scan.found[n].ip # worker'[x].ip
             /\ \A y \in Workers : worker'[y] \in Host /\ worker'[y].ip = worker'[x].ip => y = x
             /\ worker'[x].at = "add" => worker'[x].ip \in answered
  <2>1. CASE x = w
    <3>1. worker'[x].ip = m /\ worker'[x].at = "host"
      BY <1>7, <2>1
    <3>2. ASSUME NEW y \in Workers \ {w}, worker'[y] \in Host PROVE worker'[y].ip # m
      BY <1>2, <1>7, <3>2 DEF ScanParts
    <3>3. \A n \in Indices : scan.found[n].ip # m
      BY <1>0, <1>2 DEF FoundAnswered
    <3> QED
      BY <1>4, <2>1, <3>1, <3>2, <3>3
  <2>2. CASE x # w
    <3>1. worker'[x] = worker[x] /\ worker[x].ip \notin scan.todo
      BY <1>7, <1>9, <2>2 DEF ScanParts
    <3>2. worker'[w].ip = m /\ m # worker[x].ip
      BY <1>2, <1>7, <3>1
    <3> QED
      BY <1>4, <1>7, <1>9, <3>1, <3>2 DEF ScanParts
  <2> QED
    BY <2>1, <2>2
<1>10. FoundAnswered' /\ AddedInserted'
  BY <1>0, <1>3, <1>4, <1>5 DEF FoundAnswered, AddedInserted
<1>11. /\ answered' \subseteq Subnet
       /\ \A p, n \in Indices' : scan'.found[p].ip = scan'.found[n].ip => p = n
       /\ \A i \in inserted' : \E n \in Indices' : scan'.found[n].ip = i /\ scan'.found[n].added
  BY <1>3, <1>4, <1>5 DEF ScanParts
<1>12. /\ \A x \in Workers : worker'[x] \in Host =>
             \A n \in Indices' : scan'.found[n].ip # worker'[x].ip
       /\ \A i \in answered' : \/ \E n \in Indices' : scan'.found[n].ip = i
                              \/ \E x \in Workers : worker'[x] = [at |-> "add", ip |-> i]
  BY <1>3, <1>4, <1>5, <1>8, <1>9
<1> QED
  BY <1>3, <1>9, <1>10, <1>11, <1>12 DEF ScanParts

(* A host that is being added has answered. *)
LEMMA PartsAnswered ==
    ASSUME ScanType, ScanParts, NEW w \in Workers, worker[w] \in Host,
           answered' = answered \union {worker[w].ip}, inserted' = inserted, scan' = scan,
           worker' = [worker EXCEPT ![w] = [worker[w] EXCEPT !.at = "add"]]
    PROVE  ScanParts'
<1> DEFINE i == worker[w].ip
<1>1. /\ worker'[w] = [at |-> "add", ip |-> i]
      /\ \A x \in Workers \ {w} : worker'[x] = worker[x]
      /\ i \in Subnet
  BY DEF ScanType, Host
<1>2. \A x \in Workers : /\ worker'[x] \in Host => worker[x] \in Host
                        /\ worker'[x].ip = worker[x].ip
  BY <1>1
<1>3. Indices' = Indices /\ \A n \in Indices : scan'.found[n].ip = scan.found[n].ip
  BY DEF Indices
<1>4. ASSUME NEW j \in answered'
      PROVE  \/ \E n \in Indices : scan.found[n].ip = j
             \/ \E x \in Workers : worker'[x] = [at |-> "add", ip |-> j]
  <2>1. CASE j = i
    BY <1>1, <2>1
  <2>2. CASE j # i
    <3>1. j \in answered
      BY <2>2
    <3>2. ASSUME NEW x \in Workers, worker[x] = [at |-> "add", ip |-> j]
          PROVE  worker'[x] = [at |-> "add", ip |-> j]
      BY <1>1, <2>2, <3>2
    <3> QED
      BY <3>1, <3>2 DEF ScanParts
  <2> QED
    BY <2>1, <2>2
<1>5. ASSUME NEW x \in Workers, worker'[x] \in Host
      PROVE  /\ worker'[x].ip \notin scan.todo
             /\ \A n \in Indices : scan.found[n].ip # worker'[x].ip
             /\ \A y \in Workers : worker'[y] \in Host /\ worker'[y].ip = worker'[x].ip => y = x
             /\ worker'[x].at = "add" => worker'[x].ip \in answered'
  <2>1. worker[x] \in Host /\ worker'[x].ip = worker[x].ip
    BY <1>2, <1>5
  <2>2. worker'[x].at = "add" => worker'[x].ip \in answered'
    <3>1. CASE x = w
      BY <1>1, <3>1
    <3>2. CASE x # w
      BY <1>1, <2>1, <3>2 DEF ScanParts
    <3> QED
      BY <3>1, <3>2
  <2> QED
    BY <1>2, <2>1, <2>2 DEF ScanParts
<1>6. answered' \subseteq Subnet
  BY <1>1 DEF ScanParts
<1> QED
  BY <1>3, <1>4, <1>5, <1>6, SMTT(30) DEF ScanParts, FoundAnswered, AddedInserted, Indices

LEMMA PartsReported ==
    ASSUME ScanType, ScanParts, NEW w \in Workers, worker[w] \in Host, NEW added \in BOOLEAN,
           ReportHost(w, added), answered' = answered \union {worker[w].ip},
           inserted' = IF added THEN inserted \union {worker[w].ip} ELSE inserted
    PROVE  ScanParts'
<1>0. FoundAnswered /\ AddedInserted
  BY DEF ScanParts
<1> DEFINE i == worker[w].ip
           k == Len(scan.found) + 1
<1>1. /\ scan \in Scan /\ scan'.todo = scan.todo
      /\ k \in Nat /\ Indices' = Indices \union {k} /\ k \notin Indices
      /\ scan'.found[k].ip = i /\ scan'.found[k].added = added
      /\ \A n \in Indices : scan'.found[n].ip = scan.found[n].ip /\ scan'.found[n] = scan.found[n]
      /\ worker' = [worker EXCEPT ![w] = Waiting]
  <2>1. \A n \in Indices : scan'.found[n] = scan.found[n]
    BY Reported
  <2>2. Len(scan.found) \in Nat /\ Len(scan'.found) = Len(scan.found) + 1
    BY Reported
  <2>3. Indices' = Indices \union {k} /\ k \notin Indices /\ k \in Nat
    BY <2>2 DEF Indices
  <2> QED
    BY <2>1, <2>3, Reported
<1>2. i \in Subnet /\ i \notin scan.todo /\ \A n \in Indices : scan.found[n].ip # i
  BY DEF ScanParts, Host
<1>3. /\ worker'[w] \notin Host
      /\ \A x \in Workers \ {w} : worker'[x] = worker[x]
      /\ \A x \in Workers \ {w} : worker[x] \in Host => worker[x].ip # i
  BY <1>1 DEF ScanType, ScanParts, Waiting, Host
<1> HIDE DEF i, k
<1>4. \A m, n \in Indices' : scan'.found[m].ip = scan'.found[n].ip => m = n
  BY <1>1, <1>2 DEF ScanParts
<1>5. answered' = answered \union {i} /\ answered' \subseteq Subnet
  BY <1>2 DEF ScanParts, i
<1>6. ASSUME NEW n \in Indices'
      PROVE  /\ scan'.found[n].ip \in answered' /\ scan'.found[n].ip \notin scan'.todo
             /\ scan'.found[n].added => scan'.found[n].ip \in inserted'
  <2>1. CASE n = k
    BY <1>1, <1>2, <1>5, <2>1 DEF i
  <2>2. CASE n # k
    <3>1. n \in Indices /\ scan'.found[n].ip = scan.found[n].ip /\ scan'.found[n] = scan.found[n]
      BY <1>1, <2>2
    <3>2. scan.found[n].ip \in answered /\ scan.found[n].ip \notin scan.todo
      BY <1>0, <3>1 DEF FoundAnswered
    <3>3. scan.found[n].added => scan.found[n].ip \in inserted
      BY <1>0, <3>1 DEF AddedInserted
    <3> QED
      BY <1>1, <1>5, <3>1, <3>2, <3>3
  <2> QED
    BY <2>1, <2>2
<1>7. ASSUME NEW x \in Workers, worker'[x] \in Host
      PROVE  /\ worker'[x].ip \notin scan'.todo
             /\ \A n \in Indices' : scan'.found[n].ip # worker'[x].ip
             /\ \A y \in Workers : worker'[y] \in Host /\ worker'[y].ip = worker'[x].ip => y = x
             /\ worker'[x].at = "add" => worker'[x].ip \in answered'
  <2>1. x # w /\ worker'[x] = worker[x] /\ worker[x].ip # i
    BY <1>3, <1>7
  <2>2. /\ worker[x].ip \notin scan.todo
        /\ \A n \in Indices : scan.found[n].ip # worker[x].ip
        /\ \A y \in Workers : worker[y] \in Host /\ worker[y].ip = worker[x].ip => y = x
        /\ worker[x].at = "add" => worker[x].ip \in answered
    BY <1>7, <2>1 DEF ScanParts
  <2>3. \A n \in Indices' : scan'.found[n].ip # worker[x].ip
    BY <1>1, <2>1, <2>2
  <2> QED
    BY <1>1, <1>3, <1>5, <2>1, <2>2, <2>3
<1>8. ASSUME NEW j \in answered'
      PROVE  \/ \E n \in Indices' : scan'.found[n].ip = j
             \/ \E x \in Workers : worker'[x] = [at |-> "add", ip |-> j]
  <2>1. CASE j = i
    BY <1>1, <2>1
  <2>2. CASE j # i
    <3>1. CASE \E n \in Indices : scan.found[n].ip = j
      BY <1>1, <3>1
    <3>2. ASSUME NEW x \in Workers, worker[x] = [at |-> "add", ip |-> j]
          PROVE  worker'[x] = [at |-> "add", ip |-> j]
      BY <1>3, <2>2, <3>2 DEF i
    <3> QED
      BY <1>5, <2>2, <3>1, <3>2 DEF ScanParts
  <2> QED
    BY <2>1, <2>2
<1>9. ASSUME NEW j \in inserted'
      PROVE  \E n \in Indices' : scan'.found[n].ip = j /\ scan'.found[n].added
  <2>1. CASE j \in inserted
    <3>1. PICK n \in Indices : scan.found[n].ip = j /\ scan.found[n].added
      BY <2>1 DEF ScanParts
    <3> QED
      BY <1>1, <3>1
  <2>2. CASE j \notin inserted
    <3>1. added /\ j = i
      BY <2>2 DEF i
    <3> QED
      BY <1>1, <3>1
  <2> QED
    BY <2>1, <2>2
<1> QED
  <2>1. FoundAnswered' /\ AddedInserted'
    BY <1>6 DEF FoundAnswered, AddedInserted
  <2> QED
    BY <1>4, <1>5, <1>7, <1>8, <1>9, <2>1 DEF ScanParts

LEMMA ScanOKNext ==
    ASSUME ScanType, ScanType', ScanOK, ScanStep
    PROVE  ScanOK'
<1> SUFFICES ASSUME scan' # NoScan, ~scan'.cancelled
             PROVE  ScanParts'
  BY DEF ScanOK
<1>0. ScanType
  OBVIOUS
<1>1. CASE ScanNetwork
  <2>1. /\ worker' = [w \in Workers |-> Waiting] /\ answered' = {} /\ inserted' = {}
        /\ scan'.found = <<>>
    BY <1>1 DEF ScanNetwork, ScanType
  <2>2. Indices' = {} /\ \A w \in Workers : worker'[w] \notin Host
    BY <2>1 DEF Indices, Host, Waiting
  <2> QED
    BY <2>1, <2>2 DEF ScanParts, FoundAnswered, AddedInserted
<1>2. CASE Cancel
  <2>1. scan \in Scan /\ scan'.cancelled
    BY <1>2, ScanIs DEF Cancel, Scan
  <2> QED
    BY <2>1
<1>3. ASSUME scan \in Scan, ~scan.cancelled PROVE ScanParts
  BY <1>3 DEF ScanOK, Scan, NoScan
<1>4. CASE CloseJobs \/ Return
  <2>1. /\ scan \in Scan /\ worker' = worker /\ answered' = answered /\ inserted' = inserted
        /\ scan'.cancelled = scan.cancelled /\ scan'.found = scan.found /\ scan'.todo = scan.todo
    BY <1>4, ScanIs DEF CloseJobs, Return, Scan
  <2> QED
    BY <1>3, <2>1, PartsKept
<1>5. CASE Respond
  BY <1>5 DEF Respond
<1>6. ASSUME NEW w \in Workers, HandOut(w) PROVE ScanParts'
  <2>1. scan \in Scan /\ scan'.cancelled = scan.cancelled
    BY <1>6, ScanIs DEF HandOut, Scan
  <2> QED
    BY <1>3, <1>6, <2>1, PartsHandedOut
<1>7. ASSUME NEW w \in Workers, NEW r \in {Off, Waiting}, worker[w].at # "add", worker[w] # Off,
             scan' = scan, answered' = answered, inserted' = inserted,
             worker' = [worker EXCEPT ![w] = r]
      PROVE  ScanParts'
  <2>1. scan \in Scan
    BY <1>7, ScanIs DEF ScanType
  <2>2. Off \notin Host /\ Waiting \notin Host
    BY DEF Host, Off, Waiting
  <2>3. worker'[w] = r /\ \A x \in Workers \ {w} : worker'[x] = worker[x]
    BY <1>7 DEF ScanType
  <2>4. ScanParts
    BY <1>3, <1>7, <2>1
  <2> QED
    BY <1>7, <2>2, <2>3, <2>4, PartsKept
<1>8. ASSUME NEW w \in Workers, worker[w] \in Host, NEW added \in BOOLEAN, ReportHost(w, added),
             answered' = answered \union {worker[w].ip},
             inserted' = IF added THEN inserted \union {worker[w].ip} ELSE inserted
      PROVE  ScanParts'
  <2>1. scan \in Scan /\ scan'.cancelled = scan.cancelled
    BY <1>8, Reported
  <2>2. ScanParts
    BY <1>3, <2>1
  <2> QED
    BY <1>8, <2>2, PartsReported
<1>9. ASSUME NEW w \in Workers, Work(w) PROVE ScanParts'
  <2>1. CASE Leave(w)
    <3>1. worker[w] # Off /\ worker[w].at # "add"
      BY <2>1 DEF Leave, Waiting, Off
    <3> QED
      BY <1>7, <2>1, <3>1 DEF Leave, Goto
  <2>2. CASE Probe(w)
    <3>1. worker[w] \in Host /\ worker[w] # Off /\ worker[w].at = "host" /\ scan \in Scan
      BY <2>2, ScanIs DEF Probe, Off
    <3>2. inserted' = inserted
      BY <2>2 DEF Probe
    <3>3. CASE scan' = scan
      <4>1. ~scan.cancelled /\ ScanParts
        BY <1>3, <3>1, <3>3
      <4>2. CASE Goto(w, Waiting) /\ answered' = answered
        BY <1>7, <3>1, <3>2, <3>3, <4>2 DEF Goto
      <4>3. CASE ~(Goto(w, Waiting) /\ answered' = answered)
        <5>1. CASE ReportHost(w, FALSE)
          BY <1>8, <2>2, <3>1, <3>2, <4>1, <4>3, <5>1 DEF Probe
        <5>2. CASE ~ReportHost(w, FALSE)
          <6>1. /\ answered' = answered \union {worker[w].ip}
                /\ worker' = [worker EXCEPT ![w] = [worker[w] EXCEPT !.at = "add"]]
            BY <2>2, <4>1, <4>3, <5>2 DEF Probe, Goto
          <6> QED
            BY <3>1, <3>2, <3>3, <4>1, <6>1, PartsAnswered
        <5> QED
          BY <5>1, <5>2
      <4> QED
        BY <4>2, <4>3
    <3>4. CASE scan' # scan
      <4>1. ReportHost(w, FALSE) /\ answered' = answered \union {worker[w].ip}
        BY <2>2, <3>4 DEF Probe
      <4> QED
        BY <1>8, <3>1, <3>2, <4>1
    <3> QED
      BY <3>3, <3>4
  <2>3. CASE Add(w)
    <3>1. worker[w] \in Host /\ worker[w].at = "add" /\ scan \in Scan
      BY <2>3, ScanIs DEF Add
    <3>2. answered' = answered /\ worker[w].ip \in {worker[w].ip}
      BY <2>3 DEF Add
    <3>3. CASE ReportHost(w, FALSE) /\ inserted' = inserted
      <4>1. ScanParts
        BY <1>3, <3>1, <3>3, Reported
      <4>2. answered' = answered \union {worker[w].ip}
        BY <3>1, <3>2, <4>1 DEF ScanParts
      <4> QED
        BY <1>8, <3>1, <3>3, <4>2
    <3>4. CASE ~(ReportHost(w, FALSE) /\ inserted' = inserted)
      <4>1. PICK added \in {TRUE, ~scan.cancelled} : ReportHost(w, added)
        BY <2>3, <3>4 DEF Add
      <4>2. inserted' = inserted \union {worker[w].ip}
        BY <2>3, <3>4 DEF Add
      <4>3. scan'.cancelled = scan.cancelled
        BY <3>1, <4>1 DEF ReportHost, Scan
      <4>4. added = TRUE
        BY <4>1, <4>3
      <4>5. ReportHost(w, TRUE)
        BY <4>1, <4>4
      <4>6. ScanParts
        BY <1>3, <3>1, <4>3
      <4>7. answered' = answered \union {worker[w].ip}
        BY <3>1, <3>2, <4>6 DEF ScanParts
      <4> QED
        BY <1>8, <3>1, <4>2, <4>5, <4>7
    <3> QED
      BY <3>3, <3>4
  <2> QED
    BY <1>9, <2>1, <2>2, <2>3 DEF Work
<1>10. CASE UNCHANGED scanVars
  <2>1. scan' = scan /\ worker' = worker /\ answered' = answered /\ inserted' = inserted
    BY <1>10 DEF scanVars
  <2>2. ScanParts
    BY <2>1 DEF ScanOK
  <2> QED
    BY <2>1, <2>2, PartsKept
<1> QED
  BY <1>1, <1>2, <1>4, <1>5, <1>6, <1>9, <1>10 DEF ScanStep, Produce

(* The answer of a scan that nobody has cancelled: its workers are gone,   *)
(* so every host that answered is found, and the found ones are counted by *)
(* their positions.                                                        *)
LEMMA WholeScan ==
    ASSUME ScanType, ScanOK
    PROVE  ScanIsComplete
<1> SUFFICES ASSUME scan.at = "result", ~scan.cancelled
             PROVE  LET entries == {scan.found[n] : n \in Indices}
                    IN  /\ Len(scan.found) = Cardinality(answered)
                        /\ {e.ip : e \in entries} = answered
                        /\ {e.ip : e \in {x \in entries : x.added}} = inserted
                        /\ Last - First >= 2 => answered \intersect {First, Last} = {}
  BY DEF ScanIsComplete, Indices
<1> DEFINE entries == {scan.found[n] : n \in Indices}
           k == Len(scan.found)
<1>1. scan \in Scan /\ ~Scanning
  BY ScanIs DEF Scanning
<1>2. k \in Nat
  BY <1>1 DEF Scan
<1>3. ScanParts
  BY <1>1 DEF ScanOK, Scan, NoScan
<1>4. \A w \in Workers : worker[w] = Off
  BY <1>1 DEF ScanType
<1>5. \A i \in answered : \E n \in Indices : scan.found[n].ip = i
  <2>1. \A w \in Workers : worker[w].at # "add"
    BY <1>4 DEF Off
  <2>2. \A i \in answered : \/ \E n \in Indices : scan.found[n].ip = i
                           \/ \E w \in Workers : worker[w] = [at |-> "add", ip |-> i]
    BY <1>3 DEF ScanParts
  <2>3. ASSUME NEW i, NEW w \in Workers PROVE worker[w] # [at |-> "add", ip |-> i]
    BY <2>1
  <2> QED
    BY <2>2, <2>3
<1>6. \A n \in Indices : /\ scan.found[n].ip \in answered
                         /\ scan.found[n].added => scan.found[n].ip \in inserted
  <2>1. FoundAnswered /\ AddedInserted
    BY <1>3 DEF ScanParts
  <2> QED
    BY <2>1 DEF FoundAnswered, AddedInserted
<1>7. \A i \in inserted : \E n \in Indices : scan.found[n].ip = i /\ scan.found[n].added
  BY <1>3 DEF ScanParts
<1>8. {e.ip : e \in entries} = answered
  BY <1>5, <1>6
<1>9. {e.ip : e \in {x \in entries : x.added}} = inserted
  BY <1>6, <1>7
<1>10. Last - First >= 2 => answered \intersect {First, Last} = {}
  <2>1. answered \subseteq Subnet
    BY <1>3 DEF ScanParts
  <2> QED
    BY <2>1, SubnetIs
<1>11. k = Cardinality(answered)
  <2> DEFINE f == [n \in 1..k |-> scan.found[n].ip]
  <2>1. f \in Bijection(1..k, answered)
    <3>1. f \in [1..k -> answered]
      BY <1>6 DEF Indices
    <3>2. \A m, n \in 1..k : f[m] = f[n] => m = n
      BY <1>3 DEF ScanParts, FoundAnswered, AddedInserted, Indices
    <3>3. \A i \in answered : \E n \in 1..k : f[n] = i
      BY <1>5 DEF Indices
    <3> QED
      BY <3>1, <3>2, <3>3 DEF Bijection, Injection, Surjection, IsInjective
  <2>2. ExistsBijection(1..k, answered)
    BY <2>1 DEF ExistsBijection
  <2> QED
    BY <1>2, <2>2, FS_CountingElements
<1> QED
  BY <1>8, <1>9, <1>10, <1>11

-----------------------------------------------------------------------------
(* The invariant: the types; every copy of a row is as old as the history  *)
(* says; the rows a rotation has not reached are known to it or strays;    *)
(* and every host that answered is in one place.                           *)
DiscoveryInv == TableType /\ JobType /\ CopiesOK /\ RotationOK /\ ScanType /\ ScanOK

LEMMA InitInv ==
    ASSUME Init
    PROVE  DiscoveryInv
<1>1. /\ key = [s \in Servers |-> "old"] /\ req = [h \in Handlers |-> Idle] /\ job = NoJob
      /\ entered = [i \in IPs |-> [f \in Fields |-> IF i \in Known THEN Initial ELSE Blank]]
      /\ behind = {} /\ lost = {} /\ strays = {}
  BY DEF Init, TableInit
<1>2. PICK under \in {"none", "old"} :
         rows = [i \in IPs |-> IF i \in Known THEN Row(1, entered[i], under) ELSE Absent]
  BY DEF Init, TableInit
<1>3. /\ job.at = "idle" /\ job.seen = [i \in {} |-> Absent] /\ job.done = FALSE
      /\ job.todo = {} /\ job.runs = 0
  BY <1>1 DEF NoJob
<1>4. entered \in [IPs -> [Fields -> Secret]]
  BY <1>1 DEF Secret
<1>5. ASSUME NEW i \in IPs
      PROVE  /\ rows[i] \in {Absent} \union DeviceRow
             /\ rows[i] # Absent =>
                   \A f \in Fields : /\ rows[i].sec[f].val = entered[i][f]
                                     /\ rows[i].sec[f].under # "new"
  <2>1. CASE i \in Known
    <3>1. entered[i] \in [Fields -> Secret]
      BY <1>4
    <3>2. /\ Row(1, entered[i], under) \in DeviceRow
          /\ \A f \in Fields : /\ Row(1, entered[i], under).sec[f].val = entered[i][f]
                               /\ Row(1, entered[i], under).sec[f].under \in {"plain", under}
      BY <3>1, RowWritten
    <3> QED
      BY <1>2, <2>1, <3>2
  <2>2. CASE i \notin Known
    BY <1>2, <2>2
  <2> QED
    BY <2>1, <2>2
<1>6. TableType
  BY <1>1, <1>2, <1>4, <1>5 DEF TableType
<1>7. JobType
  <2>1. job = [at |-> job.at, runs |-> job.runs, seen |-> job.seen, todo |-> job.todo,
               done |-> job.done]
    BY <1>1 DEF NoJob
  <2>2. DOMAIN job.seen = {} /\ job.seen = [i \in DOMAIN job.seen |-> job.seen[i]]
    BY <1>3
  <2> QED
    BY <1>3, <2>1, <2>2 DEF JobType
<1>8. CopiesOK
  <2>1. EditsStick
    BY <1>5 DEF EditsStick, Present
  <2>2. EditsCopied
    BY <1>1 DEF EditsCopied, Idle, Edit
  <2>3. JobCopied
    BY <1>3 DEF JobCopied
  <2> QED
    BY <2>1, <2>2, <2>3 DEF CopiesOK
<1>9. RotationOK
  BY <1>1, <1>3, <1>5 DEF RotationOK, Present
<1>10. ScanType /\ ScanOK
  BY DEF Init, ScanType, ScanOK, Scanning, NoScan
<1> QED
  BY <1>6, <1>7, <1>8, <1>9, <1>10 DEF DiscoveryInv

LEMMA NextInv ==
    ASSUME DiscoveryInv, [Next]_vars
    PROVE  DiscoveryInv'
<1>1. TableType /\ JobType /\ CopiesOK /\ RotationOK /\ ScanType /\ ScanOK
  BY DEF DiscoveryInv
<1>2. TableStep /\ ScanStep
  BY <1>1, NextIs
<1>3. TableType' /\ ScanType'
  BY <1>1, <1>2, TableTypeNext, ScanTypeNext
<1>4. JobType'
  BY <1>1, <1>2, <1>3, JobTypeNext
<1>5. CopiesOK'
  BY <1>1, <1>2, CopiesNext
<1>6. RotationOK'
  BY <1>1, <1>2, <1>3, RotationNext
<1>7. ScanOK'
  BY <1>1, <1>2, <1>3, ScanOKNext
<1> QED
  BY <1>3, <1>4, <1>5, <1>6, <1>7 DEF DiscoveryInv

(* The invariant holds in every state that servers, edits, rotations,      *)
(* restarts and a scan can reach.                                          *)
THEOREM DiscoveryInvariance == Spec => []DiscoveryInv
<1>1. Init => DiscoveryInv
  BY InitInv
<1>2. DiscoveryInv /\ [Next]_vars => DiscoveryInv'
  BY NextInv
<1> QED
  BY <1>1, <1>2, PTL DEF Spec

(* However many edits, rotations and restarts overlap, a secret is what a  *)
(* form last said it is, unless one that had read the row before that has  *)
(* written it back.                                                        *)
THEOREM EditsStickHolds == Spec => []EditsStick
<1>1. DiscoveryInv => EditsStick
  BY DEF DiscoveryInv, CopiesOK
<1> QED
  BY <1>1, DiscoveryInvariance, PTL

(* A rotation that is done has left nothing behind but the rows a server   *)
(* with the old key wrote meanwhile: servers with the new key list all     *)
(* others, and as long as none is done every server lists everything.      *)
THEOREM RotationIsWholeHolds == Spec => []RotationIsWhole
<1>1. DiscoveryInv => RotationIsWhole
  BY WholeRotation DEF DiscoveryInv
<1> QED
  BY <1>1, DiscoveryInvariance, PTL

(* The answer of a scan of any subnet by any number of workers, if it was  *)
(* not cancelled, names every host that answered exactly once and marks    *)
(* as added those it has put into the table.                               *)
THEOREM ScanIsCompleteHolds == Spec => []ScanIsComplete
<1>1. DiscoveryInv => ScanIsComplete
  BY WholeScan DEF DiscoveryInv
<1> QED
  BY <1>1, DiscoveryInvariance, PTL
=============================================================================

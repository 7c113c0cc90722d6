---------------------------- MODULE LldpScan_proofs ----------------------------
(***************************************************************************)
(* What a stored scan is worth, for any devices, neighbours and cap, while *)
(* cables are moved, walks fail and the worker is stopped at any point.    *)
(***************************************************************************)
EXTENDS LldpScan, SequenceTheorems, FiniteSetTheorems, WellFoundedInduction, TLAPS

-----------------------------------------------------------------------------
(* The invariant *)

Values == Neighbors \union {Nothing}

ScanTypeOK ==
    /\ scan \in Nat /\ scans \subseteq 1..scan
    /\ phase \in {"idle", "device", "walk", "insert"}
    /\ todo \in Seq(Devices) /\ table \in 1..6
    /\ shows \in Shown /\ seen \in [Devices -> [Keys -> SUBSET Values]]
    /\ entries \in [DOMAIN entries -> [Attributes -> Values]] /\ DOMAIN entries \subseteq Keys
    /\ cancelled \in BOOLEAN

(* What the phase says of the locals of the scan, and the stop of the scan. *)
PhasesOK ==
    /\ phase \in {"idle", "device"} => entries = NoEntries /\ links = {} /\ table = 1
    /\ phase = "idle" => todo = <<>>
    /\ phase \in {"walk", "insert"} => todo # <<>>
    /\ phase = "walk" => links = {}
    /\ phase # "idle" => scan # 0
    /\ phase # "idle" /\ cancelled => scan \in cut

(* Since the scan has started, a key shows only what it is known to have   *)
(* shown.                                                                  *)
SeenOK == scan # 0 => \A d \in Devices, k \in Keys : shows[d][k] \in seen[d][k]

Told(d, k, e) == \A a \in Attributes : e[a] # Nothing => e[a] \in seen[d][k]

FactsOK ==
    /\ \A k \in DOMAIN entries : Told(Device, k, entries[k])
    /\ \A l \in links : l.local = Device
    /\ \A l \in links \union stored :
          l.local \in Devices /\ l.key \in Keys /\ Told(l.local, l.key, l.entry)

(* Every scan but the running one was finished or cut short. *)
PagesOK == \A s \in scans : s \in finished \union cut \/ (s = scan /\ phase # "idle")

(* see[d] is what the keys of d have shown; whatever was there fits the cap *)
Fits(see, d) == Cardinality({j \in Keys : see[d][j] # {Nothing}}) <= Cap

HasLink(S, d, k, n) ==
    \E l \in S : /\ l.local = d /\ l.key.port = k.port
                 /\ l.entry.sysName = Value(n, "sysName")
                 /\ l.entry.portId = n

(* All that has stayed at d and fits is among the links of S. *)
Whole(see, S, d) ==
    Fits(see, d) => \A k \in Keys, n \in Named \union Described :
                        see[d][k] = {n} => HasLink(S, d, k, n)

(* What table t tells of what has stayed at d is in the entries E. *)
Walked(see, E, d, t) ==
    (Fits(see, d) /\ Tables[t] \in Attributes) =>
        \A k \in Keys, n \in Neighbors :
            see[d][k] = {n} => k \in DOMAIN E /\ E[k][Tables[t]] = Value(n, Tables[t])

(* The entries E are of keys of d where something has been. *)
OfUsed(see, E, d) == \A k \in DOMAIN E : \E x \in see[d][k] : x # Nothing

Pending == {todo[i] : i \in 1..Len(todo)}

WalkOK ==
    phase = "walk" => /\ OfUsed(seen, entries, Device)
                      /\ \A t \in 1..(table - 1) : Walked(seen, entries, Device, t)

InsertOK ==
    (phase = "insert" /\ Device \notin missed) => Whole(seen, links \union stored, Device)

DoneOK ==
    (phase # "idle" \/ scan \in scans \ cut) =>
        \A d \in Devices \ (missed \union Pending) : Whole(seen, stored, d)

WholeOK == WalkOK /\ InsertOK /\ DoneOK

ScanInv == ScanTypeOK /\ PhasesOK /\ SeenOK /\ FactsOK /\ PagesOK /\ WholeOK

-----------------------------------------------------------------------------
(* Data *)

LEMMA TableFacts ==
    /\ Len(Tables) = 6
    /\ \A t \in 1..6 : Tables[t] \in Attributes <=> t > 2
    /\ \A t, u \in 1..6 : Tables[t] = Tables[u] => t = u
BY DEF Tables, Attributes

LEMMA ValueFacts ==
    /\ \A n, a : Value(n, a) \in {n, Nothing}
    /\ \A n : Value(n, "portId") = n
    /\ \A n \in Named \union Described :
          n \in Neighbors /\ (Value(n, "sysName") # Nothing \/ Value(n, "sysDesc") # Nothing)
<1>2. \A n \in Named \union Described : n \in Neighbors /\ n # Nothing
  BY LldpAssumption
<1> QED
  BY <1>2 DEF Value

(* A finite set of scan ids has a greatest one. *)
LEMMA LatestIsAScan ==
    ASSUME NEW n \in Nat, NEW S \in SUBSET (1..n), S # {}
    PROVE  Max(S) \in S
<1> DEFINE T == {n - x : x \in S}
<1>1. T \subseteq Nat /\ T # {}
  OBVIOUS
<1>2. PICK m \in T : \A y \in T : <<y, m>> \notin OpToRel(<, Nat)
  BY <1>1, NatLessThanWellFounded, WFMin
<1>3. PICK x \in S : m = n - x
  OBVIOUS
<1>4. ASSUME NEW y \in S PROVE x >= y
  <2>1. n - y \in T /\ n - y \in Nat /\ m \in Nat
    BY <1>1
  <2>2. ~(n - y < m)
    BY <1>2, <2>1 DEF OpToRel
  <2>3. x \in Int /\ y \in Int
    OBVIOUS
  <2> QED
    BY <1>3, <2>2, <2>3
<1> QED
  BY <1>4 DEF Max

LEMMA CurrentDevice ==
    ASSUME ScanTypeOK, todo # <<>>
    PROVE  /\ Device \in Devices /\ Tail(todo) \in Seq(Devices) /\ Device = todo[1]
           /\ Len(todo) \in Nat \ {0} /\ Device \in Pending
           /\ Pending = {Device} \union {Tail(todo)[i] : i \in 1..Len(Tail(todo))}
<1>1. /\ todo \in Seq(Devices) /\ Len(todo) \in Nat /\ Len(todo) # 0
      /\ Head(todo) \in Devices /\ Tail(todo) \in Seq(Devices) /\ Head(todo) = todo[1]
      /\ Len(Tail(todo)) = Len(todo) - 1 /\ \A i \in 1..Len(Tail(todo)) : Tail(todo)[i] = todo[i + 1]
  BY HeadTailProperties, EmptySeq DEF ScanTypeOK
<1>2. todo[1] \in Pending
  BY <1>1 DEF Pending
<1>3. ASSUME NEW i \in 1..Len(Tail(todo)) PROVE Tail(todo)[i] \in Pending
  <2>1. i + 1 \in 1..Len(todo)
    BY <1>1
  <2> QED
    BY <1>1, <2>1 DEF Pending
<1>4. ASSUME NEW i \in 1..Len(todo)
      PROVE  todo[i] \in {Device} \union {Tail(todo)[j] : j \in 1..Len(Tail(todo))}
  <2>1. CASE i = 1
    BY <1>1, <2>1 DEF Device
  <2>2. CASE i # 1
    <3>1. i - 1 \in 1..Len(Tail(todo)) /\ (i - 1) + 1 = i
      BY <1>1, <2>2
    <3> QED
      BY <1>1, <3>1
  <2> QED
    BY <2>1, <2>2
<1>5. Pending \subseteq {Device} \union {Tail(todo)[j] : j \in 1..Len(Tail(todo))}
  BY <1>4 DEF Pending
<1>6. {Device} \union {Tail(todo)[j] : j \in 1..Len(Tail(todo))} \subseteq Pending
  BY <1>1, <1>2, <1>3 DEF Device
<1> QED
  BY <1>1, <1>2, <1>5, <1>6 DEF Device

(* E is entries with the values of attribute a at the keys P, the rest kept. *)
AddsColumn(E, P, a) ==
    /\ DOMAIN E = DOMAIN entries \union P
    /\ \A k \in P : E[k][a] = Value(shows[Device][k], a)
    /\ \A k \in DOMAIN entries, b \in Attributes : b # a \/ k \notin P => E[k][b] = entries[k][b]
    /\ \A k \in P \ DOMAIN entries, b \in Attributes : b # a => E[k][b] = Nothing

LEMMA ColumnFacts ==
    ASSUME ScanTypeOK, todo # <<>>, NEW P \in Read, NEW a \in Attributes,
           NEW E, E = WithColumn(P, a)
    PROVE  /\ P \subseteq Present /\ Present \subseteq Keys
           /\ E \in [DOMAIN E -> [Attributes -> Values]] /\ AddsColumn(E, P, a)
<1>1. P \subseteq Present /\ Present \subseteq Keys
  BY DEF Read, Present
<1>2. DOMAIN E = DOMAIN entries \union P
  BY DEF WithColumn
<1>3. Device \in Devices
  BY CurrentDevice
<1>4. \A k \in P : Value(shows[Device][k], a) \in Values
  BY <1>1, <1>3, ValueFacts DEF ScanTypeOK, Shown, Values
<1>5. \A k \in DOMAIN entries : entries[k] \in [Attributes -> Values]
  BY DEF ScanTypeOK
<1>6. ASSUME NEW k \in DOMAIN entries, k \in P
      PROVE  /\ E[k] \in [Attributes -> Values] /\ E[k][a] = Value(shows[Device][k], a)
             /\ \A b \in Attributes : b # a => E[k][b] = entries[k][b]
  <2>1. E[k] = [entries[k] EXCEPT ![a] = Value(shows[Device][k], a)]
    BY <1>6 DEF WithColumn
  <2> QED
    BY <1>4, <1>5, <1>6, <2>1
<1>7. ASSUME NEW k \in DOMAIN entries, k \notin P PROVE E[k] = entries[k]
  BY <1>7 DEF WithColumn
<1>8. ASSUME NEW k \in P, k \notin DOMAIN entries
      PROVE  /\ E[k] \in [Attributes -> Values] /\ E[k][a] = Value(shows[Device][k], a)
             /\ \A b \in Attributes : b # a => E[k][b] = Nothing
  <2>1. E[k] = [b \in Attributes |-> IF b = a THEN Value(shows[Device][k], a) ELSE Nothing]
    BY <1>8 DEF WithColumn
  <2> QED
    BY <1>4, <2>1 DEF Values
<1>9. E = [k \in DOMAIN E |-> E[k]]
  BY DEF WithColumn
<1>10. E \in [DOMAIN E -> [Attributes -> Values]]
  BY <1>2, <1>5, <1>6, <1>7, <1>8, <1>9
<1> QED
  BY <1>1, <1>2, <1>6, <1>7, <1>8, <1>10 DEF AddsColumn

-----------------------------------------------------------------------------
(* Every step keeps the types and the phases. *)

(* The ids of the scans that are kept leave room for that of the next. *)
LEMMA ScanIds ==
    ASSUME ScanTypeOK
    PROVE  /\ NextId \in Nat \ {0}
           /\ Kept(scans) \subseteq 1..NextId
           /\ \/ \A S : Kept(S) = S
              \/ \A S : Kept(S) = {s \in 1..scan : s + 1 \in S}
<1>1. MaxScans \in Nat \ {0}
  BY LldpAssumption
<1>2. CASE scan < MaxScans
  BY <1>1, <1>2 DEF ScanTypeOK, NextId, Kept
<1>3. CASE ~(scan < MaxScans)
  BY <1>1, <1>3 DEF ScanTypeOK, NextId, Kept
<1> QED
  BY <1>2, <1>3

LEMMA TypeNext ==
    ASSUME ScanTypeOK, PhasesOK, [Next]_vars
    PROVE  ScanTypeOK'
<1> USE DEF ScanTypeOK, snapshot, work, world, history
<1>1. NoEntries \in [DOMAIN NoEntries -> [Attributes -> Values]] /\ DOMAIN NoEntries = {}
  BY DEF NoEntries
<1>2. CASE StartScan
  <2>1. seen' \in [Devices -> [Keys -> SUBSET Values]]
    BY <1>2 DEF StartScan, Shown, Values
  <2>2. scan' \in Nat /\ scans' \subseteq 1..scan'
    <3>1. NextId \in 1..NextId
      BY ScanIds
    <3> QED
      BY <1>2, <3>1, ScanIds DEF StartScan
  <2> QED
    BY <1>2, <2>1, <2>2, LldpAssumption DEF StartScan, Goto
<1>3. CASE BeginDevice \/ FinishScan \/ LateWalkEnds
  BY <1>3 DEF BeginDevice, FinishScan, LateWalkEnds, Goto
<1>4. CASE AbortScan
  <2>1. <<>> \in Seq(Devices) /\ scans' \subseteq scans
    BY <1>4 DEF AbortScan
  <2> QED
    BY <1>4, <2>1 DEF AbortScan, Goto
<1>5. CASE WalkAnswers
  <2>1. phase = "walk" /\ todo # <<>>
    BY <1>5 DEF WalkAnswers, PhasesOK
  <2>2. entries' \in [DOMAIN entries' -> [Attributes -> Values]] /\ DOMAIN entries' \subseteq Keys
    <3>1. CASE Tables[table] \in Attributes
      <4>1. PICK P \in Read : entries' = WithColumn(P, Tables[table])
        BY <1>5, <3>1 DEF WalkAnswers
      <4>2. /\ P \subseteq Keys /\ DOMAIN entries' = DOMAIN entries \union P
            /\ entries' \in [DOMAIN entries' -> [Attributes -> Values]]
        BY <2>1, <3>1, <4>1, ColumnFacts DEF AddsColumn
      <4> QED
        BY <4>2
    <3>2. CASE Tables[table] \notin Attributes
      BY <1>5, <3>2 DEF WalkAnswers
    <3> QED
      BY <3>1, <3>2
  <2>3. table' \in 1..6 /\ phase' \in {"walk", "insert"}
    BY <1>5, <2>1, TableFacts DEF WalkAnswers, Goto
  <2> QED
    BY <1>5, <2>2, <2>3 DEF WalkAnswers
<1>6. CASE WalkFails
  <2>1. Tail(todo) \in Seq(Devices)
    BY <1>6, CurrentDevice DEF WalkFails, PhasesOK
  <2> QED
    BY <1>1, <1>6, <2>1 DEF WalkFails, Goto, Leave
<1>7. CASE InsertLink
  BY <1>7 DEF InsertLink
<1>8. CASE EndDevice
  <2>1. Tail(todo) \in Seq(Devices)
    BY <1>8, CurrentDevice DEF EndDevice, PhasesOK
  <2> QED
    BY <1>1, <1>8, <2>1 DEF EndDevice, Goto, Leave
<1>9. CASE Replug
  <2>1. PICK m \in Movable, n \in Values :
            /\ shows' = [shows EXCEPT ![m.device][m.key] = n]
            /\ seen' = [seen EXCEPT ![m.device][m.key] = @ \union {n}]
    BY <1>9 DEF Replug, Values
  <2>2. m.device \in Devices /\ m.key \in Keys
    BY LldpAssumption
  <2>3. shows' \in Shown
    BY <2>1, <2>2 DEF Shown, Values
  <2>4. seen' \in [Devices -> [Keys -> SUBSET Values]]
    <3>1. /\ seen[m.device] \in [Keys -> SUBSET Values]
          /\ seen[m.device][m.key] \union {n} \in SUBSET Values
      BY <2>2
    <3>2. [seen[m.device] EXCEPT ![m.key] = @ \union {n}] \in [Keys -> SUBSET Values]
      BY <2>2, <3>1
    <3>3. seen' = [seen EXCEPT ![m.device] = [seen[m.device] EXCEPT ![m.key] = @ \union {n}]]
      BY <2>1, <2>2
    <3> QED
      BY <2>2, <3>2, <3>3
  <2> QED
    BY <1>9, <2>3, <2>4 DEF Replug
<1>10. CASE Stop \/ Restart
  BY <1>10 DEF Stop, Restart
<1>11. CASE Kill
  <2>1. <<>> \in Seq(Devices)
    OBVIOUS
  <2>2. /\ todo' = <<>> /\ entries' = NoEntries /\ table' = 1 /\ phase' = "idle" /\ cancelled' = FALSE
        /\ UNCHANGED <<scans, scan, shows, seen>>
    BY <1>11 DEF Kill, Goto, Leave
  <2>3. entries' \in [DOMAIN entries' -> [Attributes -> Values]] /\ DOMAIN entries' \subseteq Keys
    BY <1>1, <2>2
  <2>4. todo' \in Seq(Devices) /\ table' \in 1..6
    BY <2>1, <2>2
  <2>5. cancelled' \in BOOLEAN
    BY <2>2
  <2> QED
    BY <2>2, <2>3, <2>4, <2>5
<1>12. CASE UNCHANGED vars
  BY <1>12 DEF vars
<1> QED
  BY <1>2, <1>3, <1>4, <1>5, <1>6, <1>7, <1>8, <1>9, <1>10, <1>11, <1>12 DEF Next, ScanStep

LEMMA PhasesNext ==
    ASSUME ScanTypeOK, PhasesOK, [Next]_vars
    PROVE  PhasesOK'
<1> USE DEF PhasesOK, snapshot, work, world, history, Goto
<1>1. CASE StartScan
  BY <1>1, ScanIds DEF StartScan, ScanTypeOK
<1>2. CASE BeginDevice \/ FinishScan \/ LateWalkEnds
  BY <1>2 DEF BeginDevice, FinishScan, LateWalkEnds
<1>3. CASE AbortScan
  BY <1>3 DEF AbortScan
<1>4. CASE WalkAnswers
  BY <1>4 DEF WalkAnswers
<1>5. CASE WalkFails
  BY <1>5 DEF WalkFails, Leave
<1>6. CASE InsertLink
  BY <1>6 DEF InsertLink
<1>7. CASE EndDevice
  BY <1>7 DEF EndDevice, Leave
<1>8. CASE Replug
  BY <1>8 DEF Replug
<1>9. CASE Stop \/ Restart
  BY <1>9 DEF Stop, CutNow, Restart
<1>10. CASE Kill
  BY <1>10 DEF Kill, Leave
<1>11. CASE UNCHANGED vars
  BY <1>11 DEF vars
<1> QED
  BY <1>1, <1>2, <1>3, <1>4, <1>5, <1>6, <1>7, <1>8, <1>9, <1>10, <1>11 DEF Next, ScanStep

(* A scan that is neither finished nor cut short is deleted. *)
LEMMA PagesNext ==
    ASSUME ScanTypeOK, PhasesOK, PagesOK, [Next]_vars
    PROVE  PagesOK'
<1> USE DEF PagesOK, snapshot, work, world, history, Goto
<1>1. CASE StartScan
  <2>1. phase = "idle" /\ scan' = NextId /\ phase' # "idle"
        /\ scans' = Kept(scans) \union {NextId}
        /\ finished' = Kept(finished) /\ cut' = Kept(cut)
    BY <1>1 DEF StartScan
  <2>2. ASSUME NEW s \in Kept(scans) PROVE s \in Kept(finished) \union Kept(cut)
    <3>1. CASE \A S : Kept(S) = S
      BY <2>1, <2>2, <3>1
    <3>2. CASE \A S : Kept(S) = {x \in 1..scan : x + 1 \in S}
      <4>1. s \in 1..scan /\ s + 1 \in scans
        BY <2>2, <3>2
      <4>2. s + 1 \in finished \union cut
        BY <2>1, <4>1
      <4> QED
        BY <3>2, <4>1, <4>2
    <3> QED
      BY <3>1, <3>2, ScanIds
  <2> QED
    BY <2>1, <2>2
<1>2. CASE FinishScan
  BY <1>2 DEF FinishScan
<1>3. CASE AbortScan
  BY <1>3 DEF AbortScan, PhasesOK
<1>4. CASE BeginDevice \/ WalkAnswers \/ WalkFails \/ InsertLink \/ EndDevice
  <2>1. UNCHANGED <<scans, scan, finished, cut>> /\ phase # "idle" /\ phase' # "idle"
    BY <1>4 DEF BeginDevice, WalkAnswers, WalkFails, InsertLink, EndDevice
  <2> QED
    BY <2>1
<1>5. CASE LateWalkEnds \/ Replug \/ Restart
  BY <1>5 DEF LateWalkEnds, Replug, Restart
<1>6. CASE Stop \/ Kill
  BY <1>6 DEF Stop, Kill, CutNow
<1>7. CASE UNCHANGED vars
  BY <1>7 DEF vars
<1> QED
  BY <1>1, <1>2, <1>3, <1>4, <1>5, <1>6, <1>7 DEF Next, ScanStep

LEMMA SeenNext ==
    ASSUME ScanTypeOK, SeenOK, [Next]_vars
    PROVE  SeenOK'
<1> USE DEF SeenOK, snapshot, work, world, history, Goto
<1>1. CASE StartScan
  BY <1>1 DEF StartScan
<1>2. CASE ScanStep
  <2>1. UNCHANGED <<scan, shows, seen>>
    BY <1>2 DEF ScanStep, BeginDevice, AbortScan, FinishScan, WalkAnswers, WalkFails, InsertLink,
                EndDevice
  <2> QED
    BY <2>1
<1>3. CASE LateWalkEnds \/ Stop \/ Restart \/ Kill
  BY <1>3 DEF LateWalkEnds, Stop, Restart, Kill
<1>4. CASE Replug
  <2>1. PICK m \in Movable, n \in Values :
            /\ shows' = [shows EXCEPT ![m.device][m.key] = n]
            /\ seen' = [seen EXCEPT ![m.device][m.key] = @ \union {n}]
    BY <1>4 DEF Replug, Values
  <2>2. m.device \in Devices /\ m.key \in Keys
    BY LldpAssumption
  <2>3. ASSUME NEW d \in Devices, NEW k \in Keys, scan # 0
        PROVE  shows'[d][k] \in seen'[d][k]
    BY <2>1, <2>2, <2>3 DEF ScanTypeOK, Shown
  <2> QED
    BY <1>4, <2>3 DEF Replug
<1>5. CASE UNCHANGED vars
  BY <1>5 DEF vars
<1> QED
  BY <1>1, <1>2, <1>3, <1>4, <1>5 DEF Next

(* What a key has shown is never forgotten while the scan runs. *)
LEMMA SeenGrows ==
    ASSUME ScanTypeOK, Replug
    PROVE  \A d \in Devices, k \in Keys : seen[d][k] \subseteq seen'[d][k]
<1>1. PICK m \in Movable, n \in Values : seen' = [seen EXCEPT ![m.device][m.key] = @ \union {n}]
  BY DEF Replug, Values
<1>2. m.device \in Devices /\ m.key \in Keys
  BY LldpAssumption
<1> QED
  BY <1>1, <1>2 DEF ScanTypeOK

-----------------------------------------------------------------------------
(* Every step keeps the facts. *)

LEMMA FactsNext ==
    ASSUME ScanTypeOK, PhasesOK, SeenOK, FactsOK, [Next]_vars, ScanTypeOK'
    PROVE  FactsOK'
<1> USE DEF snapshot, work, world, history, Goto
<1>1. DOMAIN NoEntries = {}
  BY DEF NoEntries
<1>2. CASE UNCHANGED <<todo, entries, links, stored, seen>>
  BY <1>2 DEF FactsOK, Told, Device
<1>3. CASE BeginDevice \/ FinishScan \/ LateWalkEnds \/ Stop \/ Restart \/ UNCHANGED vars
  BY <1>2, <1>3 DEF BeginDevice, FinishScan, LateWalkEnds, Stop, Restart, vars
<1>4. CASE StartScan
  <2>1. entries' = NoEntries /\ links' = {} /\ stored' = {}
    BY <1>4 DEF StartScan, PhasesOK
  <2> QED
    BY <1>1, <2>1 DEF FactsOK
<1>5. CASE AbortScan \/ WalkFails \/ EndDevice \/ Kill
  <2>1. entries' = NoEntries /\ links' = {} /\ stored' \subseteq stored /\ seen' = seen
    BY <1>5 DEF AbortScan, WalkFails, EndDevice, Kill, Leave, PhasesOK
  <2> QED
    BY <1>1, <2>1 DEF FactsOK, Told
<1>6. CASE WalkAnswers
  <2>1. /\ phase = "walk" /\ todo # <<>> /\ scan # 0 /\ links = {}
        /\ UNCHANGED <<todo, stored, seen>> /\ Device' = Device
        /\ links' = {} \/ links' = LinksOf(entries')
    BY <1>6 DEF WalkAnswers, PhasesOK, Device
  <2>2. ASSUME NEW k \in DOMAIN entries' PROVE Told(Device, k, entries'[k])
    <3>1. CASE Tables[table] \in Attributes
      <4> DEFINE a == Tables[table]
      <4>1. PICK P \in Read : entries' = WithColumn(P, a)
        BY <1>6, <3>1 DEF WalkAnswers
      <4>2. P \subseteq Keys /\ AddsColumn(entries', P, a)
        BY <2>1, <3>1, <4>1, ColumnFacts
      <4>3. \A j \in P : entries'[j][a] = Nothing \/ entries'[j][a] \in seen[Device][j]
        BY <2>1, <4>2, ValueFacts, CurrentDevice DEF SeenOK, AddsColumn
      <4>4. \A j \in DOMAIN entries : Told(Device, j, entries[j])
        BY DEF FactsOK
      <4> HIDE DEF a
      <4>5. ASSUME NEW b \in Attributes, entries'[k][b] # Nothing
            PROVE  entries'[k][b] \in seen[Device][k]
        BY <4>2, <4>3, <4>4, <4>5 DEF Told, AddsColumn
      <4> QED
        BY <4>5 DEF Told
    <3>2. CASE Tables[table] \notin Attributes
      BY <1>6, <3>2 DEF WalkAnswers, FactsOK
    <3> QED
      BY <3>1, <3>2
  <2>3. ASSUME NEW l \in links'
        PROVE  /\ l.local = Device /\ l.local \in Devices /\ l.key \in Keys
               /\ Told(l.local, l.key, l.entry)
    <3>1. DOMAIN entries' \subseteq Keys
      BY DEF ScanTypeOK
    <3> QED
      BY <2>1, <2>2, <2>3, <3>1, CurrentDevice DEF LinksOf
  <2> QED
    <3>1. Device' = Device /\ seen' = seen /\ stored' = stored
      BY <2>1
    <3> QED
      BY <2>2, <2>3, <3>1 DEF FactsOK, Told
<1>7. CASE InsertLink
  <2>1. PICK l \in links : links' = links \ {l} /\ stored' \subseteq stored \union {l}
    BY <1>7 DEF InsertLink
  <2>2. UNCHANGED <<todo, entries, seen>> /\ Device' = Device
    BY <1>7 DEF InsertLink, Device
  <2>3. \A m \in links' \union stored' : m \in links \union stored
    BY <2>1
  <2> QED
    BY <2>1, <2>2, <2>3 DEF FactsOK, Told
<1>8. CASE Replug
  <2>1. UNCHANGED <<todo, entries, links, stored>> /\ Device' = Device
    BY <1>8 DEF Replug, Device
  <2>2. ASSUME NEW d \in Devices, NEW k \in Keys, NEW e, Told(d, k, e)
        PROVE  Told(d, k, e)'
    BY <1>8, <2>2, SeenGrows DEF Told
  <2>3. ASSUME NEW k \in DOMAIN entries PROVE k \in Keys /\ Device \in Devices
    BY <1>1, CurrentDevice DEF PhasesOK, ScanTypeOK
  <2>4. \A k \in DOMAIN entries' : Told(Device, k, entries[k])'
    BY <2>1, <2>2, <2>3 DEF FactsOK, Told
  <2>5. \A l \in links' \union stored' : Told(l.local, l.key, l.entry)'
    BY <2>1, <2>2 DEF FactsOK, Told
  <2> QED
    BY <2>1, <2>4, <2>5 DEF FactsOK
<1> QED
  BY <1>3, <1>4, <1>5, <1>6, <1>7, <1>8 DEF Next, ScanStep

-----------------------------------------------------------------------------
(* Every step keeps what has stayed. *)

(* What a device has shown grows, and was not nothing at all before. *)
Grows(f, g, d) == \A k \in Keys : f[d][k] \subseteq g[d][k] /\ f[d][k] # {}

LEMMA FitsLess ==
    ASSUME NEW f, NEW g, NEW d, Grows(f, g, d)
    PROVE  /\ Fits(g, d) => Fits(f, d)
           /\ \A k \in Keys : \A n : g[d][k] = {n} => f[d][k] = {n}
<1> DEFINE F == {j \in Keys : f[d][j] # {Nothing}}
           G == {j \in Keys : g[d][j] # {Nothing}}
<1>1. F \subseteq G
  BY DEF Grows
<1>2. IsFiniteSet(G)
  BY LldpAssumption, FS_Subset
<1>3. Cardinality(F) \in Nat /\ Cardinality(G) \in Nat /\ Cardinality(F) <= Cardinality(G)
  BY <1>1, <1>2, FS_Subset, FS_CardinalityType
<1>4. Cap \in Nat
  BY LldpAssumption
<1>5. Fits(g, d) => Fits(f, d)
  BY <1>3, <1>4 DEF Fits
<1> QED
  BY <1>5 DEF Grows

LEMMA WholeKept ==
    ASSUME NEW f, NEW g, NEW d, NEW S, NEW S2, S \subseteq S2, Whole(f, S, d),
           Grows(f, g, d)
    PROVE  Whole(g, S2, d)
<1>1. /\ Fits(g, d) => Fits(f, d)
      /\ \A k \in Keys : \A n : g[d][k] = {n} => f[d][k] = {n}
  BY FitsLess
<1> QED
  BY <1>1 DEF Whole, HasLink

LEMMA WalkedKept ==
    ASSUME NEW f, NEW g, NEW d, NEW E, DOMAIN E \subseteq Keys,
           Grows(f, g, d)
    PROVE  /\ OfUsed(f, E, d) => OfUsed(g, E, d)
           /\ \A t : Walked(f, E, d, t) => Walked(g, E, d, t)
<1>1. /\ Fits(g, d) => Fits(f, d)
      /\ \A k \in Keys : \A n : g[d][k] = {n} => f[d][k] = {n}
  BY FitsLess
<1>2. OfUsed(f, E, d) => OfUsed(g, E, d)
  BY DEF OfUsed, Grows
<1> QED
  BY <1>1, <1>2 DEF Walked

(* A device that fits the cap is read to the end: a read that stopped early *)
(* would have found more used keys than there are.                          *)
LEMMA ReadWhole ==
    ASSUME ScanTypeOK, SeenOK, scan # 0, todo # <<>>, Fits(seen, Device),
           OfUsed(seen, entries, Device), NEW P \in Read
    PROVE  P = Present
<1> DEFINE U == {j \in Keys : seen[Device][j] # {Nothing}}
           all == DOMAIN entries \union P
<1>1. Device \in Devices
  BY CurrentDevice
<1>2. Present \subseteq U
  BY <1>1 DEF Present, SeenOK
<1>3. DOMAIN entries \subseteq U
  BY DEF OfUsed, ScanTypeOK
<1>4. IsFiniteSet(U) /\ Cardinality(U) <= Cap
  BY LldpAssumption, FS_Subset DEF Fits
<1>5. SUFFICES ASSUME P # Present PROVE FALSE
  OBVIOUS
<1>6. P \subseteq Present /\ Cardinality(all) = Cap /\ ~(Present \subseteq all)
  BY <1>5 DEF Read
<1>7. PICK p \in Present : p \notin all
  BY <1>6
<1>8. IsFiniteSet(all)
  BY <1>2, <1>3, <1>4, <1>6, FS_Subset
<1>9. Cardinality(all \union {p}) = Cap + 1
  BY <1>6, <1>7, <1>8, FS_AddElement
<1>10. all \union {p} \subseteq U
  BY <1>2, <1>3, <1>6, <1>7
<1>11. Cardinality(all \union {p}) <= Cardinality(U) /\ Cardinality(U) \in Nat
  BY <1>4, <1>10, FS_Subset, FS_CardinalityType
<1>12. Cap \in Nat
  BY LldpAssumption
<1> HIDE DEF U, all
<1> QED
  BY <1>4, <1>9, <1>11, <1>12

(* A walk adds its column for everything that has stayed. *)
LEMMA WalkTells ==
    ASSUME ScanTypeOK, PhasesOK, SeenOK, WalkAnswers, OfUsed(seen, entries, Device),
           \A t \in 1..(table - 1) : Walked(seen, entries, Device, t)
    PROVE  /\ OfUsed(seen, entries', Device)
           /\ \A t \in 1..table : Walked(seen, entries', Device, t)
<1>1. phase = "walk" /\ todo # <<>> /\ scan # 0 /\ table \in 1..6
  BY DEF WalkAnswers, PhasesOK, ScanTypeOK
<1>2. Device \in Devices
  BY <1>1, CurrentDevice
<1>3. CASE Tables[table] \notin Attributes
  <2>1. entries' = entries
    BY <1>3 DEF WalkAnswers
  <2>2. ASSUME NEW t \in 1..table PROVE Walked(seen, entries, Device, t)
    <3>1. t = table \/ t \in 1..(table - 1)
      BY <1>1
    <3> QED
      BY <1>3, <3>1 DEF Walked
  <2> QED
    BY <2>1, <2>2
<1>4. CASE Tables[table] \in Attributes
  <2>1. PICK P \in Read : entries' = WithColumn(P, Tables[table])
    BY <1>4 DEF WalkAnswers
  <2>2. P \subseteq Present /\ Present \subseteq Keys /\ AddsColumn(entries', P, Tables[table])
    BY <1>1, <1>4, <2>1, ColumnFacts
  <2>3. OfUsed(seen, entries', Device)
    <3>1. \A k \in P : shows[Device][k] # Nothing /\ shows[Device][k] \in seen[Device][k]
      BY <1>1, <1>2, <2>2 DEF Present, SeenOK
    <3> QED
      BY <2>2, <3>1 DEF OfUsed, AddsColumn
  <2>4. ASSUME NEW t \in 1..table, Fits(seen, Device), Tables[t] \in Attributes,
               NEW k \in Keys, NEW n \in Neighbors, seen[Device][k] = {n}
        PROVE  k \in DOMAIN entries' /\ entries'[k][Tables[t]] = Value(n, Tables[t])
    <3>1. P = Present
      BY <1>1, <2>4, ReadWhole
    <3>2. shows[Device][k] = n /\ n # Nothing
      BY <1>1, <1>2, <2>4, LldpAssumption DEF SeenOK
    <3>3. k \in P
      BY <3>1, <3>2 DEF Present
    <3>4. CASE t = table
      BY <2>2, <3>2, <3>3, <3>4 DEF AddsColumn
    <3>5. CASE t # table
      <4>1. t \in 1..(table - 1) /\ t \in 1..6
        BY <1>1, <3>5
      <4>2. Tables[t] # Tables[table]
        BY <1>1, <3>5, <4>1, TableFacts
      <4>3. k \in DOMAIN entries /\ entries[k][Tables[t]] = Value(n, Tables[t])
        BY <2>4, <4>1 DEF Walked
      <4> QED
        BY <2>2, <2>4, <4>2, <4>3 DEF AddsColumn
    <3> QED
      BY <3>4, <3>5
  <2> QED
    BY <2>3, <2>4 DEF Walked
<1> QED
  BY <1>3, <1>4

(* After the last walk all that has stayed has a link. *)
LEMMA AllWalkedIsWhole ==
    ASSUME NEW E, NEW S, DOMAIN E \subseteq Keys,
           \A t \in 1..6 : Walked(seen, E, Device, t)
    PROVE  Whole(seen, LinksOf(E) \union S, Device)
<1> SUFFICES ASSUME Fits(seen, Device), NEW k \in Keys, NEW n \in Named \union Described,
                    seen[Device][k] = {n}
             PROVE  HasLink(LinksOf(E) \union S, Device, k, n)
  BY DEF Whole
<1>1. n \in Neighbors /\ (Value(n, "sysName") # Nothing \/ Value(n, "sysDesc") # Nothing)
      /\ Value(n, "portId") = n
  BY ValueFacts
<1>2. /\ Tables[3] = "sysName" /\ Tables[4] = "sysDesc" /\ Tables[5] = "portId"
      /\ {"sysName", "sysDesc", "portId"} \subseteq Attributes
  BY DEF Tables, Attributes
<1>3. /\ k \in DOMAIN E /\ E[k].sysName = Value(n, "sysName") /\ E[k].sysDesc = Value(n, "sysDesc")
      /\ E[k].portId = n
  BY <1>1, <1>2 DEF Walked
<1>4. [local |-> Device, key |-> k, entry |-> E[k]] \in LinksOf(E)
  BY <1>1, <1>3 DEF LinksOf
<1> QED
  BY <1>3, <1>4 DEF HasLink

(* A link that is inserted, or refused for another like it, stays found. *)
LEMMA InsertKeepsWhole ==
    ASSUME NEW l \in links, links' = links \ {l}, NEW d, Whole(seen, links \union stored, d),
           stored' = IF Conflicts(l) THEN stored ELSE stored \union {l}
    PROVE  Whole(seen, links' \union stored', d)
<1>1. ASSUME NEW k, NEW n, HasLink(links \union stored, d, k, n)
      PROVE  HasLink(links' \union stored', d, k, n)
  <2>1. PICK m \in links \union stored : /\ m.local = d /\ m.key.port = k.port
                                        /\ m.entry.sysName = Value(n, "sysName")
                                        /\ m.entry.portId = n
    BY <1>1 DEF HasLink
  <2>2. CASE m \in links' \union stored'
    BY <2>1, <2>2 DEF HasLink
  <2>3. CASE m \notin links' \union stored'
    <3>1. m = l /\ Conflicts(l) /\ stored' = stored
      BY <2>1, <2>3
    <3>2. PICK o \in stored : /\ o.local = l.local /\ o.key.port = l.key.port
                             /\ o.entry.sysName = l.entry.sysName
                             /\ o.entry.portId = l.entry.portId
      BY <3>1 DEF Conflicts
    <3> QED
      BY <2>1, <3>1, <3>2 DEF HasLink
  <2> QED
    BY <2>2, <2>3
<1> QED
  BY <1>1 DEF Whole

LEMMA WholeNext ==
    ASSUME ScanTypeOK, PhasesOK, SeenOK, WholeOK, [Next]_vars
    PROVE  WholeOK'
<1> USE DEF snapshot, work, world, history, Goto
<1>1. CASE UNCHANGED <<scan, scans, stored, phase, todo, table, entries, links, seen, missed, cut>>
  BY <1>1 DEF WholeOK, WalkOK, InsertOK, DoneOK, Device, Pending
<1>2. CASE LateWalkEnds \/ Restart \/ UNCHANGED vars
  BY <1>1, <1>2 DEF LateWalkEnds, Restart, vars
<1>3. CASE StartScan
  <2>1. phase' = "device" /\ Pending' = Devices
    BY <1>3 DEF StartScan, Pending, Devices
  <2> QED
    BY <2>1 DEF WholeOK, WalkOK, InsertOK, DoneOK
<1>4. CASE BeginDevice \/ FinishScan
  <2>1. /\ entries' = NoEntries /\ table' = 1 /\ phase' \in {"walk", "idle"} /\ phase = "device"
        /\ UNCHANGED <<scan, scans, stored, todo, seen, missed, cut>>
    BY <1>4 DEF BeginDevice, FinishScan, PhasesOK
  <2>2. WalkOK'
    BY <2>1 DEF WalkOK, OfUsed, NoEntries
  <2>3. InsertOK' /\ DoneOK'
    BY <2>1 DEF WholeOK, InsertOK, DoneOK, Pending
  <2> QED
    BY <2>2, <2>3 DEF WholeOK
<1>5. CASE AbortScan
  BY <1>5 DEF AbortScan, PhasesOK, WholeOK, WalkOK, InsertOK, DoneOK
<1>6. CASE WalkAnswers
  <2>1. /\ phase = "walk" /\ UNCHANGED <<scan, scans, stored, todo, seen, missed, cut>>
        /\ Device' = Device /\ Pending' = Pending /\ table \in 1..6
    BY <1>6 DEF WalkAnswers, Device, Pending, ScanTypeOK
  <2>2. /\ OfUsed(seen, entries', Device)
        /\ \A t \in 1..table : Walked(seen, entries', Device, t)
    BY <1>6, <2>1, WalkTells DEF WholeOK, WalkOK
  <2>3. DoneOK'
    BY <1>6, <2>1 DEF WholeOK, DoneOK
  <2>4. CASE table = 6
    <3>1. phase' = "insert" /\ links' = LinksOf(entries')
      BY <1>6, <2>4, TableFacts DEF WalkAnswers
    <3>2. DOMAIN entries' \subseteq Keys
      BY <1>6, TypeNext DEF ScanTypeOK, Next, ScanStep
    <3>3. Whole(seen, LinksOf(entries') \union stored, Device)
      BY <2>2, <2>4, <3>2, AllWalkedIsWhole
    <3> QED
      BY <2>1, <2>3, <3>1, <3>3 DEF WholeOK, WalkOK, InsertOK
  <2>5. CASE table # 6
    <3>1. phase' = "walk" /\ table' = table + 1
      BY <1>6, <2>1, <2>5, TableFacts DEF WalkAnswers
    <3>2. table' - 1 = table
      BY <2>1, <3>1
    <3> QED
      BY <2>1, <2>2, <2>3, <3>1, <3>2 DEF WholeOK, WalkOK, InsertOK
  <2> QED
    BY <2>4, <2>5
<1>7. CASE WalkFails \/ EndDevice
  <2>1. /\ phase \in {"walk", "insert"} /\ todo # <<>> /\ phase' = "device" /\ todo' = Tail(todo)
        /\ UNCHANGED <<scan, scans, stored, seen, cut>> /\ missed \subseteq missed'
        /\ Device \in missed' \/ (phase = "insert" /\ links = {})
    BY <1>7 DEF WalkFails, EndDevice, PhasesOK
  <2>2. Pending = {Device} \union Pending'
    BY <2>1, CurrentDevice DEF Pending
  <2>3. ASSUME NEW d \in Devices \ (missed' \union Pending')
        PROVE  Whole(seen, stored, d)
    <3>1. CASE d = Device
      BY <2>1, <2>3, <3>1 DEF WholeOK, InsertOK
    <3>2. CASE d # Device
      BY <2>1, <2>2, <2>3, <3>2 DEF WholeOK, DoneOK
    <3> QED
      BY <3>1, <3>2
  <2> QED
    BY <2>1, <2>3 DEF WholeOK, WalkOK, InsertOK, DoneOK
<1>8. CASE InsertLink
  <2>1. /\ phase = "insert" /\ UNCHANGED <<scan, scans, phase, todo, seen, cut>>
        /\ Device' = Device /\ Pending' = Pending
    BY <1>8 DEF InsertLink, Device, Pending
  <2>2. /\ missed \subseteq missed' /\ stored \subseteq stored'
    BY <1>8 DEF InsertLink
  <2>3. PICK l \in links :
            /\ links' = links \ {l}
            /\ \/ stored' = (IF Conflicts(l) THEN stored ELSE stored \union {l})
               \/ Device \in missed'
    BY <1>8 DEF InsertLink
  <2>4. InsertOK'
    BY <2>1, <2>2, <2>3, InsertKeepsWhole DEF WholeOK, InsertOK
  <2>5. DoneOK'
    BY <2>1, <2>2 DEF WholeOK, DoneOK, Whole, HasLink
  <2> QED
    BY <2>1, <2>4, <2>5 DEF WholeOK, WalkOK
<1>9. CASE Replug
  <2>1. /\ UNCHANGED <<scan, scans, stored, phase, todo, table, entries, links, missed, cut>>
        /\ Device' = Device /\ Pending' = Pending
    BY <1>9 DEF Replug, Device, Pending
  <2>2. CASE scan = 0
    <3>1. phase = "idle" /\ scans = {}
      BY <2>2 DEF PhasesOK, ScanTypeOK
    <3> QED
      BY <2>1, <3>1 DEF WholeOK, WalkOK, InsertOK, DoneOK
  <2>3. CASE scan # 0
    <3>1. \A d \in Devices : Grows(seen, seen', d)
      BY <1>9, <2>3, SeenGrows DEF Grows, SeenOK
    <3>2. phase \in {"walk", "insert"} => Device \in Devices
      BY CurrentDevice DEF PhasesOK
    <3>3. WalkOK'
      BY <2>1, <3>1, <3>2, WalkedKept DEF WholeOK, WalkOK, ScanTypeOK
    <3>4. InsertOK'
      BY <2>1, <3>1, <3>2, WholeKept DEF WholeOK, InsertOK
    <3>5. DoneOK'
      BY <2>1, <3>1, WholeKept DEF WholeOK, DoneOK
    <3> QED
      BY <3>3, <3>4, <3>5 DEF WholeOK
  <2> QED
    BY <2>2, <2>3
<1>10. CASE Stop
  <2>1. /\ UNCHANGED <<scan, scans, stored, phase, todo, table, entries, links, seen, missed>>
        /\ cut \subseteq cut' /\ Device' = Device /\ Pending' = Pending
    BY <1>10 DEF Stop, CutNow, Device, Pending
  <2> QED
    BY <2>1 DEF WholeOK, WalkOK, InsertOK, DoneOK
<1>11. CASE Kill
  <2>1. /\ UNCHANGED <<scan, scans, stored, seen, missed>> /\ phase' = "idle" /\ todo' = <<>>
        /\ (phase = "idle" /\ cut' = cut) \/ scan \in cut'
    BY <1>11 DEF Kill, CutNow
  <2>2. phase = "idle" => Pending' = Pending
    BY <2>1 DEF PhasesOK, Pending
  <2> QED
    BY <2>1, <2>2 DEF WholeOK, WalkOK, InsertOK, DoneOK
<1> QED
  BY <1>2, <1>3, <1>4, <1>5, <1>6, <1>7, <1>8, <1>9, <1>10, <1>11 DEF Next, ScanStep

-----------------------------------------------------------------------------
(* The theorems *)

LEMMA ScanInvInit == Init => ScanInv
<1> SUFFICES ASSUME Init PROVE ScanInv
  OBVIOUS
<1> USE DEF Init
<1>1. NoEntries \in [DOMAIN NoEntries -> [Attributes -> Values]] /\ DOMAIN NoEntries = {}
  BY DEF NoEntries
<1>2. seen \in [Devices -> [Keys -> SUBSET Values]] /\ shows \in Shown
  BY LldpAssumption
<1>3. scan \in Nat /\ scans \subseteq 1..scan /\ phase = "idle" /\ cancelled \in BOOLEAN
  OBVIOUS
<1>4. todo \in Seq(Devices) /\ table \in 1..6
  OBVIOUS
<1>5. entries \in [DOMAIN entries -> [Attributes -> Values]] /\ DOMAIN entries \subseteq Keys
  BY <1>1
<1>6. PhasesOK /\ SeenOK /\ PagesOK /\ WholeOK
  BY DEF PhasesOK, SeenOK, PagesOK, WholeOK, WalkOK, InsertOK, DoneOK
<1>7. FactsOK
  BY <1>1 DEF FactsOK
<1> HIDE DEF Init
<1>8. ScanTypeOK
  BY <1>2, <1>3, <1>4, <1>5 DEF ScanTypeOK
<1> QED
  BY <1>6, <1>7, <1>8 DEF ScanInv

LEMMA ScanInvNext == ScanInv /\ [Next]_vars => ScanInv'
<1> SUFFICES ASSUME ScanInv, [Next]_vars PROVE ScanInv'
  OBVIOUS
<1>1. ScanTypeOK /\ PhasesOK /\ SeenOK /\ FactsOK /\ PagesOK /\ WholeOK
  BY DEF ScanInv
<1>2. ScanTypeOK'
  BY <1>1, TypeNext
<1>3. PhasesOK' /\ SeenOK' /\ PagesOK'
  BY <1>1, PhasesNext, SeenNext, PagesNext
<1>4. FactsOK' /\ WholeOK'
  BY <1>1, <1>2, FactsNext, WholeNext
<1> QED
  BY <1>2, <1>3, <1>4 DEF ScanInv

(* The invariant of the topology scan: what its locals hold in each phase, *)
(* what has been read of the current device and what is stored of those    *)
(* that are done.                                                          *)
THEOREM ScanInvariance == Spec => []ScanInv
<1> QED
  BY ScanInvInit, ScanInvNext, PTL DEF Spec

(* No link tells what its device has not shown at its key since the scan   *)
(* began, whatever cables are moved between the six walks and whichever    *)
(* walk of another device answers late.                                    *)
THEOREM LinksWereThereHolds == Spec => []LinksWereThere
<1>1. ScanInv => LinksWereThere
  BY DEF ScanInv, FactsOK, Told, LinksWereThere
<1> QED
  BY <1>1, ScanInvariance, PTL

(* What has stayed at a port during a scan is on the page afterwards, for  *)
(* any cap and any order in which the rows of the walks are read.          *)
THEOREM StableNeighborsAreLinkedHolds == Spec => []StableNeighborsAreLinked
<1>1. ScanInv => StableNeighborsAreLinked
  <2> SUFFICES ASSUME ScanInv, phase = "idle", scan \in scans \ cut
               PROVE  \A d \in Devices \ missed, k \in Keys, n \in Named \union Described :
                          (seen[d][k] = {n} /\ Fits(seen, d)) => HasLink(stored, d, k, n)
    BY DEF StableNeighborsAreLinked, HasLink, Fits
  <2> TAKE d \in Devices \ missed, k \in Keys, n \in Named \union Described
  <2> HAVE seen[d][k] = {n} /\ Fits(seen, d)
  <2>1. Pending = {}
    BY DEF ScanInv, PhasesOK, Pending
  <2>2. Whole(seen, stored, d)
    BY <2>1 DEF ScanInv, WholeOK, DoneOK
  <2> QED
    BY <2>2 DEF Whole
<1> QED
  BY <1>1, ScanInvariance, PTL

(* A scan that is stored and does not run has visited every device or was  *)
(* cut short by a stop, so the page, which takes the latest, shows nothing *)
(* less.                                                                   *)
THEOREM PageShowsWholeScanHolds == Spec => []PageShowsWholeScan
<1>1. ASSUME ScanInv, phase = "idle", scans # {} PROVE Latest \in finished \union cut
  <2>1. Latest \in scans
    BY <1>1, LatestIsAScan DEF ScanInv, ScanTypeOK, Latest
  <2> QED
    BY <1>1, <2>1 DEF ScanInv, PagesOK
<1>2. ScanInv => PageShowsWholeScan
  BY <1>1 DEF PageShowsWholeScan
<1> QED
  BY <1>2, ScanInvariance, PTL
=============================================================================

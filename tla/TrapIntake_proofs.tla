-------------------------- MODULE TrapIntake_proofs --------------------------
(***************************************************************************)
(* What the way of a trap keeps up for any mappings, however many packets  *)
(* come, calls are given up and statements fail.                           *)
(***************************************************************************)
EXTENDS TrapIntake, SequenceTheorems, TLAPS

Packets == 1..MaxPackets
Class == [title : STRING \union Oids, recovery : BOOLEAN]
Incident == [title : STRING \union Oids, device : BOOLEAN, last : Packets, open : BOOLEAN]
Calls == {NotTaken, [at |-> "over"]}
         \union [at : {"token", "insert", "classify"}, oid : Oids]
         \union [at : {"device"}, class : Class]
         \union [at : {"correlate"}, class : Class, device : BOOLEAN]

TypeOK ==
    /\ mappings \subseteq [id : Nat, oids : SUBSET Oids, kind : STRING, title : STRING,
                           recovery : BOOLEAN, priority : Nat]
    /\ taken \in 0..MaxPackets
    /\ call \in [Packets -> Calls]
    /\ incidents \in Seq(Incident)
    /\ faults \in Nat

Ended(n) == call[n].at = "over"
Correlating(n) == call[n].at \in {"classify", "device", "correlate"}

(* The receiver takes a packet when it is done with those before it: what  *)
(* is still at work on an earlier one, it has given up.                    *)
Serial ==
    \A n \in Packets : /\ n > taken => call[n] = NotTaken /\ n \notin givenUp
                       /\ n < taken => Ended(n) \/ n \in givenUp
                       /\ call[n] = NotTaken => n > taken

(* A packet goes on to its incidents once it is stored, and what they say  *)
(* of it they say when it is over.                                         *)
StoredFirst ==
    /\ \A n \in Packets : Correlating(n) => n \in stored
    /\ \A i \in 1..Len(incidents) : incidents[i].last \in stored
    /\ recovered \subseteq stored
    /\ \A n \in stored : n \in Packets /\ call[n] # NotTaken
    /\ faults = 0 => \A n \in Packets : Ended(n) /\ n \notin givenUp => n \in stored

IntakeInv == TypeOK /\ Serial /\ StoredFirst /\ RecoveryClearsEarlier

-----------------------------------------------------------------------------
(* What is left of the incidents without one of them. *)
LEMMA WithoutIs ==
    ASSUME TypeOK, NEW i \in 1..Len(incidents)
    PROVE  /\ Without(i) \in Seq(Incident)
           /\ \A j \in 1..Len(Without(i)) : \E k \in 1..Len(incidents) : Without(i)[j] = incidents[k]
<1> DEFINE a == SubSeq(incidents, 1, i - 1)
           b == SubSeq(incidents, i + 1, Len(incidents))
<1>1. incidents \in Seq(Incident) /\ Len(incidents) \in Nat /\ i \in Nat
  BY DEF TypeOK
<1>2. /\ a \in Seq(Incident) /\ Len(a) = i - 1
      /\ \A j \in 1..(i - 1) : a[j] = incidents[j]
  BY <1>1
<1>3. /\ b \in Seq(Incident) /\ Len(b) = Len(incidents) - i
      /\ \A j \in 1..(Len(incidents) - i) : b[j] = incidents[i + j]
  <2>1. b \in Seq(Incident)
    BY <1>1
  <2>2. Len(b) = Len(incidents) - i
    BY <1>1
  <2>3. ASSUME NEW j \in 1..(Len(incidents) - i) PROVE b[j] = incidents[i + j]
    BY <1>1
  <2> QED
    BY <2>1, <2>2, <2>3
<1>4. Without(i) = a \o b
  BY DEF Without
<1> HIDE DEF a, b
<1>5. /\ a \o b \in Seq(Incident) /\ Len(a \o b) = Len(incidents) - 1
      /\ \A j \in 1..(Len(incidents) - 1) :
            (a \o b)[j] = IF j <= i - 1 THEN a[j] ELSE b[j - (i - 1)]
  <2>1. /\ Len(a) \in Nat /\ Len(b) \in Nat /\ Len(a) + Len(b) = Len(incidents) - 1
        /\ Len(a) = i - 1
    BY <1>1, <1>2, <1>3
  <2>2. a \o b \in Seq(Incident) /\ Len(a \o b) = Len(a) + Len(b)
    BY <1>2, <1>3, ConcatProperties
  <2>3. \A j \in 1..(Len(a) + Len(b)) : (a \o b)[j] = IF j <= Len(a) THEN a[j] ELSE b[j - Len(a)]
    BY <1>2, <1>3, <2>1
  <2> QED
    BY <2>1, <2>2, <2>3
<1>6. ASSUME NEW j \in 1..(Len(incidents) - 1)
      PROVE  \E k \in 1..Len(incidents) : (a \o b)[j] = incidents[k]
  <2>1. CASE j <= i - 1
    BY <1>1, <1>2, <1>5, <2>1
  <2>2. CASE ~(j <= i - 1)
    <3>1. j - (i - 1) \in 1..(Len(incidents) - i) /\ i + (j - (i - 1)) = j + 1
      BY <1>1, <2>2
    <3>2. (a \o b)[j] = incidents[j + 1]
      BY <1>3, <1>5, <2>2, <3>1
    <3> QED
      BY <1>1, <3>2
  <2> QED
    BY <2>1, <2>2
<1> QED
  BY <1>4, <1>5, <1>6

(* An alarm adds its incident, and leaves others or takes one away. *)
LEMMA AlarmIncidents ==
    ASSUME TypeOK, NEW n \in Packets, Alarm(n)
    PROVE  /\ incidents' \in Seq(Incident)
           /\ \A i \in 1..Len(incidents') :
                 \/ incidents'[i].last = n
                 \/ \E k \in 1..Len(incidents) : incidents'[i] = incidents[k]
<1> DEFINE inc == [title |-> call[n].class.title, device |-> call[n].device, last |-> n,
                   open |-> TRUE]
<1>1. call[n] \in [at : {"correlate"}, class : Class, device : BOOLEAN]
  BY DEF TypeOK, Alarm, Calls, NotTaken
<1>2. inc \in Incident /\ inc.last = n
  BY <1>1 DEF Incident, Class
<1>3. \/ \E i \in Matching(n) : incidents' = Append(Without(i), inc)
      \/ incidents' = Append(incidents, inc)
  BY DEF Alarm
<1> HIDE DEF inc
<1>4. ASSUME NEW s \in Seq(Incident), incidents' = Append(s, inc),
             \A j \in 1..Len(s) : \E k \in 1..Len(incidents) : s[j] = incidents[k]
      PROVE  /\ incidents' \in Seq(Incident)
             /\ \A i \in 1..Len(incidents') :
                   \/ incidents'[i].last = n
                   \/ \E k \in 1..Len(incidents) : incidents'[i] = incidents[k]
  <2>1. /\ Append(s, inc) \in Seq(Incident) /\ Len(s) \in Nat /\ Len(Append(s, inc)) = Len(s) + 1
        /\ Append(s, inc)[Len(s) + 1] = inc /\ \A j \in 1..Len(s) : Append(s, inc)[j] = s[j]
    BY <1>2
  <2>2. \A i \in 1..(Len(s) + 1) : i = Len(s) + 1 \/ i \in 1..Len(s)
    BY <2>1
  <2>3. ASSUME NEW i \in 1..Len(incidents')
        PROVE  \/ incidents'[i].last = n
               \/ \E k \in 1..Len(incidents) : incidents'[i] = incidents[k]
    <3>1. CASE i = Len(s) + 1
      BY <1>2, <1>4, <2>1, <3>1
    <3>2. CASE i \in 1..Len(s)
      <4>1. incidents'[i] = s[i]
        BY <1>4, <2>1, <3>2
      <4> QED
        BY <1>4, <3>2, <4>1
    <3> QED
      BY <1>4, <2>1, <2>2, <3>1, <3>2
  <2> QED
    BY <1>4, <2>1, <2>3
<1>5. CASE incidents' = Append(incidents, inc)
  <2>1. incidents \in Seq(Incident)
    BY DEF TypeOK
  <2> QED
    BY <1>4, <1>5, <2>1
<1>6. ASSUME NEW i \in Matching(n), incidents' = Append(Without(i), inc)
      PROVE  /\ incidents' \in Seq(Incident)
             /\ \A j \in 1..Len(incidents') :
                   \/ incidents'[j].last = n
                   \/ \E k \in 1..Len(incidents) : incidents'[j] = incidents[k]
  <2>1. i \in 1..Len(incidents)
    BY DEF Matching
  <2> QED
    BY <1>4, <1>6, <2>1, WithoutIs
<1> QED
  BY <1>3, <1>5, <1>6

(* What any call says by its place. *)
LEMMA CallsAre ==
    ASSUME TypeOK, NEW n \in Packets
    PROVE  /\ call[n] # NotTaken <=> call[n].at # "none"
           /\ call[n].at \in {"token", "insert", "classify"} => call[n].oid \in Oids
           /\ call[n].at = "device" => call[n].class \in Class
           /\ call[n].at = "correlate" => call[n].class \in Class /\ call[n].device \in BOOLEAN
           /\ [call[n] EXCEPT !.at = "classify"] \in Calls \/ call[n].at # "insert"
           /\ [call[n] EXCEPT !.at = "insert"] \in Calls \/ call[n].at # "token"
<1>1. call[n] \in Calls
  BY DEF TypeOK
<1>2. NotTaken.at = "none"
  BY DEF NotTaken
<1>3. CASE call[n] \in {NotTaken, [at |-> "over"]}
  BY <1>2, <1>3 DEF NotTaken
<1>4. CASE call[n] \in [at : {"token", "insert", "classify"}, oid : Oids]
  <2>1. /\ [call[n] EXCEPT !.at = "classify"] \in [at : {"token", "insert", "classify"}, oid : Oids]
        /\ [call[n] EXCEPT !.at = "insert"] \in [at : {"token", "insert", "classify"}, oid : Oids]
    BY <1>4
  <2> QED
    BY <1>2, <1>4, <2>1 DEF Calls
<1>5. CASE call[n] \in [at : {"device"}, class : Class]
  BY <1>2, <1>5
<1>6. CASE call[n] \in [at : {"correlate"}, class : Class, device : BOOLEAN]
  BY <1>2, <1>6
<1> QED
  BY <1>1, <1>3, <1>4, <1>5, <1>6 DEF Calls

(* The classes of an OID. *)
LEMMA ClassesAre ==
    ASSUME TypeOK, NEW o \in Oids
    PROVE  Classes(o) \subseteq Class
<1>1. Default(o) \in Class
  BY DEF Default, Class
<1>2. ASSUME NEW r \in Lookup(o)
      PROVE  [title |-> r.title, recovery |-> r.recovery] \in Class
  <2>1. r \in mappings
    BY DEF Lookup
  <2>2. r.title \in STRING /\ r.recovery \in BOOLEAN
    BY <2>1 DEF TypeOK
  <2> QED
    BY <2>2 DEF Class
<1> QED
  BY <1>1, <1>2 DEF Classes

(* One step of a packet's handling, as far as its call and the stored      *)
(* traps are concerned.                                                    *)
HandleStep(n, r) ==
    /\ call[n] # NotTaken /\ ~Ended(n)
    /\ r \in Calls \ {NotTaken} /\ call' = [call EXCEPT ![n] = r]
    /\ UNCHANGED <<input, taken>>
    /\ givenUp' \in {givenUp, givenUp \union {n}}
    /\ stored' \in {stored, stored \union {n}}
    /\ r.at \in {"classify", "device", "correlate"} => Correlating(n) \/ n \in stored'
    /\ faults' \in Nat
    /\ faults' = 0 => faults = 0 /\ (Correlating(n) \/ n \in stored' \/ r.at # "over" \/ n \in givenUp')

LEMMA HandleIs ==
    ASSUME TypeOK, NEW n \in Packets, Handle(n)
    PROVE  \E r : HandleStep(n, r)
<1> DEFINE over == [at |-> "over"]
<1>1. over \in Calls \ {NotTaken} /\ over.at = "over"
  BY DEF Calls, NotTaken
<1>2. faults \in Nat
  BY DEF TypeOK
<1>3. CASE Insert(n)
  <2>1. /\ call[n] # NotTaken /\ ~Ended(n)
        /\ [call[n] EXCEPT !.at = "classify"] \in Calls \ {NotTaken}
    <3>1. call[n].at = "insert"
      BY <1>3 DEF Insert
    <3>2. call[n] \in [at : {"token", "insert", "classify"}, oid : Oids]
      BY <3>1 DEF TypeOK, Calls, NotTaken
    <3>3. [call[n] EXCEPT !.at = "classify"] # NotTaken
      BY <3>2 DEF NotTaken
    <3> QED
      BY <3>1, <3>3, CallsAre DEF Ended
  <2>2. CASE faults' = faults
    <3>1. stored' = stored \union {n} /\ UNCHANGED <<input, taken, givenUp>>
      BY <1>2, <1>3, <2>2 DEF Insert
    <3>2. \/ call' = [call EXCEPT ![n] = over]
          \/ call' = [call EXCEPT ![n] = [call[n] EXCEPT !.at = "classify"]]
      BY <1>3 DEF Insert, Move, Over
    <3> QED
      BY <1>1, <1>2, <2>1, <2>2, <3>1, <3>2 DEF HandleStep
  <2>3. CASE faults' # faults
    <3>1. /\ stored' = stored /\ faults' = faults + 1 /\ UNCHANGED <<input, taken, givenUp>>
          /\ call' = [call EXCEPT ![n] = over]
      BY <1>3, <2>3 DEF Insert, Move, Over
    <3>2. faults' \in Nat /\ faults' # 0
      BY <1>2, <3>1
    <3> QED
      BY <1>1, <2>1, <3>1, <3>2 DEF HandleStep
  <2> QED
    BY <2>2, <2>3
<1>7. CASE LoadToken(n)
  <2>1. /\ call[n] # NotTaken /\ ~Ended(n)
        /\ [call[n] EXCEPT !.at = "insert"] \in Calls \ {NotTaken}
        /\ [call[n] EXCEPT !.at = "insert"].at = "insert"
    <3>1. call[n].at = "token"
      BY <1>7 DEF LoadToken
    <3>2. call[n] \in [at : {"token", "insert", "classify"}, oid : Oids]
      BY <3>1 DEF TypeOK, Calls, NotTaken
    <3>3. [call[n] EXCEPT !.at = "insert"].at = "insert"
      BY <3>2
    <3>4. [call[n] EXCEPT !.at = "insert"] # NotTaken
      BY <3>3 DEF NotTaken
    <3> QED
      BY <3>1, <3>3, <3>4, CallsAre DEF Ended
  <2>2. UNCHANGED <<input, taken>> /\ stored' = stored
    BY <1>7 DEF LoadToken
  <2>3. CASE call' = [call EXCEPT ![n] = [call[n] EXCEPT !.at = "insert"]] /\ givenUp' = givenUp
    <3>1. faults' \in Nat /\ (faults' = 0 => faults = 0)
      BY <1>2, <1>7 DEF LoadToken
    <3> HIDE DEF over
    <3> QED
      BY <2>1, <2>2, <2>3, <3>1 DEF HandleStep
  <2>4. CASE call' = [call EXCEPT ![n] = over]
    <3>1. call'[n] = over
      BY <2>4 DEF TypeOK
    <3>2. call' # [call EXCEPT ![n] = [call[n] EXCEPT !.at = "insert"]]
      BY <1>1, <2>1, <3>1 DEF TypeOK
    <3>3. /\ faults' \in Nat /\ givenUp' \in {givenUp, givenUp \union {n}}
          /\ faults' = 0 => faults = 0 /\ n \in givenUp'
      BY <1>2, <1>7, <3>2 DEF LoadToken, Move, Over
    <3> QED
      BY <1>1, <2>1, <2>2, <2>4, <3>3 DEF HandleStep
  <2> QED
    BY <1>7, <2>3, <2>4 DEF LoadToken, Move, Over
<1>4. CASE Classify(n) \/ FindDevice(n)
  <2>1. /\ Correlating(n) /\ ~Ended(n) /\ call[n] # NotTaken
        /\ stored' = stored /\ UNCHANGED <<input, taken, givenUp>>
    BY <1>4, CallsAre DEF Classify, FindDevice, Correlating, Ended
  <2>2. faults' \in Nat /\ (faults' = 0 => faults = 0)
    BY <1>2, <1>4 DEF Classify, FindDevice
  <2>3. \E r \in Calls \ {NotTaken} : call' = [call EXCEPT ![n] = r]
    <3>1. CASE Classify(n)
      <4>1. ASSUME NEW c \in Class PROVE [at |-> "device", class |-> c] \in Calls \ {NotTaken}
        BY DEF Calls, NotTaken
      <4>2. \A c \in Classes(call[n].oid) : c \in Class
        BY <3>1, CallsAre, ClassesAre DEF Classify
      <4> QED
        BY <1>1, <3>1, <4>1, <4>2 DEF Classify, Move, Over
    <3>2. CASE FindDevice(n)
      <4>1. call[n].class \in Class
        BY <3>2, CallsAre DEF FindDevice
      <4>2. ASSUME NEW b \in BOOLEAN
            PROVE  [at |-> "correlate", class |-> call[n].class, device |-> b] \in Calls \ {NotTaken}
        BY <4>1 DEF Calls, NotTaken
      <4> QED
        BY <3>2, <4>2 DEF FindDevice, Move
    <3> QED
      BY <1>4, <3>1, <3>2
  <2> QED
    BY <2>1, <2>2, <2>3 DEF HandleStep
<1>5. CASE Alarm(n) \/ Recover(n)
  <2>1. /\ Correlating(n) /\ ~Ended(n) /\ call[n] # NotTaken
        /\ stored' = stored /\ faults' = faults /\ UNCHANGED <<input, taken, givenUp>>
        /\ call' = [call EXCEPT ![n] = over]
    BY <1>5, CallsAre DEF Alarm, Recover, Correlating, Ended, Move, Over
  <2> QED
    BY <1>1, <1>2, <2>1 DEF HandleStep
<1>6. CASE Cancel(n)
  <2>1. /\ ~Ended(n) /\ call[n] # NotTaken /\ (n \in givenUp \/ Correlating(n))
        /\ stored' = stored /\ faults' = faults /\ UNCHANGED <<input, taken, givenUp>>
        /\ call' = [call EXCEPT ![n] = over]
    BY <1>6, CallsAre DEF Cancel, Correlating, Ended, Move, Over
  <2> QED
    BY <1>1, <1>2, <2>1 DEF HandleStep
<1> QED
  BY <1>3, <1>4, <1>5, <1>6, <1>7 DEF Handle

-----------------------------------------------------------------------------
(* What a step does to the incidents: an alarm that has not ended makes or *)
(* touches one, a recovery closes all it is meant for, and whatever else   *)
(* changes them only closes.                                               *)
Same(i, k) ==
    /\ incidents'[i].title = incidents[k].title
    /\ incidents'[i].device = incidents[k].device
    /\ incidents'[i].last = incidents[k].last
    /\ incidents'[i].open => incidents[k].open

IncidentStep ==
    \A i \in 1..Len(incidents') :
        \/ \E n \in Packets : /\ incidents'[i].last = n /\ Alarm(n)
        \/ \E k \in 1..Len(incidents) : Same(i, k)

LEMMA IncidentsNext ==
    ASSUME TypeOK, [Next]_vars
    PROVE  incidents' \in Seq(Incident) /\ IncidentStep
<1>0. incidents \in Seq(Incident) /\ Len(incidents) \in Nat
  BY DEF TypeOK
<1>9. \A x \in Incident : [x EXCEPT !.open = FALSE] \in Incident
  BY DEF Incident
<1>10. \A i \in 1..Len(incidents) : incidents[i] \in Incident
  BY <1>0
<1>1. CASE incidents' = incidents
  BY <1>0, <1>1 DEF IncidentStep, Same
<1>2. ASSUME NEW n \in Packets, Alarm(n)
      PROVE  incidents' \in Seq(Incident) /\ IncidentStep
  <2>1. /\ incidents' \in Seq(Incident)
        /\ \A i \in 1..Len(incidents') :
              \/ incidents'[i].last = n
              \/ \E k \in 1..Len(incidents) : incidents'[i] = incidents[k]
    BY <1>2, AlarmIncidents
  <2> QED
    BY <1>2, <2>1 DEF IncidentStep, Same
<1>3. ASSUME Len(incidents') = Len(incidents), incidents' \in Seq(Incident),
             \A i \in 1..Len(incidents) :
                incidents'[i] \in {incidents[i], [incidents[i] EXCEPT !.open = FALSE]}
      PROVE  incidents' \in Seq(Incident) /\ IncidentStep
  <2>1. ASSUME NEW i \in 1..Len(incidents) PROVE Same(i, i)
    <3>1. incidents[i] \in Incident
      BY <1>0
    <3>2. CASE incidents'[i] = incidents[i]
      BY <3>2 DEF Same
    <3>3. CASE incidents'[i] = [incidents[i] EXCEPT !.open = FALSE]
      BY <3>1, <3>3 DEF Same, Incident
    <3> QED
      BY <1>3, <3>2, <3>3
  <2> QED
    BY <1>3, <2>1 DEF IncidentStep
<1>4. ASSUME NEW n \in Packets, Recover(n), incidents' # incidents
      PROVE  incidents' \in Seq(Incident) /\ IncidentStep
  <2>1. incidents' = [i \in 1..Len(incidents) |->
                        IF incidents[i].device /\ incidents[i].title = Loss
                        THEN [incidents[i] EXCEPT !.open = FALSE] ELSE incidents[i]]
    BY <1>4 DEF Recover
  <2>2. \A i \in 1..Len(incidents) :
           /\ incidents'[i] \in {incidents[i], [incidents[i] EXCEPT !.open = FALSE]}
           /\ incidents'[i] \in Incident
    BY <1>9, <1>10, <2>1
  <2>3. incidents' \in Seq(Incident) /\ Len(incidents') = Len(incidents)
    BY <1>0, <2>1, <2>2
  <2> QED
    BY <1>3, <2>2, <2>3
<1>5. ASSUME Resolve
      PROVE  incidents' \in Seq(Incident) /\ IncidentStep
  <2>1. PICK k \in 1..Len(incidents) : incidents' = [incidents EXCEPT ![k].open = FALSE]
    BY <1>5 DEF Resolve
  <2>2. [incidents[k] EXCEPT !.open = FALSE] \in Incident
    BY <1>9, <1>10
  <2>3. incidents' \in Seq(Incident) /\ Len(incidents') = Len(incidents)
    BY <1>0, <2>1, <2>2
  <2>4. \A i \in 1..Len(incidents) :
           incidents'[i] \in {incidents[i], [incidents[i] EXCEPT !.open = FALSE]}
    <3>1. incidents' = [incidents EXCEPT ![k] = [incidents[k] EXCEPT !.open = FALSE]]
      BY <2>1
    <3>2. DOMAIN incidents = 1..Len(incidents)
      BY <1>0
    <3> QED
      BY <3>1, <3>2
  <2> QED
    BY <1>3, <2>3, <2>4
<1>6. CASE Take \/ GiveUp \/ ChangeMappings
  BY <1>1, <1>6 DEF Take, GiveUp, ChangeMappings
<1>7. ASSUME NEW n \in Packets, Handle(n)
      PROVE  incidents' \in Seq(Incident) /\ IncidentStep
  BY <1>1, <1>2, <1>4, <1>7 DEF Handle, LoadToken, Insert, Classify, FindDevice, Cancel
<1>8. CASE UNCHANGED vars
  BY <1>1, <1>8 DEF vars
<1> QED
  BY <1>5, <1>6, <1>7, <1>8 DEF Next, Packets

LEMMA TypeNext ==
    ASSUME TypeOK, [Next]_vars
    PROVE  TypeOK'
<1>1. incidents' \in Seq(Incident)
  BY IncidentsNext
<1>2. CASE ChangeMappings
  <2> DEFINE Mapping == [id : Nat, oids : SUBSET Oids, kind : STRING, title : STRING,
                         recovery : BOOLEAN, priority : Nat]
  <2>1. Rules \subseteq Mapping /\ mappings \subseteq Mapping
    BY IntakeAssumption DEF TypeOK
  <2>2. \A q \in mappings, r \in Rules : [r EXCEPT !.id = q.id] \in Mapping
    BY <2>1
  <2>3. mappings' \subseteq Mapping
    <3> HIDE DEF Mapping
    <3> QED
      BY <1>2, <2>1, <2>2 DEF ChangeMappings
  <2>4. UNCHANGED <<taken, call, incidents, faults>>
    BY <1>2 DEF ChangeMappings
  <2> QED
    BY <2>3, <2>4 DEF TypeOK
<1>3. CASE Take
  <2>1. taken + 1 \in Packets /\ taken' = taken + 1 /\ taken' \in 0..MaxPackets
    BY <1>3, IntakeAssumption DEF Take, TypeOK, Packets
  <2>2. PICK o \in Oids : call' = [call EXCEPT ![taken + 1] = [at |-> First, oid |-> o]]
    BY <1>3 DEF Take
  <2>3. [at |-> First, oid |-> o] \in Calls
    BY DEF Calls, First
  <2>4. call' \in [Packets -> Calls]
    BY <2>1, <2>2, <2>3 DEF TypeOK
  <2>5. UNCHANGED <<mappings, faults>>
    BY <1>3 DEF Take, input
  <2> QED
    BY <1>1, <2>1, <2>4, <2>5 DEF TypeOK
<1>4. CASE GiveUp \/ Resolve
  BY <1>1, <1>4 DEF TypeOK, GiveUp, Resolve, input
<1>5. ASSUME NEW n \in Packets, Handle(n) PROVE TypeOK'
  <2>1. PICK r : HandleStep(n, r)
    BY <1>5, HandleIs
  <2>2. /\ call' = [call EXCEPT ![n] = r] /\ r \in Calls /\ faults' \in Nat
        /\ mappings' = mappings /\ taken' = taken
    BY <2>1 DEF HandleStep, input
  <2> QED
    BY <1>1, <2>2 DEF TypeOK
<1>6. CASE UNCHANGED vars
  BY <1>6 DEF TypeOK, vars
<1> QED
  BY <1>2, <1>3, <1>4, <1>5, <1>6 DEF Next, Packets

LEMMA SerialNext ==
    ASSUME TypeOK, Serial, [Next]_vars
    PROVE  Serial'
<1>0. taken \in 0..MaxPackets /\ MaxPackets \in Nat
  BY IntakeAssumption DEF TypeOK
<1>1. CASE Take
  <2>1. taken' = taken + 1 /\ taken + 1 \in Packets /\ givenUp' = givenUp
    BY <1>0, <1>1 DEF Take, Packets
  <2>2. PICK o \in Oids : call' = [call EXCEPT ![taken + 1] = [at |-> First, oid |-> o]]
    BY <1>1 DEF Take
  <2>3. /\ call'[taken + 1] # NotTaken
        /\ \A n \in Packets \ {taken + 1} : call'[n] = call[n]
    BY <2>1, <2>2 DEF TypeOK, NotTaken, First
  <2>4. taken \in Packets => Ended(taken) \/ taken \in givenUp
    BY <1>0, <1>1 DEF Take, Busy, Ended, Packets
  <2>5. ASSUME NEW n \in Packets
        PROVE  /\ n > taken + 1 => call'[n] = NotTaken /\ n \notin givenUp
               /\ n < taken + 1 => call'[n].at = "over" \/ n \in givenUp
               /\ call'[n] = NotTaken => n > taken + 1
    <3>1. n \in Nat /\ taken \in Nat
      BY <1>0 DEF Packets
    <3>2. CASE n > taken + 1
      BY <2>1, <2>3, <3>1, <3>2 DEF Serial
    <3>3. CASE n = taken + 1
      BY <2>3, <3>1, <3>3
    <3>4. CASE n < taken + 1
      <4>1. n = taken \/ n < taken
        BY <3>1, <3>4
      <4>2. call'[n] = call[n] /\ call[n] # NotTaken
        BY <2>3, <3>1, <3>4, <4>1 DEF Serial
      <4> QED
        BY <2>4, <3>1, <3>4, <4>1, <4>2 DEF Serial, Ended
    <3> QED
      BY <3>1, <3>2, <3>3, <3>4
  <2> QED
    BY <2>1, <2>5 DEF Serial, Ended
<1>2. CASE GiveUp
  <2>1. givenUp' = givenUp \union {taken} /\ taken' = taken /\ call' = call
    BY <1>2 DEF GiveUp
  <2> QED
    BY <1>0, <2>1 DEF Serial, Ended, Packets
<1>3. CASE ChangeMappings \/ Resolve \/ UNCHANGED vars
  <2>1. UNCHANGED <<taken, call, givenUp>>
    BY <1>3 DEF ChangeMappings, Resolve, vars
  <2> QED
    BY <2>1 DEF Serial, Ended
<1>4. ASSUME NEW n \in Packets, Handle(n) PROVE Serial'
  <2>1. PICK r : HandleStep(n, r)
    BY <1>4, HandleIs
  <2>2. /\ call'[n] # NotTaken /\ call[n] # NotTaken /\ ~Ended(n)
        /\ \A m \in Packets \ {n} : call'[m] = call[m]
        /\ taken' = taken /\ givenUp' \in {givenUp, givenUp \union {n}}
    BY <2>1 DEF HandleStep, TypeOK
  <2> QED
    BY <2>2 DEF Serial, Ended
<1> QED
  BY <1>1, <1>2, <1>3, <1>4 DEF Next, Packets

LEMMA StoredNext ==
    ASSUME TypeOK, Serial, StoredFirst, [Next]_vars
    PROVE  StoredFirst'
<1>0. /\ \A n \in Packets : Correlating(n) => n \in stored
      /\ \A i \in 1..Len(incidents) : incidents[i].last \in stored
      /\ recovered \subseteq stored
      /\ \A n \in stored : n \in Packets /\ call[n] # NotTaken
      /\ faults = 0 => \A n \in Packets : Ended(n) /\ n \notin givenUp => n \in stored
  BY DEF StoredFirst
<1>1. stored \subseteq stored' /\ recovered' \subseteq stored'
  <2>1. ASSUME NEW n \in Packets, Handle(n)
        PROVE  stored \subseteq stored' /\ recovered' \subseteq stored'
    <3>1. CASE Recover(n)
      <4>1. n \in stored
        BY <1>0, <3>1 DEF Recover, Correlating
      <4> QED
        BY <1>0, <3>1, <4>1 DEF Recover
    <3>2. CASE ~Recover(n)
      BY <1>0, <2>1, <3>2 DEF Handle, LoadToken, Insert, Classify, FindDevice, Alarm, Cancel
    <3> QED
      BY <3>1, <3>2
  <2>2. CASE Take \/ GiveUp \/ ChangeMappings \/ Resolve \/ UNCHANGED vars
    BY <1>0, <2>2 DEF Take, GiveUp, ChangeMappings, Resolve, vars
  <2> QED
    BY <2>1, <2>2 DEF Next, Packets
<1>2. \A i \in 1..Len(incidents') : incidents'[i].last \in stored'
  <2>1. ASSUME NEW i \in 1..Len(incidents'), NEW n \in Packets, incidents'[i].last = n, Alarm(n)
        PROVE  n \in stored
    BY <1>0, <2>1 DEF Alarm, Correlating
  <2> QED
    BY <1>0, <1>1, <2>1, IncidentsNext DEF IncidentStep, Same
<1>3. CASE Take
  <2>1. taken' = taken + 1 /\ taken + 1 \in Packets /\ taken \in Nat
    BY <1>3, IntakeAssumption DEF Take, Packets, TypeOK
  <2>2. PICK o \in Oids : call' = [call EXCEPT ![taken + 1] = [at |-> First, oid |-> o]]
    BY <1>3 DEF Take
  <2>3. /\ call'[taken + 1] # NotTaken
        /\ call'[taken + 1].at \in {"token", "insert"}
        /\ \A n \in Packets \ {taken + 1} : call'[n] = call[n]
    BY <2>1, <2>2 DEF TypeOK, NotTaken, First
  <2>4. stored' = stored /\ givenUp' = givenUp /\ faults' = faults
    BY <1>3 DEF Take
  <2>5. \A n \in Packets : Correlating(n)' => n \in stored'
    BY <1>0, <2>3, <2>4 DEF Correlating
  <2>6. \A n \in stored' : n \in Packets /\ call'[n] # NotTaken
    BY <1>0, <2>3, <2>4
  <2>7. faults' = 0 => \A n \in Packets : Ended(n)' /\ n \notin givenUp' => n \in stored'
    BY <1>0, <2>3, <2>4 DEF Ended
  <2> QED
    BY <1>1, <1>2, <2>5, <2>6, <2>7 DEF StoredFirst
<1>4. CASE GiveUp
  <2>1. call' = call /\ stored' = stored /\ faults' = faults /\ givenUp \subseteq givenUp'
    BY <1>4 DEF GiveUp
  <2> QED
    BY <1>0, <1>1, <1>2, <2>1 DEF StoredFirst, Ended, Correlating
<1>5. CASE ChangeMappings \/ Resolve \/ UNCHANGED vars
  <2>1. UNCHANGED <<call, stored, faults, givenUp>>
    BY <1>5 DEF ChangeMappings, Resolve, vars
  <2> QED
    BY <1>0, <1>1, <1>2, <2>1 DEF StoredFirst, Ended, Correlating
<1>6. ASSUME NEW n \in Packets, Handle(n) PROVE StoredFirst'
  <2>1. PICK r : HandleStep(n, r)
    BY <1>6, HandleIs
  <2>2. /\ call'[n] = r /\ r # NotTaken /\ call[n] # NotTaken /\ ~Ended(n)
        /\ \A m \in Packets \ {n} : call'[m] = call[m]
        /\ stored' \in {stored, stored \union {n}} /\ givenUp \subseteq givenUp'
        /\ r.at \in {"classify", "device", "correlate"} => n \in stored'
        /\ faults' = 0 => faults = 0 /\ (n \in stored' \/ r.at # "over" \/ n \in givenUp')
    BY <1>0, <2>1 DEF HandleStep, TypeOK
  <2>3. \A m \in Packets : Correlating(m)' => m \in stored'
    BY <1>0, <2>2 DEF Correlating
  <2>4. \A m \in stored' : m \in Packets /\ call'[m] # NotTaken
    BY <1>0, <2>2
  <2>5. faults' = 0 => \A m \in Packets : Ended(m)' /\ m \notin givenUp' => m \in stored'
    BY <1>0, <2>2 DEF Ended
  <2> QED
    BY <1>1, <1>2, <2>3, <2>4, <2>5 DEF StoredFirst
<1> QED
  BY <1>3, <1>4, <1>5, <1>6 DEF Next, Packets

(* An alarm that comes to its incident after a later packet's recovery is  *)
(* one the receiver has given up.                                          *)
LEMMA RecoveryNext ==
    ASSUME TypeOK, TypeOK', Serial, StoredFirst, RecoveryClearsEarlier, [Next]_vars
    PROVE  RecoveryClearsEarlier'
<1>0. /\ incidents \in Seq(Incident) /\ givenUp \subseteq givenUp'
      /\ \A k \in 1..Len(incidents) : incidents[k].last \in Packets
  <2>1. givenUp \subseteq givenUp'
    <3>1. ASSUME NEW n \in Packets, Handle(n) PROVE givenUp \subseteq givenUp'
      BY <3>1 DEF Handle, LoadToken, Insert, Classify, FindDevice, Alarm, Recover, Cancel
    <3> QED
      BY <3>1 DEF Next, Packets, Take, GiveUp, ChangeMappings, Resolve, vars
  <2>2. incidents \in Seq(Incident)
    BY DEF TypeOK
  <2>3. \A k \in 1..Len(incidents) : incidents[k] \in Incident
    BY <2>2
  <2> QED
    BY <2>1, <2>2, <2>3 DEF Incident
<1> SUFFICES ASSUME NEW i \in 1..Len(incidents'), NEW n \in recovered',
                    incidents'[i].open, incidents'[i].device, incidents'[i].title = Loss,
                    incidents'[i].last < n
             PROVE  incidents'[i].last \in givenUp'
  BY DEF RecoveryClearsEarlier
<1>1. CASE n \in recovered
  <2>1. n \in Packets /\ n <= taken
    <3>1. n \in Packets /\ call[n] # NotTaken
      BY <1>1 DEF StoredFirst
    <3> QED
      BY <3>1, IntakeAssumption DEF Serial, TypeOK, Packets
  <2>2. ASSUME NEW m \in Packets, incidents'[i].last = m, Alarm(m)
        PROVE  m \in givenUp
    <3>1. ~Ended(m) /\ m < n
      BY <2>2 DEF Alarm, Ended
    <3>2. m < taken
      BY <2>1, <3>1, IntakeAssumption DEF TypeOK, Packets
    <3> QED
      BY <3>1, <3>2 DEF Serial
  <2>3. ASSUME NEW k \in 1..Len(incidents), Same(i, k)
        PROVE  incidents'[i].last \in givenUp
    BY <1>1, <2>3 DEF Same, RecoveryClearsEarlier
  <2> QED
    BY <1>0, <2>2, <2>3, IncidentsNext DEF IncidentStep
<1>2. CASE n \notin recovered
  <2>1. ASSUME NEW m \in Packets, Handle(m) PROVE FALSE
    <3>1. Recover(m) /\ recovered' # recovered
      BY <1>2, <2>1 DEF Handle, LoadToken, Insert, Classify, FindDevice, Alarm, Cancel
    <3>2. incidents' = [k \in 1..Len(incidents) |->
                          IF incidents[k].device /\ incidents[k].title = Loss
                          THEN [incidents[k] EXCEPT !.open = FALSE] ELSE incidents[k]]
      BY <3>1 DEF Recover
    <3>3. Len(incidents') = Len(incidents)
      BY <1>0, <3>2
    <3>4. incidents[i] \in Incident
      BY <1>0, <3>3
    <3>5. CASE incidents[i].device /\ incidents[i].title = Loss
      <4>1. incidents'[i] = [incidents[i] EXCEPT !.open = FALSE]
        BY <3>2, <3>3, <3>5
      <4>2. incidents'[i].open = FALSE
        BY <3>4, <4>1 DEF Incident
      <4> QED
        BY <4>2
    <3>6. CASE ~(incidents[i].device /\ incidents[i].title = Loss)
      <4>1. incidents'[i] = incidents[i]
        BY <3>2, <3>3, <3>6
      <4> QED
        BY <3>6, <4>1
    <3> QED
      BY <3>5, <3>6
  <2> QED
    BY <1>2, <2>1 DEF Next, Packets, Take, GiveUp, ChangeMappings, Resolve, vars
<1> QED
  BY <1>1, <1>2

-----------------------------------------------------------------------------
LEMMA InitInv ==
    ASSUME Init
    PROVE  IntakeInv
<1>1. /\ taken = 0 /\ call = [n \in Packets |-> NotTaken] /\ givenUp = {} /\ stored = {}
      /\ incidents = <<>> /\ recovered = {} /\ faults = 0 /\ mappings = Configured
  BY DEF Init, Packets
<1>2. TypeOK
  BY <1>1, IntakeAssumption DEF TypeOK, Calls
<1>3. Serial
  BY <1>1, IntakeAssumption DEF Serial, Packets
<1>4. StoredFirst
  <2>1. \A n \in Packets : ~Correlating(n) /\ ~Ended(n)
    BY <1>1 DEF Correlating, Ended, NotTaken
  <2> QED
    BY <1>1, <2>1 DEF StoredFirst
<1>5. RecoveryClearsEarlier
  BY <1>1 DEF RecoveryClearsEarlier
<1> QED
  BY <1>2, <1>3, <1>4, <1>5 DEF IntakeInv

(* The types, the order of the packets, and that a trap is stored before   *)
(* it counts: for any mappings and any number of packets and faults.       *)
THEOREM IntakeInvariance == Spec => []IntakeInv
<1>1. Init => IntakeInv
  BY InitInv
<1>2. IntakeInv /\ [Next]_vars => IntakeInv'
  <2> SUFFICES ASSUME IntakeInv, [Next]_vars PROVE IntakeInv'
    OBVIOUS
  <2>1. TypeOK /\ Serial /\ StoredFirst /\ RecoveryClearsEarlier
    BY DEF IntakeInv
  <2>2. TypeOK'
    BY <2>1, TypeNext
  <2>3. Serial' /\ StoredFirst'
    BY <2>1, SerialNext, StoredNext
  <2>4. RecoveryClearsEarlier'
    BY <2>1, <2>2, RecoveryNext
  <2> QED
    BY <2>2, <2>3, <2>4 DEF IntakeInv
<1> QED
  BY <1>1, <1>2, PTL DEF Spec

(* However the receiver, the server and the database overtake each other,  *)
(* every incident and every change of one has the stored trap that made    *)
(* it, and what is reported as handled is stored.                          *)
THEOREM TrapsBackIncidentsHolds == Spec => []TrapsBackIncidents
<1>1. IntakeInv => TrapsBackIncidents
  <2> SUFFICES ASSUME IntakeInv PROVE TrapsBackIncidents
    OBVIOUS
  <2>1. TypeOK /\ StoredFirst
    BY DEF IntakeInv
  <2>2. \A n \in 1..taken : n \in Packets
    BY <2>1, IntakeAssumption DEF TypeOK, Packets
  <2> QED
    BY <2>1, <2>2 DEF StoredFirst, TrapsBackIncidents, Ended
<1> QED
  BY <1>1, IntakeInvariance, PTL

(* A recovery ends every link loss that came before it and has its device, *)
(* unless the receiver had given up the loss's call.                       *)
THEOREM RecoveryClearsEarlierHolds == Spec => []RecoveryClearsEarlier
<1>1. IntakeInv => RecoveryClearsEarlier
  BY DEF IntakeInv
<1> QED
  BY <1>1, IntakeInvariance, PTL
=============================================================================

----------------------------- MODULE TrapIntake -----------------------------
(***************************************************************************)
(* The way of a trap from one device into its incidents.  The receiver     *)
(* takes the packets one by one; it writes to the database itself, or      *)
(* reads a token and asks the server to over gRPC, and waits five seconds  *)
(* for an answer.  Either way the trap is stored, classified by the        *)
(* mappings of OIDs, given its device, and then opens, touches or resolves *)
(* incidents.  A call that was given up may still be at work, and what it  *)
(* has sent may commit.                                                    *)
(* The transactions on incidents are one step here; TrapCorrelation takes  *)
(* them apart.  How long ago an incident was touched is not followed: an   *)
(* alarm finds one inside the suppression window, or it does not.          *)
(***************************************************************************)
EXTENDS Integers, Sequences, FiniteSets

CONSTANTS
    Oids,           (* the numeric OIDs a device sends                     *)
    Configured,     (* the mappings that are in the table at first         *)
    Rules,          (* mappings an administrator may add                   *)
    MaxPackets, MaxChanges, MaxFaults   (* bounds                          *)

Loss == "Link loss detected"

(* A mapping: the OIDs its pattern fits, what it makes of a trap, its rank *)
(* and its id.  It has the generic vendor: a packet's variables are named  *)
(* by numbers too, so no other vendor is ever looked for.                  *)
ASSUME IntakeAssumption ==
    /\ Configured \union Rules \subseteq
           [id : Nat, oids : SUBSET Oids, kind : STRING, title : STRING, recovery : BOOLEAN,
            priority : Nat]
    /\ {MaxPackets, MaxChanges, MaxFaults} \subseteq Nat

VARIABLES
    grpc,       (* the receiver forwards over gRPC                         *)
    mappings,   (* trap_oid_mappings                                       *)
    changes,    (* changes of the mappings so far                          *)
    taken,      (* how many packets of the device the receiver has taken   *)
    call,       (* call[n]: how far the handling of packet n is            *)
    givenUp,    (* packets for which the receiver no longer waits          *)
    stored,     (* traps                                                   *)
    incidents,  (* the trap incidents                                      *)
    recovered,  (* history: the packets that have resolved what was open   *)
    faults      (* database calls that failed                              *)

vars == <<grpc, mappings, changes, taken, call, givenUp, stored, incidents, recovered, faults>>
input == <<grpc, mappings, changes>>

NotTaken == [at |-> "none"]
First == IF grpc THEN "token" ELSE "insert"
Busy == taken > 0 /\ call[taken].at # "over" /\ taken \notin givenUp

-----------------------------------------------------------------------------
(* The mappings *)

Before(a, b) ==
    \/ a.priority > b.priority
    \/ a.priority = b.priority /\ a.id < b.id

(* trapOIDMappingLookup *)
Lookup(oid) ==
    {r \in mappings : /\ oid \in r.oids
                      /\ \A q \in mappings : oid \in q.oids /\ q # r => Before(r, q)}

(* defaultTrapClassification looks for words, and finds none in a number.  *)
Default(oid) == [title |-> oid, recovery |-> FALSE]

Classes(oid) ==
    IF Lookup(oid) = {} THEN {Default(oid)}
    ELSE {[title |-> r.title, recovery |-> r.recovery] : r \in Lookup(oid)}

(* Create, update (which replaces a row) and delete. *)
ChangeMappings ==
    /\ changes < MaxChanges
    /\ changes' = changes + 1
    /\ \/ \E r \in Rules :
             /\ \A q \in mappings : q.oids # r.oids \/ q.kind # r.kind
             /\ mappings' = mappings \union {r}
       \/ \E q \in mappings : mappings' = mappings \ {q}
       \/ \E q \in mappings, r \in Rules :
             /\ \A o \in mappings \ {q} : o.oids # r.oids \/ o.kind # r.kind
             /\ mappings' = (mappings \ {q}) \union {[r EXCEPT !.id = q.id]}
    /\ UNCHANGED <<grpc, taken, call, givenUp, stored, incidents, recovered, faults>>

-----------------------------------------------------------------------------
(* The receiver *)

(* Mutant: a goroutine for each packet. *)
TakeAtOnce ==
    /\ taken < MaxPackets
    /\ taken' = taken + 1
    /\ \E o \in Oids : call' = [call EXCEPT ![taken + 1] = [at |-> First, oid |-> o]]
    /\ UNCHANGED <<input, givenUp, stored, incidents, recovered, faults>>

(* The listener calls its handler for one packet after the other; the      *)
(* packets that come meanwhile wait in the socket, or are lost there.      *)
Take ==
    /\ taken < MaxPackets /\ ~Busy
    /\ taken' = taken + 1
    /\ \E o \in Oids : call' = [call EXCEPT ![taken + 1] = [at |-> First, oid |-> o]]
    /\ UNCHANGED <<input, givenUp, stored, incidents, recovered, faults>>

(* Five seconds have passed; nothing is tried again.  The reading of the   *)
(* token does not end with them.                                           *)
GiveUp ==
    /\ Busy /\ call[taken].at # "token"
    /\ givenUp' = givenUp \union {taken}
    /\ UNCHANGED <<input, taken, call, stored, incidents, recovered, faults>>

-----------------------------------------------------------------------------
(* The handling of a packet, by the server or by the receiver *)

Move(n, r) == call' = [call EXCEPT ![n] = r]
Over(n) == Move(n, [at |-> "over"])

(* A receiver that has given up does not begin another statement; the      *)
(* server goes on until it sees the deadline too.                          *)
GoesOn(n) == grpc \/ n \notin givenUp

(* The token that goes with the call: the one just read is still used, or  *)
(* the setting is read without a deadline.  If that lasts too long the     *)
(* call fails as it begins; if it fails, the token of the environment      *)
(* takes its place, which the server may refuse.                           *)
LoadToken(n) ==
    /\ call[n].at = "token"
    /\ \/ Move(n, [call[n] EXCEPT !.at = "insert"]) /\ UNCHANGED <<givenUp, faults>>
       \/ givenUp' = givenUp \union {n} /\ Over(n) /\ UNCHANGED faults
       \/ /\ faults < MaxFaults /\ faults' = faults + 1
          /\ Move(n, [call[n] EXCEPT !.at = "insert"]) \/ Over(n)
          /\ UNCHANGED givenUp
    /\ UNCHANGED <<input, taken, stored, incidents, recovered>>

(* Mutant: an error of the insert is logged, and the trap correlated.      *)
InsertAndGoOn(n) ==
    /\ call[n].at = "insert"
    /\ \/ stored' = stored \union {n} /\ UNCHANGED faults
       \/ faults < MaxFaults /\ faults' = faults + 1 /\ UNCHANGED stored
    /\ IF GoesOn(n) THEN Move(n, [call[n] EXCEPT !.at = "classify"]) ELSE Over(n)
    /\ UNCHANGED <<input, taken, givenUp, incidents, recovered>>

Insert(n) ==
    /\ call[n].at = "insert"
    /\ \/ /\ stored' = stored \union {n}
          /\ IF GoesOn(n) THEN Move(n, [call[n] EXCEPT !.at = "classify"]) ELSE Over(n)
          /\ UNCHANGED faults
       \/ /\ faults < MaxFaults /\ faults' = faults + 1
          /\ Over(n)
          /\ UNCHANGED stored
    /\ UNCHANGED <<input, taken, givenUp, incidents, recovered>>

(* An error of this lookup ends the correlation. *)
Classify(n) ==
    /\ call[n].at = "classify" /\ GoesOn(n)
    /\ \/ /\ \E c \in Classes(call[n].oid) : Move(n, [at |-> "device", class |-> c])
          /\ UNCHANGED faults
       \/ /\ faults < MaxFaults /\ faults' = faults + 1
          /\ Over(n)
    /\ UNCHANGED <<input, taken, givenUp, stored, incidents, recovered>>

(* An error of this one means an incident without a device. *)
FindDevice(n) ==
    /\ call[n].at = "device" /\ GoesOn(n)
    /\ \/ Move(n, [at |-> "correlate", class |-> call[n].class, device |-> TRUE]) /\ UNCHANGED faults
       \/ /\ faults < MaxFaults /\ faults' = faults + 1
          /\ Move(n, [at |-> "correlate", class |-> call[n].class, device |-> FALSE])
    /\ UNCHANGED <<input, taken, givenUp, stored, incidents, recovered>>

Matching(n) ==
    {i \in 1..Len(incidents) : /\ incidents[i].open
                               /\ incidents[i].title = call[n].class.title
                               /\ incidents[i].device = call[n].device}

Without(i) == SubSeq(incidents, 1, i - 1) \o SubSeq(incidents, i + 1, Len(incidents))

(* CreateOrTouchOpenTrapIncident: the one touched last, if it is inside    *)
(* the window, or a new one.  The incidents are in the order of touching.  *)
Alarm(n) ==
    /\ call[n].at = "correlate" /\ ~call[n].class.recovery
    /\ LET inc == [title |-> call[n].class.title, device |-> call[n].device, last |-> n, open |-> TRUE]
       IN  \/ \E i \in Matching(n) : /\ \A j \in Matching(n) : j <= i
                                     /\ incidents' = Append(Without(i), inc)
           \/ incidents' = Append(incidents, inc)
    /\ Over(n)
    /\ UNCHANGED <<input, taken, givenUp, stored, recovered, faults>>

(* ResolveOpenTrapIncidents: of this device, and with this title only. *)
Recover(n) ==
    /\ call[n].at = "correlate" /\ call[n].class.recovery
    /\ IF call[n].device
       THEN /\ incidents' = [i \in 1..Len(incidents) |->
                   IF incidents[i].device /\ incidents[i].title = Loss
                   THEN [incidents[i] EXCEPT !.open = FALSE] ELSE incidents[i]]
            /\ recovered' = recovered \union {n}
       ELSE UNCHANGED <<incidents, recovered>>
    /\ Over(n)
    /\ UNCHANGED <<input, taken, givenUp, stored, faults>>

(* The deadline, or an error of the transaction, ends the handling. *)
Cancel(n) ==
    /\ call[n].at \notin {"none", "over"}
    /\ n \in givenUp \/ call[n].at = "correlate"
    /\ Over(n)
    /\ UNCHANGED <<input, taken, givenUp, stored, incidents, recovered, faults>>

(* An operator resolves an incident. *)
Resolve ==
    /\ \E i \in 1..Len(incidents) :
          incidents[i].open /\ incidents' = [incidents EXCEPT ![i].open = FALSE]
    /\ UNCHANGED <<input, taken, call, givenUp, stored, recovered, faults>>

Init ==
    /\ grpc \in BOOLEAN
    /\ mappings = Configured /\ changes = 0
    /\ taken = 0
    /\ call = [n \in 1..MaxPackets |-> NotTaken]
    /\ givenUp = {} /\ stored = {} /\ incidents = <<>> /\ recovered = {}
    /\ faults = 0

Handle(n) ==
    LoadToken(n) \/ Insert(n) \/ Classify(n) \/ FindDevice(n) \/ Alarm(n) \/ Recover(n) \/ Cancel(n)

Next ==
    \/ Take \/ GiveUp
    \/ ChangeMappings \/ Resolve
    \/ \E n \in 1..MaxPackets : Handle(n)

Spec == Init /\ [][Next]_vars

-----------------------------------------------------------------------------
(* Properties *)

(* Whatever fails or comes late, there is no incident, and no change of    *)
(* one, without the stored trap that made it; and a packet the receiver    *)
(* reports as handled is stored, unless its insert failed.                 *)
TrapsBackIncidents ==
    /\ \A i \in 1..Len(incidents) : incidents[i].last \in stored
    /\ recovered \subseteq stored
    /\ faults = 0 => \A n \in 1..taken : call[n].at = "over" /\ n \notin givenUp => n \in stored

(* A recovery ends the link losses that came before it.  What it leaves    *)
(* open was reported by a later alarm, by one whose call the receiver had  *)
(* given up, or cannot be found by it: the alarm had lost its device, or   *)
(* a mapping had given it another title.                                   *)
RecoveryClearsEarlier ==
    \A i \in 1..Len(incidents), n \in recovered :
        LET inc == incidents[i]
        IN  inc.open /\ inc.device /\ inc.title = Loss /\ inc.last < n => inc.last \in givenUp
=============================================================================

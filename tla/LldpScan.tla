------------------------------- MODULE LldpScan -------------------------------
(***************************************************************************)
(* The worker's topology scan: every five minutes it walks six LLDP tables *)
(* of one device after the other and stores the neighbours it finds as the *)
(* links of a new row of lldp_topology_scans, whose highest id is what the *)
(* topology page shows.  Walks take time, so cables are moved between two  *)
(* of them; a walk can fail or outlast its timeout; the worker is stopped  *)
(* or killed in the middle and started again.                              *)
(*                                                                         *)
(* A value of a walk is the neighbour it tells of, or Nothing for an empty *)
(* string; a key is [port, index], the time mark of the index is dropped.  *)
(***************************************************************************)
EXTENDS Naturals, Sequences, FiniteSetsExt

CONSTANTS
    DeviceList,     (* table devices in the order of their addresses        *)
    Keys,           (* indices [port, index] of remote entries              *)
    Neighbors,      (* what can be plugged in                               *)
    Named,          (* neighbours with a sysName                            *)
    Described,      (* neighbours with a sysDesc                            *)
    Known,          (* named neighbours that are in table devices           *)
    Nothing,
    Cap,            (* NMS_LLDP_MAX_REMOTE_ENTRIES                          *)
    Initially,      (* bound: what the devices show at first                *)
    Movable,        (* bound: [device, key] whose cable moves               *)
    MaxScans,       (* bound: scans the model keeps apart                   *)
    MaxReplugs,     (* bound: cables moved                                  *)
    MaxErrors,      (* bound: failed walks and statements                   *)
    MaxStops        (* bound: stops of the worker                           *)

Devices == {DeviceList[i] : i \in 1..Len(DeviceList)}
Tables == <<"locPortDesc", "locPortId", "sysName", "sysDesc", "portId", "portDesc">>
Attributes == {"sysName", "sysDesc", "portId", "portDesc"}
Shown == [Devices -> [Keys -> Neighbors \union {Nothing}]]

ASSUME LldpAssumption ==
    /\ DeviceList \in Seq(Devices) /\ IsFiniteSet(Keys)
    /\ \A i, j \in 1..Len(DeviceList) : DeviceList[i] = DeviceList[j] => i = j
    /\ Nothing \notin Neighbors
    /\ Known \subseteq Named /\ Named \union Described \subseteq Neighbors
    /\ Initially \subseteq Shown
    /\ \A m \in Movable : m.device \in Devices /\ m.key \in Keys
    /\ Cap \in Nat \ {0}
    /\ MaxScans \in Nat \ {0}
    /\ {MaxReplugs, MaxErrors, MaxStops} \subseteq Nat

VARIABLES
    scans,      (* ids of the rows of lldp_topology_scans                  *)
    scan,       (* id of the last scan started; 0 before the first         *)
    stored,     (* rows of lldp_links of that scan, the only ones written  *)
    phase,      (* "idle", "device", "walk" or "insert"                    *)
    todo,       (* devices of the scan that are not done, the current first *)
    table,      (* index of the walk that runs                             *)
    entries,    (* remoteEntries of the current device                     *)
    links,      (* links still to insert                                   *)
    late,       (* goroutines whose walk has outlasted its timeout         *)
    cancelled,  (* the worker's context                                    *)
    shows,      (* what each device's LLDP tables hold                     *)
    replugs, errors, stops,
    seen,       (* history: what a key has shown since the scan started    *)
    missed,     (* history: devices skipped, or with a link not inserted   *)
    finished,   (* history: scans that returned without an error           *)
    cut         (* history: scans that ran when the worker was stopped     *)

snapshot == <<scans, scan, stored>>
work == <<phase, todo, table, entries, links>>
world == <<shows, replugs>>
history == <<seen, missed, finished, cut>>
vars == <<snapshot, work, late, cancelled, world, errors, stops, history>>

NoEntries == [k \in {} |-> [a \in Attributes |-> Nothing]]

Goto(p) == phase' = p

(* The variables of the loop body start afresh with each device. *)
Leave == table' = 1 /\ entries' = NoEntries /\ links' = {}

(* The errors of a step: none while the context is cancelled, when every   *)
(* call may fail, and a bounded number otherwise.                          *)
MayFail ==
    \/ cancelled /\ UNCHANGED errors
    \/ errors < MaxErrors /\ errors' = errors + 1

-----------------------------------------------------------------------------
(* ScanAllDevicesLLDP *)

(* The ticker never stops.  Once MaxScans ids are in use the scans move    *)
(* down by one and the oldest is forgotten, for the page and all that is   *)
(* claimed here look at the latest ones only.                              *)
NextId == IF scan < MaxScans THEN scan + 1 ELSE scan

Kept(S) == IF scan < MaxScans THEN S ELSE {s \in 1..scan : s + 1 \in S}

(* Mutant: the flag that a scan runs is cleared by a finished scan alone. *)
StartScanAfterFinished ==
    /\ phase = "idle" /\ ~cancelled
    /\ scan = 0 \/ scan \in finished
    /\ scan' = NextId
    /\ scans' = Kept(scans) \union {NextId}
    /\ finished' = Kept(finished) /\ cut' = Kept(cut)
    /\ stored' = {}
    /\ Goto("device")
    /\ todo' = DeviceList
    /\ seen' = [d \in Devices |-> [k \in Keys |-> {shows[d][k]}]]
    /\ missed' = {}
    /\ UNCHANGED <<table, entries, links, late, cancelled, world, errors, stops>>

(* Ticker and lldpBusy; CreateLldpScan.  A scan that cannot list the       *)
(* devices or store its row leaves nothing behind and is not modelled.     *)
StartScan ==
    /\ phase = "idle" /\ ~cancelled
    /\ scan' = NextId
    /\ scans' = Kept(scans) \union {NextId}
    /\ finished' = Kept(finished) /\ cut' = Kept(cut)
    /\ stored' = {}
    /\ Goto("device")
    /\ todo' = DeviceList
    /\ seen' = [d \in Devices |-> [k \in Keys |-> {shows[d][k]}]]
    /\ missed' = {}
    /\ UNCHANGED <<table, entries, links, late, cancelled, world, errors, stops>>

BeginDevice ==
    /\ phase = "device" /\ todo # <<>> /\ ~cancelled
    /\ Goto("walk")
    /\ UNCHANGED <<snapshot, todo, table, entries, links, late, cancelled, world, errors, stops,
                   history>>

(* The context is looked at before a device and not after the last one.    *)
(* The cleanup has a context of its own and can fail.                      *)
AbortScan ==
    /\ phase = "device" /\ todo # <<>> /\ cancelled
    /\ \/ /\ scans' = scans \ {scan}
          /\ stored' = {}
          /\ UNCHANGED errors
       \/ /\ errors < MaxErrors
          /\ errors' = errors + 1
          /\ UNCHANGED <<scans, stored>>
    /\ Goto("idle") /\ todo' = <<>>
    /\ UNCHANGED <<scan, table, entries, links, late, cancelled, world, stops, history>>

FinishScan ==
    /\ phase = "device" /\ todo = <<>>
    /\ Goto("idle")
    /\ finished' = finished \union {scan}
    /\ UNCHANGED <<snapshot, todo, table, entries, links, late, cancelled, world, errors, stops,
                   seen, missed, cut>>

-----------------------------------------------------------------------------
(* One device *)

Device == Head(todo)

Value(n, a) ==
    IF (a = "sysName" => n \in Named) /\ (a = "sysDesc" => n \in Described) THEN n ELSE Nothing

Present == {k \in Keys : shows[Device][k] # Nothing}

(* The rows of a walk are read in the order of a Go map, which is random,  *)
(* until one needs a new entry and the cap is reached: the sets of keys    *)
(* that may have been read by then.                                        *)
Read ==
    {P \in SUBSET Present :
        LET all == DOMAIN entries \union P
        IN  /\ Cardinality(all) <= Cap
            /\ P = Present \/ (Cardinality(all) = Cap /\ ~(Present \subseteq all))}

WithColumn(P, a) ==
    [k \in DOMAIN entries \union P |->
        IF k \in DOMAIN entries
        THEN IF k \in P THEN [entries[k] EXCEPT ![a] = Value(shows[Device][k], a)] ELSE entries[k]
        ELSE [b \in Attributes |-> IF b = a THEN Value(shows[Device][k], a) ELSE Nothing]]

(* Mutant: an entry without a name is no link. *)
NamedLinksOf(E) ==
    {[local |-> Device, key |-> k, entry |-> E[k]] :
        k \in {j \in DOMAIN E : E[j].sysName # Nothing}}

(* An entry is a link when it has a name or a description. *)
LinksOf(E) ==
    {[local |-> Device, key |-> k, entry |-> E[k]] :
        k \in {j \in DOMAIN E : E[j].sysName # Nothing \/ E[j].sysDesc # Nothing}}

(* walkWithTimeout returns the rows of the walk. *)
WalkAnswers ==
    /\ phase = "walk"
    /\ IF Tables[table] \in Attributes
       THEN \E P \in Read : entries' = WithColumn(P, Tables[table])
       ELSE UNCHANGED entries
    /\ IF table = Len(Tables)
       THEN Goto("insert") /\ links' = LinksOf(entries') /\ UNCHANGED table
       ELSE table' = table + 1 /\ UNCHANGED <<phase, links>>
    /\ UNCHANGED <<snapshot, todo, late, cancelled, world, errors, stops, history>>

(* Mutant: a failed walk ends the scan. *)
WalkFailsScan ==
    /\ phase = "walk"
    /\ MayFail
    /\ late' \in {late, late + 1}
    /\ missed' = missed \union {todo[i] : i \in 1..Len(todo)}
    /\ Goto("idle") /\ todo' = <<>>
    /\ Leave
    /\ UNCHANGED <<snapshot, cancelled, world, stops, seen, finished, cut>>

(* An SNMP error, the timeout or the cancelled context: the device is      *)
(* skipped.  After a timeout the walk goes on in its goroutine.            *)
WalkFails ==
    /\ phase = "walk"
    /\ MayFail
    /\ late' \in {late, late + 1}
    /\ missed' = missed \union {Device}
    /\ Goto("device") /\ todo' = Tail(todo)
    /\ Leave
    /\ UNCHANGED <<snapshot, cancelled, world, stops, seen, finished, cut>>

(* The channel has room for the result that nobody waits for. *)
LateWalkEnds ==
    /\ late > 0
    /\ late' = late - 1
    /\ UNCHANGED <<snapshot, work, cancelled, world, errors, stops, history>>

(* The UNIQUE constraint never holds for a remote address that is NULL. *)
Conflicts(l) ==
    /\ l.entry.sysName \in Known
    /\ \E m \in stored : /\ m.local = l.local /\ m.key.port = l.key.port
                        /\ m.entry.sysName = l.entry.sysName
                        /\ m.entry.portId = l.entry.portId

(* InsertLldpLink, in the order of the map; an error is logged. *)
InsertLink ==
    /\ phase = "insert"
    /\ \E l \in links :
          /\ links' = links \ {l}
          /\ \/ /\ stored' = IF Conflicts(l) THEN stored ELSE stored \union {l}
                /\ UNCHANGED <<errors, missed>>
             \/ MayFail /\ missed' = missed \union {Device} /\ UNCHANGED stored
    /\ UNCHANGED <<scans, scan, phase, todo, table, entries, late, cancelled, world, stops,
                   seen, finished, cut>>

(* Mutant: the entries are kept for the next device. *)
EndDeviceKeeping ==
    /\ phase = "insert" /\ links = {}
    /\ Goto("device") /\ todo' = Tail(todo)
    /\ table' = 1
    /\ UNCHANGED <<snapshot, entries, links, late, cancelled, world, errors, stops, history>>

EndDevice ==
    /\ phase = "insert" /\ links = {}
    /\ Goto("device") /\ todo' = Tail(todo)
    /\ Leave
    /\ UNCHANGED <<snapshot, late, cancelled, world, errors, stops, history>>

-----------------------------------------------------------------------------
(* The world *)

Replug ==
    /\ replugs < MaxReplugs
    /\ replugs' = replugs + 1
    /\ \E m \in Movable, n \in Neighbors \union {Nothing} :
          /\ n # shows[m.device][m.key]
          /\ shows' = [shows EXCEPT ![m.device][m.key] = n]
          /\ seen' = [seen EXCEPT ![m.device][m.key] = @ \union {n}]
    /\ UNCHANGED <<snapshot, work, late, cancelled, errors, stops, missed, finished, cut>>

CanStop == stops < MaxStops

CutNow == cut' = IF phase = "idle" THEN cut ELSE cut \union {scan}

(* SIGTERM; the loop waits for the scan (lldpWg.Wait). *)
Stop ==
    /\ CanStop /\ ~cancelled
    /\ stops' = stops + 1
    /\ cancelled' = TRUE
    /\ CutNow
    /\ UNCHANGED <<snapshot, work, late, world, errors, seen, missed, finished>>

Restart ==
    /\ cancelled /\ phase = "idle"
    /\ cancelled' = FALSE
    /\ late' = 0
    /\ UNCHANGED <<snapshot, work, world, errors, stops, history>>

(* The process dies at once and is started again. *)
Kill ==
    /\ CanStop
    /\ stops' = stops + 1
    /\ cancelled' = FALSE
    /\ late' = 0
    /\ Goto("idle") /\ todo' = <<>>
    /\ Leave
    /\ CutNow
    /\ UNCHANGED <<snapshot, world, errors, seen, missed, finished>>

Init ==
    /\ scans = {} /\ scan = 0 /\ stored = {}
    /\ phase = "idle" /\ todo = <<>> /\ table = 1 /\ entries = NoEntries /\ links = {}
    /\ late = 0 /\ cancelled = FALSE
    /\ shows \in Initially
    /\ replugs = 0 /\ errors = 0 /\ stops = 0
    /\ seen = [d \in Devices |-> [k \in Keys |-> {}]]
    /\ missed = {} /\ finished = {} /\ cut = {}

ScanStep ==
    \/ BeginDevice \/ AbortScan \/ FinishScan
    \/ WalkAnswers \/ WalkFails \/ InsertLink \/ EndDevice

Next ==
    \/ StartScan \/ ScanStep \/ LateWalkEnds
    \/ Replug \/ Stop \/ Restart \/ Kill

(* The ticker fires, a scan goes on because every walk has a timeout, and  *)
(* the requests of a late walk time out in the SNMP library.               *)
Spec ==
    /\ Init /\ [][Next]_vars
    /\ WF_vars(StartScan) /\ WF_vars(ScanStep) /\ WF_vars(LateWalkEnds)

-----------------------------------------------------------------------------
(* Properties *)

(* Everything a link tells has been there: each of its values comes from a *)
(* neighbour that the device has shown at that key since the scan started, *)
(* and from no other device, scan or late walk.                            *)
LinksWereThere ==
    \A l \in stored, a \in Attributes :
        l.entry[a] # Nothing => l.entry[a] \in seen[l.local][l.key]

(* Nothing that has stayed is missing: when a scan is over, a neighbour    *)
(* that was at its port throughout has a link, if it tells its name or its *)
(* description, the device was not skipped and its entries fit the cap.    *)
StableNeighborsAreLinked ==
    (phase = "idle" /\ scan \in scans \ cut) =>
        \A d \in Devices \ missed, k \in Keys, n \in Named \union Described :
            (/\ seen[d][k] = {n}
             /\ Cardinality({j \in Keys : seen[d][j] # {Nothing}}) <= Cap)
            => \E l \in stored : /\ l.local = d /\ l.key.port = k.port
                                 /\ l.entry.sysName = Value(n, "sysName")
                                 /\ l.entry.portId = n

Latest == Max(scans)

(* Between two scans the topology page shows a scan that has visited every *)
(* device, or one that the stop of the worker has cut short; a device that *)
(* fails is no reason to show less.                                        *)
PageShowsWholeScan == phase = "idle" /\ scans # {} => Latest \in finished \union cut

(* What a stop has left does not stay: when the worker runs on (its stops  *)
(* are bounded, its scans are not), the page shows a finished scan again   *)
(* and again, whichever devices fail.  Not for ever: each scan is the      *)
(* latest from its start.                                                  *)
TopologyHeals ==
    <>[]~cancelled => []<>(scans # {} /\ Latest \in finished)

=============================================================================

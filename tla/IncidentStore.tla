---------------------------- MODULE IncidentStore ----------------------------
(***************************************************************************)
(* The tables incidents and incident_transitions and every operation that  *)
(* writes them: the HTTP handlers of operators, the ITSM webhook, the      *)
(* worker's escalation, trap correlation and the auto-resolution of a      *)
(* recovered device.  An operation is one database transaction.  Those     *)
(* that hold the row locks (SELECT ... FOR UPDATE) of the rows they decide *)
(* on are one step, and the time of the step is their NOW().  The          *)
(* correlation is not covered by its advisory lock, which the others do    *)
(* not take: it writes at its commit what it decided on the rows as they   *)
(* were at some time since its start, and writes the time of its start.    *)
(* Module TrapCorrelation takes it apart, statement by statement.          *)
(***************************************************************************)
EXTENDS Naturals, Sequences

CONSTANTS
    Devices,        (* ids of table devices                                *)
    NoDevice,       (* SQL NULL in incidents.device_id                     *)
    Classes,        (* [title, severity, source] of the incidents raised   *)
    Assignees,      (* owners an incident can be given                     *)
    NoAssignee,     (* SQL NULL in incidents.assignee                      *)
    EnvAssignee,    (* the NMS_INCIDENT_ASSIGNEE_* settings                *)
    Policies,       (* the worker's escalation policies                    *)
    LinkLoss,       (* the title "Link loss detected"                      *)
    Window,         (* suppression window, in ticks                        *)
    MaxIncidents,   (* bound: incidents raised                             *)
    MaxAudit,       (* bound: audit rows of one incident                   *)
    MaxTime         (* bound: ticks of the clock                           *)

VARIABLES
    now,        (* the database clock                                      *)
    live,       (* devices that still have a row                           *)
    incidents,  (* table incidents, in id order                            *)
    audit       (* audit[i]: rows of incident_transitions for incident i   *)

store == <<live, incidents, audit>>
vars == <<now, store>>

Statuses == {"new", "acknowledged", "in_progress", "resolved", "closed"}
OpenStatuses == {"new", "acknowledged", "in_progress"}
StampedStatuses == {"acknowledged", "resolved", "closed"}
Severities == {"critical", "warning", "info"}
Sources == {"polling", "trap", "manual"}
Never == 0      (* SQL NULL in a timestamp column; the clock starts at 1 *)
NoStatus == ""  (* a request without a status *)

ASSUME ConstantsAssumption ==
    /\ NoDevice \notin Devices
    /\ NoAssignee \notin Assignees
    /\ \A c \in Classes : c.severity \in Severities /\ c.source \in Sources
    /\ EnvAssignee \in [{"critical", "trap", "polling", "manual", "default"}
                            -> Assignees \union {NoAssignee}]
    /\ \A p \in Policies : p.target \in Assignees /\ p.olderThan \in Nat
    /\ Window \in Nat
    /\ MaxIncidents \in Nat
    /\ MaxAudit \in Nat
    /\ MaxTime \in Nat

-----------------------------------------------------------------------------
(* Statuses *)

StatusOrder == <<"new", "acknowledged", "in_progress", "resolved", "closed">>

Rank ==
    [new |-> 1, acknowledged |-> 2, in_progress |-> 3, resolved |-> 4, closed |-> 5]

(* Mutant: an incident that was resolved may be taken up again. *)
NextAllowedReopening ==
    [new          |-> {"acknowledged"},
     acknowledged |-> {"in_progress", "resolved"},
     in_progress  |-> {"resolved"},
     resolved     |-> {"closed", "in_progress"},
     closed       |-> {}]

NextAllowed ==
    [new          |-> {"acknowledged"},
     acknowledged |-> {"in_progress", "resolved"},
     in_progress  |-> {"resolved"},
     resolved     |-> {"closed"},
     closed       |-> {}]

(* incidentStatusPath: the statuses passed from f (excluded) to t; empty   *)
(* unless t lies ahead of f.                                               *)
StatusPath(f, t) == SubSeq(StatusOrder, Rank[f] + 1, Rank[t])

AuditRow(f, t) == [from |-> f, to |-> t, at |-> now]

(* One audit row for each step of the path from f to t. *)
PathRows(f, t) ==
    [k \in 1..Len(StatusPath(f, t)) |->
        AuditRow(StatusOrder[Rank[f] + k - 1], StatusOrder[Rank[f] + k])]

-----------------------------------------------------------------------------
(* Rows *)

IsOpen(r) == r.status \in OpenStatuses

(* defaultIncidentAssignee: critical first, then the source, then default. *)
DefaultAssignee(c) ==
    IF c.severity = "critical" /\ EnvAssignee["critical"] # NoAssignee
    THEN EnvAssignee["critical"]
    ELSE IF EnvAssignee[c.source] # NoAssignee
         THEN EnvAssignee[c.source]
         ELSE EnvAssignee["default"]

(* The row as INSERT writes it.  Two fields are history: "key", how a row  *)
(* the correlation inserted is compared with the rows already there, and   *)
(* "unlocked", when it was last written without the lock of its key.       *)
NewRow(d, c, a, key, time) ==
    [device |-> d, class |-> c, assignee |-> a, status |-> "new", key |-> key,
     created |-> time, updated |-> time,
     unlocked |-> IF key = "none" THEN time ELSE Never,
     stamps |-> [s \in StampedStatuses |-> Never]]

(* Mutant: only the last status of a path is stamped. *)
EnteredLastOnly(r, entered, t) ==
    [r EXCEPT !.status = t,
              !.updated = now,
              !.unlocked = now,
              !.stamps = [s \in StampedStatuses |-> IF s = t THEN now ELSE r.stamps[s]]]

(* The row after it has entered the statuses of the set entered, the last  *)
(* of which is t; acknowledged_at alone is kept once it is set.            *)
Entered(r, entered, t) ==
    [r EXCEPT !.status = t,
              !.updated = now,
              !.unlocked = now,
              !.stamps = [s \in StampedStatuses |->
                             IF s \in entered /\ (s # "acknowledged" \/ r.stamps[s] = Never)
                             THEN now
                             ELSE r.stamps[s]]]

Reassigned(r, a) == [r EXCEPT !.assignee = a, !.updated = now, !.unlocked = now]

Touched(r, start) == [r EXCEPT !.updated = start]

-----------------------------------------------------------------------------
(* Writing the tables *)

Ids == 1..Len(incidents)

HasRoom(i, k) == Len(audit[i]) + k <= MaxAudit

Insert(r) ==
    /\ Len(incidents) < MaxIncidents
    /\ incidents' = Append(incidents, r)
    /\ audit' = Append(audit, <<>>)

(* Incident i becomes row r and gains the audit rows w. *)
Update(i, r, w) ==
    /\ HasRoom(i, Len(w))
    /\ incidents' = [incidents EXCEPT ![i] = r]
    /\ audit' = [audit EXCEPT ![i] = @ \o w]

(* One statement resolves the open incidents of the set I. *)
ResolveAll(I) ==
    /\ \A i \in I : HasRoom(i, 1)
    /\ incidents' = [i \in Ids |-> IF i \in I
                                   THEN Entered(incidents[i], {"resolved"}, "resolved")
                                   ELSE incidents[i]]
    /\ audit' = [i \in Ids |-> IF i \in I
                               THEN audit[i] \o <<AuditRow(incidents[i].status, "resolved")>>
                               ELSE audit[i]]

-----------------------------------------------------------------------------
(* Correlation: touch the open incident of the same key or insert one *)

KeyOf(r, key) ==
    IF key = "trap"
    THEN <<r.class.source, r.class.title, r.device>>
    ELSE <<r.class.source, r.class.title, r.device, r.class.severity>>

InWindow(r, start) == r.updated + Window >= start

(* Somebody who does not take the lock has written the row since start, so *)
(* the correlation may have looked before or after.                        *)
Unsteady(r, start) == r.unlocked >= start

WasOpen(r, start) == IsOpen(r) \/ r.stamps["resolved"] >= start

SameKey(r, key) == {i \in Ids : KeyOf(incidents[i], key) = KeyOf(r, key)}

(* The incidents that the UPDATE can have found when it looked: the open   *)
(* one of the key that was updated last, inside the window.                *)
Matching(r, key, start) ==
    {i \in SameKey(r, key) : WasOpen(incidents[i], start) /\ InWindow(incidents[i], start)}

Latest(I, start) ==
    {i \in I : \A j \in I : \/ incidents[j].updated <= incidents[i].updated
                           \/ Unsteady(incidents[j], start)}

(* The transaction that began at start and commits now. *)
CreateOrTouch(d, c, key, start) ==
    LET r == NewRow(d, c, DefaultAssignee(c), key, start)
        I == Matching(r, key, start)
    IN  \/ \E i \in Latest(I, start) : Update(i, Touched(incidents[i], start), <<>>)
        \/ (\A i \in I : Unsteady(incidents[i], start)) /\ Insert(r)

(* createOrTouchOpenIncidentTx and CreateOrTouchOpenIncident *)
CreateOrTouchOpenIncident(d, c, start) ==
    /\ d \in live \union {NoDevice}
    /\ CreateOrTouch(d, c, "incident", start)
    /\ UNCHANGED <<now, live>>

(* CreateOrTouchOpenTrapIncident for a trap that is no recovery: a trap    *)
(* from an address no device has is stored with device NULL.               *)
CreateOrTouchOpenTrapIncident(d, c, start) ==
    /\ d \in live \union {NoDevice}
    /\ c.source = "trap"
    /\ CreateOrTouch(d, c, "trap", start)
    /\ UNCHANGED <<now, live>>

(* ... and for a recovery trap: only incidents of the link-loss title are  *)
(* resolved, and none when the device is unknown.                          *)
ResolveOpenTrapIncidents(d) ==
    LET I == {i \in Ids : /\ IsOpen(incidents[i])
                          /\ incidents[i].class.source = "trap"
                          /\ incidents[i].class.title = LinkLoss
                          /\ incidents[i].device = d}
    IN  /\ d \in live
        /\ I # {}
        /\ ResolveAll(I)
        /\ UNCHANGED <<now, live>>

(* Mutant: closed incidents are resolved again. *)
IncidentsOf(d, src) ==
    {i \in Ids : /\ incidents[i].class.source = src
                 /\ incidents[i].device = d}

(* resolveOpenIncidentsBySourceTx and ResolveOpenIncidentsBySource *)
OpenIncidentsOf(d, src) ==
    {i \in Ids : /\ IsOpen(incidents[i])
                 /\ incidents[i].class.source = src
                 /\ incidents[i].device = d}

ResolveOpenIncidentsBySource(d, src) ==
    /\ d \in live
    /\ OpenIncidentsOf(d, src) # {}
    /\ ResolveAll(OpenIncidentsOf(d, src))
    /\ UNCHANGED <<now, live>>

-----------------------------------------------------------------------------
(* Operators, the ITSM system and the escalation *)

CreateIncident(d, c, a) ==
    /\ d \in live \union {NoDevice}
    /\ Insert(NewRow(d, c, IF a = NoAssignee THEN DefaultAssignee(c) ELSE a, "none", now))
    /\ UNCHANGED <<now, live>>

(* TransitionIncidentStatus; the bulk operation repeats it, a transaction  *)
(* for each incident.                                                      *)
TransitionIncidentStatus(i, t) ==
    LET r == incidents[i]
        path == StatusPath(r.status, t)
    IN  /\ path # <<>>
        /\ \A k \in 1..Len(path) :
              path[k] \in NextAllowed[IF k = 1 THEN r.status ELSE path[k - 1]]
        /\ Update(i, Entered(r, {path[k] : k \in 1..Len(path)}, t), PathRows(r.status, t))
        /\ UNCHANGED <<now, live>>

AssignIncident(i, a) ==
    /\ Update(i, Reassigned(incidents[i], a),
              <<AuditRow(incidents[i].status, incidents[i].status)>>)
    /\ UNCHANGED <<now, live>>

(* The ITSM row of incident r for the request (t, a): a status that is     *)
(* asked for must be one allowed step away; the assignee is compared with  *)
(* the request's even when the request names none.                         *)
InboundRow(r, t, a) ==
    LET moved == IF t \in {NoStatus, r.status} THEN r ELSE Entered(r, {t}, t)
    IN  IF a = r.assignee THEN moved ELSE Reassigned(moved, a)

(* Mutant: the change of assignee is logged at the status before the move. *)
InboundRowsFromOld(r, t, a) ==
    (IF t \in {NoStatus, r.status} THEN <<>> ELSE <<AuditRow(r.status, t)>>)
    \o (IF a = r.assignee THEN <<>> ELSE <<AuditRow(r.status, r.status)>>)

InboundRows(r, t, a) ==
    LET after == IF t = NoStatus THEN r.status ELSE t
    IN  (IF after = r.status THEN <<>> ELSE <<AuditRow(r.status, after)>>)
        \o (IF a = r.assignee THEN <<>> ELSE <<AuditRow(after, after)>>)

ApplyITSMInboundUpdate(i, t, a) ==
    LET r == incidents[i]
    IN  /\ t # NoStatus \/ a # NoAssignee
        /\ t \in {NoStatus, r.status} \union NextAllowed[r.status]
        /\ InboundRows(r, t, a) # <<>>
        /\ Update(i, InboundRow(r, t, a), InboundRows(r, t, a))
        /\ UNCHANGED <<now, live>>

(* Mutant: the incidents the target already owns are candidates again. *)
UnackedOfAnyone(p) ==
    {i \in Ids : LET r == incidents[i]
                 IN  /\ r.status = "new"
                     /\ r.created + p.olderThan <= now
                     /\ p.severity \in {"", r.class.severity}
                     /\ p.source \in {"", r.class.source}
                     /\ p.onlyIfUnassigned => r.assignee = NoAssignee}

Unacked(p) ==
    {i \in Ids : LET r == incidents[i]
                 IN  /\ r.status = "new"
                     /\ r.created + p.olderThan <= now
                     /\ r.assignee # p.target
                     /\ p.severity \in {"", r.class.severity}
                     /\ p.source \in {"", r.class.source}
                     /\ p.onlyIfUnassigned => r.assignee = NoAssignee}

EscalateUnackedIncidents(p) ==
    /\ Unacked(p) # {}
    /\ \A i \in Unacked(p) : HasRoom(i, 1)
    /\ incidents' = [i \in Ids |-> IF i \in Unacked(p)
                                   THEN Reassigned(incidents[i], p.target)
                                   ELSE incidents[i]]
    /\ audit' = [i \in Ids |-> IF i \in Unacked(p)
                               THEN audit[i] \o <<AuditRow("new", "new")>>
                               ELSE audit[i]]
    /\ UNCHANGED <<now, live>>

(* ON DELETE SET NULL keeps the device's incidents, now without a device. *)
ForgetDevice(d) ==
    incidents' = [i \in Ids |-> IF incidents[i].device = d
                                THEN [incidents[i] EXCEPT !.device = NoDevice, !.unlocked = now]
                                ELSE incidents[i]]

DeleteDevice(d) ==
    /\ d \in live
    /\ live' = live \ {d}
    /\ ForgetDevice(d)
    /\ UNCHANGED <<now, audit>>

Tick ==
    /\ now < MaxTime
    /\ now' = now + 1
    /\ UNCHANGED store

-----------------------------------------------------------------------------
Init ==
    /\ now = 1
    /\ live = Devices
    /\ incidents = <<>>
    /\ audit = <<>>

Correlate ==
    \/ \E d \in Devices \union {NoDevice}, c \in Classes, start \in 1..now :
          CreateOrTouchOpenIncident(d, c, start) \/ CreateOrTouchOpenTrapIncident(d, c, start)
    \/ \E d \in Devices : ResolveOpenTrapIncidents(d)
    \/ \E d \in Devices, src \in Sources : ResolveOpenIncidentsBySource(d, src)

Operate ==
    \/ \E d \in Devices \union {NoDevice}, c \in Classes, a \in Assignees \union {NoAssignee} :
          CreateIncident(d, c, a)
    \/ \E i \in Ids :
          \/ \E t \in Statuses : TransitionIncidentStatus(i, t)
          \/ \E a \in Assignees \union {NoAssignee} : AssignIncident(i, a)
          \/ \E t \in Statuses \union {NoStatus}, a \in Assignees \union {NoAssignee} :
                ApplyITSMInboundUpdate(i, t, a)

Next ==
    \/ Correlate
    \/ Operate
    \/ \E p \in Policies : EscalateUnackedIncidents(p)
    \/ \E d \in Devices : DeleteDevice(d)
    \/ Tick

Spec == Init /\ [][Next]_vars
-----------------------------------------------------------------------------
(* Properties *)

Row ==
    [device : Devices \union {NoDevice}, class : Classes,
     assignee : Assignees \union {NoAssignee}, status : Statuses,
     key : {"none", "incident", "trap"}, created : Nat, updated : Nat,
     unlocked : Nat, stamps : [StampedStatuses -> Nat]]

AuditRows == [from : Statuses, to : Statuses, at : Nat]

(* The type invariant: every incident has its own audit log. *)
TypeOK ==
    /\ now \in Nat \ {Never}
    /\ live \subseteq Devices
    /\ incidents \in Seq(Row)
    /\ audit \in Seq(Seq(AuditRows))
    /\ Len(audit) = Len(incidents)

(* The rows L lead without a gap from "new" to status s. *)
Chain(L, s) ==
    /\ \A k \in 1..Len(L) : L[k].from = (IF k = 1 THEN "new" ELSE L[k - 1].to)
    /\ s = (IF Len(L) = 0 THEN "new" ELSE L[Len(L)].to)

Entries(L, s) == {k \in 1..Len(L) : L[k].to = s /\ L[k].from # s}

StampMatches(L, s, time) ==
    /\ \A k \in Entries(L, s) : L[k].at = time
    /\ Entries(L, s) = {} => time = Never

(* The audit log of an incident (incident_transitions) is an unbroken      *)
(* chain: it starts at "new", each row leaves from the status where the    *)
(* row before it ended, and the last row ends at the status the incident   *)
(* has now, although six operations of four programs write the two tables. *)
AuditChain == \A i \in Ids : Chain(audit[i], incidents[i].status)

(* The timestamp columns agree with the audit log: acknowledged_at,        *)
(* resolved_at and closed_at are set exactly when the log has a row that   *)
(* enters that status, and to the time of that row (so no status is        *)
(* entered at two times).                                                  *)
StampsMatchAudit ==
    \A i \in Ids, s \in StampedStatuses : StampMatches(audit[i], s, incidents[i].stamps[s])

(* History is immutable: a later operation never rewrites an audit row     *)
(* (incident_transitions) and never changes a timestamp that is set.       *)
HistoryPreserved ==
    [][\A i \in Ids :
          /\ Len(audit[i]) <= Len(audit'[i])
          /\ SubSeq(audit'[i], 1, Len(audit[i])) = audit[i]
          /\ \A s \in StampedStatuses :
                incidents[i].stamps[s] # Never
                    => incidents'[i].stamps[s] = incidents[i].stamps[s]]_vars

(* Every write of the tables is a step of the incident lifecycle. *)
Lifecycle == INSTANCE IncidentLifecycle
                 WITH status <- [i \in Ids |-> incidents[i].status], log <- audit

ImplementsLifecycle == Lifecycle!Spec
=============================================================================

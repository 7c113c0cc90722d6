---------------------------- MODULE DevicePolling ----------------------------
(***************************************************************************)
(* The worker's record of what it polls: the status of a device, the       *)
(* history of its availability and the incidents of its outages, which     *)
(* RecordPollFailureTransition and RecordPollRecoveryTransition write in   *)
(* one transaction under the lock of the device's row.  Everything else    *)
(* that writes incidents runs in between: traps, operators, the ITSM       *)
(* system, the escalation and the deletion of devices.                     *)
(***************************************************************************)
EXTENDS IncidentStore

CONSTANTS
    Outage,     (* the class of "SNMP device unavailable"                  *)
    Failures,   (* failed_timeout, failed_auth, failed_transport, ...      *)
    MaxEvents   (* bound: availability events of one device                *)

ASSUME PollingAssumption ==
    /\ \A c \in Classes : c = [title |-> c.title, severity |-> c.severity, source |-> c.source]
    /\ Outage \in Classes
    /\ Outage.source = "polling" /\ Outage.severity = "critical"
    /\ "active" \notin Failures /\ "deleted" \notin Failures
    /\ MaxEvents \in Nat

VARIABLES
    status,     (* devices.status, "deleted" when the row is gone          *)
    events      (* events[d]: rows of device_availability_events           *)

pollVars == <<vars, status, events>>

Availability(kind, time) == [kind |-> kind, at |-> time]

(* pollStatusWasOK and pollStatusWasFailure *)
WasOK(s) == s = "active"
WasFailure(s) == s \in Failures

Record(d, kind, time) ==
    /\ Len(events[d]) < MaxEvents
    /\ events' = [events EXCEPT ![d] = Append(@, Availability(kind, time))]

-----------------------------------------------------------------------------
OpenOutage(d, start) ==
    /\ Record(d, "unavailable", start)
    /\ CreateOrTouchOpenIncident(d, Outage, start)

(* Mutant: the outage is opened again on every failed poll. *)
RecordAgain(d, f) ==
    /\ d \in live
    /\ \E start \in 1..now : OpenOutage(d, start)
    /\ status' = [status EXCEPT ![d] = f]

(* A failed poll opens an outage when the device was active.  It may have  *)
(* waited for the lock of the device since its start.                      *)
RecordPollFailureTransition(d, f) ==
    /\ d \in live
    /\ IF WasOK(status[d])
       THEN \E start \in 1..now : OpenOutage(d, start)
       ELSE UNCHANGED <<vars, events>>
    /\ status' = [status EXCEPT ![d] = f]

(* Mutant: only the newest incident of the outage is resolved. *)
ResolveNewest(d) ==
    IF OpenIncidentsOf(d, "polling") = {}
    THEN UNCHANGED vars
    ELSE /\ ResolveAll({CHOOSE i \in OpenIncidentsOf(d, "polling") :
                           \A j \in OpenIncidentsOf(d, "polling") : j <= i})
         /\ UNCHANGED <<now, live>>

(* resolveOpenIncidentsBySourceTx within the transaction: no open incident *)
(* is no error.                                                            *)
ResolvePolled(d) ==
    IF OpenIncidentsOf(d, "polling") = {}
    THEN UNCHANGED vars
    ELSE ResolveOpenIncidentsBySource(d, "polling")

(* A successful poll ends an outage when the device had failed. *)
RecordPollRecoveryTransition(d) ==
    /\ d \in live
    /\ IF WasFailure(status[d])
       THEN Record(d, "available", now) /\ ResolvePolled(d)
       ELSE UNCHANGED <<vars, events>>
    /\ status' = [status EXCEPT ![d] = "active"]

(* The events of a deleted device go with it (ON DELETE CASCADE). *)
RemoveDevice(d) ==
    /\ DeleteDevice(d)
    /\ status' = [status EXCEPT ![d] = "deleted"]
    /\ events' = [events EXCEPT ![d] = <<>>]

Traps ==
    \/ \E d \in Devices \union {NoDevice}, c \in Classes, start \in 1..now :
          CreateOrTouchOpenTrapIncident(d, c, start)
    \/ \E d \in Devices : ResolveOpenTrapIncidents(d)

OtherWriters ==
    /\ \/ Traps
       \/ Operate
       \/ \E p \in Policies : EscalateUnackedIncidents(p)
       \/ Tick
    /\ UNCHANGED <<status, events>>

PollInit ==
    /\ Init
    /\ status = [d \in Devices |-> "active"]
    /\ events = [d \in Devices |-> <<>>]

PollNext ==
    \/ \E d \in Devices, f \in Failures : RecordPollFailureTransition(d, f)
    \/ \E d \in Devices : RecordPollRecoveryTransition(d) \/ RemoveDevice(d)
    \/ OtherWriters

PollSpec == PollInit /\ [][PollNext]_pollVars

-----------------------------------------------------------------------------
(* Properties *)

(* The availability history of a device alternates, it starts with an      *)
(* outage, and its last event tells whether the device is down, however    *)
(* polls, restarts and deletions interleave: a report of downtimes can     *)
(* pair each "unavailable" with the "available" after it.                  *)
EventsAlternate ==
    \A d \in live :
        /\ \A k \in 1..Len(events[d]) :
              events[d][k].kind = IF k % 2 = 1 THEN "unavailable" ELSE "available"
        /\ WasFailure(status[d]) <=> Len(events[d]) % 2 = 1

(* An outage and its incidents fit together.  No incident of an outage     *)
(* stays open when its device is polled again: an open one that the worker *)
(* raised belongs to a device that is down.  And an outage that goes on    *)
(* has left an incident: one of its class was written at or after its      *)
(* start and still names the device, even when an operator has closed it.  *)
OutagesMatchIncidents ==
    /\ \A i \in Ids :
          (incidents[i].key = "incident" /\ IsOpen(incidents[i]) /\ incidents[i].device \in live)
              => WasFailure(status[incidents[i].device])
    /\ \A d \in live :
          WasFailure(status[d]) =>
              \E i \in Ids : /\ incidents[i].device = d
                             /\ incidents[i].class = Outage
                             /\ incidents[i].updated >= events[d][Len(events[d])].at
=============================================================================

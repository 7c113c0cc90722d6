-------------------------- MODULE IncidentLifecycle --------------------------
(***************************************************************************)
(* What the incident store promises about one incident, whichever program  *)
(* writes it: the incident starts as "new", its status only moves along    *)
(* the lifecycle, and the audit log is exactly the walk it has made.  The  *)
(* detailed module IncidentStore implements this one.                      *)
(*                                                                         *)
(* status[i] is the status of incident i and log[i] its rows of the table  *)
(* incident_transitions in id order; both are functions on 1..n, where n   *)
(* is the number of incidents raised so far.                               *)
(***************************************************************************)
EXTENDS Naturals, Sequences

VARIABLES status, log

lifecycleVars == <<status, log>>

Statuses == {"new", "acknowledged", "in_progress", "resolved", "closed"}

OpenStatuses == {"new", "acknowledged", "in_progress"}

(* The steps an operator or the ITSM system may take. *)
NextAllowed ==
    [new          |-> {"acknowledged"},
     acknowledged |-> {"in_progress", "resolved"},
     in_progress  |-> {"resolved"},
     resolved     |-> {"closed"},
     closed       |-> {}]

(* The system may also resolve an open incident outright; a row whose two  *)
(* statuses agree records a change of assignee.                            *)
LegalEdge(e) ==
    \/ e.to \in NextAllowed[e.from]
    \/ e.from \in OpenStatuses /\ e.to = "resolved"
    \/ e.from = e.to

(* w is a walk of legal edges that leads from status f to status t. *)
Walk(f, t, w) ==
    /\ w = <<>> => t = f
    /\ w # <<>> => w[1].from = f /\ w[Len(w)].to = t
    /\ \A k \in 1..Len(w) : LegalEdge(w[k])
    /\ \A k \in 2..Len(w) : w[k].from = w[k - 1].to

Added(i) == SubSeq(log'[i], Len(log[i]) + 1, Len(log'[i]))

Init ==
    /\ status = <<>>
    /\ log = <<>>

(* A new incident enters with an empty log; the others keep theirs. *)
Raise ==
    /\ status' = Append(status, "new")
    /\ log' = Append(log, <<>>)

(* Any number of incidents advance in one transaction.  Each keeps its log *)
(* and adds to it the walk from its old status to its new one.             *)
Advance ==
    /\ DOMAIN status' = DOMAIN status
    /\ DOMAIN log' = DOMAIN log
    /\ \A i \in DOMAIN status :
          /\ Len(log'[i]) >= Len(log[i])
          /\ SubSeq(log'[i], 1, Len(log[i])) = log[i]
          /\ Walk(status[i], status'[i], Added(i))

Next == Raise \/ Advance

Spec == Init /\ [][Next]_lifecycleVars
=============================================================================

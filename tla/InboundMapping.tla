--------------------------- MODULE InboundMapping ---------------------------
(***************************************************************************)
(* How a request of the ITSM system gets the status and the owner it asks  *)
(* for.  What it names itself counts; what it leaves open is filled from   *)
(* the first mapping that fits its fields as they were sent.               *)
(***************************************************************************)
EXTENDS Integers

CONSTANTS
    InboundMappings,    (* itsm_inbound_mappings                           *)
    InboundProvider,    (* NMS_ITSM_INBOUND_PROVIDER                       *)
    NoOwner             (* an assignee left empty                          *)

External == {"provider", "status", "priority", "owner"}

normalizeInboundIncidentStatus(s) ==
    CASE s = "open" -> "new"
      [] s \in {"ack", "acknowledge"} -> "acknowledged"
      [] s \in {"in-progress", "inprogress", "working"} -> "in_progress"
      [] s = "resolve" -> "resolved"
      [] s = "close" -> "closed"
      [] OTHER -> s

Sent(q) == IF q.provider = "" THEN [q EXCEPT !.provider = InboundProvider] ELSE q

(* An empty field of a mapping fits everything. *)
Fits(row, q) == row.enabled /\ \A f \in External : row[f] \in {"", Sent(q)[f]}

(* By rank, then by id. *)
Earlier(a, b) ==
    \/ a.rank < b.rank
    \/ a.rank = b.rank /\ a.id < b.id

ResolveITSMInboundMapping(q) ==
    {row \in InboundMappings :
        /\ Fits(row, q)
        /\ \A o \in InboundMappings \ {row} : Fits(o, q) => Earlier(row, o)}

EffectiveStatus(q) ==
    IF q.status = "" /\ ResolveITSMInboundMapping(q) # {}
    THEN normalizeInboundIncidentStatus(
             (CHOOSE row \in ResolveITSMInboundMapping(q) : TRUE).mappedStatus)
    ELSE normalizeInboundIncidentStatus(q.status)

EffectiveAssignee(q) ==
    IF q.assignee = NoOwner /\ ResolveITSMInboundMapping(q) # {}
    THEN (CHOOSE row \in ResolveITSMInboundMapping(q) : TRUE).mappedAssignee
    ELSE q.assignee
=============================================================================

-------------------------- MODULE MCIncidentEvents --------------------------
(* Finite instances of IncidentEvents. *)
EXTENDS IncidentEvents

CONSTANTS d1, oncall, r1, r2, w1, w2

PollClass == [title |-> "device_unavailable", severity |-> "critical", source |-> "polling"]
MCClasses == {PollClass}
MCDevices == {d1}
MCAssignees == {oncall}
NoDefaults == [k \in {"critical", "trap", "polling", "manual", "default"} |-> NoAssignee]
MCPolicies ==
    {[olderThan |-> 0, target |-> oncall, severity |-> "", source |-> "", onlyIfUnassigned |-> TRUE]}
TwoRequests == {r1, r2}
TwoWorkers == {w1, w2}
MCBulkIds == {<<1, 1>>}

(* The ITSM system names a status, an owner, both or neither; an urgent    *)
(* ticket of one queue is in progress, other tickets are the one owner's.  *)
Mapping(n, prio, team, status, owner, rank) ==
    [id |-> n, enabled |-> TRUE, rank |-> rank, provider |-> "generic", status |-> "",
     priority |-> prio, owner |-> team, mappedStatus |-> status, mappedAssignee |-> owner]
MCMappings ==
    {Mapping(1, "", "", NoStatus, oncall, 100),
     Mapping(2, "urgent", "network", "in_progress", NoAssignee, 50)}
MCInboundRequests ==
    [provider : {""}, status : {"", "ack", "working", "pending", "resolved", "closed"},
     priority : {"urgent", "low"}, owner : {"network"}, assignee : {NoAssignee, oncall}]
=============================================================================

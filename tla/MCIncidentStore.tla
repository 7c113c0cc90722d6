--------------------------- MODULE MCIncidentStore ---------------------------
(* Finite instances of IncidentStore. *)
EXTENDS IncidentStore

CONSTANTS d1, oncall, manager

PollClass == [title |-> "device_unavailable", severity |-> "critical", source |-> "polling"]
DownClass == [title |-> "link_loss", severity |-> "critical", source |-> "trap"]

MixedClasses == {PollClass, DownClass}
MCDevices == {d1}
MCAssignees == {oncall, manager}
MCEnvAssignee == [critical |-> NoAssignee, trap |-> oncall, polling |-> NoAssignee,
                  manual |-> NoAssignee, default |-> NoAssignee]
MCPolicies ==
    {[olderThan |-> 1, target |-> oncall, severity |-> "critical", source |-> "",
      onlyIfUnassigned |-> TRUE],
     [olderThan |-> 2, target |-> manager, severity |-> "", source |-> "",
      onlyIfUnassigned |-> FALSE]}
=============================================================================

-------------------------- MODULE MCDevicePolling --------------------------
(* Finite instances of DevicePolling. *)
EXTENDS DevicePolling, TLC

CONSTANTS d1, d2, oncall, failed_timeout, failed_auth

PollClass == [title |-> "device_unavailable", severity |-> "critical", source |-> "polling"]
DownClass == [title |-> "link_loss", severity |-> "critical", source |-> "trap"]

MCDevices == {d1}
MCClasses == {PollClass}
BothClasses == {PollClass, DownClass}
MCAssignees == {oncall}
NoDefaults == [k \in {"critical", "trap", "polling", "manual", "default"} |-> NoAssignee]
MCPolicies ==
    {[olderThan |-> 1, target |-> oncall, severity |-> "critical", source |-> "",
      onlyIfUnassigned |-> TRUE]}
MCFailures == {failed_timeout, failed_auth}

(* The kinds of failure are treated alike. *)
AnyFailure == Permutations(MCFailures)
=============================================================================

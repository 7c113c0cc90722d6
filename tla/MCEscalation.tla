---------------------------- MODULE MCEscalation ----------------------------
(* Finite instances of Escalation. *)
EXTENDS Escalation

CONSTANTS d1, l2, l3, manager

ManualClass == [title |-> "ticket", severity |-> "critical", source |-> "manual"]
TrapClass == [title |-> "link_loss", severity |-> "critical", source |-> "trap"]
MCClasses == {ManualClass, TrapClass}
MCDevices == {d1}
MCAssignees == {l2, l3, manager}
NoDefaults == [k \in {"critical", "trap", "polling", "manual", "default"} |-> NoAssignee]
Off == [timeout |-> 0, target |-> NoAssignee]

(* The proportions of .env.example: critical before default before manual. *)
Example ==
    [default |-> [timeout |-> 2, target |-> l3],
     critical |-> [timeout |-> 1, target |-> l2],
     trap |-> Off, polling |-> Off, manual |-> Off,
     stage2 |-> [timeout |-> 3, target |-> manager]]

(* The policies of these settings. *)
ExamplePolicies == {Policy(StageNames[k]) : k \in LoadedPolicies}
=============================================================================

------------------------------ MODULE Escalation ------------------------------
(***************************************************************************)
(* The worker's escalation of incidents nobody acknowledges: a ticker      *)
(* starts a check, and a check applies the configured policies one after   *)
(* the other, each in a transaction of its own that may fail.  Operators,  *)
(* the ITSM system and correlation write the incidents in between.         *)
(***************************************************************************)
EXTENDS IncidentStore, FiniteSets

CONSTANTS
    Settings,   (* [timeout, target] of each stage, as the environment has it *)
    MaxOps,     (* bound: operations of everybody but the escalation          *)
    MaxErrors   (* bound: failed policies                                     *)

StageNames == <<"default", "critical", "trap", "polling", "manual", "stage2">>
Stages == {StageNames[k] : k \in 1..Len(StageNames)}

(* Only the stage-2 policy takes an incident from the owner it has. *)
Policy(name) ==
    [olderThan |-> Settings[name].timeout,
     target |-> Settings[name].target,
     severity |-> IF name = "critical" THEN "critical" ELSE "",
     source |-> IF name \in Sources THEN name ELSE "",
     onlyIfUnassigned |-> name # "stage2"]

Configured(p) == p.olderThan > 0 /\ p.target # NoAssignee

(* Mutant: a check that stops before the last policy. *)
WithoutLast == {k \in 1..(Len(StageNames) - 1) : Configured(Policy(StageNames[k]))}

(* loadEscalationPoliciesV2: the places of the policies that are set, the  *)
(* default stage 1, its overrides and stage 2 in this order.               *)
LoadedPolicies == {k \in 1..Len(StageNames) : Configured(Policy(StageNames[k]))}

ASSUME EscalationAssumption ==
    /\ Settings \in [Stages -> [timeout : Nat, target : Assignees \union {NoAssignee}]]
    /\ Policies = {Policy(StageNames[k]) : k \in LoadedPolicies}
    /\ MaxOps \in Nat /\ MaxErrors \in Nat

VARIABLES
    turn,       (* place of the policy the check applies next; 0: no check *)
    ops,        (* operations of the others so far                         *)
    errors      (* failed policies so far                                  *)

escalationVars == <<vars, turn, ops, errors>>

-----------------------------------------------------------------------------
(* The next policy that is loaded; after the last one the check ends. *)
Advance ==
    \/ \E k \in LoadedPolicies :
          /\ turn < k
          /\ \A j \in LoadedPolicies : turn < j => k <= j
          /\ turn' = k
    \/ (\A k \in LoadedPolicies : k <= turn) /\ turn' = 0

StartCheck ==
    /\ turn = 0
    /\ LoadedPolicies # {}
    /\ Advance
    /\ UNCHANGED <<vars, ops, errors>>

ApplyPolicy ==
    /\ turn # 0
    /\ LET p == Policy(StageNames[turn])
       IN  IF Unacked(p) = {} THEN UNCHANGED vars ELSE EscalateUnackedIncidents(p)
    /\ Advance
    /\ UNCHANGED <<ops, errors>>

(* A failed policy is logged; the check goes on with the next one. *)
PolicyFails ==
    /\ turn # 0
    /\ errors < MaxErrors
    /\ errors' = errors + 1
    /\ Advance
    /\ UNCHANGED <<vars, ops>>

OthersWrite ==
    /\ ops < MaxOps
    /\ ops' = ops + 1
    /\ Correlate \/ Operate
    /\ UNCHANGED <<turn, errors>>

TimePasses == Tick /\ UNCHANGED <<turn, ops, errors>>

EscalationInit == Init /\ turn = 0 /\ ops = 0 /\ errors = 0

EscalationNext == StartCheck \/ ApplyPolicy \/ PolicyFails \/ OthersWrite \/ TimePasses

(* The ticker fires again and again, and a check that runs goes on: both   *)
(* need the worker to run and the database to answer in the end.           *)
EscalationSpec ==
    /\ EscalationInit
    /\ [][EscalationNext]_escalationVars
    /\ WF_escalationVars(StartCheck)
    /\ WF_escalationVars(ApplyPolicy)

-----------------------------------------------------------------------------
(* Properties *)

OverdueFor(i, name) ==
    incidents[i].status = "new" /\ incidents[i].created + Settings[name].timeout <= now

TakenOver(i) == incidents[i].status # "new" \/ incidents[i].assignee = Settings["stage2"].target

(* Nobody's silence is final: an incident that is still new after the      *)
(* stage-2 timeout is in the end owned by the stage-2 assignee, unless it  *)
(* is acknowledged or resolved before, whoever has owned it in between.    *)
StageTwoTakesOver ==
    \A i \in 1..MaxIncidents :
        (i \in Ids /\ OverdueFor(i, "stage2")) ~> (i \in Ids /\ TakenOver(i))

Handovers(i) == Cardinality({k \in 1..Len(audit[i]) : audit[i][k].from = audit[i][k].to})

(* Checks repeat every minute, handovers do not: an incident is handed     *)
(* over at most once by stage 1 and once by stage 2, and again only after  *)
(* somebody else has written the incident.                                 *)
HandoversBounded == \A i \in Ids : Handovers(i) <= 2 + 3 * (ops - 1)
=============================================================================

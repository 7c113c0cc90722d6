--------------------------- MODULE TrapCorrelation ---------------------------
(***************************************************************************)
(* The transactions that meet on the incidents of one device and one title *)
(* when traps arrive close together: an alarm trap touches the open        *)
(* incident or inserts one, a recovery trap resolves the open incidents.   *)
(* Beside them an operator resolves, acknowledges or assigns one (as the   *)
(* ITSM webhook does), the escalation hands over some, and somebody        *)
(* reports one by hand; these take no lock but their rows'.  IncidentStore *)
(* runs each as one step; here they run statement by statement as          *)
(* PostgreSQL does at READ COMMITTED: a statement sees what is committed   *)
(* when it starts, waits for the locks of rows it writes, and NOW() is the *)
(* time its transaction began.                                             *)
(*                                                                         *)
(* What a waiting statement does when the lock comes free differs.  SELECT *)
(* ... FOR UPDATE looks at the row again and skips it when it no longer    *)
(* qualifies.  The alarm's UPDATE ... WHERE id = (SELECT ...) has computed *)
(* the id before it waits, and the row still has that id.                  *)
(***************************************************************************)
EXTENDS Naturals, Sequences, FiniteSetsExt

CONSTANTS
    Alarms,     (* transactions of alarm traps                             *)
    Recoveries, (* transactions of recovery traps                          *)
    Writers,    (* transactions of operators, the ITSM webhook, the        *)
                (* escalation loop and of reports by hand                  *)
    Nobody,     (* no transaction                                          *)
    Window,     (* suppression window                                      *)
    MaxTime     (* bound: ticks of the clock                               *)

ASSUME CorrelationAssumption ==
    /\ Alarms \intersect (Recoveries \union Writers) = {}
    /\ Recoveries \intersect Writers = {}
    /\ Nobody \notin Alarms \union Recoveries \union Writers
    /\ Window \in Nat /\ MaxTime \in Nat

Transactions == Alarms \union Recoveries \union Writers

VARIABLES
    clock,
    rows,       (* the committed incidents of the key                      *)
    owner,      (* owner[i]: the transaction that holds the lock of row i  *)
    advisory,   (* holder of the advisory lock of the key                  *)
    pc, start,  (* of each transaction: where it is, when it began         *)
    want,       (* rows its statement has still to lock                    *)
    oneOrder,   (* escalations meet the rows in the order of recoveries    *)
    seen,       (* history: rows that were open when a recovery looked     *)
    since       (* history: rows that were written without the lock of the *)
                (* key since an alarm found none to touch                  *)

vars == <<clock, rows, owner, advisory, pc, start, want, oneOrder, seen, since>>
tables == <<rows, owner, oneOrder>>
history == <<seen, since>>

Ids == 1..Len(rows)
OpenRows == {i \in Ids : rows[i].open}
Held(t) == {i \in Ids : owner[i] = t}

Goto(t, l) == pc' = [pc EXCEPT ![t] = l]
End(t, l) == Goto(t, l) /\ start' = [start EXCEPT ![t] = 0]
Release(t) == owner' = [i \in DOMAIN owner |-> IF owner[i] = t THEN Nobody ELSE owner[i]]

Begin(t) ==
    /\ pc[t] = "idle"
    /\ \/ t \in Alarms /\ Goto(t, "begun")
       \/ t \in Recoveries /\ Goto(t, "open")
       \/ t \in Writers /\ rows # <<>> /\ Goto(t, "one")
       \/ t \in Writers /\ Goto(t, "unacked")
    /\ start' = [start EXCEPT ![t] = clock]
    /\ UNCHANGED <<clock, tables, advisory, want, history>>

-----------------------------------------------------------------------------
(* The alarm *)

(* Mutant: the transaction does not take the lock of its key. *)
TakeNoLock(t) ==
    /\ pc[t] = "begun"
    /\ Goto(t, "choose")
    /\ UNCHANGED <<clock, tables, advisory, start, want, history>>

(* pg_advisory_xact_lock *)
TakeLock(t) ==
    /\ pc[t] = "begun"
    /\ advisory = Nobody
    /\ advisory' = t
    /\ Goto(t, "choose")
    /\ UNCHANGED <<clock, tables, start, want, history>>

Recent(t) == {i \in OpenRows : rows[i].updated + Window >= start[t]}

(* The subquery of the UPDATE, or the INSERT when it finds no row. *)
Choose(t) ==
    /\ pc[t] = "choose"
    /\ \/ /\ Recent(t) = {}
          /\ Goto(t, "insert")
          /\ UNCHANGED want
       \/ \E i \in Recent(t) :
             /\ \A j \in Recent(t) : rows[j].updated <= rows[i].updated
             /\ want' = [want EXCEPT ![t] = {i}]
             /\ Goto(t, "touch")
    /\ UNCHANGED <<clock, tables, advisory, start, history>>

(* The UPDATE locks the row it has chosen, as it now is. *)
LockChosen(t) ==
    /\ pc[t] = "touch"
    /\ \E i \in want[t] :
          /\ owner[i] = Nobody
          /\ owner' = [owner EXCEPT ![i] = t]
    /\ want' = [want EXCEPT ![t] = {}]
    /\ Goto(t, "touched")
    /\ UNCHANGED <<clock, rows, oneOrder, advisory, start, history>>

CommitTouch(t) ==
    /\ pc[t] = "touched"
    /\ rows' = [i \in Ids |-> IF owner[i] = t THEN [rows[i] EXCEPT !.updated = start[t]]
                                              ELSE rows[i]]
    /\ Release(t)
    /\ advisory' = Nobody
    /\ End(t, "done")
    /\ UNCHANGED <<clock, oneOrder, want, history>>

NewRow(now) ==
    /\ rows' = Append(rows, [open |-> TRUE, updated |-> now])
    /\ owner' = Append(owner, Nobody)

(* Mutant: the advisory lock outlives its transaction (pg_advisory_lock). *)
CommitInsertOnly(t) ==
    /\ pc[t] = "insert"
    /\ NewRow(start[t])
    /\ since' = [since EXCEPT ![t] = {}]
    /\ End(t, "done")
    /\ UNCHANGED <<clock, oneOrder, advisory, want, seen>>

CommitInsert(t) ==
    /\ pc[t] = "insert"
    /\ NewRow(start[t])
    /\ since' = [since EXCEPT ![t] = {}]
    /\ advisory' = Nobody
    /\ End(t, "done")
    /\ UNCHANGED <<clock, oneOrder, want, seen>>

-----------------------------------------------------------------------------
(* The recovery, the operator, the escalation and the report by hand *)

(* ResolveOpenTrapIncidents: the CTE's SELECT ... FOR UPDATE. *)
SelectOpen(t) ==
    /\ pc[t] = "open"
    /\ want' = [want EXCEPT ![t] = OpenRows]
    /\ seen' = [seen EXCEPT ![t] = OpenRows]
    /\ Goto(t, "recover")
    /\ UNCHANGED <<clock, tables, advisory, start, since>>

(* TransitionIncidentStatus, AssignIncident, ApplyITSMInboundUpdate:       *)
(* SELECT ... WHERE id = $1 FOR UPDATE.                                    *)
SelectOne(t) ==
    /\ pc[t] = "one"
    /\ \E i \in Ids : want' = [want EXCEPT ![t] = {i}]
    /\ Goto(t, "change")
    /\ UNCHANGED <<clock, tables, advisory, start, history>>

(* EscalateUnackedIncidents: of the open ones those that are new, old      *)
(* enough and not assigned yet, which may be any.                          *)
SelectUnacked(t) ==
    /\ pc[t] = "unacked"
    /\ \E S \in SUBSET OpenRows : want' = [want EXCEPT ![t] = S]
    /\ Goto(t, "escalate")
    /\ UNCHANGED <<clock, tables, advisory, start, history>>

(* The statement waits for, or has got, the locks of its rows. *)
Locking(t) == pc[t] \in {"recover", "change", "escalate"}

(* The scans of one query meet the rows in one order, taken here to be id  *)
(* order; another query's scan may meet them the other way round.          *)
Front(t) == IF pc[t] = "escalate" /\ ~oneOrder THEN Max(want[t]) ELSE Min(want[t])

(* A row that is found by its id is taken as it is.  The others look again *)
(* when they get it: one that was resolved, or acknowledged or handed over *)
(* before the escalation got to it, is passed over.                        *)
Taken(t, i) == pc[t] = "change" \/ rows[i].open
Passed(t, i) == pc[t] = "escalate" \/ (pc[t] = "recover" /\ ~rows[i].open)

(* Mutant: rows somebody else has locked are skipped. *)
LockNextSkipping(t) ==
    /\ Locking(t) /\ want[t] # {}
    /\ LET i == Front(t)
       IN  \/ owner[i] = Nobody /\ Taken(t, i) /\ owner' = [owner EXCEPT ![i] = t]
           \/ (owner[i] # Nobody \/ Passed(t, i)) /\ UNCHANGED owner
    /\ want' = [want EXCEPT ![t] = @ \ {Front(t)}]
    /\ UNCHANGED <<clock, rows, oneOrder, advisory, pc, start, history>>

LockNext(t) ==
    /\ Locking(t) /\ want[t] # {}
    /\ LET i == Front(t)
       IN  /\ owner[i] = Nobody
           /\ \/ Taken(t, i) /\ owner' = [owner EXCEPT ![i] = t]
              \/ Passed(t, i) /\ UNCHANGED owner
    /\ want' = [want EXCEPT ![t] = @ \ {Front(t)}]
    /\ UNCHANGED <<clock, rows, oneOrder, advisory, pc, start, history>>

(* The recovery, and an operator who resolves. *)
CommitResolve(t) ==
    /\ pc[t] \in {"recover", "change"} /\ want[t] = {}
    /\ rows' = [i \in Ids |-> IF owner[i] = t
                              THEN [rows[i] EXCEPT !.open = FALSE, !.updated = start[t]]
                              ELSE rows[i]]
    /\ Release(t)
    /\ End(t, "done")
    /\ UNCHANGED <<clock, oneOrder, advisory, want, history>>

(* Rows that change hands beside an alarm which is about to insert. *)
Wrote(S) == since' = [u \in Alarms |-> IF pc[u] = "insert" THEN since[u] \union S ELSE since[u]]

(* The escalation, and an operator who acknowledges, assigns or closes. *)
CommitWrite(t) ==
    /\ pc[t] \in {"change", "escalate"} /\ want[t] = {}
    /\ rows' = [i \in Ids |-> IF owner[i] = t THEN [rows[i] EXCEPT !.updated = start[t]]
                              ELSE rows[i]]
    /\ Wrote(Held(t))
    /\ Release(t)
    /\ End(t, "done")
    /\ UNCHANGED <<clock, oneOrder, advisory, want, seen>>

(* CreateIncident with source trap, the device and the same title: one     *)
(* statement, which waits for nobody.                                      *)
CommitCreate(t) ==
    /\ pc[t] = "idle" /\ t \in Writers
    /\ \E now \in 1..clock : NewRow(now)
    /\ Wrote({Len(rows) + 1})
    /\ Goto(t, "done")
    /\ UNCHANGED <<clock, oneOrder, advisory, start, want, seen>>

-----------------------------------------------------------------------------
(* The end of a transaction that does not commit *)

(* The handler gives its transactions five seconds; what a cancelled one   *)
(* holds is released and what it wrote is gone.                            *)
Cancel(t) ==
    /\ pc[t] \notin {"idle", "done", "cancelled"}
    /\ Release(t)
    /\ advisory' = IF advisory = t THEN Nobody ELSE advisory
    /\ End(t, "cancelled")
    /\ want' = [want EXCEPT ![t] = {}]
    /\ since' = [u \in Alarms |-> IF u = t THEN {} ELSE since[u]]
    /\ UNCHANGED <<clock, rows, oneOrder, seen>>

WaitsFor(t, u) == Locking(t) /\ want[t] # {} /\ owner[Front(t)] = u

(* The database aborts one of the transactions that wait in a circle. *)
BreakDeadlock(t) ==
    /\ \E S \in SUBSET Transactions :
          /\ t \in S
          /\ \A u \in S : (\E v \in S : WaitsFor(u, v)) /\ (\E v \in S : WaitsFor(v, u))
    /\ Cancel(t)

Tick ==
    /\ clock < MaxTime /\ clock' = clock + 1
    /\ UNCHANGED <<tables, advisory, pc, start, want, history>>

Init ==
    /\ clock = 1
    /\ rows = <<>> /\ owner = <<>>
    /\ advisory = Nobody
    /\ pc = [t \in Transactions |-> "idle"]
    /\ start = [t \in Transactions |-> 0]
    /\ want = [t \in Transactions |-> {}]
    /\ oneOrder \in BOOLEAN
    /\ seen = [t \in Recoveries |-> {}]
    /\ since = [t \in Alarms |-> {}]

Alarm(t) == TakeLock(t) \/ Choose(t) \/ LockChosen(t) \/ CommitTouch(t) \/ CommitInsert(t)
Change(t) ==
    \/ SelectOpen(t) \/ SelectOne(t) \/ SelectUnacked(t) \/ LockNext(t)
    \/ CommitResolve(t) \/ CommitWrite(t)

Proceed(t) == IF t \in Alarms THEN Alarm(t) ELSE Change(t)

Next ==
    \/ \E t \in Transactions : Begin(t) \/ Proceed(t) \/ CommitCreate(t) \/ Cancel(t)
    \/ Tick

(* The database goes on with a statement whose locks are free, and a       *)
(* circle of waits is found and broken.  Each transaction runs once, so no *)
(* lock is taken away from a waiting one for ever.                         *)
Spec ==
    /\ Init /\ [][Next]_vars
    /\ \A t \in Transactions : WF_vars(Proceed(t))
    /\ \A t \in Recoveries \union Writers : WF_vars(BreakDeadlock(t))

-----------------------------------------------------------------------------
(* Properties *)

(* The advisory lock does what it is for: however the alarms of one key    *)
(* overlap, one inserts its incident only when every open one of that key  *)
(* has been quiet for longer than the window at the moment it appears, and *)
(* not merely when the alarm looked.  The lock binds alarms only, so those *)
(* incidents are left out that another writer has changed or reported      *)
(* between the alarm's two statements.                                     *)
NoTwins ==
    [][\A t \in Alarms : pc[t] = "insert" /\ Len(rows') > Len(rows) /\ pc'[t] = "done" =>
          \A i \in OpenRows \ since[t] : rows[i].updated + Window < start[t]]_vars

(* A recovery that commits leaves none of the incidents open that were     *)
(* open when it looked, although other writers hold their locks and some   *)
(* of them refresh what they hold.                                         *)
RecoveryIsComplete ==
    \A t \in Recoveries : pc[t] = "done" => seen[t] \intersect OpenRows = {}

(* No transaction waits for ever: not for the key's lock, which is taken   *)
(* before the row's; and where two scans meet the rows in opposite orders, *)
(* one of the two gives way.                                               *)
EveryoneFinishes ==
    \A t \in Transactions : pc[t] # "idle" ~> pc[t] \in {"done", "cancelled"}

=============================================================================

---------------------------- MODULE IncidentEvents ----------------------------
(***************************************************************************)
(* How the API tells the ITSM system what was done to incidents: a handler *)
(* commits a change, reads the incident's row back in a statement of its   *)
(* own, answers, and only then puts the events on a queue in memory that   *)
(* drops what does not fit; workers post them to a webhook that may        *)
(* refuse, fail, or process an event whose answer is lost.  Other          *)
(* requests, and the programs that write incidents without telling anyone, *)
(* run in between, the read may fail, and the process may die.             *)
(***************************************************************************)
EXTENDS IncidentStore, InboundMapping, FiniteSets

CONSTANTS
    Requests,       (* handlers that can run at the same time              *)
    Workers,        (* NMS_ITSM_QUEUE_WORKERS                              *)
    QueueSize,      (* NMS_ITSM_QUEUE_SIZE                                 *)
    MaxRetries,     (* NMS_ITSM_WEBHOOK_RETRIES                            *)
    BulkIds,        (* incident_ids of the bulk requests                   *)
    InboundRequests, (* bodies of the requests of the ITSM system          *)
    NoEvent,
    MaxRequests,    (* bound: requests                                     *)
    MaxOthers,      (* bound: operations of the other programs             *)
    MaxRestarts     (* bound: restarts of the API                          *)

ASSUME EventsAssumption ==
    /\ IsFiniteSet(Workers) /\ Workers # {} /\ IsFiniteSet(Requests)
    /\ QueueSize \in Nat \ {0} /\ MaxRetries \in Nat
    /\ BulkIds \subseteq Seq(Nat \ {0})
    /\ {MaxRequests, MaxOthers, MaxRestarts} \subseteq Nat
    /\ \A q \in InboundRequests : q.assignee \in Assignees \union {NoAssignee}
    /\ \A m \in InboundMappings : m.mappedAssignee \in Assignees \union {NoAssignee}

VARIABLES
    bulk,       (* of each request: [ids, status] it has still to change   *)
    unread,     (* of each request: events of the change it has committed, *)
                (* whose row has not come back yet                         *)
    pending,    (* of each request: events it has still to put on the queue *)
    queue,
    task,       (* of each worker: the event it posts, or NoEvent          *)
    attempt,    (* of each worker: posts of that event that have failed    *)
    received,   (* events the ITSM system has processed                    *)
    reported,   (* history: events whose loss was logged, or that a restart lost *)
    answered,   (* history: events whose loss only the answer of a bulk    *)
                (* request tells                                           *)
    made,       (* history: events of all changes requests have made       *)
    requests, others, restarts

eventVars == <<vars, bulk, unread, pending, queue, task, attempt, received, reported,
               answered, made, requests, others, restarts>>
delivery == <<pending, queue, task, attempt, received, reported, answered>>

(* An event is known by its incident and the audit row it tells of, 0 for  *)
(* the creation.                                                           *)
Event(type, i, s, n) == [type |-> type, id |-> i, status |-> s, change |-> n]

Events ==
    [type : {"created", "status_changed", "assignment_changed"}, id : Nat, status : Statuses,
     change : Nat]

ASSUME NoEventAssumption == NoEvent \notin Events

NoBulk == [ids |-> <<>>, status |-> NoStatus]

Elements(seq) == {seq[k] : k \in 1..Len(seq)}

Free(r) == unread[r] = <<>> /\ pending[r] = <<>> /\ bulk[r].ids = <<>>

-----------------------------------------------------------------------------
(* The handlers.  A request that is refused writes nothing and tells       *)
(* nothing.                                                                *)

Tell(r, events) ==
    /\ unread' = [unread EXCEPT ![r] = events]
    /\ made' = made \union Elements(events)

StatusChanged(i, t) == <<Event("status_changed", i, t, Len(audit'[i]))>>

InboundEvents(i, rows) ==
    [k \in 1..Len(rows) |->
        Event(IF rows[k].from # rows[k].to THEN "status_changed" ELSE "assignment_changed",
              i, rows[Len(rows)].to, Len(audit[i]) + k)]

Handle(r) ==
    /\ Free(r) /\ requests < MaxRequests
    /\ requests' = requests + 1
    /\ \/ \E d \in live \union {NoDevice}, c \in Classes, a \in Assignees \union {NoAssignee} :
             /\ CreateIncident(d, c, a)
             /\ Tell(r, <<Event("created", Len(incidents'), "new", 0)>>)
       \/ \E i \in Ids, t \in Statuses : TransitionIncidentStatus(i, t) /\ Tell(r, StatusChanged(i, t))
       \/ \E i \in Ids, a \in Assignees \union {NoAssignee} :
             /\ AssignIncident(i, a)
             /\ Tell(r, <<Event("assignment_changed", i, incidents[i].status, Len(audit'[i]))>>)
       \/ \E i \in Ids, q \in InboundRequests :
             LET t == EffectiveStatus(q)
                 a == EffectiveAssignee(q)
             IN  /\ ApplyITSMInboundUpdate(i, t, a)
                 /\ Tell(r, InboundEvents(i, InboundRows(incidents[i], t, a)))
    /\ bulk' = [bulk EXCEPT ![r] = NoBulk]
    /\ UNCHANGED <<delivery, others, restarts>>

(* BulkTransitionIncidents *)
StartBulk(r) ==
    /\ Free(r) /\ requests < MaxRequests
    /\ requests' = requests + 1
    /\ \E ids \in BulkIds, t \in Statuses : bulk' = [bulk EXCEPT ![r] = [ids |-> ids, status |-> t]]
    /\ UNCHANGED <<vars, unread, delivery, made, others, restarts>>

(* The next incident is moved, or refused or its transaction fails; an id  *)
(* that comes again is passed over.                                        *)
NextOfBulk(r) ==
    LET i == Head(bulk[r].ids)
        t == bulk[r].status
    IN  /\ bulk[r].ids # <<>> /\ unread[r] = <<>> /\ pending[r] = <<>>
        /\ \/ i \in Ids /\ TransitionIncidentStatus(i, t) /\ Tell(r, StatusChanged(i, t))
           \/ UNCHANGED <<vars, unread, made>>
        /\ bulk' = [bulk EXCEPT ![r].ids = SelectSeq(Tail(@), LAMBDA j : j # i)]
        /\ UNCHANGED <<delivery, requests, others, restarts>>

(* Mutant: the event carries the row that was read before the change.      *)
AsReadBefore(e) ==
    IF e.change = 0 THEN e ELSE [e EXCEPT !.status = audit[e.id][e.change].from]

(* INSERT returns the row it wrote; after a transaction the row is read    *)
(* again, as other requests have left it by then.                          *)
AsRead(e) == IF e.change = 0 THEN e ELSE [e EXCEPT !.status = incidents[e.id].status]

ReadBack(r) ==
    /\ unread[r] # <<>>
    /\ pending' = [pending EXCEPT ![r] = [k \in 1..Len(unread[r]) |-> AsRead(unread[r][k])]]
    /\ unread' = [unread EXCEPT ![r] = <<>>]
    /\ UNCHANGED <<vars, bulk, queue, task, attempt, received, reported, answered, made,
                   requests, others, restarts>>

(* The change is committed, but its row does not come back (the client has *)
(* gone, the connection broke): no event is sent.  A handler of one        *)
(* incident logs the error; the bulk handler only answers it.              *)
ReadBackFails(r) ==
    /\ unread[r] # <<>>
    /\ unread' = [unread EXCEPT ![r] = <<>>]
    /\ IF bulk[r] = NoBulk
       THEN reported' = reported \union Elements(unread[r]) /\ UNCHANGED answered
       ELSE answered' = answered \union Elements(unread[r]) /\ UNCHANGED reported
    /\ UNCHANGED <<vars, bulk, pending, queue, task, attempt, received, made,
                   requests, others, restarts>>

(* Mutant: an event that finds no room is dropped without a word. *)
NotifySilently(r) ==
    /\ pending[r] # <<>>
    /\ queue' = IF Len(queue) < QueueSize THEN Append(queue, Head(pending[r])) ELSE queue
    /\ pending' = [pending EXCEPT ![r] = Tail(@)]
    /\ UNCHANGED reported
    /\ UNCHANGED <<vars, bulk, unread, task, attempt, received, answered, made,
                   requests, others, restarts>>

(* notifyITSMIncidentAsync never waits: a full queue drops the event. *)
Notify(r) ==
    /\ pending[r] # <<>>
    /\ IF Len(queue) < QueueSize
       THEN queue' = Append(queue, Head(pending[r])) /\ UNCHANGED reported
       ELSE reported' = reported \union {Head(pending[r])} /\ UNCHANGED queue
    /\ pending' = [pending EXCEPT ![r] = Tail(@)]
    /\ UNCHANGED <<vars, bulk, unread, task, attempt, received, answered, made,
                   requests, others, restarts>>

-----------------------------------------------------------------------------
(* A worker of the queue: SendIncidentEvent *)

Take(w) ==
    /\ task[w] = NoEvent /\ queue # <<>>
    /\ task' = [task EXCEPT ![w] = Head(queue)]
    /\ attempt' = [attempt EXCEPT ![w] = 0]
    /\ queue' = Tail(queue)
    /\ UNCHANGED <<vars, bulk, unread, pending, received, reported, answered, made,
                   requests, others, restarts>>

Drop(w) == task' = [task EXCEPT ![w] = NoEvent] /\ attempt' = [attempt EXCEPT ![w] = 0]
Processed(w) == received' = received \union {task[w]}
Logged(w) == reported' = reported \union {task[w]}

Accepted(w) ==
    /\ Processed(w)
    /\ Drop(w)
    /\ UNCHANGED reported

(* 4xx: no use in trying again. *)
Refused(w) == Drop(w) /\ Logged(w) /\ UNCHANGED received

(* Mutant: when the retries are used up they start again. *)
FailedForEver(w) ==
    /\ Processed(w) \/ UNCHANGED received
    /\ attempt' = [attempt EXCEPT ![w] = IF @ < MaxRetries THEN @ + 1 ELSE 0]
    /\ UNCHANGED <<task, reported>>

(* 5xx, no answer, or the timeout: the event may have been processed.  It  *)
(* is tried again unless the retries or the time of the event are used up. *)
Failed(w) ==
    /\ Processed(w) \/ UNCHANGED received
    /\ \/ /\ attempt[w] < MaxRetries
          /\ attempt' = [attempt EXCEPT ![w] = @ + 1]
          /\ UNCHANGED <<task, reported>>
       \/ Drop(w) /\ Logged(w)

Post(w) ==
    /\ task[w] # NoEvent
    /\ Accepted(w) \/ Refused(w) \/ Failed(w)
    /\ UNCHANGED <<vars, bulk, unread, pending, queue, answered, made,
                   requests, others, restarts>>

-----------------------------------------------------------------------------
(* The other programs and the process *)

(* The worker and the trap receiver write incidents and tell nobody. *)
Others ==
    /\ others < MaxOthers
    /\ others' = others + 1
    /\ Correlate \/ \E p \in Policies : EscalateUnackedIncidents(p)
    /\ UNCHANGED <<bulk, unread, delivery, made, requests, restarts>>

InMemory == (UNION {Elements(unread[r]) \union Elements(pending[r]) : r \in Requests})
            \union Elements(queue)
            \union ({task[w] : w \in Workers} \ {NoEvent})

(* Nothing of the queue is persisted. *)
Restart ==
    /\ restarts < MaxRestarts
    /\ restarts' = restarts + 1
    /\ bulk' = [r \in Requests |-> NoBulk]
    /\ unread' = [r \in Requests |-> <<>>] /\ pending' = [r \in Requests |-> <<>>]
    /\ queue' = <<>>
    /\ task' = [w \in Workers |-> NoEvent] /\ attempt' = [w \in Workers |-> 0]
    /\ reported' = reported \union InMemory
    /\ UNCHANGED <<vars, received, answered, made, requests, others>>

EventsInit ==
    /\ Init
    /\ bulk = [r \in Requests |-> NoBulk]
    /\ unread = [r \in Requests |-> <<>>] /\ pending = [r \in Requests |-> <<>>]
    /\ queue = <<>>
    /\ task = [w \in Workers |-> NoEvent] /\ attempt = [w \in Workers |-> 0]
    /\ received = {} /\ reported = {} /\ answered = {} /\ made = {}
    /\ requests = 0 /\ others = 0 /\ restarts = 0

Serve(r) ==
    Handle(r) \/ StartBulk(r) \/ NextOfBulk(r) \/ ReadBack(r) \/ ReadBackFails(r) \/ Notify(r)

EventsNext ==
    \/ \E r \in Requests : Serve(r)
    \/ \E w \in Workers : Take(w) \/ Post(w)
    \/ Others
    \/ Restart

(* A handler that has started goes on, its statements succeed or fail, and *)
(* a post ends because the client and the context have timeouts.           *)
EventsSpec ==
    /\ EventsInit /\ [][EventsNext]_eventVars
    /\ \A r \in Requests : /\ WF_eventVars(NextOfBulk(r)) /\ WF_eventVars(Notify(r))
                          /\ WF_eventVars(ReadBack(r) \/ ReadBackFails(r))
    /\ \A w \in Workers : WF_eventVars(Take(w)) /\ WF_eventVars(Post(w))

-----------------------------------------------------------------------------
(* Properties *)

(* The status after the first n rows of a log. *)
StatusAfter(L, n) == IF n = 0 THEN "new" ELSE L[n].to

(* An event does not lag behind the change it tells of: the status it      *)
(* carries is the one that the change has left the incident in or, since   *)
(* the row is read after the commit, one that a later change has led to;   *)
(* never an older one.  A "created" event always says "new".               *)
EventsDoNotLag ==
    \A e \in InMemory \union received :
        \E n \in e.change..Len(audit[e.id]) :
            /\ e.status = StatusAfter(audit[e.id], n)
            /\ e.type = "created" => n = 0

Key(e) == <<e.id, e.change>>
Keys(E) == {Key(e) : e \in E}

(* No change is passed over in silence: each one a request has made is on  *)
(* its way to the ITSM system, has been processed there, or its loss is in *)
(* the log or due to a restart.  The exception is named: a change of a     *)
(* bulk request whose row did not come back, of which only the answer says *)
(* (falsely) that the incident was not moved.                              *)
NoSilentLoss == Keys(made) \subseteq Keys(InMemory \union received \union reported \union answered)

(* An ITSM system that is down blocks nothing for good: what is on the     *)
(* queue is posted or given up in the end, and every request comes to its  *)
(* last event.                                                             *)
EventsAreHandled == InMemory # {} ~> InMemory = {}
=============================================================================

------------------------------ MODULE PollWorker ------------------------------
(***************************************************************************)
(* One polling cycle after the other: the cycle lists the devices, feeds   *)
(* them through a bounded channel to a pool of workers that share a        *)
(* throttle, and waits for all of them.  A worker asks the device over     *)
(* SNMP, keeps the device's backoff in the memory of the process and       *)
(* records the outcome in the database, in a transaction that may fail     *)
(* (DevicePolling says what it writes).  Shutdown cancels the context and  *)
(* waits for the loop.                                                     *)
(***************************************************************************)
EXTENDS Naturals, Sequences, SequencesExt

CONSTANTS
    DeviceList,  (* table devices in the order of their addresses          *)
    Workers,     (* goroutines a cycle may have                            *)
    Pools,       (* those it has, by NMS_WORKER_POLL_CONCURRENCY           *)
    Throttled,   (* whether NMS_WORKER_POLL_RATE_LIMIT_PER_SEC is set      *)
    MaxFailures, (* failures after which the delay grows no more           *)
    MaxGap,      (* longest delay, in minutes                              *)
    MaxErrors,   (* bound: transactions that fail while nothing is wrong   *)
    Flaky,       (* bound: devices that may fail, or have failed before    *)
    Removable    (* bound: devices that are deleted                        *)

Devices == Range(DeviceList)

ASSUME PollWorkerAssumption ==
    /\ IsFiniteSet(Workers) /\ Pools \subseteq SUBSET Workers
    /\ Pools # {} /\ {} \notin Pools
    /\ Throttled \in BOOLEAN
    /\ Flaky \subseteq Devices /\ Removable \subseteq Devices
    /\ MaxFailures \in Nat \ {0} /\ MaxGap \in Nat \ {0} /\ MaxErrors \in Nat
    /\ DeviceList \in Seq(Devices)
    /\ \A i, j \in 1..Len(DeviceList) : DeviceList[i] = DeviceList[j] => i = j

VARIABLES
    pool,       (* the goroutines of each cycle of this process            *)
    phase,      (* "pause", "feed", "wait" (channel closed) or "stopped"   *)
    todo,       (* devices of this cycle that are not fed yet, a set       *)
    jobs,       (* the channel                                             *)
    token,      (* whether the throttle's channel holds its token          *)
    pc, dev,    (* of each worker: where it is and with which device       *)
    failures,   (* of each device in a row, at most MaxFailures            *)
    wait,       (* minutes until nextTry                                   *)
    status,     (* devices.status                                          *)
    live,       (* devices that still have a row                           *)
    reachable,  (* devices that answer SNMP                                *)
    cancelled,  (* the worker's context                                    *)
    errors,     (* failed transactions so far                              *)
    last        (* history: what the latest poll of a device found         *)

vars == <<pool, phase, todo, jobs, token, pc, dev, failures, wait, status, live,
          reachable, cancelled, errors, last>>
cycle == <<pool, phase, todo, jobs, token>>
backoff == <<failures, wait>>
world == <<live, reachable, cancelled>>

Capacity == 2 * Cardinality(pool)

At(w, l) == pc[w] = l
Goto(w, l) == pc' = [pc EXCEPT ![w] = l]
NoJob == DeviceList[1]   (* the value is never looked at *)

(* The next round of the worker's loop: the device goes out of scope. *)
Leave(w, l) == Goto(w, l) /\ dev' = [dev EXCEPT ![w] = NoJob]
Done(w) == Leave(w, "recv")

-----------------------------------------------------------------------------
(* The cycle: pollAllDevices *)

StartCycle ==
    /\ phase = "pause"
    /\ ~cancelled
    /\ phase' = "feed"
    /\ todo' = live
    /\ token' = TRUE
    /\ pc' = [w \in Workers |-> IF w \in pool /\ At(w, "off") THEN "recv" ELSE pc[w]]
    /\ UNCHANGED <<pool, jobs, dev, backoff, status, world, errors, last>>

(* The devices are fed in the order of the table. *)
Feed ==
    /\ phase = "feed"
    /\ Len(jobs) < Capacity
    /\ \E i \in 1..Len(DeviceList) :
          /\ DeviceList[i] \in todo
          /\ \A j \in 1..(i - 1) : DeviceList[j] \notin todo
          /\ jobs' = Append(jobs, DeviceList[i])
          /\ todo' = todo \ {DeviceList[i]}
    /\ UNCHANGED <<pool, phase, token, pc, dev, backoff, status, world, errors, last>>

(* Mutant: the context is looked at between two sends and not during one. *)
StopBetweenSends ==
    /\ phase = "feed"
    /\ todo = {} \/ (cancelled /\ Len(jobs) < Capacity)
    /\ phase' = "wait"
    /\ UNCHANGED <<pool, todo, jobs, token, pc, dev, backoff, status, world, errors, last>>

(* close(jobs), after the last device or once the context is cancelled *)
CloseJobs ==
    /\ phase = "feed"
    /\ todo = {} \/ cancelled
    /\ phase' = "wait"
    /\ UNCHANGED <<pool, todo, jobs, token, pc, dev, backoff, status, world, errors, last>>

(* Mutant: the cycle ends without wg.Wait. *)
EndCycleEarly ==
    /\ phase = "wait"
    /\ phase' = "pause"
    /\ jobs' = <<>> /\ todo' = {}
    /\ UNCHANGED <<pool, token, pc, dev, backoff, status, world, errors, last>>

(* wg.Wait; what is left in the channel is garbage *)
EndCycle ==
    /\ phase = "wait"
    /\ \A w \in Workers : At(w, "off")
    /\ phase' = "pause"
    /\ jobs' = <<>> /\ todo' = {}
    /\ UNCHANGED <<pool, token, pc, dev, backoff, status, world, errors, last>>

StopLoop ==
    /\ phase = "pause"
    /\ cancelled
    /\ phase' = "stopped"
    /\ UNCHANGED <<pool, todo, jobs, token, pc, dev, backoff, status, world, errors, last>>

-----------------------------------------------------------------------------
(* A worker *)

Receive(w) ==
    /\ At(w, "recv")
    /\ jobs # <<>>
    /\ jobs' = Tail(jobs)
    /\ dev' = [dev EXCEPT ![w] = Head(jobs)]
    /\ Goto(w, IF Throttled THEN "token" ELSE "poll")
    /\ UNCHANGED <<pool, phase, todo, token, backoff, status, world, errors, last>>

Exit(w) ==
    /\ At(w, "recv")
    /\ jobs = <<>>
    /\ phase = "wait"
    /\ Goto(w, "off")
    /\ UNCHANGED <<cycle, dev, backoff, status, world, errors, last>>

TakeToken(w) ==
    /\ At(w, "token")
    /\ token
    /\ token' = FALSE
    /\ Goto(w, "poll")
    /\ UNCHANGED <<pool, phase, todo, jobs, dev, backoff, status, world, errors, last>>

(* A worker that waits for the throttle leaves when the context is         *)
(* cancelled; its device is not polled.                                    *)
GiveUp(w) ==
    /\ At(w, "token")
    /\ cancelled
    /\ Leave(w, "off")
    /\ UNCHANGED <<cycle, backoff, status, world, errors, last>>

(* Mutant: a device that has failed is skipped, however long ago. *)
SkipFailed(w) ==
    /\ At(w, "poll")
    /\ failures[dev[w]] > 0
    /\ Done(w)
    /\ UNCHANGED <<cycle, backoff, status, world, errors, last>>

(* shouldSkip *)
Skip(w) ==
    /\ At(w, "poll")
    /\ wait[dev[w]] > 0
    /\ Done(w)
    /\ UNCHANGED <<cycle, backoff, status, world, errors, last>>

(* GetDevice *)
Query(w) ==
    /\ At(w, "poll")
    /\ wait[dev[w]] = 0
    /\ LET ok == dev[w] \in reachable
       IN  /\ Goto(w, IF ok THEN "recover" ELSE "backoff")
           /\ last' = [last EXCEPT ![dev[w]] = IF ok THEN "active" ELSE "failed"]
    /\ UNCHANGED <<cycle, dev, backoff, status, world, errors>>

(* onFailure: one minute, doubled with every failure in a row *)
OnFailure(w) ==
    LET n == Min({failures[dev[w]] + 1, MaxFailures})
    IN  /\ At(w, "backoff")
        /\ failures' = [failures EXCEPT ![dev[w]] = n]
        /\ wait' = [wait EXCEPT ![dev[w]] = Min({2 ^ (n - 1), MaxGap})]
        /\ Goto(w, "fail")
        /\ UNCHANGED <<cycle, dev, status, world, errors, last>>

(* The transaction of the transition to s: it fails when the device is     *)
(* gone, may fail when the context is cancelled, and fails now and then.   *)
RecordStatus(w, s) ==
    \/ /\ dev[w] \in live
       /\ status' = [status EXCEPT ![dev[w]] = s]
       /\ UNCHANGED errors
    \/ /\ dev[w] \notin live \/ cancelled
       /\ UNCHANGED <<status, errors>>
    \/ /\ errors < MaxErrors
       /\ errors' = errors + 1
       /\ UNCHANGED status

RecordFailure(w) ==
    /\ At(w, "fail")
    /\ RecordStatus(w, "failed")
    /\ Done(w)
    /\ UNCHANGED <<cycle, backoff, world, last>>

RecordRecovery(w) ==
    /\ At(w, "recover")
    /\ RecordStatus(w, "active")
    /\ Goto(w, "clear")
    /\ UNCHANGED <<cycle, dev, backoff, world, last>>

(* onSuccess, even when the recovery could not be recorded *)
OnSuccess(w) ==
    /\ At(w, "clear")
    /\ failures' = [failures EXCEPT ![dev[w]] = 0]
    /\ wait' = [wait EXCEPT ![dev[w]] = 0]
    /\ Done(w)
    /\ UNCHANGED <<cycle, status, world, errors, last>>

-----------------------------------------------------------------------------
(* The world *)

(* The throttle's ticker; its channel holds one token. *)
Refill ==
    /\ Throttled
    /\ phase \in {"feed", "wait"}
    /\ ~token
    /\ token' = TRUE
    /\ UNCHANGED <<pool, phase, todo, jobs, pc, dev, backoff, status, world, errors, last>>

Minute ==
    /\ \E d \in Devices : wait[d] > 0
    /\ wait' = [d \in Devices |-> IF wait[d] > 0 THEN wait[d] - 1 ELSE 0]
    /\ UNCHANGED <<cycle, pc, dev, failures, status, world, errors, last>>

Changes ==
    /\ \/ \E d \in Flaky : /\ reachable' = IF d \in reachable THEN reachable \ {d}
                                                              ELSE reachable \union {d}
                           /\ UNCHANGED <<live, cancelled>>
       \/ \E d \in live \intersect Removable : live' = live \ {d} /\ UNCHANGED <<reachable, cancelled>>
       \/ ~cancelled /\ cancelled' = TRUE /\ UNCHANGED <<reachable, live>>
    /\ UNCHANGED <<cycle, pc, dev, backoff, status, errors, last>>

Init ==
    /\ pool \in Pools
    /\ phase = "pause" /\ todo = {} /\ jobs = <<>> /\ token = FALSE
    /\ pc = [w \in Workers |-> "off"]
    /\ dev = [w \in Workers |-> NoJob]
    /\ failures = [d \in Devices |-> 0] /\ wait = [d \in Devices |-> 0]
    /\ status \in [Devices -> {"active", "failed"}]
    /\ \A d \in Devices \ Flaky : status[d] = "active"
    /\ last = status
    /\ live = Devices /\ reachable = Devices
    /\ cancelled = FALSE /\ errors = 0

Poll(w) ==
    \/ Skip(w) \/ Query(w) \/ OnFailure(w)
    \/ RecordFailure(w) \/ RecordRecovery(w) \/ OnSuccess(w)

Worker(w) == Receive(w) \/ Exit(w) \/ TakeToken(w) \/ GiveUp(w) \/ Poll(w)

Cycle == StartCycle \/ Feed \/ CloseJobs \/ EndCycle \/ StopLoop

Next == Cycle \/ (\E w \in Workers : Worker(w)) \/ Refill \/ Minute \/ Changes

(* Timers fire, goroutines that can run do, and SNMP requests time out. *)
Spec ==
    /\ Init /\ [][Next]_vars
    /\ WF_vars(Cycle) /\ WF_vars(Refill) /\ WF_vars(Minute)
    /\ \A w \in Workers : WF_vars(Worker(w))

-----------------------------------------------------------------------------
(* Properties *)

Busy(w) == pc[w] \notin {"off", "recv"}

(* The database shows what the latest poll of a device found as soon as    *)
(* its worker has moved on, unless a transaction has failed: outcomes are  *)
(* never recorded out of order.                                            *)
StatusIsLatest ==
    \A d \in live :
        (errors = 0 /\ ~cancelled /\ \A w \in Workers : Busy(w) => dev[w] # d)
            => status[d] = last[d]

(* Backoff, skipped cycles and failed transactions delay the recovery of a *)
(* device but never prevent it: a device that answers from some time on is *)
(* shown as active from some time on.                                      *)
RecoveryIsShown ==
    \A d \in Flaky :
        <>[](d \in reachable /\ d \in live /\ ~cancelled) => <>[](status[d] = "active")

(* Shutdown ends: when the context is cancelled, the feeder and every      *)
(* worker leave and the loop stops.                                        *)
ShutdownEnds == cancelled ~> phase = "stopped"
=============================================================================

-------------------------- MODULE PollWorker_proofs --------------------------
(***************************************************************************)
(* A device is in one place at a time: still to be fed, in the channel or  *)
(* with one worker.  So its outcomes are recorded in order, for any number *)
(* of devices and workers, throttled or not.                               *)
(***************************************************************************)
EXTENDS PollWorker, SequenceTheorems, TLAPS

-----------------------------------------------------------------------------
(* The invariant *)

Labels == {"off", "recv", "token", "poll", "backoff", "fail", "recover", "clear"}

TypeOK ==
    /\ phase \in {"pause", "feed", "wait", "stopped"}
    /\ todo \subseteq Devices /\ live \subseteq Devices
    /\ jobs \in Seq(Devices)
    /\ pc \in [Workers -> Labels]
    /\ dev = [w \in Workers |-> dev[w]]
    /\ status \in [Devices -> {"active", "failed"}]
    /\ last \in [Devices -> {"active", "failed"}]
    /\ errors \in Nat /\ cancelled \in BOOLEAN

Queued == {jobs[k] : k \in 1..Len(jobs)}

EachOnce ==
    /\ \A i, j \in 1..Len(jobs) : jobs[i] = jobs[j] => i = j
    /\ todo \intersect Queued = {}
    /\ \A w \in Workers : Busy(w) => dev[w] \in Devices \ (todo \union Queued)
    /\ \A v, w \in Workers : (Busy(v) /\ Busy(w) /\ dev[v] = dev[w]) => v = w

(* Between two cycles nothing of the last one is left. *)
NothingLeft ==
    phase \in {"pause", "stopped"} =>
        todo = {} /\ jobs = <<>> /\ \A w \in Workers : pc[w] = "off"

(* The worker has asked the device and not yet recorded what it found. *)
Unrecorded(w) == pc[w] \in {"backoff", "fail", "recover"}

Outcome(w) == IF pc[w] = "recover" THEN "active" ELSE "failed"

Recorded ==
    (errors = 0 /\ ~cancelled) =>
        /\ \A d \in live : (\A w \in Workers : Unrecorded(w) => dev[w] # d) => status[d] = last[d]
        /\ \A w \in Workers : (Unrecorded(w) /\ dev[w] \in live) => last[dev[w]] = Outcome(w)

WorkerInv == TypeOK /\ EachOnce /\ NothingLeft /\ Recorded

LEMMA WorkerInvInit == Init => WorkerInv
<1> SUFFICES ASSUME Init PROVE WorkerInv
  OBVIOUS
<1>1. /\ Len(jobs) = 0 /\ jobs \in Seq(Devices) /\ Queued = {}
      /\ \A w \in Workers : pc[w] = "off"
  BY DEF Init, Queued
<1>2. TypeOK
  BY <1>1 DEF Init, TypeOK, Labels
<1>3. EachOnce
  BY <1>1 DEF EachOnce, Busy, Init
<1>4. NothingLeft /\ Recorded
  BY <1>1 DEF Init, NothingLeft, Recorded, Unrecorded
<1> QED
  BY <1>2, <1>3, <1>4 DEF WorkerInv

-----------------------------------------------------------------------------
(* The cycle *)

LEMMA QuietKeeps ==
    ASSUME WorkerInv, UNCHANGED <<todo, jobs, pc, dev, status, last, errors>>,
           live' \subseteq live, cancelled' \in {cancelled, TRUE},
           phase' \in {"pause", "feed", "wait", "stopped"},
           phase' \in {"pause", "stopped"} => phase' = phase \/ phase \in {"pause", "stopped"}
    PROVE  WorkerInv'
<1>1. TypeOK'
  BY DEF WorkerInv, TypeOK
<1>2. EachOnce'
  BY DEF WorkerInv, EachOnce, Queued, Busy
<1>3. NothingLeft'
  BY DEF WorkerInv, NothingLeft
<1>4. Recorded'
  BY DEF WorkerInv, TypeOK, Recorded, Unrecorded, Outcome
<1> QED
  BY <1>1, <1>2, <1>3, <1>4 DEF WorkerInv

LEMMA StartKeeps ==
    ASSUME WorkerInv, StartCycle
    PROVE  WorkerInv'
<1>1. /\ jobs = <<>> /\ jobs' = jobs /\ Queued' = {} /\ todo' = live
      /\ \A w \in Workers : pc[w] = "off" /\ pc'[w] \in {"off", "recv"}
      /\ pc' \in [Workers -> Labels]
      /\ UNCHANGED <<dev, status, live, cancelled, errors, last>> /\ phase' = "feed"
  BY DEF WorkerInv, NothingLeft, StartCycle, Queued, world, Labels, At
<1>2. TypeOK'
  BY <1>1 DEF WorkerInv, TypeOK
<1>3. EachOnce'
  BY <1>1 DEF EachOnce, Busy
<1>4. NothingLeft'
  BY <1>1 DEF NothingLeft
<1>5. Recorded'
  BY <1>1 DEF WorkerInv, Recorded, Unrecorded
<1> QED
  BY <1>2, <1>3, <1>4, <1>5 DEF WorkerInv

LEMMA FeedKeeps ==
    ASSUME WorkerInv, Feed
    PROVE  WorkerInv'
<1>1. PICK d \in todo : jobs' = Append(jobs, d) /\ todo' = todo \ {d}
  BY DEF Feed
<1>2. /\ phase = "feed"
      /\ UNCHANGED <<phase, pc, dev, status, live, cancelled, errors, last>>
  BY DEF Feed, world
<1>3. d \in Devices /\ jobs \in Seq(Devices)
  BY DEF WorkerInv, TypeOK
<1>4. /\ jobs' \in Seq(Devices) /\ Len(jobs) \in Nat /\ Len(jobs') = Len(jobs) + 1
      /\ \A k \in 1..Len(jobs) : jobs'[k] = jobs[k]
      /\ jobs'[Len(jobs) + 1] = d
  BY <1>1, <1>3, AppendProperties
<1>5. Queued' = Queued \union {d}
  BY <1>4 DEF Queued
<1>6. d \notin Queued
  BY DEF WorkerInv, EachOnce
<1>7. TypeOK'
  BY <1>1, <1>2, <1>4 DEF WorkerInv, TypeOK
<1>8. EachOnce'
  <2>1. ASSUME NEW i \in 1..Len(jobs'), NEW j \in 1..Len(jobs'), jobs'[i] = jobs'[j]
        PROVE  i = j
    <3>1. (i \in 1..Len(jobs) \/ i = Len(jobs) + 1) /\ (j \in 1..Len(jobs) \/ j = Len(jobs) + 1)
      BY <1>4
    <3>2. \A k \in 1..Len(jobs) : jobs[k] # d
      BY <1>6 DEF Queued
    <3> QED
      BY <1>4, <2>1, <3>1, <3>2 DEF WorkerInv, EachOnce
  <2>2. (todo \intersect Queued)' = {}
    BY <1>1, <1>5 DEF WorkerInv, EachOnce
  <2>3. \A w \in Workers : Busy(w)' => dev'[w] \in Devices \ (todo \union Queued)'
    BY <1>1, <1>2, <1>5 DEF WorkerInv, EachOnce, Busy
  <2>4. \A v, w \in Workers : (Busy(v)' /\ Busy(w)' /\ dev'[v] = dev'[w]) => v = w
    BY <1>2 DEF WorkerInv, EachOnce, Busy
  <2> QED
    BY <2>1, <2>2, <2>3, <2>4 DEF EachOnce
<1>9. NothingLeft' /\ Recorded'
  BY <1>2 DEF WorkerInv, NothingLeft, Recorded, Unrecorded, Outcome
<1> QED
  BY <1>7, <1>8, <1>9 DEF WorkerInv

LEMMA EndKeeps ==
    ASSUME WorkerInv, EndCycle
    PROVE  WorkerInv'
<1>1. /\ jobs' = <<>> /\ todo' = {} /\ phase' = "pause" /\ Queued' = {}
      /\ \A w \in Workers : pc'[w] = "off"
      /\ UNCHANGED <<pc, dev, status, live, cancelled, errors, last>>
  BY DEF EndCycle, world, At, Queued
<1>2. TypeOK'
  BY <1>1 DEF WorkerInv, TypeOK
<1>3. EachOnce'
  BY <1>1 DEF EachOnce, Busy
<1>4. NothingLeft' /\ Recorded'
  BY <1>1 DEF WorkerInv, NothingLeft, Recorded, Unrecorded, Outcome
<1> QED
  BY <1>2, <1>3, <1>4 DEF WorkerInv

-----------------------------------------------------------------------------
(* The workers *)

LEMMA ReceiveKeeps ==
    ASSUME WorkerInv, NEW w \in Workers, Receive(w)
    PROVE  WorkerInv'
<1>1. /\ jobs \in Seq(Devices) /\ jobs # <<>> /\ jobs' = Tail(jobs)
      /\ dev' = [dev EXCEPT ![w] = Head(jobs)]
      /\ \E l \in {"token", "poll"} : pc' = [pc EXCEPT ![w] = l]
      /\ pc[w] = "recv"
      /\ UNCHANGED <<phase, todo, status, live, cancelled, errors, last>>
  BY DEF WorkerInv, TypeOK, Receive, Goto, At, world
<1>2. /\ Head(jobs) = jobs[1] /\ Len(jobs) \in Nat /\ Len(jobs) # 0
      /\ jobs' \in Seq(Devices) /\ Len(jobs') = Len(jobs) - 1
      /\ \A k \in 1..Len(jobs') : jobs'[k] = jobs[k + 1]
      /\ Head(jobs) \in Devices
  BY <1>1, HeadTailProperties, EmptySeq
<1>3. /\ \A v \in Workers \ {w} : pc'[v] = pc[v] /\ dev'[v] = dev[v]
      /\ pc'[w] \in {"token", "poll"} /\ pc' \in [Workers -> Labels]
      /\ dev'[w] = Head(jobs) /\ dev' = [v \in Workers |-> dev'[v]]
  BY <1>1 DEF WorkerInv, TypeOK, Labels
<1>4. \A k \in 1..Len(jobs') : k + 1 \in 1..Len(jobs) /\ k + 1 # 1
  BY <1>2
<1>5. Queued' \subseteq Queued /\ Head(jobs) \in Queued
  BY <1>2, <1>4 DEF Queued
<1>6. Head(jobs) \notin Queued'
  <2>1. ASSUME NEW k \in 1..Len(jobs'), jobs'[k] = jobs[1] PROVE FALSE
    BY <1>2, <1>4, <2>1 DEF WorkerInv, EachOnce
  <2> QED
    BY <1>2, <2>1 DEF Queued
<1>7. TypeOK'
  BY <1>1, <1>2, <1>3 DEF WorkerInv, TypeOK
<1>8. EachOnce'
  <2>1. ASSUME NEW i \in 1..Len(jobs'), NEW j \in 1..Len(jobs'), jobs'[i] = jobs'[j]
        PROVE  i = j
    <3>1. jobs[i + 1] = jobs[j + 1] /\ i + 1 \in 1..Len(jobs) /\ j + 1 \in 1..Len(jobs)
      BY <1>2, <1>4, <2>1
    <3>2. i + 1 = j + 1
      BY <3>1 DEF WorkerInv, EachOnce
    <3> QED
      BY <3>2
  <2>2. (todo \intersect Queued)' = {}
    BY <1>1, <1>5 DEF WorkerInv, EachOnce
  <2>3. ASSUME NEW v \in Workers, Busy(v)'
        PROVE  dev'[v] \in Devices \ (todo \union Queued)'
    <3>1. CASE v = w
      BY <1>1, <1>2, <1>3, <1>5, <1>6, <3>1 DEF WorkerInv, EachOnce
    <3>2. CASE v # w
      BY <1>1, <1>3, <1>5, <2>3, <3>2 DEF WorkerInv, EachOnce, Busy
    <3> QED
      BY <3>1, <3>2
  <2>4. ASSUME NEW u \in Workers, NEW v \in Workers, Busy(u)', Busy(v)', dev'[u] = dev'[v]
        PROVE  u = v
    <3>1. \A x \in Workers \ {w} : Busy(x)' => Busy(x) /\ dev[x] \notin Queued
      BY <1>3 DEF WorkerInv, EachOnce, Busy
    <3> QED
      BY <1>3, <1>5, <2>4, <3>1 DEF WorkerInv, EachOnce
  <2> QED
    BY <2>1, <2>2, <2>3, <2>4 DEF EachOnce
<1>9. NothingLeft'
  BY <1>1 DEF WorkerInv, NothingLeft
<1>10. Recorded'
  <2>1. \A v \in Workers : Unrecorded(v)' <=> Unrecorded(v)
    BY <1>1, <1>3 DEF Unrecorded
  <2>2. \A v \in Workers : Unrecorded(v) => v # w
    BY <1>1 DEF Unrecorded
  <2> QED
    BY <1>1, <1>3, <2>1, <2>2 DEF WorkerInv, Recorded, Outcome
<1> QED
  BY <1>7, <1>8, <1>9, <1>10 DEF WorkerInv

(* A step of worker w that takes no device from the channel *)
Steps(w, l) ==
    /\ pc' = [pc EXCEPT ![w] = l]
    /\ \/ dev' = dev
       \/ l \in {"off", "recv"} /\ \E d : dev' = [dev EXCEPT ![w] = d]
    /\ l \notin {"off", "recv"} => Busy(w)
    /\ UNCHANGED <<phase, todo, jobs>>

LEMMA WorkerSteps ==
    ASSUME WorkerInv, NEW w \in Workers, NEW l \in Labels, Steps(w, l), pc[w] # "off",
           live' = live, cancelled' = cancelled, errors' \in Nat,
           status' \in [Devices -> {"active", "failed"}],
           last' \in [Devices -> {"active", "failed"}]
    PROVE  /\ TypeOK' /\ EachOnce' /\ NothingLeft'
           /\ pc'[w] = l /\ \A v \in Workers \ {w} : pc'[v] = pc[v] /\ dev'[v] = dev[v]
           /\ \A v \in Workers \ {w} : Busy(v) /\ Busy(w) => dev[v] # dev[w]
<1>1. /\ pc'[w] = l /\ pc' \in [Workers -> Labels]
      /\ \A v \in Workers \ {w} : pc'[v] = pc[v] /\ dev'[v] = dev[v]
      /\ dev' = [v \in Workers |-> dev'[v]]
      /\ Busy(w)' => Busy(w) /\ dev'[w] = dev[w]
  BY DEF Steps, WorkerInv, TypeOK, Busy
<1>2. TypeOK'
  BY <1>1 DEF WorkerInv, TypeOK, Steps
<1>3. EachOnce'
  <2>1. Queued' = Queued /\ todo' = todo /\ jobs' = jobs
    BY DEF Steps, Queued
  <2>2. \A v \in Workers : Busy(v)' => Busy(v) /\ dev'[v] = dev[v]
    BY <1>1 DEF Busy
  <2> QED
    BY <2>1, <2>2 DEF WorkerInv, EachOnce
<1>4. NothingLeft'
  BY DEF WorkerInv, NothingLeft, Steps
<1>5. \A v \in Workers \ {w} : Busy(v) /\ Busy(w) => dev[v] # dev[w]
  BY DEF WorkerInv, EachOnce
<1> QED
  BY <1>1, <1>2, <1>3, <1>4, <1>5

(* ... and neither asks a device nor records what it found. *)
LEMMA SilentStep ==
    ASSUME WorkerInv, NEW w \in Workers, NEW l \in Labels, Steps(w, l), pc[w] # "off",
           UNCHANGED <<live, cancelled, errors, status, last>>,
           Unrecorded(w) => pc[w] = "backoff" /\ l = "fail",
           l \in {"backoff", "fail", "recover"} => Unrecorded(w)
    PROVE  WorkerInv'
<1>1. /\ TypeOK' /\ EachOnce' /\ NothingLeft'
      /\ pc'[w] = l /\ \A v \in Workers \ {w} : pc'[v] = pc[v] /\ dev'[v] = dev[v]
  BY WorkerSteps DEF WorkerInv, TypeOK
<1>2. \A v \in Workers : Unrecorded(v)' <=> Unrecorded(v)
  BY <1>1 DEF Unrecorded
<1>3. Unrecorded(w) => dev'[w] = dev[w] /\ Outcome(w)' = Outcome(w)
  BY <1>1 DEF Steps, Outcome
<1>4. \A v \in Workers : Unrecorded(v) => dev'[v] = dev[v] /\ Outcome(v)' = Outcome(v)
  BY <1>1, <1>3 DEF Outcome
<1>5. Recorded'
  BY <1>2, <1>4 DEF WorkerInv, Recorded
<1> QED
  BY <1>1, <1>5 DEF WorkerInv

LEMMA QueryKeeps ==
    ASSUME WorkerInv, NEW w \in Workers, Query(w)
    PROVE  WorkerInv'
<1> DEFINE ok == dev[w] \in reachable
           l == IF ok THEN "recover" ELSE "backoff"
<1>1. /\ pc[w] = "poll" /\ pc' = [pc EXCEPT ![w] = l]
      /\ last' = [last EXCEPT ![dev[w]] = IF ok THEN "active" ELSE "failed"]
      /\ UNCHANGED <<phase, todo, jobs, dev, status, live, cancelled, errors>>
  BY DEF Query, At, Goto, cycle, world
<1>2. /\ l \in Labels /\ Busy(w) /\ dev[w] \in Devices
      /\ Steps(w, l) /\ pc[w] # "off"
  BY <1>1 DEF Labels, Steps, Busy, WorkerInv, EachOnce
<1>3. /\ errors' \in Nat /\ status' \in [Devices -> {"active", "failed"}]
      /\ last' \in [Devices -> {"active", "failed"}]
  BY <1>1 DEF WorkerInv, TypeOK
<1>4. /\ TypeOK' /\ EachOnce' /\ NothingLeft'
      /\ pc'[w] = l /\ \A v \in Workers \ {w} : pc'[v] = pc[v] /\ dev'[v] = dev[v]
      /\ \A v \in Workers \ {w} : Busy(v) /\ Busy(w) => dev[v] # dev[w]
  BY <1>1, <1>2, <1>3, WorkerSteps
<1>5. /\ last'[dev[w]] = Outcome(w)' /\ \A d \in Devices \ {dev[w]} : last'[d] = last[d]
      /\ Unrecorded(w)'
  BY <1>1, <1>2, <1>4 DEF WorkerInv, TypeOK, Outcome, Unrecorded
<1>6. \A v \in Workers \ {w} :
          /\ Unrecorded(v)' <=> Unrecorded(v)
          /\ Outcome(v)' = Outcome(v)
          /\ Unrecorded(v) => dev[v] # dev[w]
  BY <1>2, <1>4 DEF Unrecorded, Outcome, Busy
<1>7. Recorded'
  <2> SUFFICES ASSUME errors' = 0, ~cancelled'
      PROVE  /\ \A d \in live : (\A v \in Workers : Unrecorded(v)' => dev[v] # d) => status[d] = last'[d]
             /\ \A v \in Workers : (Unrecorded(v)' /\ dev[v] \in live) => last'[dev[v]] = Outcome(v)'
    BY <1>1 DEF Recorded
  <2>1. /\ \A d \in live : (\A v \in Workers : Unrecorded(v) => dev[v] # d) => status[d] = last[d]
        /\ \A v \in Workers : (Unrecorded(v) /\ dev[v] \in live) => last[dev[v]] = Outcome(v)
    BY <1>1 DEF WorkerInv, Recorded
  <2>2. live \subseteq Devices /\ ~Unrecorded(w)
    BY <1>1 DEF WorkerInv, TypeOK, Unrecorded
  <2>3. ASSUME NEW d \in live, \A v \in Workers : Unrecorded(v)' => dev[v] # d
        PROVE  status[d] = last'[d]
    BY <1>5, <1>6, <2>1, <2>2, <2>3
  <2>4. ASSUME NEW v \in Workers, Unrecorded(v)', dev[v] \in live
        PROVE  last'[dev[v]] = Outcome(v)'
    BY <1>5, <1>6, <2>1, <2>2, <2>4
  <2> QED
    BY <2>3, <2>4
<1> QED
  BY <1>4, <1>7 DEF WorkerInv

LEMMA RecordKeeps ==
    ASSUME WorkerInv, NEW w \in Workers, RecordFailure(w) \/ RecordRecovery(w)
    PROVE  WorkerInv'
<1> DEFINE s == Outcome(w)
           l == IF RecordFailure(w) THEN "recv" ELSE "clear"
<1>1. /\ Unrecorded(w) /\ Busy(w) /\ RecordStatus(w, s)
      /\ l \in Labels \ {"backoff", "fail", "recover"} /\ Steps(w, l) /\ pc[w] # "off"
      /\ UNCHANGED <<live, cancelled, last>>
  <2>1. CASE RecordFailure(w)
    BY <2>1 DEF RecordFailure, Unrecorded, Busy, Outcome, Done, Leave, Goto, Steps, At, cycle,
                world, Labels
  <2>2. CASE ~RecordFailure(w)
    <3>1. RecordRecovery(w)
      BY <2>2
    <3> QED
      BY <2>2, <3>1 DEF RecordRecovery, Unrecorded, Busy, Outcome, Goto, Steps, At, cycle, world,
                        Labels
  <2> QED
    BY <2>1, <2>2
<1>2. dev[w] \in Devices /\ s \in {"active", "failed"}
  BY <1>1 DEF WorkerInv, EachOnce, Outcome
<1>3. /\ errors' \in Nat /\ errors <= errors'
      /\ status' \in [Devices -> {"active", "failed"}] /\ last' \in [Devices -> {"active", "failed"}]
      /\ \A d \in Devices \ {dev[w]} : status'[d] = status[d]
      /\ (errors' = 0 /\ ~cancelled /\ dev[w] \in live) => status'[dev[w]] = s
  BY <1>1, <1>2 DEF WorkerInv, TypeOK, RecordStatus
<1>4. /\ TypeOK' /\ EachOnce' /\ NothingLeft'
      /\ pc'[w] = l /\ \A v \in Workers \ {w} : pc'[v] = pc[v] /\ dev'[v] = dev[v]
      /\ \A v \in Workers \ {w} : Busy(v) /\ Busy(w) => dev[v] # dev[w]
  BY <1>1, <1>3, WorkerSteps
<1>5. ~Unrecorded(w)'
  BY <1>1, <1>4 DEF Unrecorded
<1>6. \A v \in Workers \ {w} :
          /\ Unrecorded(v)' <=> Unrecorded(v)
          /\ Outcome(v)' = Outcome(v)
          /\ Unrecorded(v) => dev[v] # dev[w]
  BY <1>1, <1>4 DEF Unrecorded, Outcome, Busy
<1>7. Recorded'
  <2> SUFFICES ASSUME errors' = 0, ~cancelled'
      PROVE  /\ \A d \in live : (\A v \in Workers : Unrecorded(v)' => dev'[v] # d) => status'[d] = last[d]
             /\ \A v \in Workers : (Unrecorded(v)' /\ dev'[v] \in live) => last[dev'[v]] = Outcome(v)'
    BY <1>1 DEF Recorded
  <2>1. errors = 0 /\ ~cancelled
    BY <1>1, <1>3 DEF WorkerInv, TypeOK
  <2>2. /\ \A d \in live : (\A v \in Workers : Unrecorded(v) => dev[v] # d) => status[d] = last[d]
        /\ \A v \in Workers : (Unrecorded(v) /\ dev[v] \in live) => last[dev[v]] = Outcome(v)
    BY <2>1 DEF WorkerInv, Recorded
  <2>3. live \subseteq Devices
    BY DEF WorkerInv, TypeOK
  <2>4. ASSUME NEW d \in live, \A v \in Workers : Unrecorded(v)' => dev'[v] # d
        PROVE  status'[d] = last[d]
    <3>1. CASE d = dev[w]
      BY <1>1, <1>3, <2>1, <2>2, <3>1
    <3>2. CASE d # dev[w]
      BY <1>3, <1>4, <1>6, <2>2, <2>3, <2>4, <3>2
    <3> QED
      BY <3>1, <3>2
  <2>5. ASSUME NEW v \in Workers, Unrecorded(v)', dev'[v] \in live
        PROVE  last[dev'[v]] = Outcome(v)'
    BY <1>4, <1>5, <1>6, <2>2, <2>5
  <2> QED
    BY <2>4, <2>5
<1> QED
  BY <1>4, <1>7 DEF WorkerInv

LEMMA QuietWorkerKeeps ==
    ASSUME WorkerInv, NEW w \in Workers,
           Exit(w) \/ TakeToken(w) \/ GiveUp(w) \/ Skip(w) \/ OnFailure(w) \/ OnSuccess(w)
    PROVE  WorkerInv'
<1>1. CASE Exit(w)
  <2>1. Steps(w, "off") /\ pc[w] = "recv" /\ UNCHANGED <<live, cancelled, errors, status, last>>
    BY <1>1 DEF Exit, Steps, At, Goto, cycle, world
  <2> QED
    BY <2>1, SilentStep DEF Labels, Unrecorded
<1>2. CASE TakeToken(w)
  <2>1. Steps(w, "poll") /\ pc[w] = "token" /\ UNCHANGED <<live, cancelled, errors, status, last>>
    BY <1>2 DEF TakeToken, Steps, At, Goto, world, Busy
  <2> QED
    BY <2>1, SilentStep DEF Labels, Unrecorded
<1>3. CASE GiveUp(w)
  <2>1. Steps(w, "off") /\ pc[w] = "token" /\ UNCHANGED <<live, cancelled, errors, status, last>>
    BY <1>3 DEF GiveUp, Steps, At, Goto, Leave, cycle, world
  <2> QED
    BY <2>1, SilentStep DEF Labels, Unrecorded
<1>4. CASE Skip(w)
  <2>1. Steps(w, "recv") /\ pc[w] = "poll" /\ UNCHANGED <<live, cancelled, errors, status, last>>
    BY <1>4 DEF Skip, Done, Steps, At, Goto, Leave, cycle, world
  <2> QED
    BY <2>1, SilentStep DEF Labels, Unrecorded
<1>5. CASE OnFailure(w)
  <2>1. Steps(w, "fail") /\ pc[w] = "backoff" /\ UNCHANGED <<live, cancelled, errors, status, last>>
    BY <1>5 DEF OnFailure, Steps, At, Goto, cycle, world, Busy
  <2> QED
    BY <2>1, SilentStep DEF Labels, Unrecorded
<1>6. CASE OnSuccess(w)
  <2>1. Steps(w, "recv") /\ pc[w] = "clear" /\ UNCHANGED <<live, cancelled, errors, status, last>>
    BY <1>6 DEF OnSuccess, Done, Steps, At, Goto, Leave, cycle, world
  <2> QED
    BY <2>1, SilentStep DEF Labels, Unrecorded
<1> QED
  BY <1>1, <1>2, <1>3, <1>4, <1>5, <1>6

-----------------------------------------------------------------------------
(* Every step keeps the invariant. *)
LEMMA WorkerInvNext == WorkerInv /\ [Next]_vars => WorkerInv'
<1> SUFFICES ASSUME WorkerInv, [Next]_vars PROVE WorkerInv'
  OBVIOUS
<1>1. phase \in {"pause", "feed", "wait", "stopped"} /\ cancelled \in BOOLEAN
  BY DEF WorkerInv, TypeOK
<1>2. CASE StartCycle \/ Feed \/ EndCycle
  BY <1>2, StartKeeps, FeedKeeps, EndKeeps
<1>3. CASE CloseJobs \/ StopLoop
  BY <1>1, <1>3, QuietKeeps DEF CloseJobs, StopLoop, world
<1>4. ASSUME NEW w \in Workers, Worker(w) PROVE WorkerInv'
  BY <1>4, ReceiveKeeps, QueryKeeps, RecordKeeps, QuietWorkerKeeps DEF Worker, Poll
<1>5. CASE Refill \/ Minute
  BY <1>1, <1>5, QuietKeeps DEF Refill, Minute, cycle, world
<1>6. CASE Changes
  <2>1. /\ UNCHANGED <<todo, jobs, pc, dev, status, last, errors, phase>>
        /\ live' \subseteq live /\ cancelled' \in {cancelled, TRUE}
    BY <1>6 DEF Changes, cycle
  <2> QED
    BY <1>1, <2>1, QuietKeeps
<1>7. CASE UNCHANGED vars
  BY <1>1, <1>7, QuietKeeps DEF vars, cycle, world
<1> QED
  BY <1>2, <1>3, <1>4, <1>5, <1>6, <1>7 DEF Next, Cycle

(* A device is in one place at a time and its outcome is on record unless  *)
(* the worker that asked it still has it.                                  *)
THEOREM WorkerInvariance == Spec => []WorkerInv
BY WorkerInvInit, WorkerInvNext, PTL DEF Spec

(* The outcomes of a device's polls are recorded in order, however many    *)
(* workers share the channel and wherever a cycle is cut short.            *)
THEOREM StatusIsLatestHolds == Spec => []StatusIsLatest
<1>1. WorkerInv => StatusIsLatest
  BY DEF WorkerInv, Recorded, StatusIsLatest, Unrecorded, Busy
<1> QED
  BY <1>1, WorkerInvariance, PTL

(* No two workers poll the same device at once, so its backoff is counted  *)
(* by one of them at a time (shouldSkip, onFailure and onSuccess).         *)
PolledOnce == \A v, w \in Workers : (Busy(v) /\ Busy(w) /\ dev[v] = dev[w]) => v = w

THEOREM PolledOnceHolds == Spec => []PolledOnce
<1>1. WorkerInv => PolledOnce
  BY DEF WorkerInv, EachOnce, PolledOnce
<1> QED
  BY <1>1, WorkerInvariance, PTL
=============================================================================

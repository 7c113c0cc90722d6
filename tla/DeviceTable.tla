---------------------------- MODULE DeviceTable ----------------------------
(***************************************************************************)
(* The table of devices and its secrets.  Each server encrypts what it     *)
(* writes with the key it was started with and reads what that key, or no  *)
(* key, can read.  An edit reads the device, fills the fields its form     *)
(* left blank from what it read, and writes all of them back.  A rotation  *)
(* reads every row, and in the same transaction writes each back under the *)
(* new key; afterwards the servers are started again with that key, as     *)
(* doc/SECRETS_PROCESS.md describes, and until then they go on serving.    *)
(* A row's lock is held from the UPDATE of the rotation to its end; other  *)
(* writers commit with their statement.                                    *)
(***************************************************************************)
EXTENDS Integers, FiniteSetsExt

CONSTANTS
    Servers, Handlers,
    IPs,            (* addresses; the table has one row for each at most    *)
    Fields,         (* community, auth_pass, priv_pass                      *)
    Values,         (* what a form may hold                                 *)
    Blank,          (* an empty form field; a secret that is not set        *)
    Known,          (* the addresses that are in the table at first         *)
    Initial,        (* their secrets                                        *)
    MaxRequests, MaxRotations   (* bounds                                   *)

ASSUME TableAssumption ==
    /\ Blank \notin Values \union {Initial} /\ Values # {} /\ Known \subseteq IPs
    /\ IsFiniteSet(Handlers) /\ "job" \notin Handlers
    /\ {MaxRequests, MaxRotations} \subseteq Nat

VARIABLES
    rows,       (* devices                                                 *)
    key,        (* key[s]: NMS_DB_ENCRYPTION_KEY of server s               *)
    req,        (* req[h]: the edit that handler h has begun               *)
    requests,   (* requests so far                                         *)
    job,        (* the rotation                                            *)
    entered,    (* history: entered[i][f] is the last value a form named   *)
    behind,     (* history: who read a field before its last entry         *)
    lost,       (* history: the fields such a reader has written back      *)
    strays      (* history: rows written under the old key although the    *)
                (* rotation had read the table                             *)

table == <<rows, entered, behind, lost, strays>>
tableVars == <<table, key, req, requests, job>>

Absent == [id |-> 0]
Present(i) == rows[i] # Absent

Idle == [at |-> "idle"]
NoJob == [at |-> "idle", runs |-> 0, seen |-> [i \in {} |-> Absent], todo |-> {}, done |-> FALSE]

-----------------------------------------------------------------------------
(* Secrets *)

(* splitSecretForStorage: without a key ("none") text is stored plain.     *)
Split(v, k) == [val |-> v, under |-> IF v = Blank \/ k = "none" THEN "plain" ELSE k]

(* mergeSecretFromStorage: plain text is read by everybody.                *)
Readable(cell, k) == cell.under \in {"plain", k}

(* GetDeviceByID *)
ReadableRow(i, k) == \A f \in Fields : Readable(rows[i].sec[f], k)

(* ListDevices gives up at the first row it cannot read: the pages, the    *)
(* polls and the topology scans then have no devices at all.               *)
ListDevices(k) == \A i \in IPs : Present(i) => ReadableRow(i, k)

Row(id, values, k) == [id |-> id, sec |-> [f \in Fields |-> Split(values[f], k)]]

-----------------------------------------------------------------------------
(* What a write does to the table and to the history *)

Locked(i) == job.at = "update" /\ i \in DOMAIN job.seen /\ i \notin job.todo

Stray(i, k) == strays' = IF k # "new" /\ (job.at = "update" \/ job.done)
                         THEN strays \union {i} ELSE strays \ {i}

(* Whoever holds an older copy of row i. *)
Holders(i) == {h \in Handlers : req[h].at = "edit" /\ req[h].ip = i /\ req[h].id = rows[i].id}
              \union (IF job.at = "update" /\ i \in job.todo THEN {"job"} ELSE {})

(* Ids are never reused; what matters is that nobody still holds this one. *)
HeldIds(i) == {req[h].id : h \in {g \in Handlers : req[g] # Idle}}
              \union (IF i \in DOMAIN job.seen THEN {job.seen[i].id} ELSE {})
NewId(i) == Min(1..(Cardinality(Handlers) + 2) \ HeldIds(i))

Insert(i, values, k) ==
    /\ rows' = [rows EXCEPT ![i] = Row(NewId(i), values, k)]
    /\ entered' = [entered EXCEPT ![i] = values]
    /\ behind' = {b \in behind : b[2] # i}
    /\ lost' = {l \in lost : l[1] # i}
    /\ Stray(i, k)

(* Writer w puts "values" back, of which the form has named "named".       *)
Overwrite(w, i, row, named) ==
    LET others == Holders(i) \ {w}
        stale == {f \in Fields : <<w, i, f>> \in behind}
    IN  /\ rows' = [rows EXCEPT ![i] = row]
        /\ entered' = [entered EXCEPT ![i] =
               [f \in Fields |-> IF f \in named THEN row.sec[f].val ELSE @[f]]]
        /\ behind' = (behind \union {<<o, i, f>> : o \in others, f \in named})
                         \ {<<w, i, f>> : f \in Fields}
        /\ lost' = (lost \ {<<i, f>> : f \in named})
                       \union {<<i, f>> : f \in stale \ named}

-----------------------------------------------------------------------------
(* Requests *)

Ask == requests < MaxRequests /\ requests' = requests + 1

(* A second device with an address is refused by the unique index. *)
CreateDevice ==
    /\ Ask
    /\ \E s \in Servers, i \in IPs, v \in Values :
          /\ ~Present(i)
          /\ Insert(i, [f \in Fields |-> IF f = "community" THEN v ELSE Blank], key[s])
    /\ UNCHANGED <<key, req, job>>

DeleteDevice ==
    /\ Ask
    /\ \E i \in IPs :
          /\ Present(i) /\ ~Locked(i)
          /\ rows' = [rows EXCEPT ![i] = Absent]
          /\ strays' = strays \ {i}
          /\ behind' = {b \in behind : b[2] # i}
          /\ lost' = {l \in lost : l[1] # i}
          /\ entered' = [entered EXCEPT ![i] = [f \in Fields |-> Blank]]
    /\ UNCHANGED <<key, req, job>>

Forms == [Fields -> Values \union {Blank}]

BeginEdit(h) ==
    /\ req[h] = Idle
    /\ Ask
    /\ \E s \in Servers, i \in IPs, form \in Forms :
          /\ Present(i) /\ ReadableRow(i, key[s])
          /\ req' = [req EXCEPT ![h] = [at |-> "edit", server |-> s, ip |-> i, id |-> rows[i].id,
                        base |-> [f \in Fields |-> rows[i].sec[f].val], form |-> form]]
    /\ UNCHANGED <<table, key, job>>

(* Mutant: a field left blank is emptied. *)
MergedBlank(r) == r.form

Merged(r) == [f \in Fields |-> IF r.form[f] = Blank THEN r.base[f] ELSE r.form[f]]

(* UpdateDeviceByID *)
WriteEdit(h) ==
    /\ req[h].at = "edit"
    /\ LET r == req[h]
           i == r.ip
       IN  IF rows[i].id # r.id
           THEN UNCHANGED table
           ELSE /\ ~Locked(i)
                /\ Overwrite(h, i, Row(r.id, Merged(r), key[r.server]),
                             {f \in Fields : r.form[f] # Blank})
                /\ Stray(i, key[r.server])
    /\ req' = [req EXCEPT ![h] = Idle]
    /\ UNCHANGED <<key, requests, job>>

-----------------------------------------------------------------------------
(* The rotation *)

(* A row that the old key cannot read ends it at once. *)
Rotate ==
    /\ job.at = "idle" /\ job.runs < MaxRotations
    /\ LET present == {i \in IPs : Present(i)}
           some == {i \in present : \E f \in Fields : rows[i].sec[f].val # Blank}
       IN  job' = IF \A i \in present : ReadableRow(i, "old")
                  THEN [job EXCEPT !.at = "update", !.runs = @ + 1, !.todo = some,
                                   !.seen = [i \in some |-> rows[i]]]
                  ELSE [job EXCEPT !.runs = @ + 1]
    /\ UNCHANGED <<table, key, req, requests>>

(* The UPDATE of a row that is gone changes nothing. *)
RotateRow(i) ==
    /\ job.at = "update" /\ i \in job.todo
    /\ job' = [job EXCEPT !.todo = @ \ {i},
                          !.seen = IF rows[i].id = @[i].id THEN @
                                   ELSE [j \in (DOMAIN @) \ {i} |-> @[j]]]
    /\ UNCHANGED <<table, key, req, requests>>

(* Mutant: plain text stays plain text. *)
ReencryptedOnly(cell) == IF cell.under = "plain" THEN cell ELSE Split(cell.val, "new")

Reencrypted(cell) == Split(cell.val, "new")

Rotated(row) == [row EXCEPT !.sec = [f \in Fields |-> Reencrypted(row.sec[f])]]

(* rotateSecretValue for each secret; the values are those read before.    *)
CommitRotation ==
    /\ job.at = "update" /\ job.todo = {}
    /\ LET done == DOMAIN job.seen
       IN  /\ rows' = [i \in IPs |-> IF i \in done THEN Rotated(job.seen[i]) ELSE rows[i]]
           /\ lost' = lost \union {l \in done \X Fields : <<"job", l[1], l[2]>> \in behind}
           /\ behind' = {b \in behind : b[1] # "job"}
           /\ strays' = strays \ done
    /\ job' = [NoJob EXCEPT !.runs = job.runs, !.done = TRUE]
    /\ UNCHANGED <<key, req, requests, entered>>

(* It has five minutes, and may be killed. *)
AbortRotation ==
    /\ job.at = "update"
    /\ job' = [NoJob EXCEPT !.runs = job.runs, !.done = job.done]
    /\ behind' = {b \in behind : b[1] # "job"}
    /\ UNCHANGED <<rows, key, req, requests, entered, lost, strays>>

(* The servers are started again with the new key. *)
Redeploy(s) ==
    /\ job.done /\ key[s] # "new"
    /\ key' = [key EXCEPT ![s] = "new"]
    /\ req' = [h \in Handlers |-> IF req[h] # Idle /\ req[h].server = s THEN Idle ELSE req[h]]
    /\ behind' = {b \in behind : b[1] \in Handlers => req'[b[1]] # Idle}
    /\ UNCHANGED <<rows, entered, lost, strays, requests, job>>

-----------------------------------------------------------------------------
(* The servers have a key; rows may be older than that (migration 006).    *)
TableInit ==
    /\ key = [s \in Servers |-> "old"]
    /\ entered = [i \in IPs |-> [f \in Fields |-> IF i \in Known THEN Initial ELSE Blank]]
    /\ \E under \in {"none", "old"} :
          rows = [i \in IPs |-> IF i \in Known THEN Row(1, entered[i], under) ELSE Absent]
    /\ req = [h \in Handlers |-> Idle]
    /\ requests = 0
    /\ job = NoJob
    /\ behind = {} /\ lost = {} /\ strays = {}

TableNext ==
    \/ CreateDevice \/ DeleteDevice
    \/ \E h \in Handlers : BeginEdit(h) \/ WriteEdit(h)
    \/ Rotate \/ CommitRotation \/ AbortRotation
    \/ \E i \in IPs : RotateRow(i)

-----------------------------------------------------------------------------
(* Properties *)

(* A secret is what a form last said it is: no edit of another field, no   *)
(* rotation and no restart changes it.  The one exception is a writer that *)
(* had read the device before: an overlapping edit, or the rotation.       *)
EditsStick ==
    \A i \in IPs : Present(i) => \A f \in Fields :
        rows[i].sec[f].val = entered[i][f] \/ <<i, f>> \in lost

(* After a rotation every secret is under the new key, those that were     *)
(* still plain text included, except in rows that a server with the old    *)
(* key wrote after the rotation had read the table; without such rows a    *)
(* server started with the new key lists all devices; and as long as no    *)
(* rotation has succeeded, every server does.                              *)
RotationIsWhole ==
    /\ job.done => \A i \in IPs \ strays : Present(i) =>
          \A f \in Fields : rows[i].sec[f].val # Blank => rows[i].sec[f].under = "new"
    /\ \A s \in Servers :
          (job.done => key[s] = "new" /\ strays = {}) => ListDevices(key[s])
=============================================================================

----------------------------- MODULE Discovery -----------------------------
(***************************************************************************)
(* A scan of a subnet beside the other users of the device table.  The     *)
(* handler of the request hands the addresses one by one to a pool of      *)
(* workers over an unbuffered channel; a worker probes its address over    *)
(* SNMP, inserts a device for it when asked to, and reports it.  The       *)
(* request may be cancelled at any time, and the process may be stopped.   *)
(***************************************************************************)
EXTENDS DeviceTable, Sequences

CONSTANTS
    Workers,
    First, Last     (* the addresses of the subnet                         *)

ASSUME ScanAssumption ==
    /\ First \in Nat /\ Last \in Nat /\ First <= Last
    /\ IPs \subseteq Nat

VARIABLES
    scan,       (* the scan: the server it runs on, what it was asked for, *)
                (* the addresses still to hand out, the hosts found        *)
    worker,     (* worker[w]: where it is and with which address           *)
    answered,   (* history: the hosts that answered the scan's probes      *)
    inserted    (* history: the devices the scan has inserted              *)

scanVars == <<scan, worker, answered, inserted>>
vars == <<tableVars, scanVars>>

NoScan == [at |-> "idle"]
Off == [at |-> "off"]
Waiting == [at |-> "range"]
Scanning == scan.at \in {"send", "wait"}

-----------------------------------------------------------------------------
(* generateIPs: a subnet of more than two addresses loses its first and    *)
(* its last.                                                               *)
generateIPs(a, b) == IF b - a < 2 THEN a..b ELSE (a + 1)..(b - 1)

ASSUME SubnetAssumption == generateIPs(First, Last) \subseteq IPs

ScanNetwork ==
    /\ scan = NoScan
    /\ Ask
    /\ \E s \in Servers, auto \in BOOLEAN :
          scan' = [at |-> "send", server |-> s, auto |-> auto, cancelled |-> FALSE,
                   secret |-> CHOOSE v \in Values : TRUE,
                   todo |-> generateIPs(First, Last), found |-> <<>>]
    /\ worker' = [w \in Workers |-> Waiting]
    /\ UNCHANGED <<table, answered, inserted, key, req, job>>

Cancel ==
    /\ Scanning /\ ~scan.cancelled
    /\ scan' = [scan EXCEPT !.cancelled = TRUE]
    /\ UNCHANGED <<tableVars, worker, answered, inserted>>

(* The send and the receive are one step; the addresses go in order.       *)
HandOut(w) ==
    /\ scan.at = "send" /\ worker[w] = Waiting /\ scan.todo # {}
    /\ worker' = [worker EXCEPT ![w] = [at |-> "host", ip |-> Min(scan.todo)]]
    /\ scan' = [scan EXCEPT !.todo = @ \ {Min(scan.todo)}]
    /\ UNCHANGED <<tableVars, answered, inserted>>

(* close(jobs), with nothing left to hand out or because of the context.   *)
CloseJobs ==
    /\ scan.at = "send" /\ (scan.todo = {} \/ scan.cancelled)
    /\ scan' = [scan EXCEPT !.at = "wait"]
    /\ UNCHANGED <<tableVars, worker, answered, inserted>>

(* wg.Wait *)
Return ==
    /\ scan.at = "wait" /\ \A w \in Workers : worker[w] = Off
    /\ scan' = [scan EXCEPT !.at = IF scan.todo = {} THEN "result" ELSE "error"]
    /\ UNCHANGED <<tableVars, worker, answered, inserted>>

Respond ==
    /\ scan.at \in {"result", "error"}
    /\ scan' = NoScan
    /\ answered' = {} /\ inserted' = {}
    /\ UNCHANGED <<tableVars, worker>>

-----------------------------------------------------------------------------
(* A worker *)

Goto(w, l) == worker' = [worker EXCEPT ![w] = l]

(* Mutant: the channel is not closed after the last address. *)
LeaveCancelled(w) ==
    /\ scan.at = "wait" /\ scan.cancelled /\ worker[w] = Waiting
    /\ Goto(w, Off)
    /\ UNCHANGED <<tableVars, scan, answered, inserted>>

(* The channel is closed and empty. *)
Leave(w) ==
    /\ scan.at = "wait" /\ worker[w] = Waiting
    /\ Goto(w, Off)
    /\ UNCHANGED <<tableVars, scan, answered, inserted>>

Secrets == [f \in Fields |-> IF f = "community" THEN scan.secret ELSE Blank]

(* The result is appended under a mutex, and the next address awaited. *)
ReportHost(w, added) ==
    /\ scan' = [scan EXCEPT !.found = Append(@, [ip |-> worker[w].ip, added |-> added])]
    /\ Goto(w, Waiting)

(* A cancelled worker leaves its address.  A host that the TCP prefilter   *)
(* or the SNMP client does not reach, or that has no description, is       *)
(* passed over.                                                            *)
Probe(w) ==
    /\ worker[w].at = "host"
    /\ \/ scan.cancelled /\ Goto(w, Off) /\ UNCHANGED <<scan, answered>>
       \/ ~scan.cancelled /\ Goto(w, Waiting) /\ UNCHANGED <<scan, answered>>
       \/ /\ ~scan.cancelled
          /\ answered' = answered \union {worker[w].ip}
          /\ IF scan.auto
             THEN Goto(w, [worker[w] EXCEPT !.at = "add"]) /\ UNCHANGED scan
             ELSE ReportHost(w, FALSE)
    /\ UNCHANGED <<tableVars, inserted>>

(* Mutant: a host that could not be added is passed over. *)
AddOrPass(w) ==
    /\ worker[w].at = "add"
    /\ \/ /\ ~Present(worker[w].ip)
          /\ Insert(worker[w].ip, Secrets, key[scan.server])
          /\ inserted' = inserted \union {worker[w].ip}
          /\ ReportHost(w, TRUE)
       \/ Goto(w, Waiting) /\ UNCHANGED <<table, inserted, scan>>
    /\ UNCHANGED <<key, req, requests, job, answered>>

(* CreateDevice, with the secrets the probe used.  The insert fails when   *)
(* the address is taken, when the request is cancelled, and otherwise; a   *)
(* cancelled one may have been committed all the same.                     *)
Add(w) ==
    /\ worker[w].at = "add"
    /\ \/ /\ ~Present(worker[w].ip)
          /\ Insert(worker[w].ip, Secrets, key[scan.server])
          /\ inserted' = inserted \union {worker[w].ip}
          /\ \E added \in {TRUE, ~scan.cancelled} : ReportHost(w, added)
       \/ ReportHost(w, FALSE) /\ UNCHANGED <<table, inserted>>
    /\ UNCHANGED <<key, req, requests, job, answered>>

-----------------------------------------------------------------------------
(* A server that is started again takes its scan with it. *)
RedeployAll(s) ==
    /\ Redeploy(s)
    /\ IF Scanning /\ scan.server = s
       THEN /\ scan' = NoScan /\ worker' = [w \in Workers |-> Off]
            /\ answered' = {} /\ inserted' = {}
       ELSE UNCHANGED scanVars

Init ==
    /\ TableInit
    /\ scan = NoScan /\ worker = [w \in Workers |-> Off]
    /\ answered = {} /\ inserted = {}

Work(w) == Leave(w) \/ Probe(w) \/ Add(w)
Produce == CloseJobs \/ Return \/ \E w \in Workers : HandOut(w)

Next ==
    \/ TableNext /\ UNCHANGED scanVars
    \/ \E s \in Servers : RedeployAll(s)
    \/ ScanNetwork \/ Cancel \/ Produce \/ Respond
    \/ \E w \in Workers : Work(w)

(* A probe has a timeout, and nothing else a worker does waits. *)
Fairness == WF_vars(Produce) /\ \A w \in Workers : WF_vars(Work(w))

Spec == Init /\ [][Next]_vars /\ Fairness

-----------------------------------------------------------------------------
(* Properties *)

(* A scan ends: its workers leave and its request is answered, whenever it *)
(* is cancelled, though the address it is about to hand out may then have  *)
(* no taker.                                                               *)
ScanEnds == Scanning ~> ~Scanning

(* The answer to a scan that was not cancelled names each host that        *)
(* answered, once, whatever became of its insert, and marks exactly those  *)
(* the scan has put into the table; no network or broadcast address is     *)
(* among them.                                                             *)
ScanIsComplete ==
    scan.at = "result" /\ ~scan.cancelled =>
        LET entries == {scan.found[n] : n \in 1..Len(scan.found)}
        IN  /\ Len(scan.found) = Cardinality(answered)
            /\ {e.ip : e \in entries} = answered
            /\ {e.ip : e \in {x \in entries : x.added}} = inserted
            /\ Last - First >= 2 => answered \intersect {First, Last} = {}
=============================================================================

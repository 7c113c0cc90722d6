------------------------------- MODULE Access -------------------------------
(***************************************************************************)
(* Signing in and out on several servers over one database.  A login asks  *)
(* the shared limiter, or the server's own when the database does not      *)
(* answer, compares the password and records the outcome in both; a        *)
(* request with HTTP Basic uses the server's own limiter only; a request   *)
(* with a session cookie is checked against the revocations the server     *)
(* knows and then those in the database; a logout adds to both.  Handlers  *)
(* run concurrently: every database statement is a step of its own, and    *)
(* what a server does under a mutex is one step.                           *)
(***************************************************************************)
EXTENDS LoginLimiter, FiniteSets

CONSTANTS
    Servers, Handlers,
    Addresses, Users,
    SessionTTL,     (* sessionTTL                                          *)
    FailClosed,     (* NMS_SESSION_REVOCATION_FAIL_CLOSED                  *)
    MaxTime, MaxRequests, MaxFaults     (* bounds                          *)

ASSUME AccessAssumption ==
    /\ Keys = Addresses \union Users /\ Addresses \intersect Users = {}
    /\ IsFiniteSet(Handlers)
    /\ SessionTTL \in Nat \ {0} /\ FailClosed \in BOOLEAN
    /\ {MaxTime, MaxRequests, MaxFaults} \subseteq Nat

VARIABLES
    clock,
    local,      (* local[s]: the limiter in the memory of server s         *)
    rows,       (* login_attempt_limits                                    *)
    session,    (* the session token that was issued, if any               *)
    revoked,    (* the servers that hold its revocation in memory          *)
    revocation, (* its row in session_revocations is there                 *)
    req,        (* req[h]: the request that handler h serves               *)
    bars,       (* history: of the form h has sent, the keys whose         *)
                (* attempts had run out, in windows nobody has ended since *)
    requests,   (* requests so far                                         *)
    faults      (* database calls that failed, and restarts                *)

vars == <<clock, local, rows, session, revoked, revocation, req, bars, requests, faults>>
limits == <<local, rows, bars>>
sessions == <<session, revoked, revocation>>
counters == <<clock, requests, faults>>

NoSession == [expires |-> 0]

Idle == [at |-> "idle"]
Step(h, l) == req' = [req EXCEPT ![h].at = l]
Finish(h) == req' = [req EXCEPT ![h] = Idle]
Busy(h) == req[h].at # "idle"
Ip(h) == req[h].ip
User(h) == req[h].user
Now(h) == req[h].now
Mem(h) == local[req[h].server]

(* A database call either answers or fails. *)
Answers == UNCHANGED counters
Fails == faults < MaxFaults /\ faults' = faults + 1 /\ UNCHANGED <<clock, requests>>

-----------------------------------------------------------------------------
(* A request begins.  "barred" is history, as "bars" is: whether a logout  *)
(* was on record where the request will look.                              *)

RunOut(ip, user) ==
    {k \in {ip, user} : rows[k].count >= MaxFails[k] /\ ~WindowOver(rows[k], clock)}

KeepBars ==
    bars' = [h \in Handlers |->
                {k \in bars[h] : req'[h] # Idle /\ rows'[k].first = rows[k].first}]

Arrive(h, r, K) ==
    /\ ~Busy(h)
    /\ requests < MaxRequests
    /\ requests' = requests + 1
    /\ req' = [req EXCEPT ![h] = r]
    /\ bars' = [bars EXCEPT ![h] = K]
    /\ UNCHANGED <<clock, local, rows, sessions, faults>>

(* LoginPost asks the shared limiter, RequireAuth its own. *)
BeginLogin(h) ==
    \E s \in Servers, ip \in Addresses, user \in Users, good \in BOOLEAN,
       form \in BOOLEAN :
        Arrive(h, [at |-> IF form THEN "check ip" ELSE "check local", form |-> form,
                   server |-> s, ip |-> ip, user |-> user, good |-> good, now |-> clock,
                   fate |-> ""],
               IF form THEN RunOut(ip, user) ELSE {})

(* A request of the session's holder, or a logout. *)
BeginSession(h) ==
    /\ session # NoSession
    /\ \E s \in Servers, what \in {"verify", "revoke"} :
        Arrive(h, [at |-> what, server |-> s, now |-> clock,
                   barred |-> revocation \/ s \in revoked], {})

-----------------------------------------------------------------------------
(* The shared limiter: LoginRateLimitCheck deletes old rows, reads one     *)
(* and may write it; between reading and writing others may write it.      *)

Subject(h) == IF req[h].at = "check ip" THEN Ip(h) ELSE User(h)

(* Mutant: the name is checked only when the address is refused. *)
PassedByAddress(h) == "compare"

Passed(h) == IF req[h].at = "check ip" THEN "check user" ELSE "compare"

ReadRow(h) ==
    /\ req[h].at \in {"check ip", "check user"} /\ req[h].fate = ""
    /\ Answers
    /\ rows' = Cleanup(rows, clock)
    /\ LET fate == Fate(rows'[Subject(h)], Subject(h), Now(h))
       IN  CASE fate = "pass" -> Step(h, Passed(h))
             [] fate = "refuse" -> Finish(h)
             [] OTHER -> req' = [req EXCEPT ![h].fate = fate]
    /\ KeepBars
    /\ UNCHANGED <<local, sessions>>

WriteRow(h) ==
    /\ req[h].at \in {"check ip", "check user"} /\ req[h].fate # ""
    /\ Answers
    /\ LET k == Subject(h)
       IN  IF req[h].fate = "reset"
           THEN /\ rows' = [rows EXCEPT ![k] = [Fresh EXCEPT !.updated = Now(h)]]
                /\ req' = [req EXCEPT ![h].at = Passed(h), ![h].fate = ""]
           ELSE /\ rows' = [rows EXCEPT ![k].locked = Now(h) + Lockout, ![k].updated = Now(h)]
                /\ Finish(h)
    /\ KeepBars
    /\ UNCHANGED <<local, sessions>>

(* The database does not answer: the server's own limiter decides. *)
FallBack(h) ==
    /\ req[h].at \in {"check ip", "check user"}
    /\ Fails
    /\ Step(h, "check local")
    /\ bars' = [bars EXCEPT ![h] = {}]
    /\ UNCHANGED <<local, rows, sessions>>

CheckLocal(h) ==
    /\ req[h].at = "check local"
    /\ LET m == Gc(Mem(h), Now(h))
       IN  /\ local' = [local EXCEPT ![req[h].server] =
                            LocalAfterCheck(m, Ip(h), User(h), Now(h))]
           /\ IF LocalAllows(m, Ip(h), User(h), Now(h))
              THEN Step(h, "compare")
              ELSE Finish(h)
    /\ UNCHANGED <<rows, bars, sessions, counters>>

-----------------------------------------------------------------------------
(* The password, and the record of what came of it *)

(* A wrong password counts in memory at once; a form also counts it in the *)
(* database, which HTTP Basic never does.                                  *)
WrongPassword(h) ==
    /\ req[h].at = "compare" /\ ~req[h].good
    /\ local' = [local EXCEPT ![req[h].server] =
                    LocalAfterFailure(Gc(@, Now(h)), Ip(h), User(h), Now(h))]
    /\ IF req[h].form THEN Step(h, "count ip") ELSE Finish(h)
    /\ UNCHANGED <<rows, bars, sessions, counters>>

CountFailure(h) ==
    /\ req[h].at \in {"count ip", "count user"}
    /\ LET k == IF req[h].at = "count ip" THEN Ip(h) ELSE User(h)
       IN  \/ Answers /\ rows' = [rows EXCEPT ![k] = SharedFailure(@, k, Now(h))]
           \/ Fails /\ UNCHANGED rows
    /\ IF req[h].at = "count ip" THEN Step(h, "count user") ELSE Finish(h)
    /\ KeepBars
    /\ UNCHANGED <<local, sessions>>

RightPassword(h) ==
    /\ req[h].at = "compare" /\ req[h].good
    /\ local' = [local EXCEPT ![req[h].server] =
                    [k \in Keys |-> IF k \in {Ip(h), User(h)} THEN Fresh ELSE @[k]]]
    /\ IF req[h].form THEN Step(h, "clear") ELSE Finish(h)
    /\ UNCHANGED <<rows, bars, sessions, counters>>

(* The token is issued whether or not the rows could be deleted.  One      *)
(* session is followed; others come and go without a trace here.           *)
ClearAndSignIn(h) ==
    /\ req[h].at = "clear"
    /\ \/ /\ Answers
          /\ rows' = [k \in Keys |-> IF k \in {Ip(h), User(h)} THEN Fresh ELSE rows[k]]
       \/ Fails /\ UNCHANGED rows
    /\ Finish(h)
    /\ KeepBars
    /\ session' = IF session = NoSession THEN [expires |-> clock + SessionTTL] ELSE session
    /\ UNCHANGED <<local, revoked, revocation>>

-----------------------------------------------------------------------------
(* Sessions *)

(* revokeGC drops what has expired before. *)
RevokedIn(s) == s \in revoked /\ session.expires >= clock

(* verifySessionToken: the expiry and the revocations in memory. *)
VerifyLocally(h) ==
    /\ req[h].at = "verify"
    /\ IF clock > session.expires \/ RevokedIn(req[h].server)
       THEN Finish(h) ELSE Step(h, "look up")
    /\ UNCHANGED <<limits, sessions, counters>>

(* Mutant: an unanswered lookup counts as "not revoked". *)
LookUpTrusting(h) ==
    /\ req[h].at = "look up"
    /\ \/ Answers /\ (IF revocation THEN Finish(h) ELSE Step(h, "served"))
       \/ Fails /\ Step(h, "served")
    /\ UNCHANGED <<limits, sessions>>

LookUp(h) ==
    /\ req[h].at = "look up"
    /\ \/ Answers /\ (IF revocation THEN Finish(h) ELSE Step(h, "served"))
       \/ Fails /\ (IF FailClosed THEN Finish(h) ELSE Step(h, "served"))
    /\ UNCHANGED <<limits, sessions>>

Served(h) == req[h].at = "served" /\ Finish(h) /\ UNCHANGED <<limits, sessions, counters>>

(* Logout: the cookie is cleared, and its token revoked in memory first.   *)
RevokeLocally(h) ==
    /\ req[h].at = "revoke"
    /\ revoked' = revoked \union {req[h].server}
    /\ Step(h, "store")
    /\ UNCHANGED <<limits, session, revocation, counters>>

(* The error of the database is ignored. *)
StoreRevocation(h) ==
    /\ req[h].at = "store"
    /\ \/ Answers /\ revocation' = (clock <= session.expires)
       \/ Fails /\ UNCHANGED revocation
    /\ Finish(h)
    /\ UNCHANGED <<limits, session, revoked>>

(* Somebody else's logout deletes the rows that have expired.  A token is  *)
(* good through the whole second of its expiry, and NOW() knows fractions. *)
CleanRevocations ==
    /\ revocation /\ clock >= session.expires
    /\ revocation' = FALSE
    /\ UNCHANGED <<limits, session, revoked, req, counters>>

-----------------------------------------------------------------------------
(* A restarted server has forgotten its limiter and its revocations, and   *)
(* the requests it served are gone.                                        *)
Restart(s) ==
    /\ faults < MaxFaults
    /\ faults' = faults + 1
    /\ local' = [local EXCEPT ![s] = [k \in Keys |-> Fresh]]
    /\ revoked' = revoked \ {s}
    /\ req' = [h \in Handlers |-> IF Busy(h) /\ req[h].server = s THEN Idle ELSE req[h]]
    /\ UNCHANGED <<clock, rows, session, revocation, requests>>
    /\ KeepBars

(* No request lasts a tick: the calls it makes have two seconds each. *)
Tick ==
    /\ clock < MaxTime
    /\ \A h \in Handlers : Busy(h) => Now(h) = clock
    /\ clock' = clock + 1
    /\ UNCHANGED <<limits, sessions, req, requests, faults>>

Init ==
    /\ clock = 1
    /\ local = [s \in Servers |-> [k \in Keys |-> Fresh]]
    /\ rows = [k \in Keys |-> Fresh]
    /\ session = NoSession /\ revoked = {} /\ revocation = FALSE
    /\ req = [h \in Handlers |-> Idle] /\ bars = [h \in Handlers |-> {}]
    /\ requests = 0 /\ faults = 0

Limit(h) == ReadRow(h) \/ WriteRow(h) \/ FallBack(h) \/ CheckLocal(h)
Outcome(h) == WrongPassword(h) \/ CountFailure(h) \/ RightPassword(h) \/ ClearAndSignIn(h)
Session(h) ==
    VerifyLocally(h) \/ LookUp(h) \/ Served(h) \/ RevokeLocally(h) \/ StoreRevocation(h)

Next ==
    \/ \E h \in Handlers :
          BeginLogin(h) \/ BeginSession(h) \/ Limit(h) \/ Outcome(h) \/ Session(h)
    \/ \E s \in Servers : Restart(s)
    \/ CleanRevocations
    \/ Tick

Spec == Init /\ [][Next]_vars

-----------------------------------------------------------------------------
(* Properties *)

(* A lockout the servers share holds on each of them: a form sent after an *)
(* address or a name ran out of attempts does not reach the comparison     *)
(* while the window lasts, unless the database did not answer or somebody  *)
(* took the row back, by signing in or when his own clock was past it.     *)
LockoutHolds == \A h \in Handlers : req[h].at = "compare" => bars[h] = {}

(* Attempts that overlap run past the limit by no more than their number:  *)
(* each is checked before it is counted, and the counting loses nothing    *)
(* when two are counted at once.                                           *)
NoOverrun ==
    faults = 0 => \A k \in Keys : rows[k].count <= MaxFails[k] + Cardinality(Handlers) - 1

(* A lock ends when it says: the check at that time is not the one that    *)
(* locks again, because the window has ended before the lock, in memory    *)
(* and in the database and however late an overlapping attempt is counted. *)
LocksEnd ==
    \A k \in Keys :
        /\ rows[k].locked # 0 => Fate(rows[k], k, rows[k].locked) \in {"reset", "pass"}
        /\ \A s \in Servers : local[s][k].locked # 0 => ~Full(local[s], k, local[s][k].locked)

(* Once a logout has been recorded, in memory or in the database, a        *)
(* request that begins later is not served where that record reaches, up   *)
(* to the second in which the token expires anyway: not by the other       *)
(* server, not after a restart, not while the database fails.              *)
LogoutSticks ==
    \A h \in Handlers : req[h].at = "served" /\ req[h].barred =>
        clock >= session.expires \/ (faults > 0 /\ ~FailClosed)
=============================================================================

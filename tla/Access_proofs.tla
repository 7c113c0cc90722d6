---------------------------- MODULE Access_proofs ----------------------------
(***************************************************************************)
(* What the login limiter and the revocations of sessions keep up for any  *)
(* number of servers, handlers, addresses and users, any limits and any    *)
(* clock.                                                                  *)
(***************************************************************************)
EXTENDS Access, FiniteSetTheorems, TLAPS

-----------------------------------------------------------------------------
(* Entries of the limiter *)

Entry == [count : Nat, first : Nat, locked : Nat, updated : Nat]

(* A lock that does not see its own window full when it ends. *)
LockEnds(e, k) ==
    e.first = 0 \/ e.locked - e.first > Window \/ e.count < MaxFails[k]

(* The entry of k at the time c. *)
EntryOK(e, k, c) ==
    /\ e \in Entry
    /\ e.first <= c
    /\ e.first = 0 => e.count = 0
    /\ e.locked # 0 => LockEnds(e, k)

LEMMA Limits ==
    ASSUME NEW k \in Keys
    PROVE  /\ MaxFails[k] \in Nat /\ MaxFails[k] > 1
           /\ Window \in Nat /\ Lockout \in Nat /\ Lockout > Window + 1
BY LimiterAssumption

LEMMA FreshOK ==
    ASSUME NEW k, NEW c \in Nat
    PROVE  EntryOK(Fresh, k, c)
BY DEF EntryOK, Entry, Fresh

LEMMA LaterOK ==
    ASSUME NEW k, NEW e, NEW c \in Nat, NEW d \in Nat, c <= d, EntryOK(e, k, c)
    PROVE  EntryOK(e, k, d)
BY DEF EntryOK, Entry

(* The clean-ups keep an entry or remove it. *)
LEMMA CleanedOK ==
    ASSUME NEW m \in [Keys -> Entry], NEW c \in Nat, NEW t, \A k \in Keys : EntryOK(m[k], k, c)
    PROVE  /\ Gc(m, t) \in [Keys -> Entry] /\ \A k \in Keys : EntryOK(Gc(m, t)[k], k, c)
           /\ Cleanup(m, t) \in [Keys -> Entry]
           /\ \A k \in Keys : /\ EntryOK(Cleanup(m, t)[k], k, c)
                              /\ Cleanup(m, t)[k] \in {m[k], Fresh}
<1>1. \A k \in Keys : EntryOK(Fresh, k, c) /\ Fresh \in Entry
  BY FreshOK DEF EntryOK
<1>2. /\ Gc(m, t) \in [Keys -> Entry]
      /\ \A k \in Keys : Gc(m, t)[k] \in {m[k], Fresh}
  BY <1>1 DEF Gc
<1>3. /\ Cleanup(m, t) \in [Keys -> Entry]
      /\ \A k \in Keys : Cleanup(m, t)[k] \in {m[k], Fresh}
  BY <1>1 DEF Cleanup
<1> QED
  BY <1>1, <1>2, <1>3

(* The start of a request lies at most one tick back. *)
Recent(t, c) == t \in Nat \ {0} /\ c \in Nat \ {0} /\ t <= c /\ c <= t + 1

(* A window that is new, and one that goes on. *)
LEMMA ResetOK ==
    ASSUME NEW k, NEW e, NEW c, NEW t, Recent(t, c), EntryOK(e, k, c)
    PROVE  LET r == ResetWindowIfExpired(e, t)
           IN  /\ r \in Entry /\ r.locked = e.locked /\ r.updated = e.updated
               /\ \/ r = e
                  \/ r.count = 0 /\ r.first = 0
BY DEF ResetWindowIfExpired, EntryOK, Entry

(* A lock made at t outlasts every window that has begun. *)
LEMMA LockOutlasts ==
    ASSUME NEW k \in Keys, NEW c, NEW t, Recent(t, c), NEW f \in Nat, f <= c
    PROVE  t + Lockout - f > Window /\ t + Lockout \in Nat /\ t + Lockout # 0
BY Limits DEF Recent

LEMMA CheckLockOK ==
    ASSUME NEW k \in Keys, NEW e, NEW c, NEW t, Recent(t, c), EntryOK(e, k, c)
    PROVE  EntryOK([ResetWindowIfExpired(e, t) EXCEPT !.locked = t + Lockout], k, c)
<1> DEFINE r == ResetWindowIfExpired(e, t)
           x == [r EXCEPT !.locked = t + Lockout]
<1>1. r \in Entry /\ (r = e \/ (r.count = 0 /\ r.first = 0))
  BY ResetOK
<1>2. r.first \in Nat /\ r.first <= c /\ (r.first = 0 => r.count = 0) /\ c \in Nat
  BY <1>1 DEF EntryOK, Recent, Entry
<1>3. t + Lockout - r.first > Window /\ t + Lockout \in Nat
  BY <1>2, LockOutlasts
<1> HIDE DEF r
<1>4. x \in Entry /\ x.count = r.count /\ x.first = r.first /\ x.locked = t + Lockout
  BY <1>1, <1>3 DEF Entry
<1> HIDE DEF x
<1>5. EntryOK(x, k, c)
  <2>1. x.locked - x.first > Window
    BY <1>2, <1>3, <1>4, Limits DEF Recent
  <2> QED
    BY <1>2, <1>4, <2>1 DEF EntryOK, LockEnds
<1> QED
  BY <1>5 DEF x, r

LEMMA LocalFailureOK ==
    ASSUME NEW k \in Keys, NEW e, NEW c, NEW t, Recent(t, c), EntryOK(e, k, c)
    PROVE  EntryOK(LocalFailure(e, k, t), k, c)
<1> DEFINE r == ResetWindowIfExpired(e, t)
           x == LocalFailure(e, k, t)
<1>1. r \in Entry /\ r.locked = e.locked /\ (r = e \/ (r.count = 0 /\ r.first = 0))
  BY ResetOK
<1>2. /\ r.first \in Nat /\ r.first <= c /\ r.count \in Nat /\ r.locked \in Nat
      /\ c \in Nat /\ t \in Nat /\ t <= c /\ t # 0
  BY <1>1 DEF EntryOK, Recent, Entry
<1>3. x = [r EXCEPT !.count = @ + 1,
                    !.first = IF @ = 0 THEN t ELSE @,
                    !.locked = IF r.count + 1 >= MaxFails[k] THEN t + Lockout ELSE @]
  BY DEF LocalFailure
<1> HIDE DEF r, x
<1>4. t + Lockout \in Nat
  BY <1>2, LockOutlasts
<1>5. /\ x \in Entry /\ x.count = r.count + 1
      /\ x.first = (IF r.first = 0 THEN t ELSE r.first)
      /\ x.locked = (IF r.count + 1 >= MaxFails[k] THEN t + Lockout ELSE r.locked)
  <2> DEFINE f == IF r.first = 0 THEN t ELSE r.first
             l == IF r.count + 1 >= MaxFails[k] THEN t + Lockout ELSE r.locked
  <2>1. f \in Nat /\ l \in Nat /\ r.count + 1 \in Nat
    BY <1>2, <1>4
  <2>2. x = [r EXCEPT !.count = r.count + 1, !.first = f, !.locked = l]
    BY <1>3
  <2> HIDE DEF f, l
  <2>3. x \in Entry /\ x.count = r.count + 1 /\ x.first = f /\ x.locked = l
    BY <1>1, <2>1, <2>2 DEF Entry
  <2> QED
    BY <2>3 DEF f, l
<1>6. x.first \in Nat /\ x.first <= c /\ x.first # 0
  BY <1>2, <1>5
<1>7. LockEnds(x, k)
  <2>1. CASE r.count + 1 >= MaxFails[k]
    <3>1. t + Lockout - x.first > Window
      BY <1>6, LockOutlasts
    <3>2. x.locked = t + Lockout
      BY <1>5, <2>1
    <3>3. x.locked - x.first > Window
      BY <1>2, <1>6, <3>1, <3>2, Limits
    <3> QED
      BY <3>3 DEF LockEnds
  <2>2. CASE ~(r.count + 1 >= MaxFails[k])
    BY <1>2, <1>5, <2>2, Limits DEF LockEnds
  <2> QED
    BY <2>1, <2>2
<1> QED
  BY <1>5, <1>6, <1>7 DEF EntryOK, x

LEMMA SharedFailureOK ==
    ASSUME NEW k \in Keys, NEW e, NEW c, NEW t, Recent(t, c), EntryOK(e, k, c)
    PROVE  LET x == SharedFailure(e, k, t)
           IN  /\ EntryOK(x, k, c)
               /\ \/ x.first = e.first /\ x.count = e.count + 1
                  \/ x.first # e.first /\ x.count = 1
<1> DEFINE x == SharedFailure(e, k, t)
<1>1. /\ e.first \in Nat /\ e.first <= c /\ e.count \in Nat /\ e.locked \in Nat /\ e \in Entry
      /\ c \in Nat /\ t \in Nat /\ t <= c /\ t # 0
      /\ e.locked # 0 => LockEnds(e, k)
  BY DEF EntryOK, Recent, Entry
<1>2. t + Lockout - e.first > Window /\ t + Lockout \in Nat
  BY <1>1, LockOutlasts
<1>3. CASE WindowOver(e, t)
  <2>1. x = [count |-> 1, first |-> t, locked |-> 0, updated |-> t]
    BY <1>3 DEF SharedFailure
  <2>2. t # e.first
    BY <1>1, <1>3, Limits DEF WindowOver
  <2> QED
    BY <1>1, <2>1, <2>2 DEF EntryOK, Entry
<1>4. CASE ~WindowOver(e, t)
  <2>1. x = [count |-> e.count + 1, first |-> e.first,
             locked |-> IF e.count + 1 >= MaxFails[k] THEN t + Lockout ELSE e.locked,
             updated |-> t]
    BY <1>4 DEF SharedFailure
  <2>2. /\ x \in Entry /\ x.count = e.count + 1 /\ x.first = e.first /\ e.first # 0
        /\ x.locked = IF e.count + 1 >= MaxFails[k] THEN t + Lockout ELSE e.locked
    BY <1>1, <1>2, <1>4, <2>1 DEF Entry, WindowOver
  <2> HIDE DEF x
  <2>3. x.locked # 0 => LockEnds(x, k)
    BY <1>1, <1>2, <2>2, Limits DEF LockEnds
  <2> QED
    BY <1>1, <2>2, <2>3 DEF EntryOK, x
<1> QED
  BY <1>3, <1>4

(* What a check writes: the row begins again, or is locked. *)
LEMMA CheckedRowOK ==
    ASSUME NEW k \in Keys, NEW e, NEW c, NEW t, Recent(t, c), EntryOK(e, k, c)
    PROVE  /\ EntryOK([Fresh EXCEPT !.updated = t], k, c)
           /\ EntryOK([e EXCEPT !.locked = t + Lockout, !.updated = t], k, c)
<1>1. EntryOK([Fresh EXCEPT !.updated = t], k, c)
  BY DEF EntryOK, Entry, Fresh, Recent
<1> DEFINE x == [e EXCEPT !.locked = t + Lockout, !.updated = t]
<1>2. e.first \in Nat /\ e.first <= c /\ e \in Entry /\ t \in Nat /\ (e.first = 0 => e.count = 0)
  BY DEF EntryOK, Recent, Entry
<1>3. t + Lockout - e.first > Window /\ t + Lockout \in Nat
  BY <1>2, LockOutlasts
<1>4. x \in Entry /\ x.count = e.count /\ x.first = e.first /\ x.locked = t + Lockout
  BY <1>2, <1>3 DEF Entry
<1> HIDE DEF x
<1>5. EntryOK(x, k, c)
  <2>1. x.locked - x.first > Window
    BY <1>2, <1>3, <1>4, Limits DEF Recent
  <2> QED
    BY <1>2, <1>4, <2>1 DEF EntryOK, LockEnds
<1> QED
  BY <1>1, <1>5 DEF x

(* A lock that ends so is found ended by the check at that time. *)
LEMMA EndsFound ==
    ASSUME NEW k \in Keys, NEW m, NEW c, EntryOK(m[k], k, c), m[k].locked # 0
    PROVE  Fate(m[k], k, m[k].locked) \in {"reset", "pass"} /\ ~Full(m, k, m[k].locked)
<1> DEFINE e == m[k]
<1>1. /\ e.first \in Nat /\ e.count \in Nat /\ e.locked \in Nat /\ e \in Entry
      /\ e.first = 0 => e.count = 0
      /\ LockEnds(e, k)
  BY DEF EntryOK, Entry
<1> HIDE DEF e
<1>2. (e.first # 0 /\ e.locked - e.first > Window) \/ e.count < MaxFails[k]
  BY <1>1, Limits DEF LockEnds
<1>3. Fate(e, k, e.locked) \in {"reset", "pass"}
  BY <1>1, <1>2, Limits DEF Fate
<1>4. ResetWindowIfExpired(e, e.locked).count < MaxFails[k]
  BY <1>1, <1>2, Limits DEF ResetWindowIfExpired, WindowOver, Entry
<1> QED
  BY <1>1, <1>3, <1>4, Limits DEF Full, e, ResetWindowIfExpired, Entry

-----------------------------------------------------------------------------
(* The requests and their types *)

LoginPhases ==
    {"check ip", "check user", "check local", "compare", "count ip", "count user", "clear"}
SessionPhases == {"verify", "look up", "served", "revoke", "store"}

LoginRequest ==
    [at : LoginPhases, form : BOOLEAN, server : Servers, ip : Addresses, user : Users,
     good : BOOLEAN, now : Nat, fate : {"", "reset", "lock"}]
SessionRequest == [at : SessionPhases, server : Servers, now : Nat, barred : BOOLEAN]
Request == {Idle} \union LoginRequest \union SessionRequest

TypeOK ==
    /\ clock \in Nat \ {0} /\ faults \in Nat
    /\ local \in [Servers -> [Keys -> Entry]] /\ rows \in [Keys -> Entry]
    /\ session \in [expires : Nat] /\ revoked \subseteq Servers /\ revocation \in BOOLEAN
    /\ req \in [Handlers -> Request]
    /\ bars \in [Handlers -> SUBSET Keys]

(* Every handler works on a request of this tick or the last. *)
RequestsRecent == \A h \in Handlers : Busy(h) => Recent(Now(h), clock)

EntriesOK ==
    \A k \in Keys : /\ EntryOK(rows[k], k, clock)
                    /\ \A s \in Servers : EntryOK(local[s][k], k, clock)

LEMMA RequestIs ==
    ASSUME TypeOK, NEW h \in Handlers
    PROVE  /\ req[h] \in Request
           /\ req[h].at \in LoginPhases => req[h] \in LoginRequest /\ Busy(h)
           /\ req[h].at \in SessionPhases => req[h] \in SessionRequest /\ Busy(h)
           /\ ~Busy(h) <=> req[h] = Idle
<1>1. req[h] \in Request
  BY DEF TypeOK
<1>2. /\ Idle.at = "idle"
      /\ \A r \in LoginRequest : r.at \in LoginPhases
      /\ \A r \in SessionRequest : r.at \in SessionPhases
  BY DEF Idle, LoginRequest, SessionRequest
<1>3. /\ "idle" \notin LoginPhases /\ "idle" \notin SessionPhases
      /\ \A l \in LoginPhases : l \notin SessionPhases
  BY DEF LoginPhases, SessionPhases
<1> QED
  BY <1>1, <1>2, <1>3 DEF Request, Busy

(* A request that moves on keeps all but its place. *)
LEMMA MovedLogin ==
    ASSUME NEW r \in LoginRequest, NEW l \in LoginPhases
    PROVE  [r EXCEPT !.at = l] \in LoginRequest
BY DEF LoginRequest

LEMMA MovedSession ==
    ASSUME NEW r \in SessionRequest, NEW l \in SessionPhases
    PROVE  [r EXCEPT !.at = l] \in SessionRequest
BY DEF SessionRequest

(* The steps of a login. *)
LoginStep(h) == Limit(h) \/ Outcome(h)

(* What a step of a handler does to its request. *)
LEMMA LoginStepMoves ==
    ASSUME TypeOK, NEW h \in Handlers, LoginStep(h)
    PROVE  /\ req[h] \in LoginRequest /\ Busy(h)
           /\ \E r \in LoginRequest \union {Idle} :
                 /\ req' = [req EXCEPT ![h] = r]
                 /\ r # Idle => r = [req[h] EXCEPT !.at = r.at, !.fate = r.fate]
           /\ clock' = clock /\ revoked' = revoked /\ revocation' = revocation
<1>1. req[h].at \in LoginPhases
  BY DEF LoginStep, Limit, Outcome, ReadRow, WriteRow, FallBack, CheckLocal, WrongPassword,
         CountFailure, RightPassword, ClearAndSignIn, LoginPhases
<1>2. req[h] \in LoginRequest /\ Busy(h)
  BY <1>1, RequestIs
<1>3. clock' = clock /\ revoked' = revoked /\ revocation' = revocation
  BY DEF LoginStep, Limit, Outcome, ReadRow, WriteRow, FallBack, CheckLocal, WrongPassword,
         CountFailure, RightPassword, ClearAndSignIn, Answers, Fails, counters, sessions
<1>4. \/ Finish(h)
      \/ \E l \in LoginPhases : Step(h, l)
      \/ \E f \in {"reset", "lock"} : req' = [req EXCEPT ![h].fate = f]
      \/ \E l \in LoginPhases : req' = [req EXCEPT ![h].at = l, ![h].fate = ""]
  <2>1. Passed(h) \in LoginPhases
    BY DEF Passed, LoginPhases
  <2>2. CASE ReadRow(h)
    <3> DEFINE k == Subject(h)
               fate == Fate(rows'[k], k, Now(h))
    <3>1. fate \in {"reset", "refuse", "lock", "pass"}
      BY DEF Fate
    <3>2. /\ fate = "pass" => Step(h, Passed(h))
          /\ fate = "refuse" => Finish(h)
          /\ fate \notin {"pass", "refuse"} => req' = [req EXCEPT ![h].fate = fate]
      BY <2>2 DEF ReadRow
    <3> HIDE DEF fate
    <3> QED
      BY <2>1, <3>1, <3>2
  <2>3. CASE WriteRow(h)
    BY <2>1, <2>3 DEF WriteRow
  <2>4. CASE FallBack(h) \/ CheckLocal(h) \/ Outcome(h)
    BY <2>4 DEF FallBack, CheckLocal, Outcome, WrongPassword, CountFailure, RightPassword,
                ClearAndSignIn, LoginPhases
  <2> QED
    BY <2>2, <2>3, <2>4 DEF LoginStep, Limit
<1>5. CASE Finish(h)
  BY <1>2, <1>3, <1>5 DEF Finish
<1>6. ASSUME NEW l \in LoginPhases, Step(h, l)
      PROVE  \E r \in LoginRequest : /\ req' = [req EXCEPT ![h] = r]
                                     /\ r = [req[h] EXCEPT !.at = r.at, !.fate = r.fate]
  <2> DEFINE r == [req[h] EXCEPT !.at = l]
  <2>1. r \in LoginRequest /\ req' = [req EXCEPT ![h] = r]
    BY <1>2, <1>6, MovedLogin DEF Step, TypeOK
  <2>2. r = [req[h] EXCEPT !.at = r.at, !.fate = r.fate]
    BY <1>2 DEF LoginRequest
  <2> QED
    BY <2>1, <2>2
<1>7. ASSUME NEW f \in {"reset", "lock"}, req' = [req EXCEPT ![h].fate = f]
      PROVE  \E r \in LoginRequest : /\ req' = [req EXCEPT ![h] = r]
                                     /\ r = [req[h] EXCEPT !.at = r.at, !.fate = r.fate]
  <2> DEFINE r == [req[h] EXCEPT !.fate = f]
  <2>1. r \in LoginRequest /\ req' = [req EXCEPT ![h] = r]
    BY <1>2, <1>7 DEF LoginRequest, TypeOK
  <2>2. r = [req[h] EXCEPT !.at = r.at, !.fate = r.fate]
    BY <1>2 DEF LoginRequest
  <2> QED
    BY <2>1, <2>2
<1>8. ASSUME NEW l \in LoginPhases, req' = [req EXCEPT ![h].at = l, ![h].fate = ""]
      PROVE  \E r \in LoginRequest : /\ req' = [req EXCEPT ![h] = r]
                                     /\ r = [req[h] EXCEPT !.at = r.at, !.fate = r.fate]
  <2> DEFINE r == [req[h] EXCEPT !.at = l, !.fate = ""]
  <2>1. r \in LoginRequest /\ req' = [req EXCEPT ![h] = r]
    BY <1>2, <1>8 DEF LoginRequest, TypeOK
  <2>2. r = [req[h] EXCEPT !.at = r.at, !.fate = r.fate]
    BY <1>2 DEF LoginRequest
  <2> QED
    BY <2>1, <2>2
<1> QED
  BY <1>2, <1>3, <1>4, <1>5, <1>6, <1>7, <1>8

(* A request that arrives. *)
LEMMA BeginMoves ==
    ASSUME TypeOK, NEW h \in Handlers, BeginLogin(h) \/ BeginSession(h)
    PROVE  /\ req[h] = Idle /\ UNCHANGED <<clock, local, rows, sessions, faults>>
           /\ \E r \in LoginRequest \union SessionRequest, K \in SUBSET Keys :
                 /\ r.now = clock /\ req' = [req EXCEPT ![h] = r]
                 /\ bars' = [bars EXCEPT ![h] = K]
<1>1. CASE BeginLogin(h)
  <2>1. PICK s \in Servers, ip \in Addresses, user \in Users, good \in BOOLEAN, form \in BOOLEAN :
           Arrive(h, [at |-> IF form THEN "check ip" ELSE "check local", form |-> form,
                      server |-> s, ip |-> ip, user |-> user, good |-> good, now |-> clock,
                      fate |-> ""],
                  IF form THEN RunOut(ip, user) ELSE {})
    BY <1>1 DEF BeginLogin
  <2> DEFINE r == [at |-> IF form THEN "check ip" ELSE "check local", form |-> form,
                   server |-> s, ip |-> ip, user |-> user, good |-> good, now |-> clock,
                   fate |-> ""]
             K == IF form THEN RunOut(ip, user) ELSE {}
  <2>2. (IF form THEN "check ip" ELSE "check local") \in LoginPhases
    BY DEF LoginPhases
  <2>3. r \in LoginRequest /\ r.now = clock
    BY <2>2 DEF LoginRequest, TypeOK
  <2>4. K \in SUBSET Keys
    BY AccessAssumption DEF RunOut
  <2> HIDE DEF r, K
  <2>5. Arrive(h, r, K)
    BY <2>1 DEF r, K
  <2> QED
    BY <2>3, <2>4, <2>5, RequestIs DEF Arrive
<1>2. CASE BeginSession(h)
  <2>1. PICK s \in Servers, what \in {"verify", "revoke"} :
           Arrive(h, [at |-> what, server |-> s, now |-> clock,
                      barred |-> revocation \/ s \in revoked], {})
    BY <1>2 DEF BeginSession
  <2> DEFINE r == [at |-> what, server |-> s, now |-> clock,
                   barred |-> revocation \/ s \in revoked]
  <2>2. r \in SessionRequest /\ r.now = clock
    BY DEF SessionRequest, SessionPhases, TypeOK
  <2> HIDE DEF r
  <2>3. Arrive(h, r, {})
    BY <2>1 DEF r
  <2> QED
    BY <2>2, <2>3, RequestIs DEF Arrive
<1> QED
  BY <1>1, <1>2

(* A step of a request of the session. *)
LEMMA SessionMoves ==
    ASSUME TypeOK, NEW h \in Handlers, Session(h)
    PROVE  /\ req[h] \in SessionRequest /\ Busy(h)
           /\ \E r \in SessionRequest \union {Idle} :
                 /\ req' = [req EXCEPT ![h] = r]
                 /\ r # Idle => r = [req[h] EXCEPT !.at = r.at]
           /\ UNCHANGED <<clock, limits, session>>
<1>1. req[h].at \in SessionPhases
  BY DEF Session, VerifyLocally, LookUp, Served, RevokeLocally, StoreRevocation, SessionPhases
<1>2. req[h] \in SessionRequest /\ Busy(h)
  BY <1>1, RequestIs
<1>3. UNCHANGED <<clock, limits, session>>
  BY DEF Session, VerifyLocally, LookUp, Served, RevokeLocally, StoreRevocation, Answers, Fails,
         counters, sessions
<1>4. Finish(h) \/ \E l \in SessionPhases : Step(h, l)
  BY DEF Session, VerifyLocally, LookUp, Served, RevokeLocally, StoreRevocation, SessionPhases
<1>5. CASE Finish(h)
  BY <1>2, <1>3, <1>5 DEF Finish
<1>6. ASSUME NEW l \in SessionPhases, Step(h, l)
      PROVE  \E r \in SessionRequest : /\ req' = [req EXCEPT ![h] = r]
                                       /\ r = [req[h] EXCEPT !.at = r.at]
  <2> DEFINE r == [req[h] EXCEPT !.at = l]
  <2>1. r \in SessionRequest /\ req' = [req EXCEPT ![h] = r]
    BY <1>2, <1>6, MovedSession DEF Step, TypeOK
  <2>2. r = [req[h] EXCEPT !.at = r.at]
    BY <1>2 DEF SessionRequest
  <2> QED
    BY <2>1, <2>2
<1> QED
  BY <1>2, <1>3, <1>4, <1>5, <1>6

(* A request replaces what its handler was idle on or worked on. *)
LEMMA RequestsNext ==
    ASSUME TypeOK, RequestsRecent, [Next]_vars
    PROVE  req' \in [Handlers -> Request] /\ RequestsRecent'
<1>1. /\ clock \in Nat \ {0} /\ req \in [Handlers -> Request]
      /\ \A h \in Handlers : req[h] # Idle => Recent(req[h].now, clock)
      /\ \A h \in Handlers : req[h] = Idle => ~Busy(h)
  BY RequestIs DEF TypeOK, RequestsRecent, Now
<1> SUFFICES /\ req' \in [Handlers -> Request]
             /\ \A h \in Handlers : req'[h] # Idle => Recent(req'[h].now, clock')
  BY DEF RequestsRecent, Now, Busy, Idle
<1>2. ASSUME NEW h \in Handlers, NEW r \in Request, req' = [req EXCEPT ![h] = r],
             r # Idle => Recent(r.now, clock), clock' = clock
      PROVE  /\ req' \in [Handlers -> Request]
             /\ \A g \in Handlers : req'[g] # Idle => Recent(req'[g].now, clock')
  BY <1>1, <1>2
<1>3. ASSUME NEW h \in Handlers, BeginLogin(h) \/ BeginSession(h)
      PROVE  /\ req' \in [Handlers -> Request]
             /\ \A g \in Handlers : req'[g] # Idle => Recent(req'[g].now, clock')
  <2>1. PICK r \in LoginRequest \union SessionRequest :
           r.now = clock /\ req' = [req EXCEPT ![h] = r]
    BY <1>3, BeginMoves
  <2>2. r \in Request /\ Recent(r.now, clock) /\ clock' = clock
    BY <1>1, <1>3, <2>1, BeginMoves DEF Request, Recent
  <2> QED
    BY <1>2, <2>1, <2>2
<1>4. ASSUME NEW h \in Handlers, LoginStep(h)
      PROVE  /\ req' \in [Handlers -> Request]
             /\ \A g \in Handlers : req'[g] # Idle => Recent(req'[g].now, clock')
  <2>1. PICK r \in LoginRequest \union {Idle} :
           /\ req' = [req EXCEPT ![h] = r]
           /\ r # Idle => r = [req[h] EXCEPT !.at = r.at, !.fate = r.fate]
    BY <1>4, LoginStepMoves
  <2>2. clock' = clock /\ req[h] \in LoginRequest /\ req[h] # Idle
    BY <1>1, <1>4, LoginStepMoves
  <2>3. r \in Request /\ (r # Idle => r.now = req[h].now)
    BY <2>1, <2>2 DEF Request, LoginRequest
  <2> QED
    BY <1>1, <1>2, <2>1, <2>2, <2>3
<1>5. ASSUME NEW h \in Handlers, Session(h)
      PROVE  /\ req' \in [Handlers -> Request]
             /\ \A g \in Handlers : req'[g] # Idle => Recent(req'[g].now, clock')
  <2>1. PICK r \in SessionRequest \union {Idle} :
           req' = [req EXCEPT ![h] = r] /\ (r # Idle => r = [req[h] EXCEPT !.at = r.at])
    BY <1>5, SessionMoves
  <2>2. clock' = clock /\ req[h] \in SessionRequest /\ req[h] # Idle
    BY <1>1, <1>5, SessionMoves
  <2>3. r \in Request /\ (r # Idle => r.now = req[h].now)
    BY <2>1, <2>2 DEF Request, SessionRequest
  <2> QED
    BY <1>1, <1>2, <2>1, <2>2, <2>3
<1>6. ASSUME NEW s \in Servers, Restart(s)
      PROVE  /\ req' \in [Handlers -> Request]
             /\ \A g \in Handlers : req'[g] # Idle => Recent(req'[g].now, clock')
  BY <1>1, <1>6 DEF Restart, Request
<1>7. CASE Tick
  <2>1. \A h \in Handlers : req[h] # Idle => req[h].now = clock
    BY <1>7, RequestIs DEF Tick, Now
  <2>2. Recent(clock, clock + 1)
    BY <1>1 DEF Recent
  <2> QED
    BY <1>1, <1>7, <2>1, <2>2 DEF Tick
<1>8. CASE CleanRevocations \/ UNCHANGED vars
  BY <1>1, <1>8 DEF CleanRevocations, counters, vars
<1> QED
  BY <1>3, <1>4, <1>5, <1>6, <1>7, <1>8 DEF Next, LoginStep

-----------------------------------------------------------------------------
(* The entries *)

EntryTable(m, c) == m \in [Keys -> Entry] /\ \A k \in Keys : EntryOK(m[k], k, c)

Tables ==
    EntryTable(rows, clock) /\ local \in [Servers -> [Keys -> Entry]]
    /\ \A s \in Servers : EntryTable(local[s], clock)

LEMMA TablesAre == TypeOK /\ EntriesOK => Tables
BY DEF TypeOK, EntriesOK, Tables, EntryTable

(* The table m after the entry of k has become e. *)
LEMMA EntryWritten ==
    ASSUME NEW m, NEW c, EntryTable(m, c), NEW k \in Keys, NEW e, EntryOK(e, k, c)
    PROVE  EntryTable([m EXCEPT ![k] = e], c)
BY DEF EntryTable, EntryOK

LEMMA EntriesWritten ==
    ASSUME NEW m, NEW c, EntryTable(m, c), NEW K, NEW f, \A k \in K \intersect Keys : EntryOK(f[k], k, c)
    PROVE  EntryTable([k \in Keys |-> IF k \in K THEN f[k] ELSE m[k]], c)
BY DEF EntryTable, EntryOK

(* The address and the name of a login are counted apart. *)
LEMMA Subjects ==
    ASSUME NEW r \in LoginRequest
    PROVE  r.ip \in Keys /\ r.user \in Keys /\ r.ip # r.user /\ r.server \in Servers
BY AccessAssumption DEF LoginRequest

LEMMA RowsNext ==
    ASSUME TypeOK, RequestsRecent, EntriesOK, NEW h \in Handlers, LoginStep(h)
    PROVE  EntryTable(rows', clock)
<1>1. /\ EntryTable(rows, clock) /\ clock \in Nat \ {0} /\ Recent(Now(h), clock)
      /\ req[h] \in LoginRequest /\ Ip(h) \in Keys /\ User(h) \in Keys /\ Subject(h) \in Keys
  BY TablesAre, LoginStepMoves, Subjects
     DEF Tables, TypeOK, RequestsRecent, Ip, User, Subject
<1>2. \A k \in Keys : EntryOK(Fresh, k, clock)
  BY <1>1, FreshOK
<1>3. CASE ReadRow(h)
  BY <1>1, <1>3, CleanedOK DEF ReadRow, EntryTable
<1>4. CASE WriteRow(h)
  <2> DEFINE k == Subject(h)
             e1 == [Fresh EXCEPT !.updated = Now(h)]
             e2 == [rows[k] EXCEPT !.locked = Now(h) + Lockout, !.updated = Now(h)]
  <2>1. EntryOK(rows[k], k, clock)
    BY <1>1 DEF EntryTable
  <2>2. EntryOK(e1, k, clock) /\ EntryOK(e2, k, clock)
    BY <1>1, <2>1, CheckedRowOK
  <2>3. rows' = [rows EXCEPT ![k] = e1] \/ rows' = [rows EXCEPT ![k] = e2]
    BY <1>1, <1>4 DEF WriteRow, EntryTable
  <2> HIDE DEF e1, e2, k
  <2>4. k \in Keys
    BY <1>1 DEF k
  <2> QED
    BY <1>1, <2>2, <2>3, <2>4, EntryWritten
<1>5. CASE CountFailure(h)
  <2>1. PICK k \in {Ip(h), User(h)} :
           rows' = [rows EXCEPT ![k] = SharedFailure(rows[k], k, Now(h))] \/ rows' = rows
    BY <1>5 DEF CountFailure
  <2>2. k \in Keys /\ EntryOK(rows[k], k, clock)
    BY <1>1, <2>1 DEF EntryTable
  <2>3. EntryOK(SharedFailure(rows[k], k, Now(h)), k, clock)
    BY <1>1, <2>2, SharedFailureOK
  <2> QED
    BY <1>1, <2>1, <2>2, <2>3, EntryWritten
<1>6. CASE ClearAndSignIn(h)
  <2>1. \/ rows' = [k \in Keys |-> IF k \in {Ip(h), User(h)} THEN Fresh ELSE rows[k]]
        \/ rows' = rows
    BY <1>6 DEF ClearAndSignIn
  <2> QED
    BY <1>1, <1>2, <2>1 DEF EntryTable, EntryOK
<1>7. CASE FallBack(h) \/ CheckLocal(h) \/ WrongPassword(h) \/ RightPassword(h)
  BY <1>1, <1>7 DEF FallBack, CheckLocal, WrongPassword, RightPassword
<1> QED
  BY <1>3, <1>4, <1>5, <1>6, <1>7 DEF LoginStep, Limit, Outcome

LEMMA LocalNext ==
    ASSUME TypeOK, RequestsRecent, EntriesOK, NEW h \in Handlers, LoginStep(h)
    PROVE  /\ local' \in [Servers -> [Keys -> Entry]]
           /\ \A s \in Servers : EntryTable(local'[s], clock)
<1> DEFINE s == req[h].server
           m == Gc(local[s], Now(h))
           ip == Ip(h)
           user == User(h)
           t == Now(h)
<1>1. /\ Tables /\ clock \in Nat \ {0} /\ Recent(t, clock)
      /\ req[h] \in LoginRequest /\ ip \in Keys /\ user \in Keys /\ s \in Servers
  BY TablesAre, LoginStepMoves, Subjects DEF TypeOK, RequestsRecent, Ip, User
<1>2. EntryTable(m, clock)
  BY <1>1, CleanedOK DEF Tables, EntryTable
<1>3. ASSUME NEW x, EntryTable(x, clock), local' = [local EXCEPT ![s] = x]
      PROVE  /\ local' \in [Servers -> [Keys -> Entry]]
             /\ \A v \in Servers : EntryTable(local'[v], clock)
  BY <1>1, <1>3 DEF Tables, EntryTable
<1> HIDE DEF s, m, ip, user, t
<1>4. CASE CheckLocal(h)
  <2> DEFINE x == LocalAfterCheck(m, ip, user, t)
  <2>1. local' = [local EXCEPT ![s] = x]
    BY <1>4 DEF CheckLocal, Mem, s, m, ip, user, t
  <2>2. EntryTable(x, clock)
    <3>1. x = m \/ \E k \in {ip, user} :
             x = [m EXCEPT ![k] = [ResetWindowIfExpired(m[k], t) EXCEPT !.locked = t + Lockout]]
      BY <1>1, <1>2 DEF LocalAfterCheck, EntryTable
    <3>2. \A k \in {ip, user} :
             EntryOK([ResetWindowIfExpired(m[k], t) EXCEPT !.locked = t + Lockout], k, clock)
      BY <1>1, <1>2, CheckLockOK DEF EntryTable
    <3> QED
      BY <1>1, <1>2, <3>1, <3>2, EntryWritten
  <2> QED
    BY <1>3, <2>1, <2>2
<1>5. CASE WrongPassword(h)
  <2> DEFINE x == LocalAfterFailure(m, ip, user, t)
  <2>1. local' = [local EXCEPT ![s] = x]
    BY <1>1, <1>5 DEF WrongPassword, Tables, s, m, ip, user, t
  <2>2. \A k \in {ip, user} : EntryOK(LocalFailure(m[k], k, t), k, clock)
    BY <1>1, <1>2, LocalFailureOK DEF EntryTable
  <2>3. EntryTable(x, clock)
    BY <1>1, <1>2, <2>2 DEF LocalAfterFailure, EntryTable, EntryOK
  <2> QED
    BY <1>3, <2>1, <2>3
<1>6. CASE RightPassword(h)
  <2> DEFINE x == [k \in Keys |-> IF k \in {ip, user} THEN Fresh ELSE local[s][k]]
  <2>1. local' = [local EXCEPT ![s] = x]
    BY <1>1, <1>6 DEF RightPassword, Tables, s, ip, user
  <2>2. \A k \in Keys : EntryOK(Fresh, k, clock)
    BY <1>1, FreshOK
  <2>3. EntryTable(x, clock)
    BY <1>1, <2>2 DEF Tables, EntryTable, EntryOK
  <2> QED
    BY <1>3, <2>1, <2>3
<1>7. CASE ReadRow(h) \/ WriteRow(h) \/ FallBack(h) \/ CountFailure(h) \/ ClearAndSignIn(h)
  <2>1. local' = local
    BY <1>7 DEF ReadRow, WriteRow, FallBack, CountFailure, ClearAndSignIn
  <2> QED
    BY <1>1, <2>1 DEF Tables
<1> QED
  BY <1>4, <1>5, <1>6, <1>7 DEF LoginStep, Limit, Outcome

LEMMA TablesNext ==
    ASSUME TypeOK, RequestsRecent, EntriesOK, [Next]_vars
    PROVE  Tables'
<1>1. Tables /\ clock \in Nat \ {0}
  BY TablesAre DEF TypeOK
<1>2. ASSUME NEW h \in Handlers, LoginStep(h) PROVE Tables'
  <2>1. clock' = clock
    BY <1>2, LoginStepMoves
  <2> QED
    BY <1>2, <2>1, RowsNext, LocalNext DEF Tables
<1>3. ASSUME NEW h \in Handlers, BeginLogin(h) \/ BeginSession(h) \/ Session(h) PROVE Tables'
  <2>1. UNCHANGED <<clock, local, rows>>
    BY <1>3, BeginMoves, SessionMoves DEF limits
  <2> QED
    BY <1>1, <2>1 DEF Tables
<1>4. ASSUME NEW s \in Servers, Restart(s) PROVE Tables'
  <2>1. \A k \in Keys : EntryOK(Fresh, k, clock) /\ Fresh \in Entry
    BY <1>1, FreshOK DEF EntryOK
  <2>2. EntryTable([k \in Keys |-> Fresh], clock)
    BY <2>1 DEF EntryTable
  <2>3. local' = [local EXCEPT ![s] = [k \in Keys |-> Fresh]] /\ UNCHANGED <<clock, rows>>
    BY <1>4 DEF Restart
  <2> QED
    BY <1>1, <2>2, <2>3 DEF Tables, EntryTable
<1>5. CASE Tick
  <2>1. clock' = clock + 1 /\ UNCHANGED <<local, rows>>
    BY <1>5 DEF Tick, limits
  <2>2. \A m : EntryTable(m, clock) => EntryTable(m, clock')
    BY <1>1, <2>1, LaterOK DEF EntryTable
  <2> QED
    BY <1>1, <2>1, <2>2 DEF Tables
<1>6. CASE CleanRevocations \/ UNCHANGED vars
  BY <1>1, <1>6 DEF CleanRevocations, counters, limits, vars, Tables
<1> QED
  BY <1>2, <1>3, <1>4, <1>5, <1>6 DEF Next, LoginStep

LEMMA BarsNext ==
    ASSUME TypeOK, [Next]_vars
    PROVE  bars' \in [Handlers -> SUBSET Keys]
<1>1. CASE KeepBars
  BY <1>1 DEF KeepBars, TypeOK
<1>2. ASSUME NEW h \in Handlers, BeginLogin(h) \/ BeginSession(h)
      PROVE  bars' \in [Handlers -> SUBSET Keys]
  BY <1>2, BeginMoves DEF TypeOK
<1>3. ASSUME NEW h \in Handlers, FallBack(h)
      PROVE  bars' \in [Handlers -> SUBSET Keys]
  BY <1>3 DEF FallBack, TypeOK
<1>4. CASE bars' = bars
  BY <1>4 DEF TypeOK
<1>5. ASSUME NEW h \in Handlers, ReadRow(h) \/ WriteRow(h) \/ CheckLocal(h) \/ Outcome(h) \/ Session(h)
      PROVE  KeepBars \/ bars' = bars
  BY <1>5, SessionMoves DEF ReadRow, WriteRow, CheckLocal, Outcome, WrongPassword, CountFailure,
         RightPassword, ClearAndSignIn, limits
<1>6. ASSUME \/ \E s \in Servers : Restart(s)
             \/ CleanRevocations \/ Tick \/ UNCHANGED vars
      PROVE  KeepBars \/ bars' = bars
  BY <1>6 DEF Restart, CleanRevocations, Tick, vars, limits
<1> QED
  BY <1>1, <1>2, <1>3, <1>4, <1>5, <1>6 DEF Next, Limit

LEMMA SessionsTyped ==
    ASSUME TypeOK, [Next]_vars
    PROVE  /\ clock' \in Nat \ {0} /\ faults' \in Nat
           /\ session' \in [expires : Nat] /\ revoked' \subseteq Servers /\ revocation' \in BOOLEAN
           /\ clock <= clock' /\ faults <= faults'
<1>1. /\ clock \in Nat \ {0} /\ faults \in Nat /\ clock + SessionTTL \in Nat
      /\ session \in [expires : Nat] /\ revoked \subseteq Servers /\ revocation \in BOOLEAN
  BY AccessAssumption DEF TypeOK
<1>2. ASSUME NEW h \in Handlers, BeginLogin(h) \/ BeginSession(h)
      PROVE  UNCHANGED <<clock, sessions, faults>>
  BY <1>2, BeginMoves
<1>3. ASSUME NEW h \in Handlers, LoginStep(h)
      PROVE  /\ clock' = clock /\ revoked' = revoked /\ revocation' = revocation
             /\ session' \in {session, [expires |-> clock + SessionTTL]}
             /\ faults' \in {faults, faults + 1}
  <2>1. faults' \in {faults, faults + 1}
    BY <1>3 DEF LoginStep, Limit, Outcome, ReadRow, WriteRow, FallBack, CheckLocal, WrongPassword,
         CountFailure, RightPassword, ClearAndSignIn, Answers, Fails, counters
  <2>2. session' \in {session, [expires |-> clock + SessionTTL]}
    BY <1>3 DEF LoginStep, Limit, Outcome, ReadRow, WriteRow, FallBack, CheckLocal, WrongPassword,
         CountFailure, RightPassword, ClearAndSignIn, sessions
  <2> QED
    BY <1>3, <2>1, <2>2, LoginStepMoves
<1>4. ASSUME NEW h \in Handlers, Session(h)
      PROVE  /\ clock' = clock /\ session' = session /\ revoked' \in {revoked, revoked \union {req[h].server}}
             /\ revocation' \in BOOLEAN /\ faults' \in {faults, faults + 1}
             /\ req[h].server \in Servers
  <2>1. req[h].server \in Servers
    BY <1>4, SessionMoves DEF SessionRequest
  <2>2. /\ revoked' \in {revoked, revoked \union {req[h].server}}
        /\ faults' \in {faults, faults + 1}
    BY <1>1, <1>4 DEF Session, VerifyLocally, LookUp, Served, RevokeLocally, StoreRevocation, Answers,
                     Fails, counters, sessions
  <2>3. revocation' \in BOOLEAN
    <3>1. CASE StoreRevocation(h)
      <4>1. revocation' = (clock <= session.expires) \/ revocation' = revocation
        BY <3>1 DEF StoreRevocation
      <4>2. (clock <= session.expires) \in BOOLEAN
        BY <1>1
      <4> QED
        BY <1>1, <4>1, <4>2
    <3>2. CASE VerifyLocally(h) \/ LookUp(h) \/ Served(h) \/ RevokeLocally(h)
      <4>1. revocation' = revocation
        BY <3>2 DEF VerifyLocally, LookUp, Served, RevokeLocally, sessions
      <4> QED
        BY <1>1, <4>1
    <3> QED
      BY <1>4, <3>1, <3>2 DEF Session
  <2> QED
    BY <1>4, <2>1, <2>2, <2>3, SessionMoves
<1>5. ASSUME NEW s \in Servers, Restart(s)
      PROVE  /\ UNCHANGED <<clock, session, revocation>> /\ faults' = faults + 1
             /\ revoked' = revoked \ {s}
  BY <1>5 DEF Restart
<1>6. CASE CleanRevocations
  <2>1. revocation' = FALSE /\ UNCHANGED <<clock, faults, session, revoked>>
    BY <1>6 DEF CleanRevocations, counters
  <2>2. revocation' \in BOOLEAN
    BY <2>1
  <2> QED
    BY <1>1, <2>1, <2>2
<1>7. CASE Tick
  BY <1>1, <1>7 DEF Tick, sessions
<1>8. CASE UNCHANGED vars
  BY <1>1, <1>8 DEF vars, sessions
<1> QED
  BY <1>1, <1>2, <1>3, <1>4, <1>5, <1>6, <1>7, <1>8 DEF Next, LoginStep, sessions

LEMMA TypesNext ==
    ASSUME TypeOK, RequestsRecent, EntriesOK, [Next]_vars
    PROVE  TypeOK' /\ RequestsRecent' /\ EntriesOK'
<1>1. TypeOK'
  BY RequestsNext, TablesNext, BarsNext, SessionsTyped DEF TypeOK, Tables, EntryTable
<1>2. EntriesOK'
  BY TablesNext DEF EntriesOK, Tables, EntryTable
<1> QED
  BY <1>1, <1>2, RequestsNext

-----------------------------------------------------------------------------
(* Sessions and logouts *)

(* The request r of a session ses: once a logout was on record where r     *)
(* looks, the record still waits for r, unless the token expires.          *)
SessionOK(r, ses, servers, stored, time, failed) ==
    r.at \in SessionPhases =>
        /\ ses # NoSession
        /\ r.barred /\ r.at = "verify" => r.server \in servers \/ stored \/ time >= ses.expires
        /\ r.barred /\ r.at = "look up" => stored \/ time >= ses.expires
        /\ r.barred /\ r.at = "served" => time >= ses.expires \/ (failed > 0 /\ ~FailClosed)

SessionsOK ==
    \A h \in Handlers : SessionOK(req[h], session, revoked, revocation, clock, faults)

(* A request that does not move. *)
LEMMA SessionKept ==
    ASSUME TypeOK, [Next]_vars, NEW h \in Handlers, req'[h] = req[h],
           SessionOK(req[h], session, revoked, revocation, clock, faults),
           session # NoSession => session' = session,
           revocation => revocation' \/ clock' >= session.expires,
           Busy(h) /\ req[h].server \in revoked => req[h].server \in revoked'
    PROVE  SessionOK(req'[h], session', revoked', revocation', clock', faults')
<1>1. /\ clock \in Nat /\ clock' \in Nat /\ clock <= clock' /\ session.expires \in Nat
      /\ faults \in Nat /\ faults' \in Nat /\ faults <= faults'
  BY SessionsTyped DEF TypeOK
<1>2. req[h].at \in SessionPhases => Busy(h)
  BY RequestIs
<1> DEFINE r == req[h]
<1>3. SUFFICES ASSUME r.at \in SessionPhases
               PROVE  SessionOK(r, session, revoked', revocation', clock', faults')
  <2>1. r.at \in SessionPhases => session' = session
    BY DEF SessionOK
  <2>2. r.at \notin SessionPhases => SessionOK(req'[h], session', revoked', revocation', clock', faults')
    BY DEF SessionOK
  <2> QED
    BY <2>1, <2>2
<1>4. /\ session # NoSession
      /\ r.barred /\ r.at = "verify" => r.server \in revoked \/ revocation \/ clock >= session.expires
      /\ r.barred /\ r.at = "look up" => revocation \/ clock >= session.expires
      /\ r.barred /\ r.at = "served" => clock >= session.expires \/ (faults > 0 /\ ~FailClosed)
  BY <1>3 DEF SessionOK
<1>5. /\ clock >= session.expires => clock' >= session.expires
      /\ faults > 0 => faults' > 0
      /\ r.server \in revoked => r.server \in revoked'
      /\ revocation => revocation' \/ clock' >= session.expires
  <2>1. session' = session
    BY <1>4
  <2> QED
    BY <1>1, <1>2, <1>3, <2>1
<1> HIDE DEF r
<1> QED
  BY <1>4, <1>5 DEF SessionOK

LEMMA NotOfSession ==
    ASSUME NEW r, r.at \in LoginPhases \/ r = Idle, NEW a, NEW b, NEW c, NEW d, NEW e
    PROVE  SessionOK(r, a, b, c, d, e)
<1>1. r.at \notin SessionPhases
  <2>1. CASE r.at \in LoginPhases
    BY <2>1 DEF LoginPhases, SessionPhases
  <2>2. CASE r = Idle
    BY <2>2 DEF Idle, SessionPhases
  <2> QED
    BY <2>1, <2>2
<1> QED
  BY <1>1 DEF SessionOK

(* The steps of a request of the session. *)
LEMMA SessionStepOK ==
    ASSUME TypeOK, SessionsOK, [Next]_vars, NEW h \in Handlers, Session(h)
    PROVE  SessionOK(req'[h], session', revoked', revocation', clock', faults')
<1>1. /\ req[h] \in SessionRequest /\ UNCHANGED <<clock, session>>
      /\ clock \in Nat /\ session.expires \in Nat /\ faults \in Nat /\ faults' \in Nat
      /\ req \in [Handlers -> Request] /\ faults <= faults'
  BY SessionMoves, SessionsTyped DEF TypeOK
<1>2. SessionOK(req[h], session, revoked, revocation, clock, faults)
  BY DEF SessionsOK
<1>3. CASE req'[h] = Idle
  BY <1>3, NotOfSession
<1>4. ASSUME NEW l \in SessionPhases, Step(h, l)
      PROVE  /\ req'[h] \in SessionRequest /\ req'[h].at = l
             /\ req'[h].barred = req[h].barred /\ req'[h].server = req[h].server
  <2>1. req'[h] = [req[h] EXCEPT !.at = l]
    BY <1>1, <1>4 DEF Step
  <2> QED
    BY <1>1, <2>1 DEF SessionRequest
<1>5. Finish(h) => req'[h] = Idle
  BY <1>1 DEF Finish
<1>6. CASE VerifyLocally(h)
  <2>1. /\ req[h].at = "verify" /\ UNCHANGED <<revoked, revocation, faults>>
        /\ Finish(h) \/ (~RevokedIn(req[h].server) /\ Step(h, "look up"))
    BY <1>6 DEF VerifyLocally, sessions, counters
  <2>2. CASE ~RevokedIn(req[h].server) /\ Step(h, "look up")
    <3>1. /\ req'[h] \in SessionRequest /\ req'[h].at = "look up"
          /\ req'[h].barred = req[h].barred
      BY <1>4, <2>2 DEF SessionPhases
    <3>2. /\ session # NoSession
          /\ req[h].barred => req[h].server \in revoked \/ revocation \/ clock >= session.expires
      BY <1>1, <1>2, <2>1 DEF SessionOK, SessionPhases
    <3>3. req[h].server \in revoked => clock >= session.expires
      <4>1. ~(req[h].server \in revoked /\ session.expires >= clock)
        BY <2>2 DEF RevokedIn
      <4>2. session.expires >= clock \/ clock >= session.expires
        BY <1>1
      <4> QED
        BY <4>1, <4>2
    <3> QED
      BY <1>1, <2>1, <3>1, <3>2, <3>3 DEF SessionOK
  <2> QED
    BY <1>3, <1>5, <2>1, <2>2
<1>7. CASE LookUp(h)
  <2>1. /\ req[h].at = "look up" /\ UNCHANGED <<revoked, revocation>>
        /\ \/ Finish(h)
           \/ Step(h, "served") /\ (~revocation \/ (faults' = faults + 1 /\ ~FailClosed))
    BY <1>7 DEF LookUp, sessions, Fails
  <2>2. CASE Step(h, "served") /\ (~revocation \/ (faults' = faults + 1 /\ ~FailClosed))
    <3>1. /\ req'[h] \in SessionRequest /\ req'[h].at = "served"
          /\ req'[h].barred = req[h].barred
      BY <1>4, <2>2 DEF SessionPhases
    <3>2. ~revocation \/ (faults' > 0 /\ ~FailClosed)
      BY <1>1, <2>2
    <3>3. /\ session # NoSession
          /\ req[h].barred => revocation \/ clock >= session.expires
      BY <1>1, <1>2, <2>1 DEF SessionOK, SessionPhases
    <3> QED
      BY <1>1, <2>1, <3>1, <3>2, <3>3 DEF SessionOK
  <2> QED
    BY <1>3, <1>5, <2>1, <2>2
<1>8. CASE Served(h) \/ StoreRevocation(h)
  BY <1>3, <1>5, <1>8 DEF Served, StoreRevocation
<1>9. CASE RevokeLocally(h)
  <2>1. req'[h] \in SessionRequest /\ req'[h].at = "store"
    BY <1>4, <1>9 DEF RevokeLocally, SessionPhases
  <2>2. session # NoSession
    BY <1>1, <1>2 DEF SessionOK, SessionRequest
  <2> QED
    BY <1>1, <2>1, <2>2 DEF SessionOK
<1> QED
  BY <1>6, <1>7, <1>8, <1>9 DEF Session

LEMMA SessionsNext ==
    ASSUME TypeOK, SessionsOK, [Next]_vars
    PROVE  SessionsOK'
<1> SUFFICES ASSUME NEW g \in Handlers
             PROVE  SessionOK(req'[g], session', revoked', revocation', clock', faults')
  BY DEF SessionsOK
<1>1. /\ SessionOK(req[g], session, revoked, revocation, clock, faults)
      /\ req \in [Handlers -> Request] /\ clock \in Nat /\ session.expires \in Nat
  BY DEF SessionsOK, TypeOK
<1>2. ASSUME NEW h \in Handlers, BeginLogin(h)
      PROVE  SessionOK(req'[g], session', revoked', revocation', clock', faults')
  <2>1. UNCHANGED <<clock, sessions, faults>> /\ \A x \in Handlers \ {h} : req'[x] = req[x]
    BY <1>1, <1>2, BeginMoves
  <2>2. req'[h].at \in LoginPhases
    <3>1. PICK s \in Servers, ip \in Addresses, user \in Users, good \in BOOLEAN, form \in BOOLEAN :
             Arrive(h, [at |-> IF form THEN "check ip" ELSE "check local", form |-> form,
                        server |-> s, ip |-> ip, user |-> user, good |-> good, now |-> clock,
                        fate |-> ""],
                    IF form THEN RunOut(ip, user) ELSE {})
      BY <1>2 DEF BeginLogin
    <3>2. req'[h].at = IF form THEN "check ip" ELSE "check local"
      BY <1>1, <3>1 DEF Arrive
    <3> QED
      BY <3>2 DEF LoginPhases
  <2> QED
    BY <1>1, <2>1, <2>2, SessionKept, NotOfSession DEF sessions
<1>3. ASSUME NEW h \in Handlers, BeginSession(h)
      PROVE  SessionOK(req'[g], session', revoked', revocation', clock', faults')
  <2>1. UNCHANGED <<clock, sessions, faults>> /\ \A x \in Handlers \ {h} : req'[x] = req[x]
    BY <1>1, <1>3, BeginMoves
  <2>2. PICK s \in Servers, what \in {"verify", "revoke"} :
           req'[h] = [at |-> what, server |-> s, now |-> clock, barred |-> revocation \/ s \in revoked]
    BY <1>1, <1>3 DEF BeginSession, Arrive
  <2>3. session # NoSession
    BY <1>3 DEF BeginSession
  <2>4. SessionOK(req'[h], session', revoked', revocation', clock', faults')
    <3>1. /\ req'[h].at = what /\ req'[h].server = s
          /\ req'[h].barred => s \in revoked \/ revocation
      <4> DEFINE b == revocation \/ s \in revoked
      <4>1. req'[h] = [at |-> what, server |-> s, now |-> clock, barred |-> b]
        BY <2>2
      <4>2. b => s \in revoked \/ revocation
        OBVIOUS
      <4> HIDE DEF b
      <4> QED
        BY <4>1, <4>2
    <3>2. what \notin {"look up", "served"}
      OBVIOUS
    <3> QED
      BY <2>1, <2>3, <3>1, <3>2 DEF SessionOK, sessions
  <2> QED
    BY <1>1, <2>1, <2>4, SessionKept DEF sessions
<1>4. ASSUME NEW h \in Handlers, LoginStep(h)
      PROVE  SessionOK(req'[g], session', revoked', revocation', clock', faults')
  <2>1. /\ req'[h].at \in LoginPhases \/ req'[h] = Idle
        /\ \A x \in Handlers \ {h} : req'[x] = req[x]
        /\ revoked' = revoked /\ revocation' = revocation
    <3>1. PICK r \in LoginRequest \union {Idle} : req' = [req EXCEPT ![h] = r]
      BY <1>1, <1>4, LoginStepMoves
    <3>2. r.at \in LoginPhases \/ r = Idle
      BY DEF LoginRequest
    <3>3. req'[h] = r /\ \A x \in Handlers \ {h} : req'[x] = req[x]
      BY <1>1, <3>1 DEF TypeOK
    <3>4. revoked' = revoked /\ revocation' = revocation
      BY <1>1, <1>4, LoginStepMoves
    <3> QED
      BY <3>2, <3>3, <3>4
  <2>2. session # NoSession => session' = session
    BY <1>4 DEF LoginStep, Limit, Outcome, ReadRow, WriteRow, FallBack, CheckLocal, WrongPassword,
                CountFailure, RightPassword, ClearAndSignIn, sessions
  <2> QED
    BY <1>1, <2>1, <2>2, SessionKept, NotOfSession
<1>5. ASSUME NEW h \in Handlers, Session(h)
      PROVE  SessionOK(req'[g], session', revoked', revocation', clock', faults')
  <2>1. /\ \A x \in Handlers \ {h} : req'[x] = req[x]
        /\ session' = session /\ clock' = clock
    BY <1>1, <1>5, SessionMoves
  <2>2. /\ revocation => revocation' \/ clock' >= session.expires
        /\ revoked \subseteq revoked'
    <3>1. CASE StoreRevocation(h)
      <4>1. revoked' = revoked
        BY <3>1 DEF StoreRevocation
      <4>2. revocation /\ clock <= session.expires => revocation'
        BY <3>1 DEF StoreRevocation
      <4>3. clock <= session.expires \/ clock >= session.expires
        BY <1>1
      <4> QED
        BY <2>1, <4>1, <4>2, <4>3
    <3>2. CASE VerifyLocally(h) \/ LookUp(h) \/ Served(h) \/ RevokeLocally(h)
      <4>1. revocation' = revocation /\ (revoked' = revoked \/ revoked' = revoked \union {req[h].server})
        BY <3>2 DEF VerifyLocally, LookUp, Served, RevokeLocally, sessions
      <4> QED
        BY <4>1
    <3> QED
      BY <1>5, <3>1, <3>2 DEF Session
  <2> QED
    BY <1>1, <1>5, <2>1, <2>2, SessionKept, SessionStepOK
<1>6. ASSUME NEW s \in Servers, Restart(s)
      PROVE  SessionOK(req'[g], session', revoked', revocation', clock', faults')
  <2>1. /\ req'[g] = IF Busy(g) /\ req[g].server = s THEN Idle ELSE req[g]
        /\ revoked' = revoked \ {s} /\ UNCHANGED <<session, revocation>>
    BY <1>6 DEF Restart
  <2>2. CASE Busy(g) /\ req[g].server = s
    BY <2>1, <2>2, NotOfSession
  <2>3. CASE ~(Busy(g) /\ req[g].server = s)
    BY <1>1, <2>1, <2>3, SessionKept
  <2> QED
    BY <2>2, <2>3
<1>7. CASE CleanRevocations
  BY <1>1, <1>7, SessionKept DEF CleanRevocations, counters
<1>8. CASE Tick
  BY <1>1, <1>8, SessionKept DEF Tick, sessions
<1>9. CASE UNCHANGED vars
  BY <1>1, <1>9, SessionKept DEF vars, sessions
<1> QED
  BY <1>2, <1>3, <1>4, <1>5, <1>6, <1>7, <1>8, <1>9 DEF Next, LoginStep

-----------------------------------------------------------------------------
(* What bars a form *)

(* While the request r has a check before it, each key K of its bars still *)
(* has the full row that will refuse it; a key that was checked is none.   *)
StandingOK(r, K, table) ==
    /\ K # {} => r \in LoginRequest /\ r.at \in {"check ip", "check user"}
    /\ \A k \in K : /\ k \in {r.ip, r.user} /\ k \in Keys
                    /\ table[k].count >= MaxFails[k]
                    /\ table[k].first # 0 /\ r.now - table[k].first <= Window
    /\ r.at = "check user" => r.ip \notin K
    /\ r.at = "check ip" /\ r.fate = "reset" => r.ip \notin K
    /\ r.at = "check user" /\ r.fate = "reset" => r.user \notin K

BarsStand == \A h \in Handlers : StandingOK(req[h], bars[h], rows)

LEMMA NoBars ==
    ASSUME NEW r, NEW t
    PROVE  StandingOK(r, {}, t)
BY DEF StandingOK

LEMMA FewerBars ==
    ASSUME NEW r, NEW K, NEW L \in SUBSET K, NEW t, NEW u, StandingOK(r, K, t),
           \A k \in L : u[k].first = t[k].first /\ (u[k].first # 0 => u[k].count >= t[k].count),
           t \in [Keys -> Entry], u \in [Keys -> Entry]
    PROVE  StandingOK(r, L, u)
<1>1. \A k \in L : u[k].count \in Nat /\ t[k].count \in Nat /\ MaxFails[k] \in Nat
  BY Limits DEF StandingOK, Entry
<1>2. \A k \in L : /\ k \in {r.ip, r.user} /\ k \in Keys
                   /\ t[k].count >= MaxFails[k]
                   /\ t[k].first # 0 /\ r.now - t[k].first <= Window
  BY DEF StandingOK
<1>3. \A k \in L : u[k].first = t[k].first /\ u[k].count >= MaxFails[k]
  BY <1>1, <1>2
<1>4. /\ K # {} => r \in LoginRequest /\ r.at \in {"check ip", "check user"}
      /\ r.at = "check user" => r.ip \notin K
      /\ r.at = "check ip" /\ r.fate = "reset" => r.ip \notin K
      /\ r.at = "check user" /\ r.fate = "reset" => r.user \notin K
  BY DEF StandingOK
<1>5. L # {} => K # {}
  OBVIOUS
<1> QED
  BY <1>2, <1>3, <1>4, <1>5 DEF StandingOK

(* As long as its window stands, a row counts up only. *)
LEMMA WindowsCount ==
    ASSUME TypeOK, RequestsRecent, EntriesOK, NEW h \in Handlers, LoginStep(h), NEW k \in Keys,
           rows'[k].first = rows[k].first, rows[k].first # 0
    PROVE  rows'[k].count >= rows[k].count /\ (ReadRow(h) => rows'[k] = rows[k])
<1>1. /\ EntryTable(rows, clock) /\ clock \in Nat \ {0} /\ Recent(Now(h), clock)
      /\ req[h] \in LoginRequest /\ Ip(h) \in Keys /\ User(h) \in Keys /\ Subject(h) \in Keys
  BY TablesAre, LoginStepMoves, Subjects
     DEF Tables, TypeOK, RequestsRecent, Ip, User, Subject
<1>2. rows \in [Keys -> Entry] /\ rows[k].count \in Nat /\ Fresh.first = 0
  BY <1>1 DEF EntryTable, Entry, Fresh
<1>3. rows'[k] = rows[k] => rows'[k].count >= rows[k].count
  BY <1>2
<1>4. CASE ReadRow(h)
  <2>1. rows'[k] \in {rows[k], Fresh}
    BY <1>1, <1>4, CleanedOK DEF ReadRow, EntryTable
  <2> QED
    BY <1>2, <1>3, <2>1
<1>5. CASE WriteRow(h)
  <2> DEFINE s == Subject(h)
  <2>1. \/ rows' = [rows EXCEPT ![s] = [Fresh EXCEPT !.updated = Now(h)]]
        \/ rows' = [rows EXCEPT ![s] = [rows[s] EXCEPT !.locked = Now(h) + Lockout, !.updated = Now(h)]]
    BY <1>1, <1>5 DEF WriteRow, EntryTable
  <2>2. CASE k = s
    <3>1. rows'[k].first # 0 /\ k = s
      BY <2>2
    <3>2. rows' # [rows EXCEPT ![s] = [Fresh EXCEPT !.updated = Now(h)]]
      BY <1>2, <2>2 DEF Fresh
    <3>3. rows'[k] = [rows[k] EXCEPT !.locked = Now(h) + Lockout, !.updated = Now(h)]
      BY <1>2, <2>1, <2>2, <3>2
    <3>4. rows'[k].count = rows[k].count
      BY <1>2, <3>3 DEF Entry
    <3>5. ~ReadRow(h)
      BY <1>5 DEF ReadRow, WriteRow
    <3> QED
      BY <1>2, <3>4, <3>5
  <2>3. CASE k # s
    BY <1>2, <1>3, <2>1, <2>3
  <2> QED
    BY <1>5, <2>2, <2>3 DEF ReadRow, WriteRow
<1>6. CASE CountFailure(h)
  <2>1. PICK s \in {Ip(h), User(h)} :
           rows' = [rows EXCEPT ![s] = SharedFailure(rows[s], s, Now(h))] \/ rows' = rows
    BY <1>6 DEF CountFailure
  <2>2. s \in Keys /\ EntryOK(rows[s], s, clock)
    BY <1>1, <2>1 DEF EntryTable
  <2>3. LET x == SharedFailure(rows[s], s, Now(h))
        IN  (x.first = rows[s].first /\ x.count = rows[s].count + 1) \/ x.first # rows[s].first
    BY <1>1, <2>2, SharedFailureOK
  <2>4. rows'[k].count \in {rows[k].count, rows[k].count + 1}
    BY <1>2, <2>1, <2>2, <2>3
  <2>5. req[h].at \notin {"check ip", "check user"}
    BY <1>6 DEF CountFailure
  <2>6. ~ReadRow(h)
    BY <2>5 DEF ReadRow
  <2> QED
    BY <1>2, <2>4, <2>6
<1>7. CASE ClearAndSignIn(h)
  <2>1. rows'[k] \in {rows[k], Fresh}
    BY <1>2, <1>7 DEF ClearAndSignIn
  <2> QED
    BY <1>2, <1>3, <2>1
<1>8. CASE FallBack(h) \/ CheckLocal(h) \/ WrongPassword(h) \/ RightPassword(h)
  <2>1. rows' = rows
    BY <1>8 DEF FallBack, CheckLocal, WrongPassword, RightPassword
  <2> QED
    BY <1>3, <2>1
<1> QED
  BY <1>4, <1>5, <1>6, <1>7, <1>8 DEF LoginStep, Limit, Outcome

(* A request that does not move keeps what bars it, or less. *)
LEMMA BarsOfOthers ==
    ASSUME TypeOK, RequestsRecent, EntriesOK, BarsStand, NEW h \in Handlers, LoginStep(h),
           NEW g \in Handlers \ {h}
    PROVE  StandingOK(req'[g], bars'[g], rows')
<1>1. req'[g] = req[g] /\ StandingOK(req[g], bars[g], rows)
  <2>1. PICK r : req' = [req EXCEPT ![h] = r]
    BY LoginStepMoves
  <2> QED
    BY <2>1 DEF TypeOK, BarsStand
<1>2. rows \in [Keys -> Entry] /\ rows' \in [Keys -> Entry] /\ bars \in [Handlers -> SUBSET Keys]
  BY RowsNext DEF TypeOK, EntryTable
<1>3. CASE KeepBars
  <2>1. bars'[g] \in SUBSET bars[g] /\ \A k \in bars'[g] : rows'[k].first = rows[k].first
    BY <1>3 DEF KeepBars
  <2>2. \A k \in bars'[g] : rows'[k].first # 0 => rows'[k].count >= rows[k].count
    BY <1>2, <2>1, WindowsCount
  <2> QED
    BY <1>1, <1>2, <2>1, <2>2, FewerBars
<1>4. CASE FallBack(h)
  BY <1>1, <1>2, <1>4 DEF FallBack
<1>5. CASE CheckLocal(h) \/ WrongPassword(h) \/ RightPassword(h)
  BY <1>1, <1>5 DEF CheckLocal, WrongPassword, RightPassword
<1> QED
  BY <1>3, <1>4, <1>5 DEF LoginStep, Limit, Outcome, ReadRow, WriteRow, CountFailure, ClearAndSignIn

(* A check that finds the full row refuses or locks. *)
LEMMA FullRowRefuses ==
    ASSUME NEW e \in Entry, NEW k \in Keys, NEW t \in Nat,
           e.count >= MaxFails[k], e.first # 0, t - e.first <= Window
    PROVE  Fate(e, k, t) \in {"refuse", "lock"}
BY Limits DEF Fate, Entry

LEMMA BarsOfCheck ==
    ASSUME TypeOK, RequestsRecent, EntriesOK, BarsStand, NEW h \in Handlers, ReadRow(h)
    PROVE  StandingOK(req'[h], bars'[h], rows')
<1> DEFINE r == req[h]
           K == bars[h]
           L == bars'[h]
           s == Subject(h)
           fate == Fate(rows'[s], s, Now(h))
<1>1. /\ LoginStep(h) /\ r \in LoginRequest /\ StandingOK(r, K, rows)
      /\ rows \in [Keys -> Entry] /\ rows' \in [Keys -> Entry] /\ r.now \in Nat
      /\ req \in [Handlers -> Request] /\ bars \in [Handlers -> SUBSET Keys]
  BY LoginStepMoves, RowsNext DEF LoginStep, Limit, TypeOK, EntryTable, BarsStand, LoginRequest
<1>2. /\ r.at \in {"check ip", "check user"} /\ r.fate = "" /\ KeepBars
      /\ fate = "pass" => Step(h, Passed(h))
      /\ fate = "refuse" => Finish(h)
      /\ fate \notin {"pass", "refuse"} => req' = [req EXCEPT ![h].fate = fate]
  BY DEF ReadRow
<1>3. /\ L \in SUBSET K
      /\ req'[h] = Idle => L = {}
      /\ \A k \in L : rows'[k].first = rows[k].first
  BY <1>2 DEF KeepBars
<1>4. \A k \in L : /\ k \in {r.ip, r.user} /\ k \in Keys
                   /\ rows'[k].count >= MaxFails[k]
                   /\ rows'[k].first # 0 /\ r.now - rows'[k].first <= Window
  <2> HIDE DEF L, K
  <2> TAKE k \in L
  <2>1. /\ k \in {r.ip, r.user} /\ k \in Keys /\ rows[k].count >= MaxFails[k]
        /\ rows[k].first # 0 /\ r.now - rows[k].first <= Window
    BY <1>1, <1>3 DEF StandingOK
  <2>2. rows'[k] = rows[k]
    BY <1>1, <1>3, <2>1, WindowsCount
  <2> QED
    BY <2>1, <2>2
<1>5. s \in L => fate \in {"refuse", "lock"}
  BY <1>1, <1>4, FullRowRefuses DEF Now
<1>6. /\ r.at = "check ip" => s = r.ip
      /\ r.at = "check user" => s = r.user
      /\ r.at = "check user" => r.ip \notin L
  <2>1. /\ r.at = "check ip" => s = r.ip
        /\ r.at = "check user" => s = r.user
    BY DEF Subject, Ip, User
  <2>2. r.at = "check user" => r.ip \notin K
    BY <1>1 DEF StandingOK
  <2> HIDE DEF K, L
  <2> QED
    BY <1>3, <2>1, <2>2
<1>7. fate \in {"reset", "refuse", "lock", "pass"}
  BY DEF Fate
<1> HIDE DEF fate, L, K, s
<1>8. CASE fate = "pass"
  <2>1. CASE r.at = "check ip"
    <3>1. req'[h] = [r EXCEPT !.at = "check user"]
      BY <1>1, <1>2, <1>8, <2>1 DEF Step, Passed
    <3>2. /\ req'[h] \in LoginRequest /\ req'[h].at = "check user" /\ req'[h].ip = r.ip
          /\ req'[h].user = r.user /\ req'[h].now = r.now /\ req'[h].fate = ""
      BY <1>1, <1>2, <3>1 DEF LoginRequest, LoginPhases
    <3>3. r.ip \notin L
      BY <1>5, <1>6, <1>8, <2>1
    <3>4. StandingOK(req'[h], L, rows')
      BY <1>4, <3>2, <3>3 DEF StandingOK
    <3> QED
      BY <3>4 DEF L
  <2>2. CASE r.at = "check user"
    <3>1. L = {}
      BY <1>4, <1>5, <1>6, <1>8, <2>2
    <3> QED
      BY <3>1, NoBars DEF L
  <2> QED
    BY <1>2, <2>1, <2>2
<1>9. CASE fate = "refuse"
  <2>1. req'[h] = Idle
    BY <1>1, <1>2, <1>9 DEF Finish
  <2> QED
    BY <1>3, <2>1, NoBars DEF L
<1>10. CASE fate \in {"reset", "lock"}
  <2>1. req'[h] = [r EXCEPT !.fate = fate]
    BY <1>1, <1>2, <1>10
  <2>2. /\ req'[h] \in LoginRequest /\ req'[h].at = r.at /\ req'[h].ip = r.ip
        /\ req'[h].user = r.user /\ req'[h].now = r.now /\ req'[h].fate = fate
    BY <1>1, <1>10, <2>1 DEF LoginRequest
  <2>3. fate = "reset" => s \notin L
    BY <1>5
  <2>4. StandingOK(req'[h], L, rows')
    BY <1>2, <1>4, <1>6, <2>2, <2>3 DEF StandingOK
  <2> QED
    BY <2>4 DEF L
<1> QED
  BY <1>7, <1>8, <1>9, <1>10

LEMMA BarsOfWrite ==
    ASSUME TypeOK, RequestsRecent, EntriesOK, BarsStand, NEW h \in Handlers, WriteRow(h)
    PROVE  StandingOK(req'[h], bars'[h], rows')
<1> DEFINE r == req[h]
           K == bars[h]
           L == bars'[h]
<1>1. /\ LoginStep(h) /\ r \in LoginRequest /\ StandingOK(r, K, rows)
      /\ rows \in [Keys -> Entry] /\ rows' \in [Keys -> Entry]
      /\ req \in [Handlers -> Request] /\ bars \in [Handlers -> SUBSET Keys]
  BY LoginStepMoves, RowsNext DEF LoginStep, Limit, TypeOK, EntryTable, BarsStand
<1>2. /\ r.at \in {"check ip", "check user"} /\ KeepBars
      /\ \/ r.fate = "reset" /\ req' = [req EXCEPT ![h].at = Passed(h), ![h].fate = ""]
         \/ Finish(h)
  BY DEF WriteRow
<1>3. /\ L \in SUBSET K
      /\ req'[h] = Idle => L = {}
      /\ \A k \in L : rows'[k].first = rows[k].first
  BY <1>2 DEF KeepBars
<1>4. StandingOK(r, L, rows')
  <2>1. L \subseteq Keys
    BY <1>1, <1>3
  <2>2. \A k \in L : rows'[k].first # 0 => rows'[k].count >= rows[k].count
    BY <1>1, <1>3, <2>1, WindowsCount
  <2> QED
    BY <1>1, <1>3, <2>2, FewerBars
<1> HIDE DEF L, K
<1>5. CASE r.fate = "reset" /\ req' = [req EXCEPT ![h].at = Passed(h), ![h].fate = ""]
  <2>1. CASE r.at = "check ip"
    <3>1. req'[h] = [r EXCEPT !.at = "check user", !.fate = ""]
      BY <1>1, <1>5, <2>1 DEF Passed
    <3>2. /\ req'[h] \in LoginRequest /\ req'[h].at = "check user" /\ req'[h].ip = r.ip
          /\ req'[h].user = r.user /\ req'[h].now = r.now /\ req'[h].fate = ""
      BY <1>1, <3>1 DEF LoginRequest, LoginPhases
    <3>3. StandingOK(req'[h], L, rows')
      BY <1>4, <1>5, <2>1, <3>2 DEF StandingOK
    <3> QED
      BY <3>3 DEF L
  <2>2. CASE r.at = "check user"
    <3>1. L = {}
      BY <1>4, <1>5, <2>2 DEF StandingOK
    <3> QED
      BY <3>1, NoBars DEF L
  <2> QED
    BY <1>2, <2>1, <2>2
<1>6. CASE Finish(h)
  <2>1. req'[h] = Idle
    BY <1>1, <1>6 DEF Finish
  <2> QED
    BY <1>3, <2>1, NoBars DEF L
<1> QED
  BY <1>2, <1>5, <1>6

LEMMA BarsOfStep ==
    ASSUME TypeOK, RequestsRecent, EntriesOK, BarsStand, NEW h \in Handlers, LoginStep(h)
    PROVE  StandingOK(req'[h], bars'[h], rows')
<1>1. bars \in [Handlers -> SUBSET Keys] /\ StandingOK(req[h], bars[h], rows)
  BY DEF TypeOK, BarsStand
<1>2. CASE FallBack(h)
  BY <1>1, <1>2, NoBars DEF FallBack
<1>3. CASE CheckLocal(h) \/ Outcome(h)
  <2>1. bars[h] = {}
    BY <1>1, <1>3 DEF StandingOK, CheckLocal, Outcome, WrongPassword, CountFailure, RightPassword,
                      ClearAndSignIn
  <2>2. bars'[h] = {}
    BY <1>1, <1>3, <2>1 DEF CheckLocal, Outcome, WrongPassword, CountFailure, RightPassword,
                      ClearAndSignIn, KeepBars
  <2> QED
    BY <2>2, NoBars
<1> QED
  BY <1>2, <1>3, BarsOfCheck, BarsOfWrite DEF LoginStep, Limit

(* A form is sent while its bars are those of the moment. *)
LEMMA BarsOfBegin ==
    ASSUME TypeOK, NEW h \in Handlers, BeginLogin(h) \/ BeginSession(h)
    PROVE  StandingOK(req'[h], bars'[h], rows)
<1>1. req \in [Handlers -> Request] /\ bars \in [Handlers -> SUBSET Keys] /\ clock \in Nat
      /\ rows \in [Keys -> Entry]
  BY DEF TypeOK
<1>2. CASE BeginLogin(h)
  <2>1. PICK s \in Servers, ip \in Addresses, user \in Users, good \in BOOLEAN, form \in BOOLEAN :
           Arrive(h, [at |-> IF form THEN "check ip" ELSE "check local", form |-> form,
                      server |-> s, ip |-> ip, user |-> user, good |-> good, now |-> clock,
                      fate |-> ""],
                  IF form THEN RunOut(ip, user) ELSE {})
    BY <1>2 DEF BeginLogin
  <2>2. CASE form
    <3> DEFINE r == [at |-> "check ip", form |-> form,
                     server |-> s, ip |-> ip, user |-> user, good |-> good, now |-> clock,
                     fate |-> ""]
    <3>1. req'[h] = r /\ bars'[h] = RunOut(ip, user)
      BY <1>1, <2>1, <2>2 DEF Arrive
    <3>2. r \in LoginRequest /\ r.at = "check ip" /\ r.fate = "" /\ r.now = clock
          /\ r.ip = ip /\ r.user = user
      BY <1>1 DEF LoginRequest, LoginPhases
    <3> HIDE DEF r
    <3>3. \A k \in RunOut(ip, user) :
             /\ k \in {ip, user} /\ k \in Keys /\ rows[k].count >= MaxFails[k]
             /\ rows[k].first # 0 /\ clock - rows[k].first <= Window
      <4>1. ip \in Keys /\ user \in Keys
        BY AccessAssumption
      <4> TAKE k \in RunOut(ip, user)
      <4>2. /\ k \in {ip, user} /\ k \in Keys /\ rows[k].count >= MaxFails[k]
            /\ rows[k].first # 0 /\ ~(clock - rows[k].first > Window)
        BY <4>1 DEF RunOut, WindowOver
      <4>3. rows[k].first \in Nat /\ Window \in Nat
        BY <1>1, <4>2, Limits DEF Entry
      <4> QED
        BY <1>1, <4>2, <4>3
    <3> QED
      BY <3>1, <3>2, <3>3 DEF StandingOK
  <2>3. CASE ~form
    <3>1. bars'[h] = {}
      BY <1>1, <2>1, <2>3 DEF Arrive
    <3> QED
      BY <3>1, NoBars
  <2> QED
    BY <2>2, <2>3
<1>3. CASE BeginSession(h)
  <2>1. bars'[h] = {}
    BY <1>1, <1>3 DEF BeginSession, Arrive
  <2> QED
    BY <2>1, NoBars
<1> QED
  BY <1>2, <1>3

LEMMA BarsStandNext ==
    ASSUME TypeOK, RequestsRecent, EntriesOK, BarsStand, [Next]_vars
    PROVE  BarsStand'
<1> SUFFICES ASSUME NEW g \in Handlers PROVE StandingOK(req'[g], bars'[g], rows')
  BY DEF BarsStand
<1>1. /\ StandingOK(req[g], bars[g], rows)
      /\ req \in [Handlers -> Request] /\ bars \in [Handlers -> SUBSET Keys]
      /\ rows \in [Keys -> Entry]
  BY DEF BarsStand, TypeOK
<1>2. ASSUME NEW h \in Handlers, LoginStep(h) PROVE StandingOK(req'[g], bars'[g], rows')
  BY <1>2, BarsOfStep, BarsOfOthers
<1>3. ASSUME NEW h \in Handlers, BeginLogin(h) \/ BeginSession(h)
      PROVE  StandingOK(req'[g], bars'[g], rows')
  <2>1. rows' = rows /\ (g # h => req'[g] = req[g] /\ bars'[g] = bars[g])
    BY <1>1, <1>3, BeginMoves
  <2> QED
    BY <1>1, <1>3, <2>1, BarsOfBegin
<1>4. ASSUME NEW h \in Handlers, Session(h) PROVE StandingOK(req'[g], bars'[g], rows')
  <2>1. PICK r \in SessionRequest \union {Idle} : req' = [req EXCEPT ![h] = r]
    BY <1>4, SessionMoves
  <2>2. rows' = rows /\ bars' = bars
    BY <1>4, SessionMoves DEF limits
  <2>3. CASE g = h
    <3>1. req[g].at \notin {"check ip", "check user"}
      BY <1>4, <2>3, SessionMoves DEF SessionRequest, SessionPhases
    <3>2. bars[g] = {}
      BY <1>1, <3>1 DEF StandingOK
    <3> QED
      BY <2>2, <3>2, NoBars
  <2>4. CASE g # h
    BY <1>1, <2>1, <2>2, <2>4
  <2> QED
    BY <2>3, <2>4
<1>5. ASSUME NEW s \in Servers, Restart(s) PROVE StandingOK(req'[g], bars'[g], rows')
  <2>1. /\ rows' = rows /\ req'[g] \in {Idle, req[g]}
        /\ bars'[g] = {k \in bars[g] : req'[g] # Idle /\ rows'[k].first = rows[k].first}
    BY <1>5 DEF Restart, KeepBars
  <2>2. CASE req'[g] = Idle
    <3>1. bars'[g] = {}
      BY <2>1, <2>2
    <3> QED
      BY <3>1, NoBars
  <2>3. CASE req'[g] # Idle
    <3>1. bars'[g] = bars[g]
      BY <2>1, <2>3
    <3> QED
      BY <1>1, <2>1, <2>3, <3>1
  <2> QED
    BY <2>2, <2>3
<1>6. CASE CleanRevocations \/ Tick \/ UNCHANGED vars
  <2>1. UNCHANGED <<req, bars, rows>>
    BY <1>6 DEF CleanRevocations, Tick, vars, limits
  <2> QED
    BY <1>1, <2>1
<1> QED
  BY <1>2, <1>3, <1>4, <1>5, <1>6 DEF Next, LoginStep

-----------------------------------------------------------------------------
(* Attempts that overlap *)

(* The request r has passed the check of k and may still count against k.  *)
MayCount(r, k) ==
    /\ r \in LoginRequest /\ (r.at = "compare" => r.form)
    /\ \/ k = r.ip /\ r.at \in {"check user", "compare", "count ip"}
       \/ k = r.user /\ r.at \in {"compare", "count ip", "count user"}

LEMMA IdleCounts ==
    ASSUME NEW k
    PROVE  ~MayCount(Idle, k)
<1>1. Idle.at = "idle"
  BY DEF Idle
<1> QED
  BY <1>1 DEF MayCount

Counting(q, k) == {h \in Handlers : MayCount(q[h], k)}

(* While no call fails, no form is decided by a server alone, and the      *)
(* attempts under way have room below the bound.                           *)
RoomLeft ==
    faults = 0 =>
        /\ \A h \in Handlers : req[h] \in LoginRequest /\ req[h].form => req[h].at # "check local"
        /\ \A k \in Keys :
              rows[k].count + Cardinality(Counting(req, k)) <= MaxFails[k] + Cardinality(Handlers) - 1

LEMMA CountingFinite ==
    ASSUME NEW q, NEW k
    PROVE  /\ IsFiniteSet(Counting(q, k)) /\ Cardinality(Counting(q, k)) \in Nat
           /\ Cardinality(Counting(q, k)) <= Cardinality(Handlers) /\ Cardinality(Handlers) \in Nat
BY AccessAssumption, FS_Subset, FS_CardinalityType DEF Counting

(* The three ways in which a step may change what k has room for: nothing  *)
(* is added; the row is below the limit; one of the attempts is counted.   *)
RoomKept(k) ==
    \/ rows'[k].count <= rows[k].count /\ Counting(req', k) \subseteq Counting(req, k)
    \/ rows'[k].count < MaxFails[k]
    \/ /\ rows'[k].count <= rows[k].count + 1
       /\ \E h \in Counting(req, k) : Counting(req', k) \subseteq Counting(req, k) \ {h}

LEMMA RoomStep ==
    ASSUME NEW k \in Keys, rows \in [Keys -> Entry], rows' \in [Keys -> Entry], RoomKept(k),
           rows[k].count + Cardinality(Counting(req, k)) <= MaxFails[k] + Cardinality(Handlers) - 1
    PROVE  rows'[k].count + Cardinality(Counting(req', k)) <= MaxFails[k] + Cardinality(Handlers) - 1
<1> DEFINE A == Counting(req, k)
           B == Counting(req', k)
           n == rows[k].count
           m == rows'[k].count
           limit == MaxFails[k] + Cardinality(Handlers) - 1
<1>1. /\ IsFiniteSet(A) /\ Cardinality(A) \in Nat /\ IsFiniteSet(B) /\ Cardinality(B) \in Nat
      /\ Cardinality(B) <= Cardinality(Handlers) /\ Cardinality(Handlers) \in Nat
  BY CountingFinite
<1>2. n \in Nat /\ m \in Nat /\ MaxFails[k] \in Nat
  BY Limits DEF Entry
<1>3. n + Cardinality(A) <= limit
  OBVIOUS
<1>4. \/ m <= n /\ B \subseteq A
      \/ m < MaxFails[k]
      \/ m <= n + 1 /\ \E h \in A : B \subseteq A \ {h}
  BY DEF RoomKept
<1> HIDE DEF A, B, n, m
<1>5. CASE m <= n /\ B \subseteq A
  <2>1. Cardinality(B) <= Cardinality(A)
    BY <1>1, <1>5, FS_Subset
  <2> QED
    BY <1>1, <1>2, <1>3, <1>5, <2>1 DEF B, m
<1>6. CASE m < MaxFails[k]
  BY <1>1, <1>2, <1>6 DEF B, m
<1>7. CASE m <= n + 1 /\ \E h \in A : B \subseteq A \ {h}
  <2>1. PICK h \in A : B \subseteq A \ {h}
    BY <1>7
  <2>2. IsFiniteSet(A \ {h}) /\ Cardinality(A \ {h}) = Cardinality(A) - 1
    BY <1>1, <2>1, FS_RemoveElement
  <2>3. Cardinality(B) <= Cardinality(A \ {h})
    BY <2>1, <2>2, FS_Subset
  <2> QED
    BY <1>1, <1>2, <1>3, <1>7, <2>2, <2>3 DEF B, m
<1> QED
  BY <1>4, <1>5, <1>6, <1>7

(* Only the request of the step can come to count. *)
LEMMA CountingOthers ==
    ASSUME NEW k, NEW h \in Handlers, \A g \in Handlers \ {h} : req'[g] = req[g],
           MayCount(req'[h], k) => MayCount(req[h], k)
    PROVE  Counting(req', k) \subseteq Counting(req, k)
BY DEF Counting

(* A check lets a request count only while its row is below the limit. *)
LEMMA RoomOfCheck ==
    ASSUME TypeOK, RequestsRecent, EntriesOK, NEW h \in Handlers, ReadRow(h) \/ WriteRow(h), NEW k \in Keys
    PROVE  RoomKept(k)
<1> DEFINE r == req[h]
           s == Subject(h)
           fate == Fate(rows'[s], s, Now(h))
<1>1. /\ LoginStep(h) /\ r \in LoginRequest /\ req \in [Handlers -> Request]
      /\ rows \in [Keys -> Entry] /\ rows' \in [Keys -> Entry] /\ s \in Keys
      /\ r.ip # r.user /\ r.now \in Nat
      /\ \A g \in Handlers \ {h} : req'[g] = req[g]
  <2>1. LoginStep(h)
    BY DEF LoginStep, Limit
  <2>2. PICK q : req' = [req EXCEPT ![h] = q]
    BY <2>1, LoginStepMoves
  <2>3. r \in LoginRequest
    BY <2>1, LoginStepMoves
  <2> QED
    BY <2>1, <2>2, <2>3, RowsNext, Subjects DEF TypeOK, EntryTable, Subject, Ip, User, LoginRequest
<1>2. /\ r.at \in {"check ip", "check user"}
      /\ r.at = "check ip" => s = r.ip
      /\ r.at = "check user" => s = r.user
  BY DEF ReadRow, WriteRow, Subject, Ip, User
<1> HIDE DEF s, fate
(* a request that passes can count against its subject, and only there anew *)
<1>3. ASSUME NEW f, req'[h] = [r EXCEPT !.at = Passed(h), !.fate = f] \/ req'[h] = [r EXCEPT !.at = Passed(h)],
             MayCount(req'[h], k)
      PROVE  k = s \/ MayCount(r, k)
  <2>1. CASE r.at = "check ip"
    <3>1. req'[h].at = "check user" /\ req'[h].ip = r.ip
      BY <1>1, <1>3, <2>1 DEF Passed, LoginRequest
    <3> QED
      BY <1>2, <1>3, <2>1, <3>1 DEF MayCount
  <2>2. CASE r.at = "check user"
    <3>1. req'[h].ip = r.ip /\ req'[h].user = r.user /\ req'[h].form = r.form
      BY <1>1, <1>3 DEF LoginRequest
    <3> QED
      BY <1>1, <1>2, <1>3, <2>2, <3>1 DEF MayCount
  <2> QED
    BY <1>2, <2>1, <2>2
<1>4. CASE req'[h] = Idle \/ \E f : req'[h] = [r EXCEPT !.fate = f]
  <2>1. ASSUME MayCount(req'[h], k) PROVE MayCount(r, k)
    <3>1. req'[h] # Idle
      BY <2>1, IdleCounts
    <3>2. PICK f : req'[h] = [r EXCEPT !.fate = f]
      BY <1>4, <3>1
    <3>3. /\ req'[h].at = r.at /\ req'[h].form = r.form
          /\ req'[h].ip = r.ip /\ req'[h].user = r.user
      BY <1>1, <3>2 DEF LoginRequest
    <3> QED
      BY <1>1, <2>1, <3>3 DEF MayCount
  <2>2. Counting(req', k) \subseteq Counting(req, k)
    BY <1>1, <2>1, CountingOthers
  <2>3. rows'[k].count <= rows[k].count
    <3>1. CASE ReadRow(h)
      <4>1. rows'[k] \in {rows[k], Fresh}
        BY <1>1, <3>1, TablesAre, CleanedOK DEF ReadRow, EntryTable, Tables, TypeOK
      <4> QED
        BY <1>1, <4>1 DEF Fresh, Entry
    <3>2. CASE WriteRow(h)
      <4>1. \/ rows' = [rows EXCEPT ![s] = [Fresh EXCEPT !.updated = Now(h)]]
            \/ rows' = [rows EXCEPT ![s] = [rows[s] EXCEPT !.locked = Now(h) + Lockout, !.updated = Now(h)]]
        BY <1>1, <3>2 DEF WriteRow, s
      <4>2. CASE k # s
        BY <1>1, <4>1, <4>2 DEF Entry
      <4>3. CASE k = s
        <5>1. \/ rows'[k] = [Fresh EXCEPT !.updated = Now(h)]
              \/ rows'[k] = [rows[k] EXCEPT !.locked = Now(h) + Lockout, !.updated = Now(h)]
          BY <1>1, <4>1, <4>3
        <5>2. rows'[k].count = rows[k].count \/ rows'[k].count = 0
          BY <1>1, <5>1 DEF Fresh, Entry
        <5> QED
          BY <1>1, <5>2 DEF Entry
      <4> QED
        BY <4>2, <4>3
    <3> QED
      BY <3>1, <3>2
  <2> QED
    BY <2>2, <2>3 DEF RoomKept
<1>5. CASE ReadRow(h)
  <2>1. /\ fate = "pass" => req'[h] = [r EXCEPT !.at = Passed(h)]
        /\ fate = "refuse" => req'[h] = Idle
        /\ fate \notin {"pass", "refuse"} => req'[h] = [r EXCEPT !.fate = fate]
    BY <1>1, <1>5 DEF ReadRow, Step, Finish, s, fate
  <2>2. CASE fate = "pass"
    <3>1. rows'[s].count < MaxFails[s]
      BY <1>1, <2>2, Limits DEF fate, Fate, Entry
    <3>2. CASE k = s
      BY <3>1, <3>2 DEF RoomKept
    <3>3. CASE k # s
      <4>1. rows'[k] \in {rows[k], Fresh}
        BY <1>1, <1>5, TablesAre, CleanedOK DEF ReadRow, EntryTable, Tables, TypeOK
      <4>2. rows'[k].count <= rows[k].count
        BY <1>1, <4>1 DEF Fresh, Entry
      <4>3. Counting(req', k) \subseteq Counting(req, k)
        BY <1>1, <1>3, <2>1, <2>2, <3>3, CountingOthers
      <4> QED
        BY <4>2, <4>3 DEF RoomKept
    <3> QED
      BY <3>2, <3>3
  <2> QED
    BY <1>4, <2>1, <2>2
<1>6. CASE WriteRow(h)
  <2>1. \/ /\ rows' = [rows EXCEPT ![s] = [Fresh EXCEPT !.updated = Now(h)]]
           /\ req' = [req EXCEPT ![h].at = Passed(h), ![h].fate = ""]
        \/ Finish(h)
    BY <1>6 DEF WriteRow, s
  <2>2. CASE /\ rows' = [rows EXCEPT ![s] = [Fresh EXCEPT !.updated = Now(h)]]
             /\ req' = [req EXCEPT ![h].at = Passed(h), ![h].fate = ""]
    <3>1. req'[h] = [r EXCEPT !.at = Passed(h), !.fate = ""]
      BY <1>1, <2>2
    <3>2. CASE k = s
      <4>1. rows'[k].count = 0
        BY <1>1, <2>2, <3>2 DEF Fresh
      <4> QED
        BY <4>1, Limits DEF RoomKept
    <3>3. CASE k # s
      <4>1. rows'[k] = rows[k]
        BY <1>1, <2>2, <3>3
      <4>2. rows'[k].count <= rows[k].count
        BY <1>1, <4>1 DEF Entry
      <4>3. Counting(req', k) \subseteq Counting(req, k)
        BY <1>1, <1>3, <3>1, <3>3, CountingOthers
      <4> QED
        BY <4>2, <4>3 DEF RoomKept
    <3> QED
      BY <3>2, <3>3
  <2>3. CASE Finish(h)
    BY <1>1, <1>4, <2>3 DEF Finish
  <2> QED
    BY <2>1, <2>2, <2>3
<1> QED
  BY <1>5, <1>6

(* A failure that is counted stops counting before it is counted. *)
LEMMA RoomOfCount ==
    ASSUME TypeOK, RequestsRecent, EntriesOK, NEW h \in Handlers, CountFailure(h), NEW k \in Keys
    PROVE  RoomKept(k)
<1> DEFINE r == req[h]
           s == IF r.at = "count ip" THEN r.ip ELSE r.user
<1>1. /\ LoginStep(h) /\ r \in LoginRequest /\ req \in [Handlers -> Request]
      /\ rows \in [Keys -> Entry] /\ s \in Keys /\ r.ip # r.user
      /\ Recent(r.now, clock) /\ EntryOK(rows[s], s, clock)
      /\ r.at \in {"count ip", "count user"}
  <2>1. LoginStep(h) /\ r.at \in {"count ip", "count user"}
    BY DEF LoginStep, Outcome, CountFailure
  <2>2. r \in LoginRequest /\ Busy(h)
    BY <2>1, LoginStepMoves
  <2>3. r.ip \in Keys /\ r.user \in Keys /\ r.ip # r.user
    BY <2>2, AccessAssumption DEF LoginRequest
  <2> QED
    BY <2>1, <2>2, <2>3 DEF TypeOK, RequestsRecent, EntriesOK, Now
<1>2. /\ rows' = [rows EXCEPT ![s] = SharedFailure(rows[s], s, r.now)] \/ rows' = rows
      /\ IF r.at = "count ip" THEN Step(h, "count user") ELSE Finish(h)
  BY <1>1 DEF CountFailure, Ip, User, Now
<1>3. /\ \A g \in Handlers \ {h} : req'[g] = req[g]
      /\ IF r.at = "count ip" THEN req'[h] = [r EXCEPT !.at = "count user"] ELSE req'[h] = Idle
  BY <1>1, <1>2 DEF Step, Finish
<1>4. MayCount(r, s)
  BY <1>1 DEF MayCount
<1>5. ASSUME MayCount(req'[h], k) PROVE k # s /\ MayCount(r, k)
  <2>1. req'[h] # Idle
    BY <1>5, IdleCounts
  <2>2. r.at = "count ip" /\ req'[h] = [r EXCEPT !.at = "count user"]
    BY <1>3, <2>1
  <2>3. req'[h].at = "count user" /\ req'[h].ip = r.ip /\ req'[h].user = r.user
    BY <1>1, <2>2 DEF LoginRequest
  <2>4. k = r.user
    BY <1>5, <2>3 DEF MayCount
  <2> QED
    BY <1>1, <2>2, <2>4 DEF MayCount
<1> HIDE DEF s
<1>6. Counting(req', k) \subseteq Counting(req, k)
  BY <1>3, <1>5, CountingOthers
<1>9. rows[k].count \in Nat
  BY <1>1 DEF Entry
<1>7. CASE k = s
  <2>1. h \in Counting(req, k) /\ h \notin Counting(req', k)
    BY <1>4, <1>5, <1>7 DEF Counting
  <2>2. Counting(req', k) \subseteq Counting(req, k) \ {h}
    BY <1>6, <2>1
  <2>3. rows'[k].count <= rows[k].count + 1
    <3>1. CASE rows' = rows
      BY <1>9, <3>1
    <3>2. CASE rows' = [rows EXCEPT ![s] = SharedFailure(rows[s], s, r.now)]
      <4> DEFINE x == SharedFailure(rows[s], s, r.now)
      <4>4. Recent(r.now, clock) /\ EntryOK(rows[s], s, clock) /\ s \in Keys
        BY <1>1
      <4>5. \/ x.first = rows[s].first /\ x.count = rows[s].count + 1
            \/ x.first # rows[s].first /\ x.count = 1
        BY <4>4, SharedFailureOK
      <4>1. x.count = rows[s].count + 1 \/ x.count = 1
        BY <4>5
      <4>3. rows' = [rows EXCEPT ![s] = x]
        BY <3>2
      <4> HIDE DEF x
      <4>2. rows'[k] = x
        BY <1>1, <1>7, <4>3
      <4> QED
        BY <1>7, <1>9, <4>1, <4>2
    <3> QED
      BY <1>2, <3>1, <3>2
  <2> QED
    BY <2>1, <2>2, <2>3 DEF RoomKept
<1>8. CASE k # s
  <2>1. rows'[k] = rows[k]
    BY <1>1, <1>2, <1>8
  <2>2. rows'[k].count <= rows[k].count
    BY <1>9, <2>1
  <2> QED
    BY <1>6, <2>2 DEF RoomKept
<1> QED
  BY <1>7, <1>8

LEMMA NoFuller ==
    ASSUME NEW e \in Entry, NEW f \in {e, Fresh}
    PROVE  f.count <= e.count
BY DEF Entry, Fresh

(* The other steps of a login count nothing and let nothing count. *)
LEMMA RoomOfOutcome ==
    ASSUME TypeOK, NEW h \in Handlers, NEW k \in Keys,
           CheckLocal(h) \/ WrongPassword(h) \/ RightPassword(h) \/ ClearAndSignIn(h),
           req[h].form => req[h].at # "check local"
    PROVE  RoomKept(k)
<1> DEFINE r == req[h]
<1>1. /\ LoginStep(h) /\ r \in LoginRequest /\ req \in [Handlers -> Request]
      /\ rows \in [Keys -> Entry]
  <2>1. LoginStep(h)
    BY DEF LoginStep, Limit, Outcome
  <2> QED
    BY <2>1, LoginStepMoves DEF TypeOK
<1>2. rows'[k].count <= rows[k].count
  <2>1. rows'[k] = rows[k] \/ rows'[k] = Fresh
    <3>1. rows' = rows \/ rows' = [j \in Keys |-> IF j \in {Ip(h), User(h)} THEN Fresh ELSE rows[j]]
      BY DEF CheckLocal, WrongPassword, RightPassword, ClearAndSignIn
    <3> QED
      BY <3>1
  <2>2. rows[k] \in Entry /\ rows'[k] \in {rows[k], Fresh}
    BY <1>1, <2>1
  <2> QED
    BY <2>2, NoFuller
<1>3. \/ Finish(h)
      \/ r.at = "check local" /\ Step(h, "compare")
      \/ r.at = "compare" /\ r.form /\ Step(h, "count ip")
      \/ r.at = "compare" /\ Step(h, "clear")
  BY DEF CheckLocal, WrongPassword, RightPassword, ClearAndSignIn
<1>4. \A g \in Handlers \ {h} : req'[g] = req[g]
  BY <1>1, <1>3 DEF Step, Finish
<1>5. ASSUME MayCount(req'[h], k) PROVE MayCount(r, k)
  <2>1. req'[h] # Idle
    BY <1>5, IdleCounts
  <2>2. PICK l \in {"compare", "count ip", "clear"} :
           /\ req'[h] = [r EXCEPT !.at = l]
           /\ \/ r.at = "check local" /\ l = "compare"
              \/ r.at = "compare" /\ r.form /\ l = "count ip"
              \/ r.at = "compare" /\ l = "clear"
    BY <1>1, <1>3, <2>1 DEF Step, Finish
  <2>3. /\ req'[h].at = l /\ req'[h].form = r.form
        /\ req'[h].ip = r.ip /\ req'[h].user = r.user
    BY <1>1, <2>2 DEF LoginRequest
  <2>4. l = "count ip" /\ r.at = "compare" /\ r.form
    BY <1>5, <2>2, <2>3 DEF MayCount
  <2> QED
    BY <1>1, <1>5, <2>3, <2>4 DEF MayCount
<1>6. Counting(req', k) \subseteq Counting(req, k)
  BY <1>4, <1>5, CountingOthers
<1> QED
  BY <1>2, <1>6 DEF RoomKept

(* What the other actions leave as it was. *)
LEMMA RoomUntouched ==
    ASSUME NEW k \in Keys, rows \in [Keys -> Entry], rows' = rows,
           \A h \in Handlers : MayCount(req'[h], k) => MayCount(req[h], k)
    PROVE  RoomKept(k)
<1>1. rows'[k].count <= rows[k].count
  BY DEF Entry
<1>2. Counting(req', k) \subseteq Counting(req, k)
  BY DEF Counting
<1> QED
  BY <1>1, <1>2 DEF RoomKept

LEMMA FaultsGrow ==
    ASSUME TypeOK, [Next]_vars
    PROVE  faults <= faults' /\ faults' \in Nat
<1>1. faults \in Nat
  BY DEF TypeOK
<1>2. faults' = faults \/ faults' = faults + 1
  <2>1. ASSUME NEW h \in Handlers, BeginLogin(h) \/ BeginSession(h) \/ Limit(h)
        PROVE  faults' = faults \/ faults' = faults + 1
    <3>1. CASE BeginLogin(h) \/ BeginSession(h)
      BY <3>1 DEF BeginLogin, BeginSession, Arrive
    <3>2. CASE ReadRow(h) \/ WriteRow(h)
      BY <3>2 DEF ReadRow, WriteRow, Answers, counters
    <3>3. CASE FallBack(h) \/ CheckLocal(h)
      BY <3>3 DEF FallBack, CheckLocal, Fails, counters
    <3> QED
      BY <2>1, <3>1, <3>2, <3>3 DEF Limit
  <2>2. ASSUME NEW h \in Handlers, Outcome(h)
        PROVE  faults' = faults \/ faults' = faults + 1
    <3>1. CASE WrongPassword(h) \/ CountFailure(h)
      BY <3>1 DEF WrongPassword, CountFailure, Answers, Fails, counters
    <3>2. CASE RightPassword(h) \/ ClearAndSignIn(h)
      BY <3>2 DEF RightPassword, ClearAndSignIn, Answers, Fails, counters
    <3> QED
      BY <2>2, <3>1, <3>2 DEF Outcome
  <2>3. ASSUME NEW h \in Handlers, Session(h)
        PROVE  faults' = faults \/ faults' = faults + 1
    <3>1. CASE VerifyLocally(h) \/ LookUp(h) \/ Served(h)
      BY <3>1 DEF VerifyLocally, LookUp, Served, Answers, Fails, counters
    <3>2. CASE RevokeLocally(h) \/ StoreRevocation(h)
      BY <3>2 DEF RevokeLocally, StoreRevocation, Answers, Fails, counters
    <3> QED
      BY <2>3, <3>1, <3>2 DEF Session
  <2>4. CASE (\E s \in Servers : Restart(s)) \/ CleanRevocations \/ Tick \/ UNCHANGED vars
    BY <2>4 DEF Restart, CleanRevocations, Tick, counters, vars
  <2> QED
    BY <2>1, <2>2, <2>3, <2>4 DEF Next
<1> QED
  BY <1>1, <1>2

LEMMA RoomNext ==
    ASSUME TypeOK, TypeOK', RequestsRecent, EntriesOK, RoomLeft, [Next]_vars
    PROVE  RoomLeft'
<1> SUFFICES ASSUME faults' = 0
    PROVE  /\ \A h \in Handlers :
                 req'[h] \in LoginRequest /\ req'[h].form => req'[h].at # "check local"
           /\ \A k \in Keys : rows'[k].count + Cardinality(Counting(req', k))
                                <= MaxFails[k] + Cardinality(Handlers) - 1
  BY DEF RoomLeft
<1>1. /\ faults = 0
      /\ req \in [Handlers -> Request] /\ rows \in [Keys -> Entry] /\ rows' \in [Keys -> Entry]
  BY FaultsGrow DEF TypeOK
<1>2. /\ \A h \in Handlers : req[h] \in LoginRequest /\ req[h].form => req[h].at # "check local"
      /\ \A k \in Keys : rows[k].count + Cardinality(Counting(req, k))
                            <= MaxFails[k] + Cardinality(Handlers) - 1
  BY <1>1 DEF RoomLeft
<1> DEFINE Decided(r) == r \in LoginRequest /\ r.form => r.at # "check local"
<1>3. ASSUME NEW h \in Handlers, LoginStep(h)
      PROVE  /\ \A g \in Handlers : Decided(req'[g])
             /\ \A k \in Keys : RoomKept(k)
  <2>1. req[h] \in LoginRequest
    BY <1>3, LoginStepMoves
  <2>2. ~FallBack(h)
    BY <1>1 DEF FallBack, Fails
  <2>3. \A g \in Handlers : Decided(req'[g])
    <3>1. PICK r \in LoginRequest \union {Idle} :
             /\ req' = [req EXCEPT ![h] = r]
             /\ r # Idle => r = [req[h] EXCEPT !.at = r.at, !.fate = r.fate]
      BY <1>3, LoginStepMoves
    <3>2. req'[h].at # "check local" \/ req'[h].at = req[h].at
      <4>1. \/ Finish(h)
            \/ \E l \in LoginPhases \ {"check local"} : Step(h, l)
            \/ \E f : req' = [req EXCEPT ![h].fate = f]
            \/ \E l \in LoginPhases \ {"check local"} : req' = [req EXCEPT ![h].at = l, ![h].fate = ""]
        <5>1. Passed(h) \in LoginPhases \ {"check local"}
          BY DEF Passed, LoginPhases
        <5>2. CASE ReadRow(h)
          <6> DEFINE fate == Fate(rows'[Subject(h)], Subject(h), Now(h))
          <6>1. /\ fate = "pass" => Step(h, Passed(h))
                /\ fate = "refuse" => Finish(h)
                /\ fate \notin {"pass", "refuse"} => req' = [req EXCEPT ![h].fate = fate]
            BY <5>2 DEF ReadRow
          <6> HIDE DEF fate
          <6> QED
            BY <5>1, <6>1
        <5>3. CASE WriteRow(h)
          BY <5>1, <5>3 DEF WriteRow
        <5>4. CASE CheckLocal(h) \/ Outcome(h)
          BY <5>4 DEF CheckLocal, Outcome, WrongPassword, CountFailure, RightPassword,
                      ClearAndSignIn, LoginPhases
        <5> QED
          BY <1>3, <2>2, <5>2, <5>3, <5>4 DEF LoginStep, Limit
      <4>2. \/ req'[h] = Idle
            \/ \E l \in LoginPhases \ {"check local"} : req'[h] = [req[h] EXCEPT !.at = l]
            \/ \E f : req'[h] = [req[h] EXCEPT !.fate = f]
            \/ \E l \in LoginPhases \ {"check local"} : req'[h] = [req[h] EXCEPT !.at = l, !.fate = ""]
        BY <1>1, <4>1 DEF Finish, Step
      <4>3. \A l : /\ [req[h] EXCEPT !.at = l].at = l
                   /\ [req[h] EXCEPT !.fate = l].at = req[h].at
                   /\ [req[h] EXCEPT !.at = l, !.fate = ""].at = l
        BY <2>1 DEF LoginRequest
      <4>4. Idle.at = "idle"
        BY DEF Idle
      <4> QED
        BY <4>2, <4>3, <4>4, ZenonT(30)
    <3>3. req'[h] \in LoginRequest => req'[h].form = req[h].form
      <4>1. Idle \notin LoginRequest
        BY DEF Idle, LoginRequest, LoginPhases
      <4> QED
        BY <1>1, <2>1, <3>1, <4>1 DEF LoginRequest
    <3>4. Decided(req'[h])
      BY <1>2, <2>1, <3>2, <3>3
    <3>5. \A g \in Handlers \ {h} : req'[g] = req[g]
      BY <1>1, <3>1
    <3> QED
      BY <1>2, <3>4, <3>5
  <2>4. ASSUME NEW k \in Keys PROVE RoomKept(k)
    <3>1. CASE ReadRow(h) \/ WriteRow(h)
      BY <3>1, RoomOfCheck
    <3>2. CASE CountFailure(h)
      BY <3>2, RoomOfCount
    <3>3. CASE CheckLocal(h) \/ WrongPassword(h) \/ RightPassword(h) \/ ClearAndSignIn(h)
      BY <1>2, <2>1, <3>3, RoomOfOutcome
    <3> QED
      BY <1>3, <2>2, <3>1, <3>2, <3>3 DEF LoginStep, Limit, Outcome
  <2> QED
    BY <2>3, <2>4
<1>4. ASSUME NEW h \in Handlers, BeginLogin(h) \/ BeginSession(h)
      PROVE  /\ \A g \in Handlers : Decided(req'[g])
             /\ \A k \in Keys : RoomKept(k)
  <2>1. /\ rows' = rows /\ \A g \in Handlers \ {h} : req'[g] = req[g]
    BY <1>1, <1>4, BeginMoves
  <2>2. Decided(req'[h]) /\ \A k : ~MayCount(req'[h], k)
    <3>1. CASE BeginLogin(h)
      <4>1. PICK s \in Servers, ip \in Addresses, user \in Users, good \in BOOLEAN,
                 form \in BOOLEAN :
               Arrive(h, [at |-> IF form THEN "check ip" ELSE "check local", form |-> form,
                          server |-> s, ip |-> ip, user |-> user, good |-> good, now |-> clock,
                          fate |-> ""],
                      IF form THEN RunOut(ip, user) ELSE {})
        BY <3>1 DEF BeginLogin
      <4>2. /\ req'[h].at = (IF form THEN "check ip" ELSE "check local")
            /\ req'[h].form = form
        BY <1>1, <4>1 DEF Arrive
      <4> QED
        BY <4>2 DEF MayCount
    <3>2. CASE BeginSession(h)
      <4>1. req'[h].at \in {"verify", "revoke"}
        BY <1>1, <3>2 DEF BeginSession, Arrive
      <4> QED
        BY <4>1 DEF MayCount
    <3> QED
      BY <1>4, <3>1, <3>2
  <2>3. \A k \in Keys : RoomKept(k)
    BY <1>1, <2>1, <2>2, RoomUntouched
  <2> QED
    BY <1>2, <2>1, <2>2, <2>3
<1>5. ASSUME NEW h \in Handlers, Session(h)
      PROVE  /\ \A g \in Handlers : Decided(req'[g])
             /\ \A k \in Keys : RoomKept(k)
  <2>1. PICK r \in SessionRequest \union {Idle} : req' = [req EXCEPT ![h] = r]
    BY <1>5, SessionMoves
  <2>2. rows' = rows
    BY <1>5, SessionMoves DEF limits
  <2>3. Decided(req'[h]) /\ \A k : ~MayCount(req'[h], k)
    <3>1. r.at \notin LoginPhases
      <4>1. r.at \in SessionPhases \/ r.at = "idle"
        BY <2>1 DEF SessionRequest, Idle
      <4> QED
        BY <4>1 DEF SessionPhases, LoginPhases
    <3>2. req'[h] = r
      BY <1>1, <2>1
    <3> QED
      BY <3>1, <3>2 DEF MayCount, LoginPhases
  <2>4. \A g \in Handlers \ {h} : req'[g] = req[g]
    BY <1>1, <2>1
  <2>5. \A k \in Keys : RoomKept(k)
    BY <1>1, <2>2, <2>3, <2>4, RoomUntouched
  <2> QED
    BY <1>2, <2>3, <2>4, <2>5
<1>6. ASSUME NEW s \in Servers PROVE ~Restart(s)
  BY <1>1 DEF Restart
<1>7. CASE CleanRevocations \/ Tick \/ UNCHANGED vars
  <2>1. UNCHANGED <<req, rows>>
    BY <1>7 DEF CleanRevocations, Tick, vars, limits
  <2>2. \A k \in Keys : RoomKept(k)
    BY <1>1, <2>1, RoomUntouched
  <2>3. \A h \in Handlers : Decided(req'[h])
    BY <1>2, <2>1
  <2> QED
    BY <1>1, <1>2, <2>2, <2>3, RoomStep
<1>8. CASE UNCHANGED vars \/ Next
  <2>1. \/ (\A g \in Handlers : Decided(req'[g])) /\ (\A k \in Keys : RoomKept(k))
        \/ CleanRevocations \/ Tick \/ UNCHANGED vars
    BY <1>3, <1>4, <1>5, <1>6, <1>8 DEF Next, LoginStep
  <2> QED
    BY <1>1, <1>2, <1>7, <2>1, RoomStep
<1> QED
  BY <1>8

-----------------------------------------------------------------------------
(* The theorems *)

(* What holds between any two steps: types, requests of this tick or the   *)
(* last, locks that outlast their windows, sessions as their history says, *)
(* bars that stand until somebody ends their window, room for the attempts *)
(* under way.                                                              *)
AccessInv ==
    /\ TypeOK
    /\ RequestsRecent
    /\ EntriesOK
    /\ SessionsOK
    /\ BarsStand
    /\ RoomLeft

LEMMA AccessInit == Init => AccessInv
<1> SUFFICES ASSUME Init PROVE AccessInv
  OBVIOUS
<1>1. TypeOK /\ RequestsRecent
  <2>1. Fresh \in Entry
    BY DEF Fresh, Entry
  <2>2. /\ clock \in Nat \ {0} /\ faults \in Nat
        /\ revoked \subseteq Servers
    BY DEF Init
  <2>7. revocation \in BOOLEAN
    BY DEF Init
  <2>6. bars \in [Handlers -> SUBSET Keys]
    BY DEF Init
  <2>5. local \in [Servers -> [Keys -> Entry]] /\ rows \in [Keys -> Entry]
    BY <2>1 DEF Init
  <2>3. session \in [expires : Nat]
    BY DEF Init, NoSession
  <2>4. req \in [Handlers -> Request] /\ \A h \in Handlers : req[h].at = "idle"
    BY DEF Init, Request, Idle
  <2> QED
    BY <2>2, <2>3, <2>4, <2>5, <2>6, <2>7 DEF TypeOK, RequestsRecent, Busy
<1>2. EntriesOK
  <2>1. clock \in Nat /\ \A k \in Keys : rows[k] = Fresh /\ \A s \in Servers : local[s][k] = Fresh
    BY DEF Init
  <2> QED
    BY <2>1, FreshOK DEF EntriesOK
<1>3. SessionsOK
  <2>1. \A h \in Handlers : req[h].at = "idle"
    BY DEF Init, Idle
  <2> QED
    BY <2>1 DEF SessionsOK, SessionOK, SessionPhases
<1>4. BarsStand
  BY NoBars DEF Init, BarsStand
<1>5. RoomLeft
  <2>1. \A h \in Handlers : req[h].at = "idle"
    BY DEF Init, Idle
  <2>2. \A k : Counting(req, k) = {}
    BY <2>1 DEF Counting, MayCount
  <2>3. \A k \in Keys : rows[k].count = 0 /\ MaxFails[k] \in Nat /\ MaxFails[k] > 1
    BY Limits DEF Init, Fresh
  <2>4. Cardinality({}) = 0 /\ Cardinality(Handlers) \in Nat
    BY AccessAssumption, FS_EmptySet, FS_CardinalityType
  <2>5. \A k \in Keys :
           rows[k].count + Cardinality(Counting(req, k)) <= MaxFails[k] + Cardinality(Handlers) - 1
    <3> TAKE k \in Keys
    <3>1. Cardinality(Counting(req, k)) = 0
      BY <2>2, <2>4
    <3>2. \A m, n \in Nat : m > 1 => 0 + 0 <= m + n - 1
      OBVIOUS
    <3> QED
      BY <2>3, <2>4, <3>1, <3>2
  <2> QED
    BY <2>1, <2>5 DEF RoomLeft
<1> QED
  BY <1>1, <1>2, <1>3, <1>4, <1>5 DEF AccessInv

LEMMA AccessNext == AccessInv /\ [Next]_vars => AccessInv'
BY TypesNext, SessionsNext, BarsStandNext, RoomNext DEF AccessInv

(* The limiter and the revocations keep AccessInv whatever the handlers do *)
(* and whichever calls of the database fail.                               *)
THEOREM AccessInvariance == Spec => []AccessInv
<1>1. Init => AccessInv
  BY AccessInit
<1>2. AccessInv /\ [Next]_vars => AccessInv'
  BY AccessNext
<1> QED
  BY <1>1, <1>2, PTL DEF Spec

(* No form passes to the comparison of the password on any server while an *)
(* address or a name whose attempts had run out when it was sent is still  *)
(* in the window it ran out in.                                            *)
THEOREM LockoutHoldsAlways == Spec => []LockoutHolds
<1>1. AccessInv => LockoutHolds
  BY DEF AccessInv, BarsStand, StandingOK, LockoutHolds
<1> QED
  BY <1>1, AccessInvariance, PTL

(* Attempts that overlap pass the limit of login_attempt_limits by fewer   *)
(* than there are handlers, while the database answers.                    *)
THEOREM NoOverrunHolds == Spec => []NoOverrun
<1>1. AccessInv => NoOverrun
  <2> SUFFICES ASSUME AccessInv, faults = 0, NEW k \in Keys
               PROVE  rows[k].count <= MaxFails[k] + Cardinality(Handlers) - 1
    BY DEF NoOverrun
  <2>1. rows[k].count + Cardinality(Counting(req, k)) <= MaxFails[k] + Cardinality(Handlers) - 1
    BY DEF AccessInv, RoomLeft
  <2>2. /\ rows[k].count \in Nat /\ MaxFails[k] \in Nat
        /\ Cardinality(Counting(req, k)) \in Nat /\ Cardinality(Handlers) \in Nat
    BY Limits, CountingFinite DEF AccessInv, TypeOK, Entry
  <2> DEFINE n == Cardinality(Counting(req, k))
             m == rows[k].count
  <2> HIDE DEF n, m
  <2> QED
    BY <2>1, <2>2 DEF n, m
<1> QED
  BY <1>1, AccessInvariance, PTL

(* A lock, in memory or in the database, is over at the time it names: the *)
(* check at that time finds the window reset or room in it.                *)
THEOREM LocksEndHolds == Spec => []LocksEnd
<1>1. AccessInv => LocksEnd
  <2> SUFFICES ASSUME AccessInv, NEW k \in Keys
               PROVE  /\ rows[k].locked # 0 => Fate(rows[k], k, rows[k].locked) \in {"reset", "pass"}
                      /\ \A s \in Servers : local[s][k].locked # 0 => ~Full(local[s], k, local[s][k].locked)
    BY DEF LocksEnd
  <2>1. EntryOK(rows[k], k, clock) /\ \A s \in Servers : EntryOK(local[s][k], k, clock)
    BY DEF AccessInv, EntriesOK
  <2> QED
    BY <2>1, EndsFound
<1> QED
  BY <1>1, AccessInvariance, PTL

(* A logout on record is obeyed by every request that begins later where   *)
(* the record reaches, up to the second in which the token expires.        *)
THEOREM LogoutSticksHolds == Spec => []LogoutSticks
<1>1. AccessInv => LogoutSticks
  BY DEF AccessInv, SessionsOK, SessionOK, SessionPhases, LogoutSticks
<1> QED
  BY <1>1, AccessInvariance, PTL
=============================================================================

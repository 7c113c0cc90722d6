---------------------------- MODULE LoginLimiter ----------------------------
(***************************************************************************)
(* The login limiter as a calculation: what a check answers and what a     *)
(* failure and a clean-up make of an entry.  Each server keeps entries in  *)
(* memory, and the servers share rows of login_attempt_limits; the two     *)
(* calculations differ, and both are given.  Times are ticks from 1; 0 is  *)
(* Go's zero time and SQL's NULL.  An absent entry and an absent row are   *)
(* Fresh: neither limiter tells them from one that was reset.              *)
(***************************************************************************)
EXTENDS Integers

CONSTANTS
    Keys,       (* what is counted: client addresses and user names        *)
    MaxFails,   (* MaxFails[k]: failures in a window that lock k           *)
    Window,     (* loginWindow                                             *)
    Lockout     (* loginLockoutDuration                                    *)

(* A request carries the time at which it began, at most one tick ago.     *)
ASSUME LimiterAssumption ==
    /\ MaxFails \in [Keys -> Nat \ {0, 1}]
    /\ Window \in Nat \ {0} /\ Lockout \in Nat
    /\ Lockout > Window + 1

Fresh == [count |-> 0, first |-> 0, locked |-> 0, updated |-> 0]

WindowOver(e, t) == e.first = 0 \/ t - e.first > Window

-----------------------------------------------------------------------------
(* In memory *)

(* Mutant: the count survives its window. *)
RestartWindow(e, t) == IF WindowOver(e, t) THEN [e EXCEPT !.first = 0] ELSE e

(* A lock outlives the window it was made in. *)
ResetWindowIfExpired(e, t) ==
    IF WindowOver(e, t) THEN [e EXCEPT !.count = 0, !.first = 0] ELSE e

Gc(m, t) ==
    [k \in Keys |-> IF m[k].locked < t /\ (m[k].first = 0 \/ m[k].first < t - 2 * Window)
                    THEN Fresh ELSE m[k]]

Full(m, k, t) == ResetWindowIfExpired(m[k], t).count >= MaxFails[k]

LocalAllows(m, ip, user, t) ==
    \A k \in {ip, user} : t >= m[k].locked /\ ~Full(m, k, t)

(* A check that finds a full entry without a lock locks it. *)
LocalAfterCheck(m, ip, user, t) ==
    LET lock == {k \in {ip, user} : Full(m, k, t)}
        one == IF ip \in lock THEN ip ELSE user
    IN  IF lock = {} \/ \E k \in {ip, user} : t < m[k].locked
        THEN m
        ELSE [m EXCEPT ![one] = [ResetWindowIfExpired(@, t) EXCEPT !.locked = t + Lockout]]

LocalFailure(e, k, t) ==
    LET r == ResetWindowIfExpired(e, t)
    IN  [r EXCEPT !.count = @ + 1,
                  !.first = IF @ = 0 THEN t ELSE @,
                  !.locked = IF r.count + 1 >= MaxFails[k] THEN t + Lockout ELSE @]

LocalAfterFailure(m, ip, user, t) ==
    [k \in Keys |-> IF k \in {ip, user} THEN LocalFailure(m[k], k, t) ELSE m[k]]

-----------------------------------------------------------------------------
(* In the database *)

Cleanup(rows, t) ==
    [k \in Keys |-> IF rows[k].locked < t /\ rows[k].updated < t - 2 * Window
                    THEN Fresh ELSE rows[k]]

(* What a check does with the row it reads: here the window is looked at   *)
(* before the lock, so the lock goes with its window.                      *)
Fate(e, k, t) ==
    IF e.first # 0 /\ t - e.first > Window THEN "reset"
    ELSE IF t < e.locked THEN "refuse"
    ELSE IF e.count >= MaxFails[k] THEN "lock"
    ELSE "pass"

SharedFailure(e, k, t) ==
    [count |-> IF WindowOver(e, t) THEN 1 ELSE e.count + 1,
     first |-> IF WindowOver(e, t) THEN t ELSE e.first,
     locked |-> IF WindowOver(e, t) THEN 0
                ELSE IF e.count + 1 >= MaxFails[k] THEN t + Lockout ELSE e.locked,
     updated |-> t]
=============================================================================

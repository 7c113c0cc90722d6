------------------------------ MODULE MCAccess ------------------------------
(* Finite instances of Access. *)
EXTENDS Access, TLC

CONSTANTS s1, s2, h1, h2, ip1, u1

TwoServers == {s1, s2}
TwoHandlers == {h1, h2}
OneAddress == {ip1}
OneUser == {u1}
AllKeys == {ip1, u1}
Alike == Permutations(TwoServers) \union Permutations(TwoHandlers)
Limits == [k \in AllKeys |-> IF k = u1 THEN 2 ELSE 3]
=============================================================================

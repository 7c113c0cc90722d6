----------------------------- MODULE MCLldpScan -----------------------------
(* Finite instances of LldpScan. *)
EXTENDS LldpScan, TLC

CONSTANTS d1, d2, switch, phone

TwoDevices == <<d1, d2>>

(* Two indices of one port and one of another. *)
ThreeKeys == {[port |-> 1, index |-> 1], [port |-> 1, index |-> 2], [port |-> 2, index |-> 1]}
MCNeighbors == {switch, phone}
Switch == {switch}
Phone == {phone}

First == [port |-> 1, index |-> 1]

(* A switch at two indices of one port and a phone; a phone alone. *)
MCInitially ==
    {(d1 :> [k \in ThreeKeys |-> IF k.port = 1 THEN switch ELSE phone])
        @@ (d2 :> [k \in ThreeKeys |-> IF k = First THEN phone ELSE Nothing])}
MCMovable ==
    {[device |-> d1, key |-> First], [device |-> d1, key |-> [port |-> 2, index |-> 1]]}
=============================================================================

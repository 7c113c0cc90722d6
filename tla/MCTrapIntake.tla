---------------------------- MODULE MCTrapIntake ----------------------------
(* The instance of TrapIntake: the two OIDs of a link's traps, a mapping   *)
(* for each, and others that take their place or come after them.          *)
EXTENDS TrapIntake

LinkDown == "1.3.6.1.6.3.1.1.5.3"
LinkUp == "1.3.6.1.6.3.1.1.5.4"
LinkOids == {LinkDown, LinkUp}

Rule(n, oids, kind, title, recovery, p) ==
    [id |-> n, oids |-> oids, kind |-> kind, title |-> title, recovery |-> recovery,
     priority |-> p]

LinkRules == {Rule(1, {LinkDown}, "link_down", Loss, FALSE, 100),
              Rule(2, {LinkUp}, "link_up", "Link recovery detected", TRUE, 100)}
OtherRules == {Rule(3, LinkOids, "generic", "Interface trap", FALSE, 100),
               Rule(4, {LinkDown}, "generic", "Port lost", FALSE, 200)}
=============================================================================

--------------------------- MODULE MCMetricsStore ---------------------------
(* Finite instances of MetricsStore. *)
EXTENDS MetricsStore

CONSTANTS j1, j2

(* September of year 1; the instance runs into January. *)
September == 12 + 8
MCLegacy ==
    {[id |-> 1, month |-> September - 2], [id |-> 2, month |-> September - 1],
     [id |-> 3, month |-> September]}
TwoJobs == {j1, j2}
LastMonth == September + 4
=============================================================================

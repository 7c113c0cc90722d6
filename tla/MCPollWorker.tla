---------------------------- MODULE MCPollWorker ----------------------------
(* Finite instances of PollWorker. *)
EXTENDS PollWorker

CONSTANTS d1, d2, d3, d4, w1, w2

(* One with the only worker, two in the channel, one in the feeder's hand. *)
FourDevices == <<d1, d2, d3, d4>>
TwoWorkers == {w1, w2}
OneOrTwo == {{w1}, {w1, w2}}
OneDevice == {d1}
=============================================================================

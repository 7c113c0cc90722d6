------------------------------ MODULE Terminal ------------------------------
(***************************************************************************)
(* One web terminal: the handler that joins a browser's WebSocket to a     *)
(* shell on a device over SSH, the three goroutines ("legs") that carry    *)
(* keystrokes and output, and the one that pings the browser.  The legs    *)
(* end through one channel; the first end tears the session down, and the  *)
(* handler waits a while for the other two.  Writers to the WebSocket      *)
(* share a mutex.  What SSH and the WebSocket do with data is theirs; here *)
(* a read brings something, or an end, or nothing for as long as it likes. *)
(* A device is "deaf" when its shell takes no more input, and "stalled"    *)
(* when its connection takes no more bytes: a write to a stalled device    *)
(* keeps the lock of the SSH channel until the connection breaks.          *)
(***************************************************************************)
EXTENDS Naturals, Sequences

CONSTANT Capacity   (* of errCh *)

ASSUME TerminalAssumption == Capacity \in Nat

Outputs == {"stdout", "stderr"}
Legs == Outputs \union {"input"}

(* How a leg ends: quietly, with an error, or because it is torn down. *)
Quiet == {"over"}
Ends == Quiet \union {"deadline", "lost", "failed", "cut"}

VARIABLES
    main,       (* where the handler is                                    *)
    left,       (* ends it still waits for                                 *)
    shell,      (* the SSH connection is open                              *)
    socket,     (* the WebSocket is open                                   *)
    leg,        (* of each leg: where it is, or the end it has to report   *)
    errCh,
    pinger,     (* terminalWSKeepalive                                     *)
    writer,     (* holder of connWriteMu                                   *)
    browser, device, late,   (* what happens outside; the deadline passed  *)
    first       (* the error the handler logs                              *)

vars == <<main, left, shell, socket, leg, errCh, pinger, writer, browser, device, late, first>>
handler == <<main, left, shell, socket, first>>
outside == <<browser, device, late>>

(* cancel() precedes closeResources(). *)
Cancelled == main \in {"close", "cut", "drain", "report", "done"}

-----------------------------------------------------------------------------
(* Outside *)

(* A browser closes the socket or its connection breaks, or it falls silent. *)
BrowserLeaves ==
    /\ browser = "here"
    /\ browser' \in {"gone", "silent"}
    /\ UNCHANGED <<handler, leg, errCh, pinger, writer, device, late>>

(* The shell exits, the link fails, or the device stops taking input; the  *)
(* connection to a stalled device breaks in the end, or it does not.       *)
DeviceEnds ==
    /\ \/ device = "on" /\ device' \in {"gone", "deaf", "stalled"}
       \/ device = "stalled" /\ device' = "gone"
    /\ UNCHANGED <<handler, leg, errCh, pinger, writer, browser, late>>

DeadlinePasses ==
    /\ main = "wait" /\ ~late
    /\ late' = TRUE
    /\ UNCHANGED <<handler, leg, errCh, pinger, writer, browser, device>>

-----------------------------------------------------------------------------
(* The handler *)

(* The first message says whom to log in as; it has five minutes. *)
ReadInit ==
    /\ main = "init"
    /\ \/ browser = "here" /\ main' = "dial" /\ UNCHANGED socket
       \/ main' = "done" /\ socket' = FALSE
    /\ UNCHANGED <<left, shell, first, leg, errCh, pinger, writer, outside>>

(* The timeout is that of the TCP connection; the SSH handshake, the PTY   *)
(* and the shell take as long as the device likes.                         *)
Dial ==
    /\ main = "dial"
    /\ \/ /\ device \in {"on", "deaf"}
          /\ main' = "wait"
          /\ shell' = TRUE
          /\ leg' = [l \in Legs |-> "check"]
          /\ pinger' = "running"
          /\ UNCHANGED first
       \/ /\ main' = "report" /\ first' = "failed"
          /\ UNCHANGED <<leg, pinger, shell>>
    /\ UNCHANGED <<left, socket, errCh, writer, outside>>

collectErr(e) == first' = IF e \in Quiet \/ first # "none" THEN first ELSE e

Receive == errCh' = Tail(errCh) /\ collectErr(Head(errCh))

ReceiveFirst ==
    /\ main = "wait" /\ errCh # <<>>
    /\ Receive
    /\ main' = "close"
    /\ UNCHANGED <<left, shell, socket, leg, pinger, writer, outside>>

(* closeResources: stdin.Close() and sess.Close() send a packet each, for  *)
(* which they need the lock a stalled write keeps; client.Close() follows. *)
CloseShell ==
    /\ main = "close"
    /\ ~(device = "stalled" /\ leg["input"] = "write")
    /\ main' = "cut" /\ shell' = FALSE
    /\ UNCHANGED <<left, socket, first, leg, errCh, pinger, writer, outside>>

(* ... and conn.Close() is the last. *)
CloseSocket ==
    /\ main = "cut"
    /\ main' = "drain" /\ left' = 2
    /\ socket' = FALSE
    /\ UNCHANGED <<shell, first, leg, errCh, pinger, writer, outside>>

(* Each of the others has two seconds. *)
Drain ==
    /\ main = "drain" /\ left > 0
    /\ \/ errCh # <<>> /\ Receive
       \/ UNCHANGED <<errCh, first>>
    /\ left' = left - 1
    /\ main' = IF left = 1 THEN "report" ELSE "drain"
    /\ UNCHANGED <<shell, socket, leg, pinger, writer, outside>>

(* An error is written to the browser, if that is still possible; then the *)
(* socket is closed and the pings are stopped.                             *)
Report ==
    /\ main = "report"
    /\ first # "none" => writer = "nobody"
    /\ main' = "done" /\ socket' = FALSE
    /\ UNCHANGED <<left, shell, first, leg, errCh, pinger, writer, outside>>

-----------------------------------------------------------------------------
(* The legs *)

Move(l, p) == leg' = [leg EXCEPT ![l] = p]

(* Each looks at the deadline and at the context before it reads. *)
CheckDeadline(l) ==
    /\ leg[l] = "check"
    /\ IF late THEN Move(l, "deadline")
       ELSE IF Cancelled THEN Move(l, "cut") ELSE Move(l, "read")
    /\ UNCHANGED <<handler, errCh, pinger, writer, outside>>

(* Mutant: a read from the browser has no timeout. *)
ReadInputForEver ==
    /\ leg["input"] = "read"
    /\ \/ ~socket /\ Move("input", "cut")
       \/ socket /\ browser = "here" /\ Move("input", "check")
       \/ socket /\ browser = "here" /\ Move("input", "write")
       \/ socket /\ browser = "gone" /\ Move("input", "over")
       \/ socket /\ browser = "gone" /\ Move("input", "lost")
    /\ UNCHANGED <<handler, errCh, pinger, writer, outside>>

(* Keystrokes and resizes are written to the shell, other text is ignored; *)
(* a browser that sends nothing is given up.                               *)
ReadInput ==
    /\ leg["input"] = "read"
    /\ \/ ~socket /\ Move("input", "cut")
       \/ socket /\ browser = "here" /\ Move("input", "check")
       \/ socket /\ browser = "here" /\ Move("input", "write")
       \/ socket /\ browser = "gone" /\ Move("input", "over")
       \/ socket /\ browser = "gone" /\ Move("input", "lost")
       \/ socket /\ browser \in {"here", "silent"} /\ Move("input", "lost")
    /\ UNCHANGED <<handler, errCh, pinger, writer, outside>>

(* A deaf or stalled device keeps the writer waiting until the connection  *)
(* to it is closed or breaks.                                              *)
WriteInput ==
    /\ leg["input"] = "write"
    /\ \/ ~shell /\ Move("input", "cut")
       \/ shell /\ device = "on" /\ Move("input", "check")
       \/ shell /\ device = "gone" /\ Move("input", "over")
    /\ UNCHANGED <<handler, errCh, pinger, writer, outside>>

(* A device may print for ever, or nothing. *)
ReadOutput(l) ==
    /\ leg[l] = "read"
    /\ \/ ~shell /\ Move(l, "over")
       \/ shell /\ device \in {"on", "deaf", "stalled"} /\ Move(l, "lock")
       \/ shell /\ device = "gone" /\ Move(l, "over")
       \/ shell /\ device = "gone" /\ Move(l, "failed")
    /\ UNCHANGED <<handler, errCh, pinger, writer, outside>>

LockOutput(l) ==
    /\ leg[l] = "lock" /\ writer = "nobody"
    /\ writer' = l
    /\ Move(l, "write")
    /\ UNCHANGED <<handler, errCh, pinger, outside>>

(* A write succeeds or fails within thirty seconds. *)
WriteOutput(l) ==
    /\ leg[l] = "write"
    /\ \/ ~socket /\ Move(l, "cut")
       \/ socket /\ Move(l, "lost")
       \/ socket /\ browser = "here" /\ Move(l, "check")
    /\ writer' = "nobody"
    /\ UNCHANGED <<handler, errCh, pinger, outside>>

(* Mutant: the channel has room for one end. *)
SendEndToOne(l) ==
    /\ leg[l] \in Ends /\ errCh = <<>>
    /\ errCh' = Append(errCh, leg[l])
    /\ Move(l, "off")
    /\ UNCHANGED <<handler, pinger, writer, outside>>

SendEnd(l) ==
    /\ leg[l] \in Ends /\ Len(errCh) < Capacity
    /\ errCh' = Append(errCh, leg[l])
    /\ Move(l, "off")
    /\ UNCHANGED <<handler, pinger, writer, outside>>

-----------------------------------------------------------------------------
(* The pings *)

Ping ==
    /\ \/ pinger = "running" /\ main = "done" /\ pinger' = "off" /\ UNCHANGED writer
       \/ pinger = "running" /\ writer = "nobody" /\ pinger' = "pings" /\ writer' = "pinger"
       \/ pinger = "pings" /\ writer' = "nobody" /\ pinger' = "off"
       \/ /\ pinger = "pings" /\ socket /\ browser = "here"
          /\ writer' = "nobody" /\ pinger' = "running"
    /\ UNCHANGED <<handler, leg, errCh, outside>>

-----------------------------------------------------------------------------
Init ==
    /\ main = "init" /\ left = 0 /\ shell = FALSE /\ socket = TRUE
    /\ leg = [l \in Legs |-> "off"]
    /\ errCh = <<>>
    /\ pinger = "off" /\ writer = "nobody"
    /\ browser = "here" /\ device = "on" /\ late = FALSE
    /\ first = "none"

Main == ReadInit \/ ReceiveFirst \/ CloseShell \/ CloseSocket \/ Drain \/ Report
Input == CheckDeadline("input") \/ ReadInput \/ WriteInput \/ SendEnd("input")
Output(l) ==
    CheckDeadline(l) \/ ReadOutput(l) \/ LockOutput(l) \/ WriteOutput(l) \/ SendEnd(l)

Next ==
    \/ BrowserLeaves \/ DeviceEnds \/ DeadlinePasses
    \/ Main \/ Dial \/ Ping
    \/ Input \/ \E l \in Outputs : Output(l)

(* Everything proceeds but the device: a dial may hang, a read of output   *)
(* may wait for ever.  The mutex serves whoever waits.                     *)
Fairness ==
    /\ WF_vars(Main)
    /\ WF_vars(Input)
    /\ \A l \in Outputs :
        /\ WF_vars(CheckDeadline(l) \/ WriteOutput(l) \/ SendEnd(l))
        /\ WF_vars(ReadOutput(l) /\ (~shell \/ device = "gone"))
        /\ SF_vars(LockOutput(l))
    /\ WF_vars(Ping /\ (pinger = "pings" \/ main = "done"))

Spec == Init /\ [][Next]_vars /\ Fairness

-----------------------------------------------------------------------------
(* Properties *)

Ended == main = "done" /\ pinger = "off" /\ \A l \in Legs : leg[l] = "off"

(* A session leaves nothing behind: once a leg has ended, whichever it was *)
(* and whatever the others wait for, the handler returns, and each of the  *)
(* goroutines ends, though the handler may have stopped listening to them. *)
(* The exception is a connection that stalls and never breaks: the handler *)
(* then waits in stdin.Close() and the WebSocket stays open.               *)
LegsEnd == []<>(device # "stalled") => ((\E l \in Legs : leg[l] \in Ends) ~> Ended)

(* A session does not outlive its deadline or its browser, unless the      *)
(* device stops taking the keystrokes it was sent: only the leg that reads *)
(* from the browser notices either.                                        *)
SessionEnds ==
    [](leg["input"] = "write" ~> leg["input"] # "write")
        => (main = "wait" /\ (late \/ browser # "here") ~> Ended)
=============================================================================

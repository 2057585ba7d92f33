------------------------------ MODULE AcpBridge ------------------------------
(***************************************************************************)
(* main of crew/pi/acp-bridge.mjs: the process the ACP client launches for *)
(* a pi seat.  It starts pi in a process group of its own, waits for pi's  *)
(* socket, passes bytes both ways, and takes the group down when its stdin *)
(* ends, the socket closes, pi exits or a signal comes.                    *)
(***************************************************************************)
VARIABLE bridge  \* where it is, what it has heard, what it sent the group

BridgeInit == bridge = [at |-> "starting", stop |-> FALSE, sent |-> "none"]

\* One of its attempts finds the socket.
Connects ==
  /\ bridge.at = "starting"
  /\ bridge' = [bridge EXCEPT !.at = "serving"]

terminate == bridge' = [bridge EXCEPT !.at = "ending", !.sent = "term"]

\* pi exited first, a signal came, or the startup deadline passed.
StartupFails == bridge.at = "starting" /\ terminate

ServiceEnds(closed, exited) ==
  /\ bridge.at = "serving"
  /\ bridge.stop \/ closed \/ exited
  /\ terminate

\* Mutant: pi's exit is taken for the end of its group.
ExitedOnly(exited, group) == exited

\* pi may be gone and have left others in its group.
TornDown(exited, group) == exited /\ group = {}

\* The grace is over: whoever is left is killed.
GroupKilled(exited, group) ==
  /\ bridge.at = "ending" /\ bridge.sent = "term" /\ ~TornDown(exited, group)
  /\ bridge' = [bridge EXCEPT !.sent = "kill"]

\* It returns pi's status, once there is one.
Returns(exited, group) ==
  /\ bridge.at = "ending"
  /\ TornDown(exited, group) \/ (bridge.sent = "kill" /\ exited)
  /\ bridge' = [bridge EXCEPT !.at = "over"]

\* Its stdin ends or a signal comes.
Stopped ==
  /\ bridge.at \in {"starting", "serving"} /\ ~bridge.stop
  /\ bridge' = [bridge EXCEPT !.stop = TRUE]

\* External: killed before it is done, by KILL or by the same signal again.
Shot ==
  /\ bridge.at \notin {"over", "shot"} /\ bridge.stop
  /\ bridge' = [bridge EXCEPT !.at = "shot"]
=============================================================================

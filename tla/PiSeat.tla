------------------------------- MODULE PiSeat -------------------------------
(***************************************************************************)
(* A pi seat as its ACP client meets it: the bridge, the server inside pi, *)
(* pi's run and the scout one of its tools starts.  A cancel reaches the   *)
(* scout through the run's signal; a teardown reaches it by its group.     *)
(***************************************************************************)
EXTENDS AcpServer, AgentTool, AcpBridge

VARIABLES
  client,  \* what the client has sent: prompts, the last one's cancel, answers to asks
  history  \* asks that were allowed, prompts whose cancel came in time

vars == <<acp, agenttool, bridge, client, history>>

Init ==
  /\ AcpInit /\ AgentToolInit /\ BridgeInit
  /\ client = [sent |-> 0, cancelled |-> FALSE, answered |-> 0]
  /\ history = [allowed |-> {}, cancelled |-> {}]

Exited == pi.at = "gone"
Group == (IF Exited THEN {} ELSE {"pi"}) \union (IF scout.at = "up" THEN {"scout"} ELSE {})

-----------------------------------------------------------------------------
(* The client, across the bridge's pipes                                   *)

Send(frame) ==
  /\ bridge.at = "serving" /\ ~bridge.stop /\ server.client = "on"
  /\ inbox' = Append(inbox, frame)
  /\ UNCHANGED <<server, told, pi, tool, agenttool, bridge>>

\* The next prompt follows the answer to the last one, or its cancel.
SendPrompt ==
  /\ client.sent < Prompts
  /\ client.sent > 0 => client.cancelled \/ told[client.sent] # "none"
  /\ Send([kind |-> "prompt", id |-> client.sent + 1])
  /\ client' = [client EXCEPT !.sent = @ + 1, !.cancelled = FALSE]
  /\ UNCHANGED history

\* The answer may be on its way.
SendCancel ==
  /\ client.sent > 0 /\ ~client.cancelled
  /\ Send([kind |-> "cancel"])
  /\ client' = [client EXCEPT !.cancelled = TRUE]
  /\ UNCHANGED history

\* Each ask is answered once, perhaps when nobody waits any more.
SendAnswer ==
  /\ client.answered < server.asked
  /\ client' = [client EXCEPT !.answered = @ + 1]
  /\ \E choice \in Choices :
       /\ Send([kind |-> "answer", id |-> client'.answered, choice |-> choice])
       /\ history' = [history EXCEPT !.allowed =
                        IF choice = "allow" THEN @ \union {client'.answered} ELSE @]

-----------------------------------------------------------------------------
(* pi and its scout                                                        *)

\* The signal's listeners run inside the abort.
Receive ==
  /\ receive
  /\ scout' = IF pi'.aborted /\ ~pi.aborted THEN killChild(scout) ELSE scout
  /\ history' = IF server'.cancelled
                THEN [history EXCEPT !.cancelled = @ \union {server.prompt}] ELSE history
  /\ UNCHANGED <<spawns, bridge, client>>

Pi(A) == A /\ UNCHANGED <<agenttool, bridge, client, history>>
Gates == \E kind \in Kinds : gateAsks(kind) \/ gateBlocks(kind) \/ gatePasses(kind)

\* execute, up to its first await.
Execute ==
  /\ Quiet /\ tool.at = "running" /\ tool.kind = "agent" /\ scout = NoScout
  /\ Refuses \/ SpawnFails \/ Spawns(pi.aborted)
  /\ UNCHANGED <<acp, bridge, client, history>>

Scout(A) == Quiet /\ A /\ UNCHANGED <<acp, bridge, client, history>>

AgentReturns ==
  /\ Quiet /\ scout.result # "none"
  /\ scout' = NoScout
  /\ tool' = [tool EXCEPT !.at = "over"]
  /\ UNCHANGED <<inbox, server, told, pi, spawns, bridge, client, history>>

\* The scout shares pi's group: the bridge's signals reach it too.
Killed == scout.grace = "killed" \/ bridge.sent = "kill"
ScoutEnds == ScoutExits(Killed) /\ UNCHANGED <<acp, bridge, client, history>>

\* By itself, on TERM, on the end of its stdin, or killed; its server with it.
PiExits ==
  /\ ~Exited
  /\ pi' = [pi EXCEPT !.at = "gone"]
  /\ detach
  /\ UNCHANGED <<told, agenttool, bridge, client, history>>

-----------------------------------------------------------------------------
(* The bridge                                                              *)

Bridge(A) == A /\ UNCHANGED <<acp, agenttool, client, history>>

Connect ==
  /\ ~Exited /\ server.client = "none" /\ Connects
  /\ server' = [server EXCEPT !.client = "on"]
  /\ UNCHANGED <<inbox, told, pi, tool, agenttool, client, history>>

\* The bridge has closed its socket, or the server a client whose frame never ends.
ServerDetaches == Quiet /\ Detaches /\ UNCHANGED <<agenttool, bridge, client, history>>

BridgeSteps ==
  \/ Bridge(StartupFails)
  \/ Bridge(ServiceEnds(server.client = "gone", Exited))
  \/ Bridge(GroupKilled(Exited, Group))
  \/ Bridge(Returns(Exited, Group))

Done == bridge.at \in {"over", "shot"} /\ Group = {} /\ UNCHANGED vars

Next ==
  \/ SendPrompt \/ SendCancel \/ SendAnswer
  \/ Receive \/ ServerDetaches
  \/ Pi(Gates) \/ Pi(gateResumes) \/ Pi(AskExpires)
  \/ Pi(RunStarts) \/ Pi(PreflightFails) \/ Pi(Retries) \/ Pi(RunEnds) \/ Pi(Settles) \/ Pi(ToolEnds)
  \/ Execute \/ Scout(Oversize) \/ Scout(ScoutDeadline) \/ Scout(GraceEnds)
  \/ Scout(ScoutCloses(pi.aborted)) \/ AgentReturns \/ ScoutEnds \/ PiExits
  \/ Connect \/ BridgeSteps \/ Bridge(Stopped) \/ Bridge(Shot)
  \/ Done

\* The event loops of pi and of the bridge turn and their timers fire.  Of pi it
\* is assumed that a run whose signal is aborted ends its tool and then itself,
\* and of the system that KILL kills.
Fairness ==
  /\ WF_vars(Receive) /\ WF_vars(Pi(gateResumes)) /\ WF_vars(Pi(AskExpires))
  /\ WF_vars(Execute) /\ WF_vars(Scout(ScoutDeadline)) /\ WF_vars(Scout(GraceEnds))
  /\ WF_vars(Scout(ScoutCloses(pi.aborted))) /\ WF_vars(AgentReturns)
  /\ WF_vars(pi.aborted /\ Pi(ToolEnds)) /\ WF_vars(pi.aborted /\ Pi(RunEnds))
  /\ WF_vars(Pi(RunStarts)) /\ WF_vars(Pi(Settles))
  /\ WF_vars(Killed /\ ScoutEnds) /\ WF_vars(bridge.sent = "kill" /\ PiExits)
  /\ WF_vars(BridgeSteps)

Spec == Init /\ [][Next]_vars /\ Fairness

-----------------------------------------------------------------------------
\* A prompt is answered when its run and the scout of it are over, and it is
\* answered as cancelled exactly when its cancel came before that
\* (acp-server.ts:47, 190): a cancel that comes late is not taken by the next.
Answered ==
  \A p \in Prompt : told[p] \in {"done", "cancelled", "error"} =>
    /\ pi.run = p => pi.at \in {"idle", "gone"}
    /\ ~Exited => scout = NoScout \/ pi.run # p
    /\ (told[p] = "cancelled") = (p \in history.cancelled)

\* A gated call runs by the client's word for that very call, whatever older
\* answers are still under way, and once the run is cancelled no call starts
\* (acp-server.ts:126), except one whose permission was read just before.
GateHeld ==
  [][(tool.at # "running" /\ tool'.at = "running") =>
       /\ tool'.kind = "gated" => tool'.ask \in history.allowed
       /\ server.cancelled => tool.at = "answered"]_vars

\* No more scouts are started in a lane than were counted, nor than its budget
\* allows, and what a scout found is heard only from one that nobody stopped
\* (subagent.ts:170, 838).
ScoutsKept ==
  /\ spawns.started <= spawns.counted /\ spawns.counted <= Budget
  /\ scout.result = "findings" => scout.code = "zero" /\ ~scout.stopped /\ ~scout.oversize

\* The bridge returns when nobody is left in pi's group, or with KILL sent to
\* all of it (acp-bridge.mjs:97).
NothingLeft == bridge.at = "over" => Group = {} \/ bridge.sent = "kill"

\* A run that is cancelled settles, whatever its tool is waiting for, and the
\* bridge returns once it is told to stop or pi is gone.
Stops ==
  /\ \A p \in Prompt :
       (server.prompt = p /\ server.cancelled /\ pi.at \in {"working", "retrying", "ended"})
         ~> (told[p] = "cancelled" \/ server.client = "gone")
  /\ (bridge.stop \/ Exited) ~> (bridge.at \in {"over", "shot"})
=============================================================================

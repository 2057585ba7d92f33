---------------------------- MODULE PiSeatProofs ----------------------------
(***************************************************************************)
(* The promises of a pi seat, for any number of prompts, calls and spawns. *)
(* Three groups of facts are kept by every step: what is said of the scout *)
(* and of the run that started it, what is said of a prompt that has not   *)
(* been heard, is in flight, or is answered, and what a permission on its  *)
(* way stands for.                                                         *)
(***************************************************************************)
EXTENDS PiSeat, TLAPS

Frames ==
  [kind : {"prompt"}, id : Prompt] \union [kind : {"cancel"}]
    \union [kind : {"answer"}, id : Nat, choice : Choices]

ServerType ==
  server \in [client : {"none", "on", "gone"}, prompt : Prompt \union {None},
              cancelled : BOOLEAN, asked : Nat]

PiType ==
  pi \in [at : {"idle", "preflight", "working", "retrying", "ended", "gone"},
          run : Prompt \union {None}, aborted : BOOLEAN,
          outcome : {"none", "completed", "aborted", "error"}, calls : Nat]

ToolType ==
  tool \in [at : {"none", "asked", "answered", "running", "over"},
            kind : {"none"} \union Kinds, ask : Nat,
            answer : {"none", "failed"} \union Choices]

AcpType ==
  /\ inbox \in Seq(Frames)
  /\ ServerType
  /\ told \in [Prompt -> {"none", "busy", "done", "cancelled", "error"}]
  /\ PiType
  /\ ToolType

Scouts ==
  [at : {"none", "up", "exited", "closed"}, code : {"none", "zero", "nonzero", "signal"},
   oversize : BOOLEAN, timedOut : BOOLEAN, error : BOOLEAN, stopped : BOOLEAN,
   grace : {"off", "on", "killed"}, result : {"none", "refused", "findings"}]

AgentToolType == spawns \in [counted : Nat, started : Nat] /\ scout \in Scouts

BridgeType ==
  bridge \in [at : {"starting", "serving", "ending", "over", "shot"},
             stop : BOOLEAN, sent : {"none", "term", "kill"}]

ClientType ==
  /\ client \in [sent : 0 .. Prompts, cancelled : BOOLEAN, answered : Nat]
  /\ history \in [allowed : SUBSET Nat, cancelled : SUBSET Prompt]

SeatType == AcpType /\ AgentToolType /\ BridgeType /\ ClientType

-----------------------------------------------------------------------------
(* What every step keeps.                                                  *)

\* The call under way belongs to a run that is working, and the scout to a call
\* of the agent tool that is running.
CallOfRun ==
  /\ tool.at \in {"asked", "answered", "running"} => pi.at \in {"working", "gone"}
  /\ scout # NoScout => tool.at = "running" /\ tool.kind = "agent"

\* A scout that was stopped was late or its run is aborted, and its findings are
\* looked at once it is closed.
ScoutInv ==
  /\ CallOfRun
  /\ spawns.started <= spawns.counted /\ spawns.counted <= Budget
  /\ scout.stopped => scout.timedOut \/ pi.aborted
  /\ scout.result = "findings" =>
       scout.at = "closed" /\ scout.code = "zero" /\ ~scout.stopped /\ ~scout.oversize

\* The bridge is over once pi is gone, and with it whoever could start a scout.
BridgeInv ==
  bridge.at = "over" => Exited /\ (scout.at # "up" \/ bridge.sent = "kill")

\* Nothing has happened yet to a prompt that was not heard.
Unheard(p) ==
  told[p] = "none" /\ p \notin history.cancelled /\ p # server.prompt /\ p # pi.run

PromptsUnheard ==
  /\ \A p \in Prompt : p > client.sent => Unheard(p)
  /\ \A i \in DOMAIN inbox : inbox[i].kind = "prompt" =>
       /\ inbox[i].id \in 1 .. client.sent
       /\ Unheard(inbox[i].id)
       /\ \A j \in DOMAIN inbox : inbox[j].kind = "prompt" /\ inbox[j].id = inbox[i].id => i = j

\* While there is a client, the run that has not settled is the one in flight, a
\* cancel is held against no other, and only a cancel aborts a run.
InFlight ==
  /\ server.prompt # None => told[server.prompt] = "none"
  /\ server.client = "gone" => server.prompt = None
  /\ server.client # "gone" =>
       /\ pi.at \in {"preflight", "working", "retrying", "ended"} =>
            pi.run # None /\ server.prompt = pi.run
       /\ server.cancelled => server.prompt # None
       /\ server.prompt # None => (server.cancelled <=> server.prompt \in history.cancelled)
       /\ pi.at \in {"working", "retrying", "ended"} => (pi.aborted => server.cancelled)
  /\ pi.at \in {"preflight", "working", "retrying"} => pi.outcome = "none"
  /\ pi.outcome = "aborted" => pi.aborted

\* A prompt is answered when its run is over, as its cancel says.
AnswerInv ==
  \A p \in Prompt : told[p] \in {"done", "cancelled", "error"} =>
    /\ pi.run = p => pi.at \in {"idle", "gone"}
    /\ told[p] = "cancelled" <=> p \in history.cancelled

PromptInv == PromptsUnheard /\ InFlight /\ AnswerInv

\* An allowing answer, on its way or taken, is for an ask the client allowed.
AskInv ==
  /\ \A i \in DOMAIN inbox :
       inbox[i].kind = "answer" /\ inbox[i].choice = "allow" => inbox[i].id \in history.allowed
  /\ tool.answer = "allow" => tool.ask \in history.allowed

SeatInv == SeatType /\ ScoutInv /\ BridgeInv /\ PromptInv /\ AskInv

-----------------------------------------------------------------------------
(* Types.                                                                  *)

\* A frame that is heard is the first one, and one of the three kinds.
LEMMA FrameHeard ==
  ASSUME SeatType, receive
  PROVE  /\ inbox # <<>> /\ inbox' = Tail(inbox)
         /\ server.client = "on" /\ pi.at # "gone"
         /\ \/ \E p \in Prompt : Head(inbox) = [kind |-> "prompt", id |-> p] /\ HearPrompt(p)
            \/ Head(inbox) = [kind |-> "cancel"] /\ cancel
            \/ \E n \in Nat, choice \in Choices :
                 /\ Head(inbox) = [kind |-> "answer", id |-> n, choice |-> choice]
                 /\ handleResponse(n, choice)
<1>1. inbox # <<>> /\ inbox' = Tail(inbox) /\ server.client = "on" /\ pi.at # "gone"
  BY DEF receive, Serving
<1>2. Head(inbox) \in Frames
  BY <1>1 DEF SeatType, AcpType
<1>3. CASE Head(inbox) \in [kind : {"prompt"}, id : Prompt]
  <2>1. PICK p \in Prompt : Head(inbox) = [kind |-> "prompt", id |-> p]
    BY <1>3
  <2>2. HearPrompt(p)
    BY <2>1 DEF receive, HearPrompt
  <2> QED
    BY <1>1, <2>1, <2>2
<1>4. CASE Head(inbox) \in [kind : {"cancel"}]
  <2>1. Head(inbox) = [kind |-> "cancel"]
    BY <1>4
  <2>2. cancel
    BY <2>1 DEF receive, cancel
  <2> QED
    BY <1>1, <2>1, <2>2
<1>5. CASE Head(inbox) \in [kind : {"answer"}, id : Nat, choice : Choices]
  <2>1. PICK n \in Nat, choice \in Choices :
          Head(inbox) = [kind |-> "answer", id |-> n, choice |-> choice]
    BY <1>5
  <2>2. handleResponse(n, choice)
    BY <2>1 DEF receive, handleResponse
  <2> QED
    BY <1>1, <2>1, <2>2
<1> QED
  BY <1>2, <1>3, <1>4, <1>5 DEF Frames

\* Each frame left moves up by one.
LEMMA TailIndex ==
  ASSUME NEW S, NEW q \in Seq(S), q # <<>>
  PROVE  /\ Tail(q) \in Seq(S)
         /\ \A i \in DOMAIN Tail(q) : i + 1 \in DOMAIN q /\ Tail(q)[i] = q[i + 1] /\ i + 1 # 1
         /\ 1 \in DOMAIN q /\ Head(q) = q[1]
  OBVIOUS

\* A frame that is sent is the last one.
LEMMA SentLast ==
  ASSUME NEW S, NEW q \in Seq(S), NEW frame \in S
  PROVE  /\ Append(q, frame) \in Seq(S)
         /\ \A i \in DOMAIN Append(q, frame) :
              \/ i \in DOMAIN q /\ Append(q, frame)[i] = q[i]
              \/ Append(q, frame)[i] = frame
  OBVIOUS

\* A call starts with a scout that was not started, was refused or is up.
LEMMA ScoutTypes ==
  /\ NoScout \in Scouts /\ Refused \in Scouts
  /\ [NoScout EXCEPT !.at = "up"] \in Scouts
  /\ [NoScout EXCEPT !.at = "exited", !.error = TRUE] \in Scouts
<1>1. NoScout \in Scouts
  BY DEF NoScout, Scouts
<1> QED
  BY <1>1 DEF Refused, Scouts

\* To kill a scout says so of it, and of one that is there only.
LEMMA KillTypes ==
  ASSUME NEW s \in Scouts
  PROVE  /\ killChild(s) \in Scouts
         /\ killChild(s).at = s.at /\ killChild(s).result = s.result
         /\ killChild(s).timedOut = s.timedOut
         /\ s.at \notin {"up", "exited"} => killChild(s) = s
  BY DEF killChild, Scouts

\* None of these was stopped, and none has findings.
LEMMA ScoutStarts ==
  /\ NoScout.at = "none" /\ ~NoScout.stopped /\ NoScout.result = "none"
  /\ Refused.at = "none" /\ ~Refused.stopped /\ Refused.result = "refused"
  /\ LET up == [NoScout EXCEPT !.at = "up"]
     IN up.at = "up" /\ ~up.stopped /\ up.result = "none"
  /\ LET failed == [NoScout EXCEPT !.at = "exited", !.error = TRUE]
     IN failed.at = "exited" /\ ~failed.stopped /\ failed.result = "none"
  BY DEF Refused, NoScout

\* A cancel moves neither the run nor a call that is running; it answers a call
\* that waits, and the abort it may send is the only one.
LEMMA CancelOutcome ==
  ASSUME SeatType, cancel
  PROVE  /\ pi'.at = pi.at /\ pi'.run = pi.run /\ pi'.outcome = pi.outcome
         /\ pi.aborted => pi'.aborted
         /\ server.prompt = None => UNCHANGED <<server, pi, tool>>
         /\ server.prompt # None => server' = [server EXCEPT !.cancelled = TRUE]
         /\ tool' = tool \/ (tool.at = "asked" /\ tool'.at = "answered" /\ tool'.answer = "failed")
         /\ told' = told
<1> USE DEF SeatType, AcpType, PiType, ServerType, ToolType
<1>1. CASE server.prompt = None
  BY <1>1 DEF cancel
<1>2. CASE server.prompt # None
  <2>1. tool' = dropPermissions(tool) /\ pi' = abort(pi) /\ told' = told
        /\ server' = [server EXCEPT !.cancelled = TRUE]
    BY <1>2 DEF cancel
  <2>2. /\ pi'.at = pi.at /\ pi'.run = pi.run /\ pi'.outcome = pi.outcome
        /\ pi.aborted => pi'.aborted
    BY <2>1 DEF abort
  <2>3. tool' = tool \/ (tool.at = "asked" /\ tool'.at = "answered" /\ tool'.answer = "failed")
    BY <2>1 DEF dropPermissions, settlePermission
  <2> QED
    BY <1>2, <2>1, <2>2, <2>3
<1> QED
  BY <1>1, <1>2

\* A prompt is refused, or it is the one in flight and its run a new one.
LEMMA PromptOutcome ==
  ASSUME SeatType, NEW p \in Prompt, HearPrompt(p)
  PROVE  \/ /\ server.prompt # None \/ server.cancelled
            /\ told' = [told EXCEPT ![p] = "busy"]
            /\ UNCHANGED <<server, pi, tool>>
         \/ /\ server.prompt = None /\ ~server.cancelled
            /\ server' = [server EXCEPT !.prompt = p]
            /\ pi'.at = "preflight" /\ pi'.run = p /\ ~pi'.aborted /\ pi'.outcome = "none"
            /\ tool'.at = "none" /\ tool'.answer = "none"
            /\ told' = told
<1>1. CASE server.prompt # None \/ server.cancelled
  BY <1>1 DEF HearPrompt
<1>2. CASE ~(server.prompt # None \/ server.cancelled)
  BY <1>2 DEF HearPrompt, NoTool, SeatType, AcpType, ServerType
<1> QED
  BY <1>1, <1>2

\* Only frames are sent.
LEMMA InboxStep == SeatType /\ [Next]_vars => (inbox \in Seq(Frames))'
<1> SUFFICES ASSUME SeatType, [Next]_vars
             PROVE  (inbox \in Seq(Frames))'
  OBVIOUS
<1> USE PromptsAssumption, BudgetAssumption
    DEF SeatType, AcpType
<1>1. CASE SendPrompt
  <2>1. [kind |-> "prompt", id |-> client.sent + 1] \in Frames
    BY <1>1 DEF SendPrompt, ClientType, Prompt, Frames
  <2> QED
    BY <1>1, <2>1 DEF SendPrompt, Send
<1>2. CASE SendCancel
  <2>1. [kind |-> "cancel"] \in Frames
    BY DEF Frames
  <2> QED
    BY <1>2, <2>1 DEF SendCancel, Send
<1>3. CASE SendAnswer
  <2>1. PICK choice \in Choices :
          Send([kind |-> "answer", id |-> client'.answered, choice |-> choice])
    BY <1>3 DEF SendAnswer
  <2>2. client'.answered \in Nat
    BY <1>3 DEF SendAnswer, ClientType
  <2>3. [kind |-> "answer", id |-> client'.answered, choice |-> choice] \in Frames
    BY <2>2 DEF Frames
  <2> QED
    BY <2>1, <2>3 DEF Send
<1>4. CASE Receive
  BY <1>4, FrameHeard, TailIndex DEF Receive
<1>5. CASE ServerDetaches
  <2>1. inbox' = <<>>
    BY <1>5 DEF ServerDetaches, Detaches, detach
  <2> QED
    BY <2>1
<1>6. CASE PiExits
  <2>1. inbox' = <<>>
    BY <1>6 DEF PiExits, detach
  <2> QED
    BY <2>1
<1>7. CASE \/ Pi(Gates) \/ Pi(gateResumes) \/ Pi(AskExpires)
           \/ Pi(RunStarts) \/ Pi(PreflightFails) \/ Pi(Retries)
           \/ Pi(RunEnds) \/ Pi(Settles) \/ Pi(ToolEnds) \/ Execute
           \/ Scout(Oversize) \/ Scout(ScoutDeadline) \/ Scout(GraceEnds)
           \/ Scout(ScoutCloses(pi.aborted)) \/ AgentReturns \/ ScoutEnds
           \/ Connect \/ BridgeSteps \/ Bridge(Stopped) \/ Bridge(Shot)
           \/ Done
  BY <1>7
     DEF Pi, agenttool, Gates, gateAsks, Calling, Quiet, Asks, Called,
         gateBlocks, Passes, gatePasses, gateResumes, AskExpires,
         settlePermission, RunStarts, Started, PreflightFails, Retries,
         Between, RunEnds, Settles, settlePrompt, finishPrompt, stopReasonFor,
         ToolEnds, Execute, NoScout, Refuses, Refused, SpawnFails,
         reserveSpawn, MayReserve, Spawns, killChild, acp, Scout, Oversize,
         ScoutDeadline, GraceEnds, ScoutCloses, Classified, AgentReturns,
         ScoutEnds, ScoutExits, Killed, Connect, Exited, Connects, BridgeSteps,
         Bridge, StartupFails, terminate, ServiceEnds, GroupKilled, TornDown,
         Group, Returns, Stopped, Shot, Done, vars
<1>8. CASE UNCHANGED vars
  BY <1>8 DEF vars, acp, agenttool
<1> QED
  BY <1>1, <1>2, <1>3, <1>4, <1>5, <1>6, <1>7, <1>8 DEF Next

\* The server, the run and the call keep their types.
LEMMA AcpStep == SeatType /\ [Next]_vars => (ServerType /\ PiType /\ ToolType)'
<1> SUFFICES ASSUME SeatType, [Next]_vars
             PROVE  (ServerType /\ PiType /\ ToolType)'
  OBVIOUS
<1> USE PromptsAssumption, BudgetAssumption
    DEF SeatType, AcpType, ServerType, PiType, ToolType, Kinds, Choices
<1>1. CASE Receive
  <2>1. ASSUME NEW p \in Prompt, HearPrompt(p)
        PROVE  ServerType' /\ PiType' /\ ToolType'
    <3>1. CASE server.prompt # None \/ server.cancelled
      BY <2>1, <3>1 DEF HearPrompt
    <3>2. CASE ~(server.prompt # None \/ server.cancelled)
      <4>1. server' = [server EXCEPT !.prompt = p]
            /\ pi' = [at |-> "preflight", run |-> p, aborted |-> FALSE,
                      outcome |-> "none", calls |-> 0]
            /\ tool' = NoTool
        BY <2>1, <3>2 DEF HearPrompt
      <4>2. ServerType'
        BY <2>1, <4>1
      <4>3. PiType'
        BY <2>1, <4>1
      <4>4. ToolType'
        BY <4>1 DEF NoTool
      <4> QED
        BY <4>2, <4>3, <4>4
    <3> QED
      BY <3>1, <3>2
  <2>2. CASE cancel
    BY <2>2 DEF cancel, dropPermissions, settlePermission, abort
  <2>3. CASE \E n \in Nat, choice \in Choices : handleResponse(n, choice)
    BY <2>3 DEF handleResponse, WaitsFor, settlePermission
  <2> QED
    BY <1>1, <2>1, <2>2, <2>3, FrameHeard DEF Receive
<1>2. CASE ServerDetaches
  BY <1>2
     DEF ServerDetaches, Quiet, Detaches, Serving, detach, dropPermissions,
         settlePermission, agenttool
<1>3. CASE Pi(Gates)
  BY <1>3
     DEF Pi, agenttool, Gates, gateAsks, Calling, Quiet, Asks, Called,
         gateBlocks, Passes, gatePasses
<1>4. CASE Pi(gateResumes)
  BY <1>4 DEF Pi, agenttool, gateResumes
<1>5. CASE Pi(AskExpires)
  BY <1>5 DEF Pi, agenttool, AskExpires, Quiet, settlePermission
<1>6. CASE Pi(RunStarts)
  BY <1>6 DEF Pi, agenttool, RunStarts, Quiet, Started
<1>7. CASE Pi(PreflightFails)
  BY <1>7 DEF Pi, agenttool, PreflightFails, Quiet
<1>8. CASE Pi(Retries)
  BY <1>8 DEF Pi, agenttool, Retries, Between, Quiet
<1>9. CASE Pi(RunEnds)
  <2>1. PICK outcome \in {"completed", "aborted", "error"} :
          pi' = [pi EXCEPT !.at = "ended", !.outcome = outcome]
    BY <1>9 DEF Pi, RunEnds
  <2> QED
    BY <1>9, <2>1 DEF Pi, RunEnds
<1>10. CASE Pi(Settles)
  BY <1>10
     DEF Pi, agenttool, Settles, Quiet, settlePrompt, finishPrompt,
         stopReasonFor
<1>11. CASE Pi(ToolEnds)
  BY <1>11 DEF Pi, agenttool, ToolEnds, Quiet
<1>12. CASE AgentReturns
  BY <1>12 DEF AgentReturns, Quiet, NoScout
<1>13. CASE PiExits
  BY <1>13
     DEF PiExits, Exited, detach, dropPermissions, settlePermission, agenttool
<1>14. CASE Connect
  BY <1>14 DEF Connect, Exited, Connects, agenttool
<1>15. CASE \/ SendPrompt \/ SendCancel \/ SendAnswer \/ Execute
            \/ Scout(Oversize) \/ Scout(ScoutDeadline) \/ Scout(GraceEnds)
            \/ Scout(ScoutCloses(pi.aborted)) \/ ScoutEnds \/ BridgeSteps
            \/ Bridge(Stopped) \/ Bridge(Shot) \/ Done
  BY <1>15
     DEF SendPrompt, Send, agenttool, SendCancel, SendAnswer, Execute, Quiet,
         NoScout, Refuses, Refused, SpawnFails, reserveSpawn, MayReserve,
         Spawns, killChild, acp, Scout, Oversize, ScoutDeadline, GraceEnds,
         ScoutCloses, Classified, ScoutEnds, ScoutExits, Killed, BridgeSteps,
         Bridge, StartupFails, terminate, ServiceEnds, Exited, GroupKilled,
         TornDown, Group, Returns, Stopped, Shot, Done, vars
<1>16. CASE UNCHANGED vars
  BY <1>16 DEF vars, acp, agenttool
<1> QED
  BY <1>1, <1>2, <1>3, <1>4, <1>5, <1>6, <1>7, <1>8, <1>9, <1>10, <1>11, <1>12,
     <1>13, <1>14, <1>15, <1>16
     DEF Next

\* And what the prompts are told.
LEMMA ToldStep ==
  SeatType /\ [Next]_vars => (told \in [Prompt -> {"none", "busy", "done", "cancelled", "error"}])'
<1> SUFFICES ASSUME SeatType, [Next]_vars
             PROVE  (told \in [Prompt -> {"none", "busy", "done", "cancelled", "error"}])'
  OBVIOUS
<1> USE PromptsAssumption, BudgetAssumption
    DEF SeatType, AcpType
<1>1. CASE Receive
  <2>1. CASE \E p \in Prompt : HearPrompt(p)
    BY <2>1 DEF HearPrompt
  <2>2. CASE cancel \/ (\E n, choice : handleResponse(n, choice))
    BY <2>2 DEF cancel, handleResponse
  <2> QED
    BY <1>1, <2>1, <2>2, FrameHeard DEF Receive
<1>2. CASE Pi(Settles)
  BY <1>2
     DEF Pi, agenttool, Settles, Quiet, settlePrompt, finishPrompt,
         stopReasonFor
<1>3. CASE \/ SendPrompt \/ SendCancel \/ SendAnswer \/ ServerDetaches
           \/ Pi(Gates) \/ Pi(gateResumes) \/ Pi(AskExpires)
           \/ Pi(RunStarts) \/ Pi(PreflightFails) \/ Pi(Retries)
           \/ Pi(RunEnds) \/ Pi(ToolEnds) \/ Execute \/ Scout(Oversize)
           \/ Scout(ScoutDeadline) \/ Scout(GraceEnds)
           \/ Scout(ScoutCloses(pi.aborted)) \/ AgentReturns \/ ScoutEnds
           \/ PiExits \/ Connect \/ BridgeSteps \/ Bridge(Stopped)
           \/ Bridge(Shot) \/ Done
  BY <1>3
     DEF SendPrompt, Send, agenttool, SendCancel, SendAnswer, ServerDetaches,
         Quiet, Detaches, Serving, detach, dropPermissions, settlePermission,
         Pi, Gates, gateAsks, Calling, Asks, Called, gateBlocks, Passes,
         gatePasses, gateResumes, AskExpires, RunStarts, Started,
         PreflightFails, Retries, Between, RunEnds, ToolEnds, Execute, NoScout,
         Refuses, Refused, SpawnFails, reserveSpawn, MayReserve, Spawns,
         killChild, acp, Scout, Oversize, ScoutDeadline, GraceEnds,
         ScoutCloses, Classified, AgentReturns, ScoutEnds, ScoutExits, Killed,
         PiExits, Exited, Connect, Connects, BridgeSteps, Bridge, StartupFails,
         terminate, ServiceEnds, GroupKilled, TornDown, Group, Returns,
         Stopped, Shot, Done, vars
<1>4. CASE UNCHANGED vars
  BY <1>4 DEF vars, acp, agenttool
<1> QED
  BY <1>1, <1>2, <1>3, <1>4 DEF Next

\* The scout and the counter of its lane keep theirs.
LEMMA ToolStep == SeatType /\ [Next]_vars => AgentToolType'
<1> SUFFICES ASSUME SeatType, [Next]_vars
             PROVE  AgentToolType'
  OBVIOUS
<1> USE PromptsAssumption, BudgetAssumption
    DEF SeatType, AgentToolType
<1>1. CASE Receive
  BY <1>1, KillTypes DEF Receive
<1>2. CASE Execute
  <2>1. CASE Refuses
    BY <2>1, ScoutTypes DEF Refuses
  <2>2. CASE SpawnFails
    <3>1. spawns' = [counted |-> spawns.counted + 1, started |-> spawns.started + 0]
      BY <2>2 DEF SpawnFails, reserveSpawn
    <3>2. scout' \in Scouts
      BY <2>2, ScoutTypes DEF SpawnFails
    <3> QED
      BY <3>1, <3>2
  <2>3. CASE Spawns(pi.aborted)
    <3>1. spawns' = [counted |-> spawns.counted + 1, started |-> spawns.started + 1]
      BY <2>3 DEF Spawns, reserveSpawn
    <3>2. scout' \in Scouts
      BY <2>3, ScoutTypes, KillTypes DEF Spawns
    <3> QED
      BY <3>1, <3>2
  <2> QED
    BY <1>2, <2>1, <2>2, <2>3 DEF Execute
<1>3. CASE Scout(Oversize)
  BY <1>3 DEF Scout, Quiet, acp, Oversize, Scouts
<1>4. CASE Scout(ScoutDeadline)
  <2>1. [scout EXCEPT !.timedOut = TRUE] \in Scouts
    BY DEF Scouts
  <2> QED
    BY <1>4, <2>1, KillTypes DEF Scout, ScoutDeadline
<1>5. CASE Scout(GraceEnds)
  BY <1>5 DEF Scout, Quiet, acp, GraceEnds, Scouts
<1>6. CASE Scout(ScoutCloses(pi.aborted))
  <2>1. PICK result \in Classified(scout, pi.aborted) :
          scout' = [scout EXCEPT !.at = "closed", !.grace = "off", !.result = result]
    BY <1>6 DEF Scout, ScoutCloses
  <2>2. result \in {"findings", "refused"}
    BY <2>1 DEF Classified
  <2> QED
    BY <1>6, <2>1, <2>2 DEF Scout, ScoutCloses, Scouts
<1>7. CASE AgentReturns
  BY <1>7 DEF AgentReturns, Quiet, NoScout, Scouts
<1>8. CASE ScoutEnds
  BY <1>8 DEF ScoutEnds, ScoutExits, Killed, acp, Scouts
<1>9. CASE \/ SendPrompt \/ SendCancel \/ SendAnswer \/ ServerDetaches
           \/ Pi(Gates) \/ Pi(gateResumes) \/ Pi(AskExpires)
           \/ Pi(RunStarts) \/ Pi(PreflightFails) \/ Pi(Retries)
           \/ Pi(RunEnds) \/ Pi(Settles) \/ Pi(ToolEnds) \/ PiExits
           \/ Connect \/ BridgeSteps \/ Bridge(Stopped) \/ Bridge(Shot)
           \/ Done
  BY <1>9
     DEF SendPrompt, Send, agenttool, SendCancel, SendAnswer, ServerDetaches,
         Quiet, Detaches, Serving, detach, dropPermissions, settlePermission,
         Pi, Gates, gateAsks, Calling, Asks, Called, gateBlocks, Passes,
         gatePasses, gateResumes, AskExpires, RunStarts, Started,
         PreflightFails, Retries, Between, RunEnds, Settles, settlePrompt,
         finishPrompt, stopReasonFor, ToolEnds, PiExits, Exited, Connect,
         Connects, BridgeSteps, Bridge, acp, StartupFails, terminate,
         ServiceEnds, GroupKilled, TornDown, Group, Returns, Stopped, Shot,
         Done, vars
<1>10. CASE UNCHANGED vars
  BY <1>10 DEF vars, acp, agenttool
<1> QED
  BY <1>1, <1>2, <1>3, <1>4, <1>5, <1>6, <1>7, <1>8, <1>9, <1>10 DEF Next

\* The bridge keeps its own.
LEMMA BridgeTypeStep == SeatType /\ [Next]_vars => BridgeType'
<1> SUFFICES ASSUME SeatType, [Next]_vars
             PROVE  BridgeType'
  OBVIOUS
<1> USE PromptsAssumption, BudgetAssumption
    DEF SeatType, BridgeType
<1>1. CASE Connect
  BY <1>1 DEF Connect, Exited, Connects, agenttool
<1>2. CASE BridgeSteps
  BY <1>2
     DEF BridgeSteps, Bridge, acp, agenttool, StartupFails, terminate,
         ServiceEnds, Exited, GroupKilled, TornDown, Group, Returns
<1>3. CASE Bridge(Stopped)
  BY <1>3 DEF Bridge, acp, agenttool, Stopped
<1>4. CASE Bridge(Shot)
  BY <1>4 DEF Bridge, acp, agenttool, Shot
<1>5. CASE Done
  BY <1>5 DEF Done, Group, Exited, vars, acp, agenttool
<1>6. CASE \/ SendPrompt \/ SendCancel \/ SendAnswer \/ Receive
           \/ ServerDetaches \/ Pi(Gates) \/ Pi(gateResumes)
           \/ Pi(AskExpires) \/ Pi(RunStarts) \/ Pi(PreflightFails)
           \/ Pi(Retries) \/ Pi(RunEnds) \/ Pi(Settles) \/ Pi(ToolEnds)
           \/ Execute \/ Scout(Oversize) \/ Scout(ScoutDeadline)
           \/ Scout(GraceEnds) \/ Scout(ScoutCloses(pi.aborted))
           \/ AgentReturns \/ ScoutEnds \/ PiExits
  BY <1>6
     DEF SendPrompt, Send, agenttool, SendCancel, SendAnswer, Receive, receive,
         Serving, HearPrompt, NoTool, cancel, dropPermissions,
         settlePermission, abort, handleResponse, WaitsFor, killChild,
         ServerDetaches, Quiet, Detaches, detach, Pi, Gates, gateAsks, Calling,
         Asks, Called, gateBlocks, Passes, gatePasses, gateResumes, AskExpires,
         RunStarts, Started, PreflightFails, Retries, Between, RunEnds,
         Settles, settlePrompt, finishPrompt, stopReasonFor, ToolEnds, Execute,
         NoScout, Refuses, Refused, SpawnFails, reserveSpawn, MayReserve,
         Spawns, acp, Scout, Oversize, ScoutDeadline, GraceEnds, ScoutCloses,
         Classified, AgentReturns, ScoutEnds, ScoutExits, Killed, PiExits,
         Exited
<1>7. CASE UNCHANGED vars
  BY <1>7 DEF vars, acp, agenttool
<1> QED
  BY <1>1, <1>2, <1>3, <1>4, <1>5, <1>6, <1>7 DEF Next

\* So do the client and what is remembered of it.
LEMMA ClientStep == SeatType /\ PromptInv /\ [Next]_vars => ClientType'
<1> SUFFICES ASSUME SeatType, PromptInv, [Next]_vars
             PROVE  ClientType'
  OBVIOUS
<1> USE PromptsAssumption, BudgetAssumption
    DEF SeatType, ClientType, AcpType, ServerType
<1>1. CASE SendPrompt
  <2>1. client' = [client EXCEPT !.sent = @ + 1, !.cancelled = FALSE] /\ client.sent < Prompts
    BY <1>1 DEF SendPrompt
  <2>2. client.sent + 1 \in 0 .. Prompts
    BY <2>1
  <2> QED
    BY <1>1, <2>1, <2>2 DEF SendPrompt
<1>2. CASE SendCancel
  BY <1>2 DEF SendCancel, Send, agenttool
<1>3. CASE SendAnswer
  <2>1. client' = [client EXCEPT !.answered = @ + 1] /\ client'.answered \in Nat
    BY <1>3 DEF SendAnswer
  <2>2. PICK choice \in Choices :
          history' = [history EXCEPT !.allowed =
                        IF choice = "allow" THEN @ \union {client'.answered} ELSE @]
    BY <1>3 DEF SendAnswer
  <2> QED
    BY <2>1, <2>2
<1>4. CASE Receive
  <2>1. server'.cancelled => server.prompt \in Prompt
    BY <1>4, FrameHeard
       DEF Receive, HearPrompt, cancel, handleResponse, PromptInv, InFlight
  <2> QED
    BY <1>4, <2>1 DEF Receive
<1>5. CASE \/ ServerDetaches \/ Pi(Gates) \/ Pi(gateResumes)
           \/ Pi(AskExpires) \/ Pi(RunStarts) \/ Pi(PreflightFails)
           \/ Pi(Retries) \/ Pi(RunEnds) \/ Pi(Settles) \/ Pi(ToolEnds)
           \/ Execute \/ Scout(Oversize) \/ Scout(ScoutDeadline)
           \/ Scout(GraceEnds) \/ Scout(ScoutCloses(pi.aborted))
           \/ AgentReturns \/ ScoutEnds \/ PiExits \/ Connect
           \/ BridgeSteps \/ Bridge(Stopped) \/ Bridge(Shot) \/ Done
  BY <1>5
     DEF ServerDetaches, Quiet, Detaches, Serving, detach, dropPermissions,
         settlePermission, agenttool, Pi, Gates, gateAsks, Calling, Asks,
         Called, gateBlocks, Passes, gatePasses, gateResumes, AskExpires,
         RunStarts, Started, PreflightFails, Retries, Between, RunEnds,
         Settles, settlePrompt, finishPrompt, stopReasonFor, ToolEnds, Execute,
         NoScout, Refuses, Refused, SpawnFails, reserveSpawn, MayReserve,
         Spawns, killChild, acp, Scout, Oversize, ScoutDeadline, GraceEnds,
         ScoutCloses, Classified, AgentReturns, ScoutEnds, ScoutExits, Killed,
         PiExits, Exited, Connect, Connects, BridgeSteps, Bridge, StartupFails,
         terminate, ServiceEnds, GroupKilled, TornDown, Group, Returns,
         Stopped, Shot, Done, vars
<1>6. CASE UNCHANGED vars
  BY <1>6 DEF vars, acp, agenttool
<1> QED
  BY <1>1, <1>2, <1>3, <1>4, <1>5, <1>6 DEF Next

-----------------------------------------------------------------------------
(* The scout and pi's group.                                               *)

\* A scout belongs to a running call, and one that was stopped has no findings.
LEMMA ScoutStep ==
  SeatType /\ ScoutInv /\ PromptInv /\ [Next]_vars => ScoutInv'
<1> SUFFICES ASSUME SeatType, ScoutInv, PromptInv, [Next]_vars
             PROVE  ScoutInv'
  OBVIOUS
<1> USE PromptsAssumption, BudgetAssumption
    DEF SeatType, AcpType, AgentToolType, ServerType, PiType, ToolType,
        BridgeType, ClientType, Kinds, Choices, ScoutInv, CallOfRun, NoScout
<1>1. CASE Receive
  <2>1. ASSUME NEW p \in Prompt, HearPrompt(p)
        PROVE  ScoutInv'
    <3>1. CASE UNCHANGED <<pi, tool>>
      BY <1>1, <3>1 DEF Receive
    <3>2. CASE /\ server.prompt = None /\ ~server.cancelled
               /\ pi'.at = "preflight" /\ ~pi'.aborted /\ tool'.at = "none"
      <4>1. pi.at = "idle" /\ scout = NoScout
        BY <1>1, <3>2, FrameHeard DEF Receive, PromptInv, InFlight
      <4>2. scout' = scout /\ spawns' = spawns
        BY <1>1, <3>2 DEF Receive
      <4> QED
        BY <3>2, <4>1, <4>2
    <3> QED
      BY <2>1, <3>1, <3>2, PromptOutcome
  <2>2. CASE cancel
    <3>1. /\ pi'.at = pi.at /\ (pi.aborted => pi'.aborted)
          /\ tool' = tool \/ (tool.at = "asked" /\ tool'.at = "answered")
      BY <2>2, CancelOutcome
    <3>2. CASE scout' = scout
      BY <1>1, <3>1, <3>2 DEF Receive
    <3>3. CASE pi'.aborted /\ scout' = killChild(scout)
      <4>1. CASE scout.at \in {"up", "exited"}
        <5>1. /\ scout # NoScout /\ scout'.result = scout.result
              /\ scout.result # "findings" /\ UNCHANGED spawns
          BY <1>1, <3>3, <4>1, KillTypes DEF Receive
        <5> QED
          BY <3>1, <3>3, <5>1
      <4>2. CASE scout.at \notin {"up", "exited"}
        BY <3>2, <3>3, <4>2, KillTypes
      <4> QED
        BY <4>1, <4>2
    <3> QED
      BY <1>1, <3>2, <3>3 DEF Receive
  <2>3. CASE \E n \in Nat, choice \in Choices : handleResponse(n, choice)
    BY <1>1, <2>3 DEF Receive, handleResponse, WaitsFor, settlePermission
  <2> QED
    BY <1>1, <2>1, <2>2, <2>3, FrameHeard DEF Receive
<1>2. CASE ServerDetaches
  BY <1>2
     DEF ServerDetaches, Quiet, Detaches, Serving, detach, dropPermissions,
         settlePermission, agenttool
<1>3. CASE Pi(Gates)
  BY <1>3
     DEF Pi, agenttool, Gates, gateAsks, Calling, Quiet, Asks, Called,
         gateBlocks, Passes, gatePasses
<1>4. CASE Pi(gateResumes)
  BY <1>4 DEF Pi, agenttool, gateResumes
<1>5. CASE Pi(AskExpires)
  BY <1>5 DEF Pi, agenttool, AskExpires, Quiet, settlePermission
<1>6. CASE Pi(RunStarts)
  BY <1>6 DEF Pi, agenttool, RunStarts, Quiet, Started
<1>7. CASE Pi(PreflightFails)
  BY <1>7 DEF Pi, agenttool, PreflightFails, Quiet
<1>8. CASE Pi(Retries)
  BY <1>8 DEF Pi, agenttool, Retries, Between, Quiet
<1>9. CASE Pi(RunEnds)
  BY <1>9 DEF Pi, agenttool, RunEnds, Between, Quiet
<1>10. CASE Pi(Settles)
  BY <1>10
     DEF Pi, agenttool, Settles, Quiet, settlePrompt, finishPrompt,
         stopReasonFor
<1>11. CASE Pi(ToolEnds)
  BY <1>11 DEF Pi, agenttool, ToolEnds, Quiet
<1>12. CASE Execute
  <2>1. /\ scout = NoScout /\ tool.at = "running" /\ tool.kind = "agent"
        /\ UNCHANGED <<pi, tool>>
    BY <1>12 DEF Execute, acp
  <2>2. CASE Refuses
    BY <2>1, <2>2, ScoutStarts DEF Refuses
  <2>3. CASE SpawnFails
    <3>1. /\ spawns' = [counted |-> spawns.counted + 1, started |-> spawns.started + 0]
          /\ spawns.counted < Budget
      BY <2>3 DEF SpawnFails, reserveSpawn, MayReserve
    <3>2. ~scout'.stopped /\ scout'.result # "findings"
      BY <2>3, ScoutStarts DEF SpawnFails
    <3> QED
      BY <2>1, <3>1, <3>2
  <2>4. CASE Spawns(pi.aborted)
    <3>1. /\ spawns' = [counted |-> spawns.counted + 1, started |-> spawns.started + 1]
          /\ spawns.counted < Budget
      BY <2>4 DEF Spawns, reserveSpawn, MayReserve
    <3>2. (scout'.stopped => pi.aborted) /\ scout'.result # "findings"
      BY <2>4, ScoutStarts, ScoutTypes, KillTypes DEF Spawns
    <3> QED
      BY <2>1, <3>1, <3>2
  <2> QED
    BY <1>12, <2>2, <2>3, <2>4 DEF Execute
<1>13. CASE Scout(Oversize)
  BY <1>13 DEF Scout, Quiet, acp, Oversize
<1>14. CASE Scout(ScoutDeadline)
  BY <1>14 DEF Scout, Quiet, acp, ScoutDeadline, killChild
<1>15. CASE Scout(GraceEnds)
  BY <1>15 DEF Scout, Quiet, acp, GraceEnds
<1>16. CASE Scout(ScoutCloses(pi.aborted))
  BY <1>16 DEF Scout, Quiet, acp, ScoutCloses, Classified
<1>17. CASE AgentReturns
  BY <1>17 DEF AgentReturns, Quiet
<1>18. CASE ScoutEnds
  BY <1>18 DEF ScoutEnds, ScoutExits, Killed, acp
<1>19. CASE PiExits
  BY <1>19
     DEF PiExits, Exited, detach, dropPermissions, settlePermission, agenttool
<1>20. CASE \/ SendPrompt \/ SendCancel \/ SendAnswer \/ Connect
            \/ BridgeSteps \/ Bridge(Stopped) \/ Bridge(Shot) \/ Done
  BY <1>20
     DEF SendPrompt, Send, agenttool, SendCancel, SendAnswer, Connect, Exited,
         Connects, BridgeSteps, Bridge, acp, StartupFails, terminate,
         ServiceEnds, GroupKilled, TornDown, Group, Returns, Stopped, Shot,
         Done, vars
<1>21. CASE UNCHANGED vars
  BY <1>21 DEF vars, acp, agenttool
<1> QED
  BY <1>1, <1>2, <1>3, <1>4, <1>5, <1>6, <1>7, <1>8, <1>9, <1>10, <1>11, <1>12,
     <1>13, <1>14, <1>15, <1>16, <1>17, <1>18, <1>19, <1>20, <1>21
     DEF Next

\* Once the bridge is over, pi is gone and nobody starts a scout any more.
LEMMA BridgeStep == SeatType /\ BridgeInv /\ [Next]_vars => BridgeInv'
<1> SUFFICES ASSUME SeatType, BridgeInv, [Next]_vars
             PROVE  BridgeInv'
  OBVIOUS
<1> USE PromptsAssumption, BudgetAssumption
    DEF SeatType, AcpType, AgentToolType, ServerType, PiType, ToolType,
        BridgeType, ClientType, Kinds, Choices, BridgeInv, Exited, NoScout
<1>1. CASE Receive
  BY <1>1
     DEF Receive, receive, Serving, HearPrompt, NoTool, cancel,
         dropPermissions, settlePermission, abort, handleResponse, WaitsFor,
         killChild
<1>2. CASE Execute
  BY <1>2
     DEF Execute, Quiet, Refuses, Refused, SpawnFails, reserveSpawn,
         MayReserve, Spawns, killChild, acp
<1>3. CASE Scout(Oversize)
  BY <1>3 DEF Scout, Quiet, acp, Oversize
<1>4. CASE Scout(ScoutDeadline)
  BY <1>4 DEF Scout, Quiet, acp, ScoutDeadline, killChild
<1>5. CASE Scout(GraceEnds)
  BY <1>5 DEF Scout, Quiet, acp, GraceEnds
<1>6. CASE Scout(ScoutCloses(pi.aborted))
  BY <1>6 DEF Scout, Quiet, acp, ScoutCloses, Classified
<1>7. CASE AgentReturns
  BY <1>7 DEF AgentReturns, Quiet
<1>8. CASE ScoutEnds
  BY <1>8 DEF ScoutEnds, ScoutExits, Killed, acp
<1>9. CASE PiExits
  BY <1>9 DEF PiExits, detach, dropPermissions, settlePermission, agenttool
<1>10. CASE Connect
  BY <1>10 DEF Connect, Connects, agenttool
<1>11. CASE BridgeSteps
  <2>1. UNCHANGED <<pi, scout>>
    BY <1>11 DEF BridgeSteps, Bridge, acp, agenttool
  <2>2. bridge'.at = "over" => Returns(Exited, Group)
    BY <1>11 DEF BridgeSteps, Bridge, StartupFails, ServiceEnds, GroupKilled, terminate
  <2>3. CASE Returns(Exited, Group)
    <3>1. bridge'.sent = bridge.sent /\ (TornDown(Exited, Group) \/ (bridge.sent = "kill" /\ Exited))
      BY <2>3 DEF Returns
    <3>2. TornDown(Exited, Group) => Exited /\ scout.at # "up"
      BY DEF TornDown, Group
    <3> QED
      BY <2>1, <3>1, <3>2
  <2> QED
    BY <2>2, <2>3
<1>12. CASE Bridge(Stopped)
  BY <1>12 DEF Bridge, acp, agenttool, Stopped
<1>13. CASE Bridge(Shot)
  BY <1>13 DEF Bridge, acp, agenttool, Shot
<1>14. CASE Done
  BY <1>14 DEF Done, Group, vars, acp, agenttool
<1>15. CASE \/ SendPrompt \/ SendCancel \/ SendAnswer \/ ServerDetaches
            \/ Pi(Gates) \/ Pi(gateResumes) \/ Pi(AskExpires)
            \/ Pi(RunStarts) \/ Pi(PreflightFails) \/ Pi(Retries)
            \/ Pi(RunEnds) \/ Pi(Settles) \/ Pi(ToolEnds)
  BY <1>15
     DEF SendPrompt, Send, agenttool, SendCancel, SendAnswer, ServerDetaches,
         Quiet, Detaches, Serving, detach, dropPermissions, settlePermission,
         Pi, Gates, gateAsks, Calling, Asks, Called, gateBlocks, Passes,
         gatePasses, gateResumes, AskExpires, RunStarts, Started,
         PreflightFails, Retries, Between, RunEnds, Settles, settlePrompt,
         finishPrompt, stopReasonFor, ToolEnds
<1>16. CASE UNCHANGED vars
  BY <1>16 DEF vars, acp, agenttool
<1> QED
  BY <1>1, <1>2, <1>3, <1>4, <1>5, <1>6, <1>7, <1>8, <1>9, <1>10, <1>11, <1>12,
     <1>13, <1>14, <1>15, <1>16
     DEF Next

-----------------------------------------------------------------------------
(* Permissions and prompts.                                                *)

\* An allow that is under way was given by the client.
LEMMA AskStep == SeatType /\ AskInv /\ [Next]_vars => AskInv'
<1> SUFFICES ASSUME SeatType, AskInv, [Next]_vars
             PROVE  AskInv'
  OBVIOUS
<1> USE PromptsAssumption, BudgetAssumption
    DEF SeatType, AcpType, AgentToolType, ServerType, PiType, ToolType,
        BridgeType, ClientType, Kinds, Choices, AskInv
<1>1. CASE SendPrompt
  BY <1>1, SentLast DEF SendPrompt, Send
<1>2. CASE SendCancel
  BY <1>2 DEF SendCancel, Send, agenttool
<1>3. CASE SendAnswer
  <2>1. PICK choice \in Choices :
          /\ Send([kind |-> "answer", id |-> client'.answered, choice |-> choice])
          /\ history' = [history EXCEPT !.allowed =
                           IF choice = "allow" THEN @ \union {client'.answered} ELSE @]
    BY <1>3 DEF SendAnswer
  <2>2. history.allowed \subseteq history'.allowed
        /\ (choice = "allow" => client'.answered \in history'.allowed)
    BY <2>1
  <2> QED
    BY <2>1, <2>2 DEF Send
<1>4. CASE Receive
  <2>1. /\ inbox # <<>> /\ inbox' = Tail(inbox)
        /\ history'.allowed = history.allowed
    BY <1>4, FrameHeard DEF Receive
  <2>2. \A i \in DOMAIN inbox' : i + 1 \in DOMAIN inbox /\ inbox'[i] = inbox[i + 1]
    BY <2>1, TailIndex
  <2>3. tool'.answer = "allow" => tool'.ask \in history.allowed
    <3>1. CASE \E p \in Prompt : HearPrompt(p)
      BY <3>1 DEF HearPrompt, NoTool
    <3>2. CASE cancel
      BY <3>2 DEF cancel, dropPermissions, settlePermission
    <3>3. ASSUME NEW n \in Nat, NEW choice \in Choices, handleResponse(n, choice),
                 Head(inbox) = [kind |-> "answer", id |-> n, choice |-> choice]
          PROVE  tool'.answer = "allow" => tool'.ask \in history.allowed
      <4>1. 1 \in DOMAIN inbox
            /\ inbox[1] = [kind |-> "answer", id |-> n, choice |-> choice]
        BY <2>1, <3>3, TailIndex
      <4>2. choice = "allow" => n \in history.allowed
        BY <4>1
      <4> QED
        BY <3>3, <4>2 DEF handleResponse, WaitsFor, settlePermission
    <3> QED
      BY <1>4, <3>1, <3>2, <3>3, FrameHeard DEF Receive
  <2> QED
    BY <2>1, <2>2, <2>3
<1>5. CASE ServerDetaches
  BY <1>5
     DEF ServerDetaches, Quiet, Detaches, Serving, detach, dropPermissions,
         settlePermission, agenttool
<1>6. CASE Pi(Gates)
  BY <1>6
     DEF Pi, agenttool, Gates, gateAsks, Calling, Quiet, Asks, Called,
         gateBlocks, Passes, gatePasses
<1>7. CASE Pi(gateResumes)
  BY <1>7 DEF Pi, agenttool, gateResumes
<1>8. CASE Pi(AskExpires)
  BY <1>8 DEF Pi, agenttool, AskExpires, Quiet, settlePermission
<1>9. CASE Pi(ToolEnds)
  BY <1>9 DEF Pi, agenttool, ToolEnds, Quiet
<1>10. CASE PiExits
  BY <1>10
     DEF PiExits, Exited, detach, dropPermissions, settlePermission, agenttool
<1>11. CASE Connect
  BY <1>11 DEF Connect, Exited, Connects, agenttool
<1>12. CASE \/ Pi(RunStarts) \/ Pi(PreflightFails) \/ Pi(Retries)
            \/ Pi(RunEnds) \/ Pi(Settles)
  BY <1>12
     DEF Pi, agenttool, RunStarts, Quiet, Started, PreflightFails, Retries,
         Between, RunEnds, Settles, settlePrompt, finishPrompt, stopReasonFor
<1>13. CASE \/ Execute \/ Scout(Oversize) \/ Scout(ScoutDeadline)
            \/ Scout(GraceEnds) \/ Scout(ScoutCloses(pi.aborted))
            \/ AgentReturns \/ ScoutEnds
  BY <1>13
     DEF Execute, Quiet, NoScout, Refuses, Refused, SpawnFails, reserveSpawn,
         MayReserve, Spawns, killChild, acp, Scout, Oversize, ScoutDeadline,
         GraceEnds, ScoutCloses, Classified, AgentReturns, ScoutEnds,
         ScoutExits, Killed
<1>14. CASE \/ BridgeSteps \/ Bridge(Stopped) \/ Bridge(Shot) \/ Done
  BY <1>14
     DEF BridgeSteps, Bridge, acp, agenttool, StartupFails, terminate,
         ServiceEnds, Exited, GroupKilled, TornDown, Group, Returns, Stopped,
         Shot, Done, vars
<1>15. CASE UNCHANGED vars
  BY <1>15 DEF vars, acp, agenttool
<1> QED
  BY <1>1, <1>2, <1>3, <1>4, <1>5, <1>6, <1>7, <1>8, <1>9, <1>10, <1>11, <1>12,
     <1>13, <1>14, <1>15
     DEF Next

\* A prompt is untouched until it is heard, and untouched again once it is
\* answered.
LEMMA PromptStep == SeatType /\ PromptInv /\ [Next]_vars => PromptInv'
<1> SUFFICES ASSUME SeatType, PromptInv, [Next]_vars
             PROVE  PromptInv'
  OBVIOUS
<1> USE PromptsAssumption, BudgetAssumption
    DEF SeatType, AcpType, ServerType, PiType, ClientType, PromptInv,
        PromptsUnheard, InFlight, AnswerInv, Unheard
<1>1. CASE SendPrompt
  <2>1. /\ inbox' = Append(inbox, [kind |-> "prompt", id |-> client.sent + 1])
        /\ client'.sent = client.sent + 1 /\ client.sent + 1 \in Prompt
        /\ UNCHANGED <<server, told, pi, history>>
    BY <1>1 DEF SendPrompt, Send, Prompt
  <2>2. \A i \in DOMAIN inbox' :
          \/ i \in DOMAIN inbox /\ inbox'[i] = inbox[i]
          \/ i = Len(inbox) + 1 /\ inbox'[i] = [kind |-> "prompt", id |-> client.sent + 1]
    BY <2>1
  <2>3. Unheard(client.sent + 1) /\ UNCHANGED <<InFlight, AnswerInv>>
    BY <2>1
  <2>4. \A p \in Prompt : p > client'.sent => Unheard(p)'
    BY <2>1 DEF Prompt
  <2>5. \A i \in DOMAIN inbox' : inbox'[i].kind = "prompt" =>
          inbox'[i].id \in 1 .. client'.sent /\ Unheard(inbox'[i].id)
    BY <2>1, <2>2, <2>3
  <2>6. \A i, j \in DOMAIN inbox' :
          inbox'[i].kind = "prompt" /\ inbox'[j].kind = "prompt" /\ inbox'[j].id = inbox'[i].id => i = j
    BY <2>1, <2>2
  <2> QED
    BY <2>1, <2>3, <2>4, <2>5, <2>6
<1>2. CASE SendCancel
  <2>1. /\ inbox' = Append(inbox, [kind |-> "cancel"]) /\ client'.sent = client.sent
        /\ UNCHANGED <<server, told, pi, history>>
    BY <1>2 DEF SendCancel, Send
  <2>2. \A i \in DOMAIN inbox' : inbox'[i].kind = "prompt" =>
          i \in DOMAIN inbox /\ inbox'[i] = inbox[i]
    BY <2>1
  <2> QED
    BY <2>1, <2>2
<1>3. CASE SendAnswer
  <2>1. PICK frame : inbox' = Append(inbox, frame) /\ frame.kind = "answer"
    BY <1>3 DEF SendAnswer, Send
  <2>2. /\ client'.sent = client.sent /\ history'.cancelled = history.cancelled
        /\ UNCHANGED <<server, told, pi>>
    BY <1>3 DEF SendAnswer, Send
  <2>3. \A i \in DOMAIN inbox' : inbox'[i].kind = "prompt" =>
          i \in DOMAIN inbox /\ inbox'[i] = inbox[i]
    BY <2>1
  <2> QED
    BY <2>2, <2>3
<1>4. CASE Receive
  <2>1. /\ inbox # <<>> /\ inbox' = Tail(inbox) /\ UNCHANGED client
        /\ server.client = "on" /\ pi.at # "gone"
        /\ history'.cancelled = IF server'.cancelled
             THEN history.cancelled \union {server.prompt} ELSE history.cancelled
    BY <1>4, FrameHeard DEF Receive
  <2>2. \A i \in DOMAIN inbox' : i + 1 \in DOMAIN inbox /\ inbox'[i] = inbox[i + 1] /\ i \in Nat \ {0}
    BY <2>1, TailIndex
  <2>3. \A i \in DOMAIN inbox' : inbox'[i].kind = "prompt" =>
          /\ inbox'[i].id \in 1 .. client.sent /\ Unheard(inbox'[i].id)
          /\ \A j \in DOMAIN inbox' :
               inbox'[j].kind = "prompt" /\ inbox'[j].id = inbox'[i].id => i = j
    BY <2>1, <2>2
  <2>4. server.cancelled => history.cancelled \union {server.prompt} = history.cancelled
    BY <2>1
  <2>5. CASE /\ UNCHANGED <<server, told>> /\ pi'.at = pi.at /\ pi'.run = pi.run
             /\ pi'.aborted = pi.aborted /\ pi'.outcome = pi.outcome
    <3>1. history'.cancelled = history.cancelled
      BY <2>1, <2>4, <2>5
    <3> QED
      BY <2>1, <2>3, <2>5, <3>1
  <2>6. CASE cancel
    <3>1. CASE server.prompt # None
      <4>1. /\ server' = [server EXCEPT !.cancelled = TRUE] /\ told' = told
            /\ pi'.at = pi.at /\ pi'.run = pi.run /\ pi'.outcome = pi.outcome
            /\ pi.aborted => pi'.aborted
        BY <2>6, <3>1, CancelOutcome
      <4>2. history'.cancelled = history.cancelled \union {server.prompt}
            /\ server'.prompt = server.prompt
        BY <2>1, <4>1
      <4>3. PromptsUnheard'
        BY <2>1, <2>3, <4>1, <4>2
      <4>4. InFlight'
        BY <2>1, <3>1, <4>1, <4>2
      <4>5. AnswerInv'
        BY <3>1, <4>1, <4>2
      <4> QED
        BY <4>3, <4>4, <4>5
    <3>2. CASE server.prompt = None
      BY <2>5, <2>6, <3>2, CancelOutcome
    <3> QED
      BY <3>1, <3>2
  <2>7. CASE \E n \in Nat, choice \in Choices : handleResponse(n, choice)
    BY <2>5, <2>7 DEF handleResponse
  <2>8. ASSUME NEW p \in Prompt, Head(inbox) = [kind |-> "prompt", id |-> p], HearPrompt(p)
        PROVE  PromptInv'
    <3>1. /\ p <= client.sent /\ Unheard(p)
          /\ \A i \in DOMAIN inbox' : inbox'[i].kind = "prompt" => inbox'[i].id # p
      <4>1. 1 \in DOMAIN inbox /\ inbox[1] = [kind |-> "prompt", id |-> p]
        BY <2>1, <2>8, TailIndex
      <4>2. inbox[1].kind = "prompt" /\ inbox[1].id = p
        BY <4>1
      <4>3. p \in 1 .. client.sent /\ Unheard(p)
        BY <4>1, <4>2
      <4>4. \A j \in DOMAIN inbox : inbox[j].kind = "prompt" /\ inbox[j].id = p => j = 1
        BY <4>1, <4>2
      <4> QED
        BY <2>1, <2>2, <4>3, <4>4
    <3>2. CASE told' = [told EXCEPT ![p] = "busy"] /\ UNCHANGED <<server, pi, tool>>
      <4>1. history'.cancelled = history.cancelled
        BY <2>1, <2>4, <3>2
      <4>2. told'[p] = "busy" /\ \A q \in Prompt : q # p => told'[q] = told[q]
        BY <3>2
      <4>3. PromptsUnheard'
        BY <2>1, <2>3, <3>1, <3>2, <4>1, <4>2 DEF Prompt
      <4> QED
        BY <2>1, <3>1, <3>2, <4>1, <4>2, <4>3
    <3>3. CASE /\ server.prompt = None /\ ~server.cancelled
               /\ server' = [server EXCEPT !.prompt = p]
               /\ pi'.at = "preflight" /\ pi'.run = p /\ ~pi'.aborted /\ pi'.outcome = "none"
               /\ told' = told
      <4>1. /\ history'.cancelled = history.cancelled
            /\ server'.prompt = p /\ server'.client = server.client /\ ~server'.cancelled
        BY <2>1, <3>3
      <4>2. PromptsUnheard'
        BY <2>1, <2>3, <3>1, <3>3, <4>1 DEF Prompt
      <4>3. InFlight' /\ AnswerInv'
        BY <2>1, <3>1, <3>3, <4>1
      <4> QED
        BY <4>2, <4>3
    <3> QED
      BY <2>8, <3>2, <3>3, PromptOutcome
  <2> QED
    BY <1>4, <2>6, <2>7, <2>8, FrameHeard DEF Receive
<1>5. CASE ServerDetaches
  BY <1>5
     DEF ServerDetaches, Quiet, Detaches, Serving, detach, dropPermissions,
         settlePermission, agenttool
<1>6. CASE Pi(Gates)
  <2>1. /\ server'.client = server.client /\ server'.prompt = server.prompt
        /\ server'.cancelled = server.cancelled /\ pi'.at = pi.at /\ pi'.run = pi.run
        /\ pi'.aborted = pi.aborted /\ pi'.outcome = pi.outcome
        /\ UNCHANGED <<inbox, told, client, history>>
    BY <1>6 DEF Pi, Gates, gateAsks, gateBlocks, gatePasses, Calling
  <2> QED
    BY <2>1
<1>7. CASE Pi(gateResumes)
  BY <1>7 DEF Pi, agenttool, gateResumes
<1>8. CASE Pi(AskExpires)
  BY <1>8 DEF Pi, agenttool, AskExpires, Quiet, settlePermission
<1>9. CASE Pi(RunStarts)
  BY <1>9 DEF Pi, agenttool, RunStarts, Quiet, Started
<1>10. CASE Pi(PreflightFails)
  BY <1>10 DEF Pi, agenttool, PreflightFails, Quiet
<1>11. CASE Pi(Retries)
  BY <1>11 DEF Pi, agenttool, Retries, Between, Quiet
<1>12. CASE Pi(RunEnds)
  BY <1>12 DEF Pi, agenttool, RunEnds, Between, Quiet
<1>13. CASE Pi(Settles)
  <2>1. /\ pi.at = "ended" /\ pi' = [pi EXCEPT !.at = "idle"]
        /\ server' = [server EXCEPT !.prompt = None, !.cancelled = FALSE]
        /\ UNCHANGED <<inbox, client, history>>
    BY <1>13 DEF Pi, Settles, settlePrompt, finishPrompt
  <2>2. PICK answer \in {"done", "cancelled", "error"} :
          /\ told' = [p \in Prompt |-> IF p = server.prompt THEN answer ELSE told[p]]
          /\ answer = "cancelled" => server.cancelled \/ pi.outcome = "aborted"
          /\ server.cancelled => answer = "cancelled"
    BY <1>13 DEF Pi, Settles, settlePrompt, finishPrompt, stopReasonFor
  <2>3. CASE server.client = "gone"
    <3>1. told' = told
      BY <2>2, <2>3, PromptsAssumption
    <3> QED
      BY <2>1, <2>3, <3>1
  <2>4. CASE server.client # "gone"
    <3>1. /\ server.prompt = pi.run /\ pi.run \in Prompt
          /\ (answer = "cancelled" <=> pi.run \in history.cancelled)
      BY <2>1, <2>2, <2>4
    <3>2. told'[pi.run] = answer /\ \A p \in Prompt : p # pi.run => told'[p] = told[p]
      BY <2>2, <3>1
    <3>3. PromptsUnheard'
      BY <2>1, <3>1, <3>2 DEF Prompt
    <3>4. InFlight'
      BY <2>1, <2>4
    <3>5. AnswerInv'
      BY <2>1, <3>1, <3>2
    <3> QED
      BY <3>3, <3>4, <3>5
  <2> QED
    BY <2>3, <2>4
<1>14. CASE Pi(ToolEnds)
  BY <1>14 DEF Pi, agenttool, ToolEnds, Quiet
<1>15. CASE PiExits
  BY <1>15
     DEF PiExits, Exited, detach, dropPermissions, settlePermission, agenttool
<1>16. CASE Connect
  BY <1>16 DEF Connect, Exited, Connects, agenttool
<1>17. CASE \/ Execute \/ Scout(Oversize) \/ Scout(ScoutDeadline)
            \/ Scout(GraceEnds) \/ Scout(ScoutCloses(pi.aborted))
            \/ AgentReturns \/ ScoutEnds
  BY <1>17
     DEF Execute, Quiet, NoScout, acp, Scout, AgentReturns, ScoutEnds, Killed
<1>18. CASE \/ BridgeSteps \/ Bridge(Stopped) \/ Bridge(Shot) \/ Done
  BY <1>18
     DEF BridgeSteps, Bridge, acp, agenttool, StartupFails, terminate,
         ServiceEnds, Exited, GroupKilled, TornDown, Group, Returns, Stopped,
         Shot, Done, vars
<1>19. CASE UNCHANGED vars
  BY <1>19 DEF vars, acp, agenttool
<1> QED
  BY <1>1, <1>2, <1>3, <1>4, <1>5, <1>6, <1>7, <1>8, <1>9, <1>10, <1>11, <1>12,
     <1>13, <1>14, <1>15, <1>16, <1>17, <1>18, <1>19
     DEF Next

\* Nothing has been sent, started or counted.
LEMMA SeatInit == Init => SeatInv
<1> SUFFICES ASSUME Init
             PROVE  SeatInv
  OBVIOUS
<1> USE PromptsAssumption, BudgetAssumption
    DEF Init, AcpInit, AgentToolInit, BridgeInit, NoTool, NoScout
<1>1. inbox \in Seq(Frames) /\ ServerType /\ PiType /\ ToolType
  BY DEF ServerType, PiType, ToolType
<1>2. scout \in Scouts /\ spawns \in [counted : Nat, started : Nat]
  BY ScoutTypes
<1>3. SeatType
  BY <1>1, <1>2 DEF SeatType, AcpType, AgentToolType, BridgeType, ClientType
<1>4. ScoutInv /\ BridgeInv /\ AskInv
  BY DEF ScoutInv, CallOfRun, BridgeInv, AskInv
<1>5. PromptInv
  BY DEF PromptInv, PromptsUnheard, InFlight, AnswerInv, Unheard, Prompt
<1> QED
  BY <1>3, <1>4, <1>5 DEF SeatInv

-----------------------------------------------------------------------------
(* The theorems.                                                           *)

\* What the promises of a seat rest on holds of every seat.
THEOREM SeatInvariant == Spec => []SeatInv
<1>1. Init => SeatInv
  BY SeatInit
<1>2. SeatInv /\ [Next]_vars => SeatInv'
  <2> SUFFICES ASSUME SeatInv, [Next]_vars
               PROVE  SeatInv'
    OBVIOUS
  <2>1. SeatType'
    BY InboxStep, AcpStep, ToolStep, BridgeTypeStep, ClientStep, ToldStep
       DEF SeatInv, SeatType, AcpType
  <2> QED
    BY <2>1, ScoutStep, BridgeStep, PromptStep, AskStep DEF SeatInv
<1> QED
  BY <1>1, <1>2, PTL DEF Spec

\* A prompt is answered once its run and its scout are over, and as cancelled
\* exactly when its cancel came in time (acp-server.ts, settlePrompt).
THEOREM SeatAnswers == Spec => []Answered
<1>1. SeatInv => Answered
  <2> SUFFICES ASSUME SeatInv, NEW p \in Prompt, told[p] \in {"done", "cancelled", "error"}
               PROVE  /\ pi.run = p => pi.at \in {"idle", "gone"}
                      /\ ~Exited => scout = NoScout \/ pi.run # p
                      /\ (told[p] = "cancelled") = (p \in history.cancelled)
    BY DEF Answered
  <2> QED
    BY DEF SeatInv, PromptInv, AnswerInv, ScoutInv, CallOfRun, Exited
<1> QED
  BY <1>1, SeatInvariant, PTL

\* No step starts a gated call but by the client's word for it, nor any call of
\* a cancelled run whose permission was not read (acp-server.ts, gateTool).
THEOREM SeatGates == Spec => GateHeld
<1>1. SeatInv /\ [Next]_vars =>
        [(tool.at # "running" /\ tool'.at = "running") =>
           /\ tool'.kind = "gated" => tool'.ask \in history.allowed
           /\ server.cancelled => tool.at = "answered"]_vars
  <2> SUFFICES ASSUME SeatInv, [Next]_vars, tool.at # "running", tool'.at = "running"
               PROVE  /\ tool'.kind = "gated" => tool'.ask \in history.allowed
                      /\ server.cancelled => tool.at = "answered"
    OBVIOUS
  <2> USE DEF SeatInv, SeatType, AcpType, ToolType, ServerType, AskInv
  <2>1. CASE Receive
    <3>1. tool'.at = "running" => tool.at = "running"
      <4>1. CASE \E p \in Prompt : HearPrompt(p)
        BY <4>1, PromptOutcome
      <4>2. CASE cancel
        BY <4>2, CancelOutcome
      <4>3. CASE \E n \in Nat, choice \in Choices : handleResponse(n, choice)
        BY <4>3 DEF handleResponse, settlePermission
      <4> QED
        BY <2>1, <4>1, <4>2, <4>3, FrameHeard DEF Receive
    <3> QED
      BY <3>1
  <2>2. CASE ServerDetaches
    BY <2>2
       DEF ServerDetaches, Quiet, Detaches, Serving, detach, dropPermissions,
           settlePermission, agenttool
  <2>3. CASE Pi(Gates)
    BY <2>3
       DEF Pi, agenttool, Gates, gateAsks, Calling, Quiet, Asks, Called,
           gateBlocks, Passes, gatePasses
  <2>4. CASE Pi(gateResumes)
    BY <2>4 DEF Pi, agenttool, gateResumes
  <2>5. CASE Pi(AskExpires)
    BY <2>5 DEF Pi, agenttool, AskExpires, Quiet, settlePermission
  <2>6. CASE Pi(RunStarts)
    BY <2>6 DEF Pi, agenttool, RunStarts, Quiet, Started
  <2>7. CASE Pi(PreflightFails)
    BY <2>7 DEF Pi, agenttool, PreflightFails, Quiet
  <2>8. CASE Pi(Retries)
    BY <2>8 DEF Pi, agenttool, Retries, Between, Quiet
  <2>9. CASE Pi(RunEnds)
    BY <2>9 DEF Pi, agenttool, RunEnds, Between, Quiet
  <2>10. CASE Pi(Settles)
    BY <2>10
       DEF Pi, agenttool, Settles, Quiet, settlePrompt, finishPrompt,
           stopReasonFor
  <2>11. CASE Pi(ToolEnds)
    BY <2>11 DEF Pi, agenttool, ToolEnds, Quiet
  <2>12. CASE AgentReturns
    BY <2>12 DEF AgentReturns, Quiet, NoScout
  <2>13. CASE PiExits
    BY <2>13
       DEF PiExits, Exited, detach, dropPermissions, settlePermission, agenttool
  <2>14. CASE Connect
    BY <2>14 DEF Connect, Exited, Connects, agenttool
  <2>15. CASE \/ SendPrompt \/ SendCancel \/ SendAnswer \/ Execute
              \/ Scout(Oversize) \/ Scout(ScoutDeadline) \/ Scout(GraceEnds)
              \/ Scout(ScoutCloses(pi.aborted)) \/ ScoutEnds \/ BridgeSteps
              \/ Bridge(Stopped) \/ Bridge(Shot) \/ Done
    BY <2>15
       DEF SendPrompt, Send, agenttool, SendCancel, SendAnswer, Execute, Quiet,
           NoScout, Refuses, Refused, SpawnFails, reserveSpawn, MayReserve,
           Spawns, killChild, acp, Scout, Oversize, ScoutDeadline, GraceEnds,
           ScoutCloses, Classified, ScoutEnds, ScoutExits, Killed, BridgeSteps,
           Bridge, StartupFails, terminate, ServiceEnds, Exited, GroupKilled,
           TornDown, Group, Returns, Stopped, Shot, Done, vars
  <2>16. CASE UNCHANGED vars
    BY <2>16 DEF vars, acp, agenttool
  <2> QED
    BY <2>1, <2>2, <2>3, <2>4, <2>5, <2>6, <2>7, <2>8, <2>9, <2>10, <2>11, <2>12,
       <2>13, <2>14, <2>15, <2>16
       DEF Next
<1> QED
  BY <1>1, SeatInvariant, PTL DEF Spec, GateHeld

\* The spawns of a lane keep to its budget, and findings come from a scout that
\* ended by itself (subagent.ts, reserveSpawn and classify).
THEOREM SeatScouts == Spec => []ScoutsKept
<1>1. SeatInv => ScoutsKept
  BY DEF SeatInv, ScoutInv, ScoutsKept
<1> QED
  BY <1>1, SeatInvariant, PTL

\* The bridge leaves nobody of pi's group behind who was not sent a KILL
\* (acp-bridge.mjs, terminateGroup).
THEOREM SeatTornDown == Spec => []NothingLeft
<1>1. SeatInv => NothingLeft
  BY DEF SeatInv, BridgeInv, NothingLeft, Group
<1> QED
  BY <1>1, SeatInvariant, PTL

=============================================================================

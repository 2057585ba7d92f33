------------------------------ MODULE AcpServer ------------------------------
(***************************************************************************)
(* acpServerExtension of crew/pi/extensions/acp-server.ts: the ACP server  *)
(* inside a pi seat.  It takes one client and one prompt at a time, has    *)
(* pi run it, asks the client about gated tools and answers the prompt     *)
(* when pi's run has settled.  pi is external: a run that starts, calls    *)
(* tools, may be aborted, and settles with an outcome.                     *)
(***************************************************************************)
EXTENDS Naturals, Sequences

CONSTANTS
  Prompts,   \* session/prompt frames the client sends
  MaxCalls,  \* tool calls of one run: bounds the model only
  None

Prompt == 1 .. Prompts

ASSUME PromptsAssumption == Prompts \in Nat /\ None \notin Prompt

Choices == {"allow", "reject", "void"}

VARIABLES
  inbox,   \* frames written to the socket and not yet received
  server,  \* its client, the prompt in flight, whether that was cancelled, ids of asks
  told,    \* what each prompt was answered
  pi,      \* the run of pi's agent, whether its signal is aborted, how it ended
  tool     \* the tool call pi is at, and the permission it waits for

acp == <<inbox, server, told, pi, tool>>

NoTool == [at |-> "none", kind |-> "none", ask |-> 0, answer |-> "none"]

AcpInit ==
  /\ inbox = <<>>
  /\ server = [client |-> "none", prompt |-> None, cancelled |-> FALSE, asked |-> 0]
  /\ told = [p \in Prompt |-> "none"]
  /\ pi = [at |-> "idle", run |-> None, aborted |-> FALSE, outcome |-> "none", calls |-> 0]
  /\ tool = NoTool

-----------------------------------------------------------------------------
(* Answers                                                                 *)

\* The one pending prompt, if a client still waits for it, is answered.
finishPrompt(answer) ==
  /\ told' = [p \in Prompt |-> IF p = server.prompt THEN answer ELSE told[p]]
  /\ server' = [server EXCEPT !.prompt = None, !.cancelled = FALSE]

stopReasonFor(outcome) ==
  CASE outcome = "completed" -> "done"
    [] outcome = "aborted" -> "cancelled"
    [] OTHER -> "error"

settlePrompt ==
  finishPrompt(IF server.cancelled THEN "cancelled" ELSE stopReasonFor(pi.outcome))

\* Settles a waiter; its gate goes on when the frames at hand have been read.
settlePermission(t, answer) == [t EXCEPT !.at = "answered", !.answer = answer]

dropPermissions(t) == IF t.at = "asked" THEN settlePermission(t, "failed") ELSE t

\* Mutant: an answer goes to whoever waits.
WaitsAny(n) == tool.at = "asked"

WaitsFor(n) == tool.at = "asked" /\ tool.ask = n

-----------------------------------------------------------------------------
(* Frames                                                                  *)

\* A run that is going on hears the abort; before it starts there is nothing to stop.
abort(p) == IF p.at = "working" THEN [p EXCEPT !.aborted = TRUE] ELSE p

HearPrompt(p) ==
  IF server.prompt # None \/ server.cancelled
  THEN told' = [told EXCEPT ![p] = "busy"] /\ UNCHANGED <<server, pi, tool>>
  ELSE /\ server' = [server EXCEPT !.prompt = p]
       /\ pi' = [at |-> "preflight", run |-> p, aborted |-> FALSE, outcome |-> "none", calls |-> 0]
       /\ tool' = NoTool
       /\ UNCHANGED told

\* Mutant: a cancelled prompt is answered at once.
cancelAtOnce ==
  IF server.prompt = None THEN UNCHANGED <<server, pi, tool, told>>
  ELSE /\ finishPrompt("cancelled")
       /\ tool' = dropPermissions(tool)
       /\ pi' = abort(pi)

\* A cancel names no prompt: it is for the one in flight, answered when its run settles.
cancel ==
  /\ IF server.prompt = None THEN UNCHANGED <<server, pi, tool>>
     ELSE /\ tool' = dropPermissions(tool)
          /\ server' = [server EXCEPT !.cancelled = TRUE]
          /\ pi' = abort(pi)
  /\ UNCHANGED told

handleResponse(n, choice) ==
  /\ tool' = IF WaitsFor(n) THEN settlePermission(tool, choice) ELSE tool
  /\ UNCHANGED <<server, pi, told>>

Serving == server.client = "on" /\ pi.at # "gone"

receive ==
  /\ Serving /\ inbox # <<>>
  /\ inbox' = Tail(inbox)
  /\ LET frame == Head(inbox)
     IN \/ frame.kind = "prompt" /\ HearPrompt(frame.id)
        \/ frame.kind = "cancel" /\ cancel
        \/ frame.kind = "answer" /\ handleResponse(frame.id, frame.choice)

\* No gate is about to go on: one goes on before anything but the next frame is heard.
Quiet == tool.at # "answered" /\ pi.at # "gone"

\* The one client is gone for good: another is refused.  pi's run goes on.
detach ==
  /\ inbox' = <<>>
  /\ server' = [server EXCEPT !.client = "gone", !.prompt = None]
  /\ tool' = dropPermissions(tool)

Detaches == Serving /\ detach /\ UNCHANGED <<told, pi>>

-----------------------------------------------------------------------------
(* The gate: pi awaits it before each tool call, one call at a time.       *)

Kinds == {"gated", "agent"}

\* Mutant: the gate does not look for a cancel.
PassesUngated(kind) == kind # "gated"

Passes(kind) == ~server.cancelled /\ kind # "gated"
Asks(kind) == ~server.cancelled /\ kind = "gated" /\ server.client = "on"

Calling(kind) ==
  /\ Quiet /\ pi.at = "working" /\ pi.calls < MaxCalls
  /\ tool.at \in {"none", "over"}
  /\ pi' = [pi EXCEPT !.calls = @ + 1]
  /\ UNCHANGED <<inbox, told>>

Called(kind, at, ask) == [at |-> at, kind |-> kind, ask |-> ask, answer |-> "none"]

gateAsks(kind) ==
  /\ Calling(kind) /\ Asks(kind)
  /\ server' = [server EXCEPT !.asked = @ + 1]
  /\ tool' = Called(kind, "asked", server.asked + 1)

\* Cancelled, nobody to ask, or a command a read-only seat may not run.
gateBlocks(kind) ==
  /\ Calling(kind) /\ ~Passes(kind)
  /\ tool' = Called(kind, "over", 0)
  /\ UNCHANGED server

gatePasses(kind) ==
  /\ Calling(kind) /\ Passes(kind)
  /\ tool' = Called(kind, "running", 0)
  /\ UNCHANGED server

AskExpires ==
  /\ Quiet /\ tool.at = "asked"
  /\ tool' = settlePermission(tool, "failed")
  /\ UNCHANGED <<inbox, server, told, pi>>

\* The await resumes with the answer, and looks at nothing else again.
gateResumes ==
  /\ tool.at = "answered" /\ pi.at # "gone"
  /\ tool' = [tool EXCEPT !.at = IF tool.answer = "allow" THEN "running" ELSE "over"]
  /\ UNCHANGED <<inbox, server, told, pi>>

-----------------------------------------------------------------------------
(* pi's run.  It may fail before it starts without a word, and retry.      *)

\* Mutant: a run that starts is not looked at.
StartsBlindly == [pi EXCEPT !.at = "working"]

\* agent_start: a run cancelled before it could hear of it is aborted now.
Started == [pi EXCEPT !.at = "working", !.aborted = server.cancelled]

RunStarts ==
  /\ Quiet /\ pi.at \in {"preflight", "retrying"}
  /\ pi' = Started
  /\ UNCHANGED <<inbox, server, told, tool>>

PreflightFails ==
  /\ Quiet /\ pi.at = "preflight"
  /\ pi' = [pi EXCEPT !.at = "idle"]
  /\ UNCHANGED <<inbox, server, told, tool>>

Between == Quiet /\ pi.at = "working" /\ tool.at \in {"none", "over"}

Retries ==
  /\ Between /\ ~pi.aborted
  /\ pi' = [pi EXCEPT !.at = "retrying"]
  /\ UNCHANGED <<inbox, server, told, tool>>

\* agent_end and agent_before_settle.
RunEnds ==
  /\ Between
  /\ \E outcome \in {"completed", "aborted", "error"} :
       /\ outcome = "aborted" => pi.aborted
       /\ pi' = [pi EXCEPT !.at = "ended", !.outcome = outcome]
  /\ UNCHANGED <<inbox, server, told, tool>>

\* agent_settled.
Settles ==
  /\ Quiet /\ pi.at = "ended"
  /\ pi' = [pi EXCEPT !.at = "idle"]
  /\ settlePrompt
  /\ UNCHANGED <<inbox, tool>>

\* A gated tool ends by itself, or because pi's signal stops it.
ToolEnds ==
  /\ Quiet /\ tool.at = "running" /\ tool.kind = "gated"
  /\ tool' = [tool EXCEPT !.at = "over"]
  /\ UNCHANGED <<inbox, server, told, pi>>
=============================================================================

----------------------------- MODULE AcpClient -----------------------------
(***************************************************************************)
(* One ACP session: crew/acp-client.mjs and the process it talks to.  The  *)
(* client writes frames into the process's FIFO and reads a stream file    *)
(* the process appends to; it is one thread and never sees the process but *)
(* through that file, the exit marker and a probe of the process group.    *)
(* The process is any agent: it may answer late, twice or never, break the *)
(* protocol, start processes of its own, and die.                          *)
(***************************************************************************)
EXTENDS Naturals, Sequences

CONSTANT MaxFrames  \* frames the client has not read yet: bounds the model only

VARIABLES
  client,  \* seq, the reservation, how the session was closed
  proc,    \* the process group, the exit marker
  stream,  \* frames of stream.jsonl behind the client's offset
  runtime  \* the session's directory: "none", "here", "lost" to someone else, "gone"

session == <<client, proc, stream, runtime>>

Members == {"shell", "agent", "tool"}
Kinds == {"rate_limit", "server_error", "authentication_failed", "other"}
Replies == {"ok", "denied", "refused"}
\* What a prompt may come to: an end, a stop for any other reason, a refusal of a
\* kind; a result without a stop reason fails like a refusal of no known kind.
Stops == {"end_turn", "cut"} \union Kinds
Frame(of, says) == [of |-> of, says |-> says]

\* Nothing of an earlier session: each has a client and a directory of its own.
NoProcess == [group |-> {}, marker |-> FALSE]
NoClient == [seq |-> 0, held |-> FALSE, closed |-> "none"]

SessionInit ==
  /\ client = NoClient
  /\ proc = NoProcess
  /\ stream = <<>>
  /\ runtime = "none"

NewClient ==
  /\ client' = NoClient
  /\ proc' = NoProcess
  /\ stream' = <<>>
  /\ runtime' = "none"

-----------------------------------------------------------------------------
(* The client.  A frame is written whole, or the write fails or tears and  *)
(* the call throws; after a torn frame nothing is sent again, and no caller *)
(* tries.  A new session always has a directory of its own, so that its    *)
(* reservation is refused only when a file operation fails.                *)

\* The client has spawned the process, which reads its FIFO.
Started ==
  /\ client' = [seq |-> 1, held |-> TRUE, closed |-> "none"]
  /\ proc' = [NoProcess EXCEPT !.group = {"shell", "agent"}]
  /\ stream' = <<>>
  /\ runtime' = "here"

\* No FIFO within its wait, or the first frame could not be written.
StartedDeaf ==
  /\ client' = [seq |-> 1, held |-> TRUE, closed |-> "none"]
  /\ proc' = [NoProcess EXCEPT !.group = {"shell"}]
  /\ stream' = <<>>
  /\ runtime' = "here"

\* The reservation, the spawn or anything before it failed: nothing is left.
NotStarted ==
  /\ client' = [NoClient EXCEPT !.closed = "unspawned"]
  /\ proc' = NoProcess
  /\ stream' = <<>>
  /\ runtime' = "gone"

Send == client' = [client EXCEPT !.seq = @ + 1]

\* The batch is staged whole before any frame is delivered.
Malformed == \E i \in DOMAIN stream : stream[i].says = "malformed"
Asked == \E i \in DOMAIN stream : stream[i].says = "permission"

\* Answers to what is awaited; two in one batch leave the last.
Heard == {i \in DOMAIN stream : stream[i].of = client.seq}
Answer == stream[CHOOSE i \in Heard : \A j \in Heard : j <= i].says

\* A pump reads all there is.  It throws on a malformed frame before it has
\* delivered any, and when an answer to a permission request cannot be written.
Pump == stream' = <<>>
PumpRefused == Pump /\ (Malformed \/ Asked)
Pumped == Pump /\ ~Malformed

\* Mutant: the leader's exit marker is taken for the death of its group.
ProofByMarker(group) == IF group = {} \/ proc.marker THEN {"proven", "unproven"} ELSE {"unproven"}

\* What a look at a process group may say of it: dead only if nobody is left.
Proof(group) == IF group = {} THEN {"proven", "unproven"} ELSE {"unproven"}

\* close: SIGTERM, five seconds, SIGKILL, five seconds.  Who is still there
\* then could not be killed.
Close ==
  /\ \E survivors \in SUBSET proc.group :
       /\ proc' = [NoProcess EXCEPT !.group = survivors]
       /\ \E proof \in Proof(survivors), cleared \in BOOLEAN :
            client' = [seq |-> 0, closed |-> proof, held |-> ~(proof = "proven" /\ cleared)]
       /\ runtime' = IF client'.closed = "proven" THEN "gone" ELSE runtime
  /\ stream' = <<>>

-----------------------------------------------------------------------------
(* The process.                                                            *)

Writes(frame) ==
  /\ "agent" \in proc.group /\ runtime = "here"
  /\ Len(stream) < MaxFrames
  /\ stream' = Append(stream, frame)
  /\ UNCHANGED <<client, proc, runtime>>

\* The shell's trap keeps it to the end: it writes the marker after its agent.
Leaves(member) ==
  /\ member \in proc.group
  /\ member = "shell" => "agent" \notin proc.group
  /\ proc' = [proc EXCEPT !.group = @ \ {member},
                          !.marker = @ \/ (member = "shell" /\ runtime = "here")]
  /\ UNCHANGED <<client, stream, runtime>>

Killed ==
  /\ proc.group # {}
  /\ proc' = [proc EXCEPT !.group = {}]
  /\ UNCHANGED <<client, stream, runtime>>

\* A command of one of the agent's tools.
Forks ==
  /\ "agent" \in proc.group
  /\ proc' = [proc EXCEPT !.group = @ \union {"tool"}]
  /\ UNCHANGED <<client, stream, runtime>>

\* Someone removes the directory under a running session.
Loses ==
  /\ runtime = "here"
  /\ runtime' = "lost" /\ stream' = <<>>
  /\ UNCHANGED <<client, proc>>

\* It answers what it was sent last, once or more.  Updates, and answers to
\* what is no longer awaited, are read and change nothing: they are left out.
Process(answers) ==
  \/ \E says \in answers : Writes(Frame(client.seq, says))
  \/ \E says \in {"permission", "malformed"} : Writes(Frame(0, says))
  \/ \E member \in Members : Leaves(member)
  \/ Killed
  \/ Forks
  \/ Loses
=============================================================================

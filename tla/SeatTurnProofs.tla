--------------------------- MODULE SeatTurnProofs ---------------------------
(***************************************************************************)
(* What a seat's turn promises, for any seats, retry bounds and sessions.  *)
(* A session is prompted between its start and its teardown, and only then *)
(* do its processes move; what is found out later is found out of what the *)
(* teardown left.  Each promise is a fact about the place where the turn   *)
(* is, carried from the step that makes it to the place that needs it.     *)
(***************************************************************************)
EXTENDS SeatTurn, WellFoundedInduction, TLAPS

Places ==
  {"open", "start", "poll", "marker", "again", "settle", "advise", "close",
   "repo", "records", "refused", "sleep", "read", "accepted", "failed"}
Faults == {"none", "error", "provider", "closed", "duplicate", "violation"}
Return ==
  [by : {"none", "this", "earlier", "left"}, prompt : Nat,
   is : {"absent", "good", "flawed"}]
Attempt ==
  [repair : BOOLEAN, rerun : BOOLEAN, tries : Nat, waited : Nat, wait : Nat]

Frames == [of : Nat, says : Replies \union Stops \union {"permission", "malformed"}]

SessionType ==
  /\ client \in [seq : Nat, held : BOOLEAN,
                 closed : {"none", "unspawned", "proven", "unproven"}]
  /\ proc \in [group : SUBSET Members, marker : BOOLEAN]
  /\ stream \in Seq(Frames)
  /\ runtime \in {"none", "here", "lost", "gone"}

AskedType ==
  asked \in [req : Attempt, reran : BOOLEAN,
             names : SUBSET [repair : BOOLEAN, rerun : BOOLEAN, tries : Nat]]

ReturnType == ret \in Return

Span ==
  [answer : Stops \union {NoAnswer}, fault : Faults, late : BOOLEAN,
   hung : BOOLEAN, prior : Return \union {Unreadable}, blocked : Return]
SpanType == turn \in Span

SeenType ==
  seen \in [left : BOOLEAN, blocked : Return, wrote : SUBSET {"repo", "records", "unseen"},
            slept : Nat]

TurnType ==
  /\ pc \in Places
  /\ seat \in Seats
  /\ touched \subseteq {"repo", "records"}
  /\ AskedType /\ ReturnType /\ SpanType /\ SeenType

SeatTyped == SessionType /\ TurnType

-----------------------------------------------------------------------------
(* What every step keeps.                                                  *)

\* A session that is up: its client knows nothing of an end yet.
Up == pc \in {"poll", "marker", "again", "settle", "advise"}

\* An awaited frame answers what was asked when it was written, the setup or
\* the prompt.
FramesInv ==
  /\ Up => client.seq \in Nat \ {0}
  /\ pc \in {"settle", "advise"} => stream = <<>>
  /\ Awaiting => \A i \in DOMAIN stream :
       /\ stream[i].of <= client.seq
       /\ stream[i].of = client.seq => stream[i].says \in Replied

\* A fault ends the session; one that is up, or could not fail, has none.
FaultInv ==
  /\ pc \in {"start", "refused", "sleep"} \/ Up => turn.fault = "none"
  /\ pc = "refused" => turn.answer \in Kinds
  /\ pc = "close" /\ turn.fault = "closed" => stream = <<>>

\* The directory is the session's from its start to its teardown; what the
\* teardown could not prove dead stays reserved.
KeptInv ==
  /\ Up \/ pc = "close" => runtime \in {"here", "lost"} /\ client.closed = "none"
  /\ EvidenceKept

\* What was slept is counted, and a turn that goes on has waited its bound at most.
WaitInv ==
  /\ asked.req.tries <= RetryMax
  /\ pc = "sleep" => asked.req.tries < RetryMax
  /\ seen.slept <= asked.req.waited
  /\ pc \notin {"read", "accepted", "failed"} => asked.req.waited <= TotalWait

\* What a session wrote for the comparisons to see is still to be found, or
\* was found.
Found == turn.fault = "violation"
WroteInv ==
  Shown(seen.wrote) # {} =>
    \/ /\ pc \in {"repo", "records"}
       /\ touched # {} /\ ("records" \in touched => seat.recorded)
       /\ pc = "records" /\ "repo" \in touched => Found
    \/ pc \in {"read", "failed"} /\ Found

\* A valid return of an earlier session never reaches the next one.
EarnedInv ==
  /\ ret.by = "earlier" => ret.is # "good"
  /\ pc = "open" /\ ret.by = "this" => ret.is # "good"

\* A return of the session says after which of its prompts it was written, so
\* that what it writes after a block is another return; a blocked one that
\* nothing spared is what the code remembers too, and if it is still there it is
\* taken away when the next turn settles.
Gone == ret # seen.blocked \/ ret.by = "left" \/ ret = NoReturn
BlockInv ==
  /\ pc = "start" => ret.by # "this"
  /\ pc = "start" \/ Up => turn.prior.by # "this"
  /\ Up \/ pc = "close" => (ret.by = "this" => ret.prompt <= client.seq)
  /\ Up \/ (pc = "close" /\ turn.fault = "none") =>
       (seen.blocked.by = "this" => seat.advised /\ seen.blocked.prompt < client.seq)
  /\ pc = "start" => turn.blocked = NoReturn /\ seen.blocked = NoReturn
  /\ pc \in {"poll", "marker", "again", "settle"} => seen.blocked \in {turn.blocked, NoReturn}
  /\ pc \in {"advise", "close", "repo", "records", "read", "accepted"} /\ turn.fault = "none"
       => Gone
  /\ pc = "accepted" => ret.is = "good"

SeatTurnInv ==
  SeatTyped /\ FramesInv /\ FaultInv /\ KeptInv /\ WaitInv /\ WroteInv /\ EarnedInv /\ BlockInv

-----------------------------------------------------------------------------
(* Frames and waits.                                                       *)

\* A wait is intended only by a refusal that may be tried again, and is a time.
LEMMA WaitsBounded ==
  ASSUME asked.req.tries \in Nat
  PROVE  \A w \in Waits : w \in Nat /\ asked.req.tries < RetryMax
<1>1. SUFFICES ASSUME NEW w \in Waits
               PROVE  w \in Nat /\ asked.req.tries < RetryMax
  OBVIOUS
<1>2. asked.req.tries < RetryMax
  BY <1>1, SeatAssumption DEF Waits
<1>3. w \in Intended(turn.answer, asked.req.tries)
  BY <1>1, <1>2, SeatAssumption DEF Waits, Within
<1>4. \A k \in 1 .. Len(Ladder) : Ladder[k] \in Nat
  BY SeatAssumption
<1>5. Len(Ladder) \in 1 .. Len(Ladder)
  BY SeatAssumption
<1>6. (IF asked.req.tries < Len(Ladder) THEN asked.req.tries + 1 ELSE Len(Ladder)) \in 1 .. Len(Ladder)
  BY <1>5, SeatAssumption
<1>7. CASE turn.answer = "rate_limit"
  <2>1. Intended(turn.answer, asked.req.tries) = 0 .. TotalWait
    BY <1>7, Zenon DEF Intended
  <2> QED
    BY <1>2, <1>3, <2>1
<1>8. CASE turn.answer = "server_error"
  <2> DEFINE rung == IF asked.req.tries < Len(Ladder) THEN asked.req.tries + 1 ELSE Len(Ladder)
  <2>1. Intended(turn.answer, asked.req.tries) = {Ladder[rung]}
    BY <1>8 DEF Intended
  <2> QED
    BY <1>2, <1>3, <1>4, <1>6, <2>1
<1>9. CASE turn.answer # "rate_limit" /\ turn.answer # "server_error"
  BY <1>3, <1>9 DEF Intended
<1> QED
  BY <1>7, <1>8, <1>9

\* The answer a pump hears is one of the frames it read: the last that was awaited.
LEMMA AnswerIsHeard ==
  ASSUME NEW S, stream \in Seq(S), Heard # {}
  PROVE  \E i \in Heard : Answer = stream[i].says /\ \A j \in Heard : j <= i
<1>1. Heard \subseteq 1 .. Len(stream) /\ Len(stream) \in Nat
  BY DEF Heard
<1> DEFINE T == {Len(stream) - i : i \in Heard}
<1>2. T \subseteq Nat /\ T # {}
  <2>1. \A i \in Heard : Len(stream) - i \in Nat
    BY <1>1
  <2>2. PICK i \in Heard : TRUE
    OBVIOUS
  <2>3. Len(stream) - i \in T
    BY <2>2
  <2> QED
    BY <2>1, <2>3
<1>3. PICK x \in T : \A y \in T : ~(<<y, x>> \in OpToRel(<, Nat))
  BY <1>2, NatLessThanWellFounded, WFMin
<1>4. \A y \in T : ~(y < x)
  BY <1>2, <1>3 DEF OpToRel
<1>5. PICK i \in Heard : x = Len(stream) - i
  BY <1>3
<1>6. \A j \in Heard : j <= i
  <2>1. SUFFICES ASSUME NEW j \in Heard
                 PROVE  j <= i
    OBVIOUS
  <2>2. Len(stream) - j \in T
    OBVIOUS
  <2>3. ~(Len(stream) - j < Len(stream) - i)
    BY <1>4, <1>5, <2>2
  <2> QED
    BY <1>1, <2>3
<1> DEFINE last == CHOOSE k \in Heard : \A j \in Heard : j <= k
<1>7. last \in Heard /\ \A j \in Heard : j <= last
  BY <1>6
<1>8. Answer = stream[last].says
  BY DEF Answer
<1> QED
  BY <1>7, <1>8

\* A frame that is written is the last of those to be read.
LEMMA WrittenLast ==
  ASSUME NEW S, NEW q \in Seq(S), NEW f \in S
  PROVE  /\ Append(q, f) \in Seq(S)
         /\ \A i \in DOMAIN Append(q, f) :
              (i \in DOMAIN q /\ Append(q, f)[i] = q[i]) \/ Append(q, f)[i] = f
  OBVIOUS

-----------------------------------------------------------------------------
(* Types.                                                                  *)

\* Advice ends in one more prompt, or in none.
LEMMA AdviceSent ==
  Advise => /\ UNCHANGED <<seat, ret, asked, proc, stream, runtime>> /\ pc = "advise"
            /\ (UNCHANGED client /\ pc' = "close") \/ (Send /\ pc' = "poll")
<1> SUFFICES ASSUME Advise
             PROVE  (UNCHANGED client /\ pc' = "close") \/ (Send /\ pc' = "poll")
  BY DEF Advise, lane
<1>1. CASE TimedOut /\ Fail("error", "close") /\ UNCHANGED <<client, seen>>
  BY <1>1 DEF Fail
<1>2. CASE ~(TimedOut /\ Fail("error", "close") /\ UNCHANGED <<client, seen>>)
  BY <1>2 DEF Advise
<1> QED
  BY <1>1, <1>2

\* Each step keeps the types of the session.
LEMMA SessionTyped == SeatTyped /\ FramesInv /\ [Next]_vars => SessionType'
<1> SUFFICES ASSUME SeatTyped, FramesInv, [Next]_vars
             PROVE  SessionType'
  OBVIOUS
<1> USE SeatAssumption
    DEF SeatTyped, SessionType
<1>1. CASE Open
  BY <1>1
     DEF Open, Name, Fail, TakeReturn, NoReturn, FreshTurn, NoAnswer,
         NewClient, NoClient, NoProcess
<1>2. CASE Start
  <2>1. stream' = <<>> /\ runtime' \in {"here", "gone"}
    BY <1>2 DEF Start, NotStarted, StartedDeaf, Started
  <2>2. CASE NotStarted
    <3>1. /\ client' = [seq |-> 0, held |-> FALSE, closed |-> "unspawned"]
          /\ proc' = [group |-> {}, marker |-> FALSE]
      BY <2>2 DEF NotStarted, NoClient, NoProcess
    <3>2. <<>> \in Seq(Frames)
      OBVIOUS
    <3> QED
      BY <2>1, <3>1, <3>2
  <2>3. CASE StartedDeaf \/ Started
    <3>1. client' = [seq |-> 1, held |-> TRUE, closed |-> "none"]
      BY <2>3 DEF StartedDeaf, Started
    <3>2. \E g \in SUBSET Members : proc' = [group |-> g, marker |-> FALSE]
      BY <2>3 DEF StartedDeaf, Started, NoProcess, Members
    <3> QED
      BY <2>1, <3>1, <3>2
  <2> QED
    BY <1>2, <2>2, <2>3 DEF Start
<1>3. CASE Poll
  <2>1. stream' \in {stream, <<>>} /\ UNCHANGED <<proc, runtime>>
    BY <1>3 DEF Poll, PumpRefused, Pumped, Pump
  <2>2. client' = client \/ client' = [client EXCEPT !.seq = client.seq + 1]
    BY <1>3 DEF Poll, SetUp, Send
  <2>3. client.seq + 1 \in Nat
    OBVIOUS
  <2>5. <<>> \in Seq(Frames)
    OBVIOUS
  <2>4. stream' \in Seq(Frames)
    BY <2>1, <2>5
  <2> QED
    BY <2>1, <2>2, <2>3, <2>4
<1>4. CASE Advise
  BY <1>4, AdviceSent DEF Send
<1>5. CASE EndSession
  <2>1. PICK survivors \in SUBSET proc.group :
          /\ proc' = [NoProcess EXCEPT !.group = survivors]
          /\ \E proof \in Proof(survivors), cleared \in BOOLEAN :
               client' = [seq |-> 0, closed |-> proof, held |-> ~(proof = "proven" /\ cleared)]
          /\ runtime' = IF client'.closed = "proven" THEN "gone" ELSE runtime
    BY <1>5 DEF EndSession, Close
  <2>2. stream' = <<>>
    BY <1>5 DEF EndSession, Close
  <2>3. Proof(survivors) \subseteq {"proven", "unproven"}
    BY DEF Proof
  <2>4. client' \in [seq : Nat, held : BOOLEAN,
                     closed : {"none", "unspawned", "proven", "unproven"}]
    BY <2>1, <2>3
  <2>5. proc' \in [group : SUBSET Members, marker : BOOLEAN]
    BY <2>1 DEF NoProcess
  <2> QED
    BY <2>1, <2>2, <2>4, <2>5
<1>6. CASE Move
  <2>1. CASE \E says \in Replied : Writes(Frame(client.seq, says))
    <3>1. PICK says \in Replied : Writes(Frame(client.seq, says))
      BY <2>1
    <3>2. Frame(client.seq, says) \in Frames
      BY <3>1 DEF Frame, Frames, Replied
    <3> QED
      BY <3>1, <3>2, WrittenLast DEF Writes
  <2>2. CASE \E says \in {"permission", "malformed"} : Writes(Frame(0, says))
    <3>1. PICK says \in {"permission", "malformed"} : Writes(Frame(0, says))
      BY <2>2
    <3>2. Frame(0, says) \in Frames
      BY DEF Frame, Frames
    <3> QED
      BY <3>1, <3>2, WrittenLast DEF Writes
  <2>3. CASE \E member \in Members : Leaves(member)
    <3>1. PICK member \in Members : Leaves(member)
      BY <2>3
    <3>2. PICK m \in BOOLEAN : proc' = [proc EXCEPT !.group = @ \ {member}, !.marker = m]
      BY <3>1 DEF Leaves
    <3>3. proc.group \ {member} \subseteq Members
      OBVIOUS
    <3> QED
      BY <3>1, <3>2, <3>3 DEF Leaves
  <2>4. CASE Killed \/ Loses
    <3>1. <<>> \in Seq(Frames)
      OBVIOUS
    <3>2. CASE Killed
      BY <3>2 DEF Killed
    <3>3. CASE Loses
      BY <3>1, <3>3 DEF Loses
    <3> QED
      BY <2>4, <3>2, <3>3
  <2>5. CASE Forks
    <3>1. proc.group \union {"tool"} \subseteq Members
      BY DEF Members
    <3> QED
      BY <2>5, <3>1 DEF Forks
  <2> QED
    BY <1>6, <2>1, <2>2, <2>3, <2>4, <2>5 DEF Move, Process
<1>7. CASE \/ Marker \/ Settle \/ CheckRepo \/ CheckRecords \/ Refused
           \/ Sleep \/ Read \/ Expire \/ WriteReturn \/ Ended
  BY <1>7
     DEF Marker, Marked, Fail, Quiet, session, lane, Settle, Unblocked,
         NoReturn, CheckRepo, CheckRecords, TakeReturn, Refused, Waits, Within,
         Intended, Sleep, Counted, Cleared, Read, Rerunnable, Acceptable,
         Unread, Routed, Again, Request, FreshTurn, NoAnswer, Repairable,
         Expire, Awaiting, WriteReturn, InSetup, Ended, vars
<1>8. CASE UNCHANGED vars
  BY <1>8 DEF vars, session
<1> QED
  BY <1>1, <1>2, <1>3, <1>4, <1>5, <1>6, <1>7, <1>8 DEF Next, Runner

\* A return that is not there, and a turn that begins, have their types.
LEMMA FreshTyped ==
  NoReturn \in Return /\ FreshTurn \in Span /\ FreshTurn.fault = "none"
    /\ FreshTurn.blocked = NoReturn
<1>1. NoReturn \in Return
  BY DEF NoReturn, Return
<1> QED
  BY <1>1 DEF FreshTurn, Span, Faults, NoAnswer

\* A hash is that of the file, or of none; so is the return a block is about.
LEMMA HashesTyped ==
  ASSUME NEW r \in Return, NEW hash \in Hashes(r)
  PROVE  hash \in Return \union {Unreadable} /\ Fresh(hash) \in {r, NoReturn}
BY FreshTyped DEF Hashes, Fresh

\* A request of which the wait, the time or the number changes is a request.
LEMMA RequestTyped ==
  ASSUME NEW q \in Attempt, NEW w \in Nat, NEW m \in Nat, NEW n \in Nat
  PROVE  /\ [q EXCEPT !.wait = w] \in Attempt /\ [q EXCEPT !.waited = m] \in Attempt
         /\ [q EXCEPT !.waited = m, !.tries = n, !.wait = w] \in Attempt
  BY DEF Attempt

\* Each step keeps the types of the request.
LEMMA AskedTyped == SeatTyped /\ [Next]_vars => AskedType'
<1> SUFFICES ASSUME SeatTyped, [Next]_vars
             PROVE  AskedType'
  OBVIOUS
<1> USE SeatAssumption
    DEF SeatTyped, TurnType, AskedType
<1>1. CASE Open
  <2>1. Name(asked.req) \in [repair : BOOLEAN, rerun : BOOLEAN, tries : Nat]
    BY DEF Name, Attempt
  <2>2. asked' = [asked EXCEPT !.names = @ \union {Name(asked.req)}]
    BY <1>1 DEF Open
  <2> QED
    BY <2>1, <2>2
<1>2. CASE Refused
  <2>1. CASE \E w \in Waits : asked' = [asked EXCEPT !.req.wait = w]
    <3>1. PICK w \in Waits : asked' = [asked EXCEPT !.req.wait = w]
      BY <2>1
    <3>2. asked.req.tries \in Nat
      BY DEF Attempt
    <3>3. w \in Nat
      BY <3>1, <3>2, WaitsBounded
    <3>4. [asked.req EXCEPT !.wait = w] \in Attempt
      BY <3>3, RequestTyped
    <3> QED
      BY <3>1, <3>4
  <2>2. CASE UNCHANGED asked
    BY <2>2
  <2> QED
    BY <1>2, <2>1, <2>2 DEF Refused
<1>3. CASE Sleep
  <2>1. PICK over \in 0 .. MaxOver :
          LET taken == asked.req.wait + over
              waited == asked.req.waited + Counted(asked.req.wait, taken)
          IN \/ asked' = [asked EXCEPT !.req.waited = waited]
             \/ asked' = [asked EXCEPT !.req.waited = waited, !.req.tries = @ + 1,
                                             !.req.wait = 0]
    BY <1>3 DEF Sleep
  <2> DEFINE waited == asked.req.waited + Counted(asked.req.wait, asked.req.wait + over)
  <2>2. asked.req.wait \in Nat /\ asked.req.waited \in Nat /\ asked.req.tries \in Nat
    BY DEF Attempt
  <2>3. waited \in Nat
    BY <2>2, SeatAssumption DEF Counted
  <2> DEFINE next == [asked.req EXCEPT !.waited = waited, !.tries = asked.req.tries + 1,
                                       !.wait = 0]
  <2>4. \/ asked' = [asked EXCEPT !.req = [asked.req EXCEPT !.waited = waited]]
        \/ asked' = [asked EXCEPT !.req = next]
    BY <2>1
  <2> HIDE DEF waited
  <2>5. [asked.req EXCEPT !.waited = waited] \in Attempt
    BY <2>3, RequestTyped
  <2>7. asked.req.tries + 1 \in Nat /\ 0 \in Nat /\ asked.req \in Attempt
    BY <2>2
  <2>6. next \in Attempt
    BY <2>3, <2>7, RequestTyped, Zenon
  <2> HIDE DEF next
  <2> QED
    BY <2>4, <2>5, <2>6
<1>4. CASE Read
  <2>1. CASE \E repair, rerun, reran \in BOOLEAN :
               asked' = [asked EXCEPT !.req = Request(repair, rerun), !.reran = reran]
    <3>1. \A repair, rerun \in BOOLEAN : Request(repair, rerun) \in Attempt
      BY DEF Request, Attempt
    <3> QED
      BY <2>1, <3>1
  <2>2. CASE UNCHANGED asked
    BY <2>2
  <2>3. asked.req.repair \in BOOLEAN /\ asked.reran \in BOOLEAN
    BY DEF Attempt
  <2> QED
    BY <1>4, <2>1, <2>2, <2>3 DEF Read, Again
<1>5. CASE \/ Poll \/ Start \/ Marker \/ Settle \/ Advise \/ EndSession
           \/ CheckRepo \/ CheckRecords \/ Expire \/ Move \/ WriteReturn
           \/ Ended
  BY <1>5
     DEF Poll, lane, InSetup, Fail, PumpRefused, Pump, Malformed, Asked,
         Pumped, Heard, Unheard, SetUp, Send, Answer, Start, NotStarted,
         NoClient, NoProcess, StartedDeaf, Started, Marker, Marked, Quiet,
         session, Settle, Unblocked, Hashes, NoReturn, Advise, TimedOut, NoAnswer,
         EndSession, Close, Proof, Forbidden, Shown, FreshTurn, CheckRepo,
         CheckRecords, TakeReturn, Expire, Awaiting, Move, Process, Writes,
         Frame, Leaves, Killed, Forks, Loses, Replied, WriteReturn, Ended, vars
<1>6. CASE UNCHANGED vars
  BY <1>6 DEF vars, session
<1> QED
  BY <1>1, <1>2, <1>3, <1>4, <1>5, <1>6 DEF Next, Runner

\* Each step keeps the type of the return.
LEMMA ReturnTyped == SeatTyped /\ [Next]_vars => ReturnType'
<1> SUFFICES ASSUME SeatTyped, [Next]_vars
             PROVE  ReturnType'
  OBVIOUS
<1> USE SeatAssumption
    DEF SeatTyped, TurnType, ReturnType, SpanType, Return, NoReturn,
        SessionType
<1>1. CASE Open
  <2>1. ret' \in {ret, NoReturn, [ret EXCEPT !.by = IF @ = "this" THEN "earlier" ELSE @]}
    BY <1>1 DEF Open, TakeReturn
  <2> QED
    BY <2>1
<1>2. CASE Settle
  BY <1>2 DEF Settle, Unblocked, Quiet, session
<1>3. CASE CheckRecords
  BY <1>3 DEF CheckRecords, Fail, TakeReturn, Quiet, session
<1>4. CASE Sleep
  BY <1>4 DEF Sleep, Counted, Fail, Cleared, Quiet, session
<1>5. CASE WriteReturn
  BY <1>5 DEF WriteReturn, InSetup, Quiet, session
<1>6. CASE \/ Poll \/ Start \/ Marker \/ Advise \/ EndSession \/ CheckRepo
           \/ Expire \/ Move \/ Refused \/ Read \/ Ended
  BY <1>6
     DEF Poll, lane, InSetup, Fail, PumpRefused, Pump, Malformed, Asked,
         Pumped, Heard, Unheard, SetUp, Send, Answer, Start, NotStarted,
         NoClient, NoProcess, StartedDeaf, Started, Marker, Marked, Quiet,
         session, Advise, TimedOut, NoAnswer, EndSession, Close, Proof,
         Forbidden, Shown, FreshTurn, CheckRepo, Expire, Awaiting, Move, Process,
         Writes, Frame, Leaves, Killed, Forks, Loses, Replied, Refused, Waits,
         Within, Intended, Read, Rerunnable, Acceptable, Unread, Routed, Again,
         Request, Repairable, Ended, vars
<1>7. CASE UNCHANGED vars
  BY <1>7 DEF vars, session
<1> QED
  BY <1>1, <1>2, <1>3, <1>4, <1>5, <1>6, <1>7 DEF Next, Runner

\* Each step keeps the types of the turn.
LEMMA SpanTyped == SeatTyped /\ FramesInv /\ [Next]_vars => SpanType'
<1> SUFFICES ASSUME SeatTyped, FramesInv, [Next]_vars
             PROVE  SpanType'
  OBVIOUS
<1> USE SeatAssumption
    DEF SeatTyped, TurnType, ReturnType, SpanType, Faults, NoAnswer
<1>1. CASE Open
  <2>1. \A f \in Faults : [turn EXCEPT !.fault = f] \in Span
    BY DEF Span
  <2>2. ret' \in Return
    BY <1>1, FreshTyped DEF Open, TakeReturn, Return
  <2>3. \A r \in Return \union {Unreadable} : [FreshTurn EXCEPT !.prior = r] \in Span
    BY FreshTyped DEF Span
  <2>4. \A hash \in Hashes(ret') : [FreshTurn EXCEPT !.prior = hash] \in Span
    BY <2>2, <2>3, HashesTyped
  <2> QED
    BY <1>1, <2>1, <2>4 DEF Open, Fail
<1>2. CASE Start
  <2>1. \A f \in Faults : [turn EXCEPT !.fault = f] \in Span
    BY DEF Span
  <2> QED
    BY <1>2, <2>1 DEF Start, Fail
<1>3. CASE Poll
  <2>1. \A f \in Faults : [turn EXCEPT !.fault = f] \in Span
    BY DEF Span
  <2>2. [turn EXCEPT !.late = turn.late /\ client.seq < seat.requests] \in Span
    BY DEF Span
  <2>3. CASE Heard # {} /\ ~InSetup /\ turn' = [turn EXCEPT !.answer = Answer]
    <3>1. stream \in Seq(Frames)
      BY DEF SessionType
    <3>2. PICK i \in Heard : Answer = stream[i].says
      BY <2>3, <3>1, AnswerIsHeard
    <3>3. Awaiting
      BY <1>3 DEF Poll, Awaiting
    <3>4. stream[i].says \in Stops
      BY <2>3, <3>2, <3>3 DEF FramesInv, Heard, Replied
    <3> QED
      BY <2>3, <3>2, <3>4 DEF Span
  <2> QED
    BY <1>3, <2>1, <2>2, <2>3 DEF Poll, Fail, Unheard, SetUp
<1>4. CASE Marker
  <2>1. \A f \in Faults : [turn EXCEPT !.fault = f] \in Span
    BY DEF Span
  <2> QED
    BY <1>4, <2>1 DEF Marker, Marked, Fail, Quiet
<1>5. CASE Settle
  <2>1. \A h \in BOOLEAN : [turn EXCEPT !.blocked = NoReturn, !.hung = h] \in Span
    BY FreshTyped DEF Span
  <2>2. [turn EXCEPT !.blocked = NoReturn] \in Span
    BY FreshTyped DEF Span
  <2>3. seat.advised \in BOOLEAN
    OBVIOUS
  <2> QED
    BY <1>5, <2>1, <2>2, <2>3 DEF Settle
<1>6. CASE Advise
  <2>1. \A f \in Faults : [turn EXCEPT !.fault = f] \in Span
    BY DEF Span
  <2>2. \A r \in Return : [turn EXCEPT !.answer = NoAnswer, !.blocked = r] \in Span
    BY DEF Span
  <2>3. \A r \in Return : [turn EXCEPT !.fault = "error", !.blocked = r] \in Span
    BY DEF Span
  <2>4. \A hash \in Hashes(ret) : Fresh(hash) \in Return
    BY FreshTyped, HashesTyped
  <2>5. CASE TimedOut /\ Fail("error", "close") /\ UNCHANGED <<client, seen>>
    BY <2>1, <2>5 DEF Fail
  <2>6. CASE ~(TimedOut /\ Fail("error", "close") /\ UNCHANGED <<client, seen>>)
    <3>1. \/ UNCHANGED turn
          \/ \E hash \in Hashes(ret) :
               turn' \in {[turn EXCEPT !.answer = NoAnswer, !.blocked = Fresh(hash)],
                          [turn EXCEPT !.fault = "error", !.blocked = Fresh(hash)]}
      BY <1>6, <2>6 DEF Advise
    <3> QED
      BY <3>1, <2>2, <2>3, <2>4
  <2> QED
    BY <2>5, <2>6
<1>7. CASE EndSession
  <2>1. \A a \in Stops \union {"none"}, f \in Faults :
          [FreshTurn EXCEPT !.answer = a, !.fault = f] \in Span
    BY FreshTyped DEF Span
  <2>2. turn.answer \in Stops \union {"none"} /\ turn.fault \in Faults
    BY DEF Span
  <2> QED
    BY <1>7, <2>1, <2>2 DEF EndSession
<1>8. CASE CheckRepo
  <2>1. \A f \in Faults : [turn EXCEPT !.fault = f] \in Span
    BY DEF Span
  <2> QED
    BY <1>8, <2>1 DEF CheckRepo, Fail, Quiet
<1>9. CASE CheckRecords
  <2>1. \A f \in Faults : [turn EXCEPT !.fault = f] \in Span
    BY DEF Span
  <2> QED
    BY <1>9, <2>1 DEF CheckRecords, Fail, Quiet
<1>10. CASE Refused
  <2>1. \A f \in Faults : [turn EXCEPT !.fault = f] \in Span
    BY DEF Span
  <2> QED
    BY <1>10, <2>1 DEF Refused, Fail, Quiet
<1>11. CASE Sleep
  <2>1. \A f \in Faults : [turn EXCEPT !.fault = f] \in Span
    BY DEF Span
  <2> QED
    BY <1>11, <2>1 DEF Sleep, Fail, NoReturn, Quiet
<1>12. CASE Read
  BY <1>12, FreshTyped DEF Read, Again
<1>13. CASE Expire
  <2>1. [turn EXCEPT !.late = TRUE] \in Span
    BY DEF Span
  <2> QED
    BY <1>13, <2>1 DEF Expire
<1>14. CASE \/ Move \/ WriteReturn \/ Ended
  BY <1>14
     DEF Move, Awaiting, Process, Writes, Frame, Leaves, Killed, Forks, Loses,
         Replied, InSetup, lane, WriteReturn, Quiet, session, Ended, vars
<1>15. CASE UNCHANGED vars
  BY <1>15 DEF vars, session
<1> QED
  BY <1>1, <1>2, <1>3, <1>4, <1>5, <1>6, <1>7, <1>8, <1>9, <1>10, <1>11, <1>12,
     <1>13, <1>14, <1>15
     DEF Next, Runner

\* Each step keeps the types of the history.
LEMMA SeenTyped == SeatTyped /\ [Next]_vars => SeenType'
<1> SUFFICES ASSUME SeatTyped, [Next]_vars
             PROVE  SeenType'
  OBVIOUS
<1> USE SeatAssumption
    DEF SeatTyped, TurnType, AskedType, ReturnType, SeenType
<1>1. CASE Open
  BY <1>1, FreshTyped DEF Open, Shown
<1>2. CASE Advise
  <2>1. NoReturn \in Return
    BY FreshTyped
  <2>2. seen' = seen \/ \E r \in {ret, NoReturn} : seen' = [seen EXCEPT !.blocked = r]
    BY <1>2 DEF Advise
  <2> QED
    BY <2>1, <2>2
<1>3. CASE EndSession
  <2>1. PICK what \in SUBSET Forbidden, left \in BOOLEAN :
          seen' = [seen EXCEPT !.left = left, !.wrote = @ \union what]
    BY <1>3 DEF EndSession
  <2>2. what \subseteq {"repo", "records", "unseen"}
    BY DEF Forbidden
  <2> QED
    BY <2>1, <2>2
<1>4. CASE Sleep
  <2>1. asked.req.wait \in Nat
    BY DEF Attempt
  <2>2. \E over \in 0 .. MaxOver : seen' = [seen EXCEPT !.slept = @ + (asked.req.wait + over)]
    BY <1>4 DEF Sleep
  <2>3. PICK over \in 0 .. MaxOver : seen' = [seen EXCEPT !.slept = @ + (asked.req.wait + over)]
    BY <2>2
  <2>4. seen.slept + (asked.req.wait + over) \in Nat
    BY <2>1, SeatAssumption
  <2> QED
    BY <2>3, <2>4
<1>5. CASE Read
  <2>1. seen' \in {seen, [seen EXCEPT !.slept = 0]}
    BY <1>5 DEF Read, Again
  <2> QED
    BY <2>1
<1>8. CASE Settle
  <2>1. seen' \in {seen, [seen EXCEPT !.blocked = NoReturn]}
    BY <1>8 DEF Settle
  <2> QED
    BY <2>1, FreshTyped
<1>6. CASE \/ Poll \/ Start \/ Marker \/ CheckRepo
           \/ CheckRecords \/ Refused \/ Expire \/ Move \/ WriteReturn
           \/ Ended
  BY <1>6
     DEF Poll, lane, InSetup, Fail, PumpRefused, Pump, Malformed, Asked,
         Pumped, Heard, Unheard, SetUp, Send, Answer, Start, NotStarted,
         NoClient, NoProcess, StartedDeaf, Started, Marker, Marked, Quiet,
         session, NoReturn, CheckRepo, CheckRecords,
         TakeReturn, Refused, Waits, Within, Intended, Expire, Awaiting, Move,
         Process, Writes, Frame, Leaves, Killed, Forks, Loses, Replied,
         WriteReturn, Ended, vars
<1>7. CASE UNCHANGED vars
  BY <1>7 DEF vars, session
<1> QED
  BY <1>1, <1>2, <1>3, <1>4, <1>5, <1>6, <1>7, <1>8 DEF Next, Runner

\* Each step keeps the places, the seat and what is found.
LEMMA PlaceTyped ==
  SeatTyped /\ [Next]_vars => (pc \in Places /\ seat \in Seats /\ touched \subseteq {"repo", "records"})'
<1> SUFFICES ASSUME SeatTyped, [Next]_vars
             PROVE  (pc \in Places /\ seat \in Seats /\ touched \subseteq {"repo", "records"})'
  OBVIOUS
<1> USE SeatAssumption
    DEF SeatTyped, TurnType, Places
<1>1. CASE Open
  BY <1>1
     DEF Open, Name, Fail, TakeReturn, NoReturn, FreshTurn, NoAnswer,
         NewClient, NoClient, NoProcess
<1>2. CASE Start
  BY <1>2
     DEF Start, NotStarted, NoClient, NoProcess, Fail, StartedDeaf, Started,
         lane
<1>3. CASE Poll
  BY <1>3
     DEF Poll, lane, InSetup, Fail, PumpRefused, Pump, Malformed, Asked,
         Pumped, Heard, Unheard, SetUp, Send, Answer
<1>4. CASE Marker
  BY <1>4 DEF Marker, Marked, Fail, Quiet, session, lane
<1>5. CASE Settle
  BY <1>5 DEF Settle, Unblocked, NoReturn, Quiet, session
<1>6. CASE Advise
  BY <1>6 DEF Advise, lane, TimedOut, Fail, Send
<1>7. CASE EndSession
  BY <1>7
     DEF EndSession, Close, NoProcess, Proof, Forbidden, Shown, FreshTurn, NoAnswer,
         NoReturn
<1>8. CASE CheckRepo
  BY <1>8 DEF CheckRepo, Fail, Quiet, session, lane
<1>9. CASE CheckRecords
  BY <1>9 DEF CheckRecords, Fail, TakeReturn, NoReturn, Quiet, session
<1>10. CASE Refused
  BY <1>10 DEF Refused, Waits, Within, Intended, Fail, Quiet, session, lane
<1>11. CASE Sleep
  BY <1>11 DEF Sleep, Counted, Fail, Cleared, NoReturn, Quiet, session
<1>12. CASE Read
  BY <1>12
     DEF Read, Rerunnable, Acceptable, Unread, Routed, Again, Request,
         FreshTurn, NoAnswer, NoReturn, Repairable, Quiet, session, lane
<1>13. CASE Expire
  BY <1>13 DEF Expire, Awaiting, Quiet, session, lane
<1>14. CASE Move
  BY <1>14
     DEF Move, Awaiting, Process, Writes, Frame, Leaves, Killed, Forks, Loses,
         Replied, InSetup, lane
<1>15. CASE WriteReturn
  BY <1>15 DEF WriteReturn, InSetup, Quiet, session
<1>16. CASE Ended
  BY <1>16 DEF Ended, vars, session
<1>17. CASE UNCHANGED vars
  BY <1>17 DEF vars, session
<1> QED
  BY <1>1, <1>2, <1>3, <1>4, <1>5, <1>6, <1>7, <1>8, <1>9, <1>10, <1>11, <1>12,
     <1>13, <1>14, <1>15, <1>16, <1>17
     DEF Next, Runner

-----------------------------------------------------------------------------
(* Each part of the invariant, kept by every step.                         *)

\* What is heard answers what was asked.
LEMMA FramesKept == SeatTyped /\ FramesInv /\ [Next]_vars => FramesInv'
<1> SUFFICES ASSUME SeatTyped, FramesInv, [Next]_vars
             PROVE  FramesInv'
  OBVIOUS
<1> USE SeatAssumption
    DEF TurnType, SeatTyped, SessionType, Frames, FramesInv, Awaiting, Up,
        Replied, InSetup
<1>1. CASE Open
  BY <1>1
     DEF Open, Name, Fail, TakeReturn, NoReturn, FreshTurn, NoAnswer,
         NewClient, NoClient, NoProcess
<1>2. CASE Start
  BY <1>2
     DEF Start, NotStarted, NoClient, NoProcess, Fail, StartedDeaf, Started,
         lane
<1>3. CASE Poll
  BY <1>3
     DEF Poll, lane, Fail, PumpRefused, Pump, Malformed, Asked, Pumped, Heard,
         Unheard, SetUp, Send, Answer
<1>4. CASE Advise
  BY <1>4, AdviceSent DEF Send
<1>5. CASE EndSession
  BY <1>5
     DEF EndSession, Close, NoProcess, Proof, Forbidden, Shown, FreshTurn, NoAnswer,
         NoReturn
<1>6. CASE CheckRepo
  BY <1>6 DEF CheckRepo, Fail, Quiet, session, lane
<1>7. CASE CheckRecords
  BY <1>7 DEF CheckRecords, Fail, TakeReturn, NoReturn, Quiet, session
<1>8. CASE Refused
  BY <1>8 DEF Refused, Waits, Within, Intended, Fail, Quiet, session, lane
<1>9. CASE Sleep
  BY <1>9 DEF Sleep, Counted, Fail, Cleared, NoReturn, Quiet, session
<1>10. CASE Read
  BY <1>10
     DEF Read, Rerunnable, Acceptable, Unread, Routed, Again, Request,
         FreshTurn, NoAnswer, NoReturn, Repairable, Quiet, session, lane
<1>11. CASE Move
  <2>1. pc \in {"poll", "marker", "again"} /\ UNCHANGED <<pc, seat, client>>
    BY <1>11 DEF Move, lane, Process, Writes, Leaves, Killed, Forks, Loses
  <2>2. CASE stream' \in {stream, <<>>}
    BY <2>1, <2>2
  <2>3. ASSUME NEW f \in Frames, stream' = Append(stream, f),
               f.of <= client.seq /\ (f.of = client.seq => f.says \in Replied)
        PROVE  FramesInv'
    <3>1. \A i \in DOMAIN stream' : (i \in DOMAIN stream /\ stream'[i] = stream[i]) \/ stream'[i] = f
      BY <2>3, WrittenLast
    <3> QED
      BY <2>1, <2>3, <3>1
  <2>4. CASE \E says \in Replied : Writes(Frame(client.seq, says))
    <3>1. PICK says \in Replied : Writes(Frame(client.seq, says))
      BY <2>4
    <3>2. Frame(client.seq, says) \in Frames
      BY <3>1 DEF Frame
    <3>3. Frame(client.seq, says).of = client.seq /\ Frame(client.seq, says).says = says
      BY DEF Frame
    <3> QED
      BY <2>3, <3>1, <3>2, <3>3 DEF Writes
  <2>5. CASE \E says \in {"permission", "malformed"} : Writes(Frame(0, says))
    <3>1. PICK says \in {"permission", "malformed"} : Writes(Frame(0, says))
      BY <2>5
    <3>2. Frame(0, says) \in Frames
      BY DEF Frame
    <3>3. Frame(0, says).of = 0
      BY DEF Frame
    <3>4. client.seq # 0
      BY <1>11 DEF Move
    <3> QED
      BY <2>3, <3>1, <3>2, <3>3, <3>4 DEF Writes
  <2> QED
    BY <1>11, <2>2, <2>4, <2>5 DEF Move, Process, Leaves, Killed, Forks, Loses
<1>12. CASE \/ Marker \/ Settle \/ Expire \/ WriteReturn \/ Ended
  BY <1>12
     DEF Marker, Marked, Fail, Quiet, session, lane, Settle, Unblocked,
         NoReturn, Expire, WriteReturn, Ended, vars
<1>13. CASE UNCHANGED vars
  BY <1>13 DEF vars, session
<1> QED
  BY <1>1, <1>2, <1>3, <1>4, <1>5, <1>6, <1>7, <1>8, <1>9, <1>10, <1>11, <1>12,
     <1>13
     DEF Next, Runner

\* What is slept stays counted and bounded.
LEMMA WaitKept == SeatTyped /\ WaitInv /\ [Next]_vars => WaitInv'
<1> SUFFICES ASSUME SeatTyped, WaitInv, [Next]_vars
             PROVE  WaitInv'
  OBVIOUS
<1> USE SeatAssumption
    DEF TurnType, AskedType, SeenType, SeatTyped, WaitInv, Attempt, Places
<1>1. CASE Open
  BY <1>1
     DEF Open, Name, Fail, TakeReturn, NoReturn, FreshTurn, NoAnswer,
         NewClient, NoClient, NoProcess
<1>2. CASE Refused
  <2>1. CASE \E w \in Waits : asked' = [asked EXCEPT !.req.wait = w] /\ pc' = "sleep"
    <3>1. PICK w \in Waits : asked' = [asked EXCEPT !.req.wait = w] /\ pc' = "sleep"
      BY <2>1
    <3>2. w \in Nat /\ asked.req.tries < RetryMax
      BY <3>1, WaitsBounded
    <3>3. /\ asked'.req.tries = asked.req.tries
          /\ asked'.req.waited = asked.req.waited
      BY <3>1
    <3>4. UNCHANGED seen /\ pc = "refused"
      BY <1>2 DEF Refused
    <3> QED
      BY <3>1, <3>2, <3>3, <3>4
  <2>2. CASE UNCHANGED asked /\ pc' = "read"
    BY <1>2, <2>2 DEF Refused, Quiet, lane
  <2> QED
    BY <1>2, <2>1, <2>2 DEF Refused, Fail
<1>3. CASE Sleep
  <2>1. PICK over \in 0 .. MaxOver :
          LET taken == asked.req.wait + over
              waited == asked.req.waited + Counted(asked.req.wait, taken)
          IN /\ seen' = [seen EXCEPT !.slept = @ + taken]
             /\ \/ /\ waited > TotalWait
                   /\ pc' = "read"
                   /\ asked' = [asked EXCEPT !.req.waited = waited]
                \/ /\ waited <= TotalWait
                   /\ asked' = [asked EXCEPT !.req.waited = waited, !.req.tries = @ + 1,
                                                   !.req.wait = 0]
                   /\ pc' \in {"open", "read"}
    BY <1>3 DEF Sleep, Fail
  <2> DEFINE taken == asked.req.wait + over
             waited == asked.req.waited + Counted(asked.req.wait, taken)
  <2>2. taken \in Nat /\ waited \in Nat /\ asked.req.waited + taken <= waited
    BY SeatAssumption DEF Counted
  <2>3. seen'.slept = seen.slept + taken
    BY <2>1, <2>2
  <2>8. asked'.req.waited = waited /\ asked'.req.tries \in {asked.req.tries, asked.req.tries + 1}
    <3>1. asked.req \in Attempt
      OBVIOUS
    <3>2. CASE asked' = [asked EXCEPT !.req.waited = waited]
      <4>1. asked'.req = [asked.req EXCEPT !.waited = waited]
        BY <3>2
      <4> HIDE DEF waited
      <4> QED
        BY <3>1, <4>1
    <3>3. CASE asked' = [asked EXCEPT !.req.waited = waited, !.req.tries = @ + 1, !.req.wait = 0]
      <4>1. asked'.req = [asked.req EXCEPT !.waited = waited, !.tries = @ + 1, !.wait = 0]
        BY <3>3
      <4> HIDE DEF waited
      <4> QED
        BY <3>1, <4>1
    <3> QED
      BY <2>1, <3>2, <3>3
  <2>4. asked.req.tries < RetryMax
    BY <1>3 DEF Sleep
  <2>5. asked'.req.tries <= RetryMax
    BY <2>4, <2>8
  <2>6. seen'.slept <= asked'.req.waited
    BY <2>2, <2>3, <2>8
  <2>7. pc' = "open" => asked'.req.waited <= TotalWait
    BY <2>1, <2>2, <2>8
  <2> QED
    BY <2>1, <2>5, <2>6, <2>7
<1>4. CASE Read
  <2>1. CASE \E repair, rerun \in BOOLEAN, reran \in BOOLEAN : Again(repair, rerun, reran)
    BY <2>1 DEF Again, Request
  <2>2. CASE pc' \in {"accepted", "failed"} /\ UNCHANGED <<asked, seen>>
    BY <2>2
  <2>3. asked.req.repair \in BOOLEAN /\ asked.reran \in BOOLEAN
    OBVIOUS
  <2> QED
    BY <1>4, <2>1, <2>2, <2>3 DEF Read
<1>5. CASE \/ Poll \/ Start \/ Marker \/ Settle \/ Advise \/ EndSession
           \/ CheckRepo \/ CheckRecords \/ Expire \/ Move \/ WriteReturn
           \/ Ended
  BY <1>5
     DEF Poll, lane, InSetup, Fail, PumpRefused, Pump, Malformed, Asked,
         Pumped, Heard, Unheard, SetUp, Send, Answer, Start, NotStarted,
         NoClient, NoProcess, StartedDeaf, Started, Marker, Marked, Quiet,
         session, Settle, Unblocked, Hashes, NoReturn, Advise, TimedOut, NoAnswer,
         EndSession, Close, Proof, Forbidden, Shown, FreshTurn, CheckRepo,
         CheckRecords, TakeReturn, Expire, Awaiting, Move, Process, Writes,
         Frame, Leaves, Killed, Forks, Loses, Replied, WriteReturn, Ended, vars
<1>6. CASE UNCHANGED vars
  BY <1>6 DEF vars, session
<1> QED
  BY <1>1, <1>2, <1>3, <1>4, <1>5, <1>6 DEF Next, Runner

\* What was written stays findable until it is found.
LEMMA WroteKept == SeatTyped /\ WroteInv /\ [Next]_vars => WroteInv'
<1> SUFFICES ASSUME SeatTyped, WroteInv, [Next]_vars
             PROVE  WroteInv'
  OBVIOUS
<1> USE SeatAssumption
    DEF TurnType, SpanType, Span, SeenType, SeatTyped, WroteInv, Faults, Found, Shown
<1>1. CASE Open
  BY <1>1
     DEF Open, Name, Fail, TakeReturn, NoReturn, FreshTurn, NoAnswer,
         NewClient, NoClient, NoProcess
<1>2. CASE EndSession
  BY <1>2
     DEF EndSession, Close, NoProcess, Proof, Forbidden, Shown, FreshTurn, NoAnswer,
         NoReturn
<1>3. CASE CheckRepo
  BY <1>3 DEF CheckRepo, Fail, Quiet, session, lane
<1>4. CASE CheckRecords
  BY <1>4 DEF CheckRecords, Fail, TakeReturn, NoReturn, Quiet, session
<1>5. CASE Refused
  BY <1>5 DEF Refused, Waits, Within, Intended, Fail, Quiet, session, lane
<1>6. CASE Sleep
  BY <1>6 DEF Sleep, Counted, Fail, Cleared, NoReturn, Quiet, session
<1>7. CASE Read
  BY <1>7
     DEF Read, Rerunnable, Acceptable, Unread, Routed, Again, Request,
         FreshTurn, NoAnswer, NoReturn, Repairable, Quiet, session, lane
<1>8. CASE \/ Poll \/ Start \/ Marker \/ Settle \/ Advise \/ Expire
           \/ Move \/ WriteReturn \/ Ended
  BY <1>8
     DEF Poll, lane, InSetup, Fail, PumpRefused, Pump, Malformed, Asked,
         Pumped, Heard, Unheard, SetUp, Send, Answer, Start, NotStarted,
         NoClient, NoProcess, StartedDeaf, Started, Marker, Marked, Quiet,
         session, Settle, Unblocked, Hashes, NoReturn, Advise, TimedOut, NoAnswer,
         Expire, Awaiting, Move, Process, Writes, Frame, Leaves, Killed, Forks,
         Loses, Replied, WriteReturn, Ended, vars
<1>9. CASE UNCHANGED vars
  BY <1>9 DEF vars, session
<1> QED
  BY <1>1, <1>2, <1>3, <1>4, <1>5, <1>6, <1>7, <1>8, <1>9 DEF Next, Runner

\* What an earlier session returned is never valid.
LEMMA EarnedKept == SeatTyped /\ EarnedInv /\ [Next]_vars => EarnedInv'
<1> SUFFICES ASSUME SeatTyped, EarnedInv, [Next]_vars
             PROVE  EarnedInv'
  OBVIOUS
<1> USE SeatAssumption
    DEF TurnType, ReturnType, SeatTyped, EarnedInv, Return, NoReturn
<1>1. CASE Open
  BY <1>1
     DEF Open, Name, Fail, TakeReturn, FreshTurn, NoAnswer, NewClient,
         NoClient, NoProcess
<1>2. CASE Settle
  BY <1>2 DEF Settle, Unblocked, Quiet, session
<1>3. CASE CheckRecords
  BY <1>3 DEF CheckRecords, Fail, TakeReturn, Quiet, session
<1>4. CASE Sleep
  BY <1>4 DEF Sleep, Counted, Fail, Cleared, Quiet, session
<1>5. CASE Read
  BY <1>5
     DEF Read, Rerunnable, Acceptable, Unread, Routed, Again, Request,
         FreshTurn, NoAnswer, Repairable, Quiet, session, lane
<1>6. CASE WriteReturn
  BY <1>6 DEF WriteReturn, InSetup, Quiet, session
<1>7. CASE \/ Poll \/ Start \/ Marker \/ Advise \/ EndSession \/ CheckRepo
           \/ Expire \/ Move \/ Refused \/ Ended
  BY <1>7
     DEF Poll, lane, InSetup, Fail, PumpRefused, Pump, Malformed, Asked,
         Pumped, Heard, Unheard, SetUp, Send, Answer, Start, NotStarted,
         NoClient, NoProcess, StartedDeaf, Started, Marker, Marked, Quiet,
         session, Advise, TimedOut, NoAnswer, EndSession, Close, Proof,
         Forbidden, Shown, FreshTurn, CheckRepo, Expire, Awaiting, Move, Process,
         Writes, Frame, Leaves, Killed, Forks, Loses, Replied, Refused, Waits,
         Within, Intended, Ended, vars
<1>8. CASE UNCHANGED vars
  BY <1>8 DEF vars, session
<1> QED
  BY <1>1, <1>2, <1>3, <1>4, <1>5, <1>6, <1>7, <1>8 DEF Next, Runner

\* A fault ends the session, and none is lost.
LEMMA FaultKept == SeatTyped /\ FaultInv /\ [Next]_vars => FaultInv'
<1> SUFFICES ASSUME SeatTyped, FaultInv, [Next]_vars
             PROVE  FaultInv'
  OBVIOUS
<1> USE SeatAssumption
    DEF TurnType, SpanType, Span, SeatTyped, FaultInv, Faults, Up
<1>1. CASE Start
  BY <1>1
     DEF Start, NotStarted, NoClient, NoProcess, Fail, StartedDeaf, Started,
         lane
<1>2. CASE Poll
  BY <1>2
     DEF Poll, lane, InSetup, Fail, PumpRefused, Pump, Malformed, Asked,
         Pumped, Heard, Unheard, SetUp, Send, Answer
<1>3. CASE Settle
  BY <1>3 DEF Settle, Unblocked, NoReturn, Quiet, session
<1>4. CASE Advise
  BY <1>4 DEF Advise, lane, TimedOut, Fail, Send
<1>5. CASE EndSession
  BY <1>5
     DEF EndSession, Close, NoProcess, Proof, Forbidden, Shown, FreshTurn, NoAnswer,
         NoReturn
<1>6. CASE CheckRecords
  BY <1>6 DEF CheckRecords, Fail, TakeReturn, NoReturn, Quiet, session
<1>7. CASE \/ Open \/ Marker \/ Expire \/ Move \/ WriteReturn \/ Ended
           \/ Refused \/ Sleep \/ Read \/ CheckRepo
  BY <1>7
     DEF Open, Name, Fail, TakeReturn, NoReturn, FreshTurn, NoAnswer,
         NewClient, NoClient, NoProcess, Marker, Marked, Quiet, session, lane,
         Expire, Awaiting, Move, Process, Writes, Frame, Leaves, Killed, Forks,
         Loses, Replied, InSetup, WriteReturn, Ended, vars, Refused, Waits,
         Within, Intended, Sleep, Counted, Cleared, Read, Rerunnable,
         Acceptable, Unread, Routed, Again, Request, Repairable, CheckRepo
<1>8. CASE UNCHANGED vars
  BY <1>8 DEF vars, session
<1> QED
  BY <1>1, <1>2, <1>3, <1>4, <1>5, <1>6, <1>7, <1>8 DEF Next, Runner

\* The evidence of a session is kept with its reservation.
LEMMA EvidenceStays == SeatTyped /\ KeptInv /\ [Next]_vars => KeptInv'
<1> SUFFICES ASSUME SeatTyped, KeptInv, [Next]_vars
             PROVE  KeptInv'
  OBVIOUS
<1> USE SeatAssumption
    DEF SeatTyped, SessionType, KeptInv, EvidenceKept, Up
<1>1. CASE Poll
  BY <1>1
     DEF Poll, lane, InSetup, Fail, PumpRefused, Pump, Malformed, Asked,
         Pumped, Heard, Unheard, SetUp, Send, Answer
<1>2. CASE Marker
  BY <1>2 DEF Marker, Marked, Fail, Quiet, session, lane
<1>3. CASE Settle
  BY <1>3 DEF Settle, Unblocked, NoReturn, Quiet, session
<1>4. CASE Advise
  BY <1>4, AdviceSent DEF Send
<1>5. CASE EndSession
  <2>1. PICK survivors \in SUBSET proc.group :
          /\ proc' = [NoProcess EXCEPT !.group = survivors]
          /\ \E proof \in Proof(survivors), cleared \in BOOLEAN :
               client' = [seq |-> 0, closed |-> proof, held |-> ~(proof = "proven" /\ cleared)]
          /\ runtime' = IF client'.closed = "proven" THEN "gone" ELSE runtime
    BY <1>5 DEF EndSession, Close
  <2>2. PICK proof \in Proof(survivors), cleared \in BOOLEAN :
          client' = [seq |-> 0, closed |-> proof, held |-> ~(proof = "proven" /\ cleared)]
    BY <2>1
  <2>3. proc'.group = survivors
    BY <2>1 DEF NoProcess
  <2>4. client'.closed = proof /\ (proof = "unproven" => client'.held)
    BY <2>2
  <2>5. proof = "proven" => survivors = {}
    BY DEF Proof
  <2>6. proof \in {"proven", "unproven"}
    BY DEF Proof
  <2>7. runtime # "gone"
    BY <1>5 DEF EndSession
  <2>8. pc' \in {"repo", "records"}
    BY <1>5 DEF EndSession
  <2> QED
    BY <2>1, <2>3, <2>4, <2>5, <2>6, <2>7, <2>8
<1>6. CASE Move
  BY <1>6
     DEF Move, Awaiting, Process, Writes, Frame, Leaves, Killed, Forks, Loses,
         Replied, InSetup, lane
<1>7. CASE \/ Open \/ Start
  BY <1>7
     DEF Open, Name, Fail, TakeReturn, NoReturn, FreshTurn, NoAnswer,
         NewClient, NoClient, NoProcess, Start, NotStarted, StartedDeaf,
         Started, lane
<1>8. CASE \/ CheckRepo \/ CheckRecords \/ Refused \/ Sleep \/ Read
           \/ Expire \/ WriteReturn \/ Ended
  BY <1>8
     DEF CheckRepo, Fail, Quiet, session, lane, CheckRecords, TakeReturn,
         NoReturn, Refused, Waits, Within, Intended, Sleep, Counted, Cleared,
         Read, Rerunnable, Acceptable, Unread, Routed, Again, Request,
         FreshTurn, NoAnswer, Repairable, Expire, Awaiting, WriteReturn,
         InSetup, Ended, vars
<1>9. CASE UNCHANGED vars
  BY <1>9 DEF vars, session
<1> QED
  BY <1>1, <1>2, <1>3, <1>4, <1>5, <1>6, <1>7, <1>8, <1>9 DEF Next, Runner

\* What a turn that settled leaves.
LEMMA Settled ==
  Settle =>
    /\ pc = "settle" /\ pc' \in {"advise", "close"} /\ UNCHANGED <<seat, client>>
    /\ \/ turn' = [turn EXCEPT !.blocked = NoReturn]
       \/ \E h \in {FALSE, seat.advised} : turn' = [turn EXCEPT !.blocked = NoReturn, !.hung = h]
    /\ \E hash \in Hashes(ret), fails \in {FALSE, turn.blocked # NoReturn} :
         /\ ret' = Unblocked(hash, fails)
         /\ seen' = [seen EXCEPT !.blocked = IF fails \/ hash # ret THEN NoReturn ELSE @]
BY DEF Settle, Quiet, session

\* A blocked return stays told apart until it is gone.
LEMMA BlockKept ==
  SeatTyped /\ FaultInv /\ BlockInv /\ [Next]_vars => BlockInv'
<1> SUFFICES ASSUME SeatTyped, FaultInv, BlockInv, [Next]_vars
             PROVE  BlockInv'
  OBVIOUS
<1> USE SeatAssumption
    DEF TurnType, SpanType, Span, ReturnType, SeenType, SeatTyped, SessionType,
        BlockInv, FaultInv, Gone, Return, NoReturn, Up
<1>1. CASE Open
  <2>1. pc' = "start" => /\ ret'.by # "this" /\ turn'.blocked = NoReturn
                         /\ turn'.prior \in {NoReturn, ret', Unreadable}
    BY <1>1 DEF Open, FreshTurn, Hashes, Fail
  <2>2. pc' \in {"start", "read"} /\ seen'.blocked = NoReturn
    BY <1>1 DEF Open, Fail
  <2> QED
    BY <2>1, <2>2 DEF Unreadable
<1>2. CASE Start
  BY <1>2
     DEF Start, NotStarted, NoClient, NoProcess, Fail, StartedDeaf, Started,
         lane
<1>3. CASE Poll
  <2>1. UNCHANGED <<seat, ret, seen>>
    BY <1>3 DEF Poll, lane
  <2>2. pc \in {"poll", "again"} /\ turn'.blocked = turn.blocked /\ turn'.prior = turn.prior
    BY <1>3 DEF Poll, Fail, Unheard, SetUp
  <2>3. client'.seq \in {client.seq, client.seq + 1}
    BY <1>3 DEF Poll, SetUp, Send
  <2>4. pc' \in {"poll", "marker", "settle", "close"}
    BY <1>3 DEF Poll, Fail, Unheard, SetUp, Marked
  <2>5. pc' = "close" => turn'.fault # "none"
    BY <1>3 DEF Poll, Fail, Unheard, SetUp
  <2> QED
    BY <2>1, <2>2, <2>3, <2>4, <2>5
<1>4. CASE Marker
  BY <1>4 DEF Marker, Marked, Fail, Quiet, session, lane
<1>5. CASE Settle
  <2>5. \/ turn' = [turn EXCEPT !.blocked = NoReturn]
        \/ \E h \in {FALSE, seat.advised} : turn' = [turn EXCEPT !.blocked = NoReturn, !.hung = h]
    BY <1>5, Settled
  <2>6. turn'.prior = turn.prior /\ turn'.fault = turn.fault
    BY <2>5
  <2>1. /\ pc = "settle" /\ pc' \in {"advise", "close"} /\ UNCHANGED <<seat, client>>
        /\ turn'.prior = turn.prior /\ turn'.fault = turn.fault
    BY <1>5, <2>6, Settled
  <2>2. PICK hash \in Hashes(ret), fails \in {FALSE, turn.blocked # NoReturn} :
          /\ ret' = Unblocked(hash, fails)
          /\ seen' = [seen EXCEPT !.blocked = IF fails \/ hash # ret THEN NoReturn ELSE @]
    BY <1>5, Settled
  <2>3. ret' \in {ret, NoReturn} /\ seen'.blocked \in {seen.blocked, NoReturn}
    BY <2>2 DEF Unblocked
  <2>4. Gone'
    BY <2>1, <2>2 DEF Unblocked
  <2> QED
    BY <2>1, <2>3, <2>4
<1>6. CASE Advise
  <2>1. CASE TimedOut /\ Fail("error", "close") /\ UNCHANGED <<client, seen>>
    BY <1>6, <2>1 DEF Advise, Fail, lane
  <2>2. CASE pc' = "close" /\ UNCHANGED <<client, turn, seen>>
    BY <1>6, <2>2 DEF Advise, lane
  <2>3. ASSUME NEW hash \in Hashes(ret),
               seen' = [seen EXCEPT !.blocked =
                          IF hash.by = "this" /\ turn.prior # Unreadable THEN ret ELSE NoReturn],
               \/ Send /\ pc' = "poll"
                  /\ turn' = [turn EXCEPT !.answer = NoAnswer, !.blocked = Fresh(hash)]
               \/ UNCHANGED client
                  /\ pc' = "close"
                  /\ turn' = [turn EXCEPT !.fault = "error", !.blocked = Fresh(hash)]
        PROVE  BlockInv'
    <3>1. UNCHANGED <<seat, ret>> /\ pc = "advise"
      BY <1>6 DEF Advise, lane
    <3>2. /\ seen'.blocked = IF hash.by = "this" /\ turn.prior # Unreadable THEN ret ELSE NoReturn
          /\ turn'.blocked = Fresh(hash)
      BY <2>3
    <3>3. hash.by = "this" => hash = ret /\ seat.advised /\ ret.prompt <= client.seq
      BY <2>3, <3>1 DEF Hashes, Unreadable
    <3>5. hash.by = "this" /\ turn.prior # Unreadable => Fresh(hash) = ret
      BY <2>3, <3>1, <3>3 DEF Fresh, Unreadable
    <3>7. turn'.prior = turn.prior
      BY <2>3
    <3>4. CASE Send /\ pc' = "poll"
      <4>1. client'.seq = client.seq + 1
        BY <3>4 DEF Send
      <4> QED
        BY <3>1, <3>2, <3>3, <3>4, <3>5, <3>7, <4>1
    <3>6. CASE UNCHANGED client /\ pc' = "close" /\ turn'.fault = "error"
      BY <3>1, <3>2, <3>3, <3>5, <3>6, <3>7
    <3> QED
      BY <2>3, <3>4, <3>6
  <2>4. \/ TimedOut /\ Fail("error", "close") /\ UNCHANGED <<client, seen>>
        \/ pc' = "close" /\ UNCHANGED <<client, turn, seen>>
        \/ \E hash \in Hashes(ret) :
             /\ seen' = [seen EXCEPT !.blocked =
                            IF hash.by = "this" /\ turn.prior # Unreadable THEN ret ELSE NoReturn]
             /\ \/ Send /\ pc' = "poll"
                   /\ turn' = [turn EXCEPT !.answer = NoAnswer, !.blocked = Fresh(hash)]
                \/ UNCHANGED client
                   /\ pc' = "close"
                   /\ turn' = [turn EXCEPT !.fault = "error", !.blocked = Fresh(hash)]
    BY <1>6 DEF Advise
  <2> QED
    BY <2>1, <2>2, <2>3, <2>4
<1>7. CASE EndSession
  BY <1>7
     DEF EndSession, Close, NoProcess, Proof, Forbidden, Shown, FreshTurn, NoAnswer
<1>8. CASE CheckRepo
  BY <1>8 DEF CheckRepo, Fail, Quiet, session, lane
<1>9. CASE CheckRecords
  BY <1>9 DEF CheckRecords, Fail, TakeReturn, Quiet, session
<1>10. CASE Refused
  BY <1>10 DEF Refused, Waits, Within, Intended, Fail, Quiet, session, lane
<1>11. CASE Sleep
  BY <1>11 DEF Sleep, Counted, Fail, Cleared, Quiet, session
<1>12. CASE Read
  BY <1>12
     DEF Read, Rerunnable, Acceptable, Unread, Routed, Again, Request,
         FreshTurn, NoAnswer, Repairable, Quiet, session, lane
<1>13. CASE Expire
  BY <1>13 DEF Expire, Awaiting, Quiet, session, lane
<1>14. CASE Move
  BY <1>14
     DEF Move, Awaiting, Process, Writes, Frame, Leaves, Killed, Forks, Loses,
         Replied, InSetup, lane
<1>15. CASE WriteReturn
  BY <1>15 DEF WriteReturn, InSetup, Quiet, session
<1>16. CASE Ended
  BY <1>16 DEF Ended, vars, session
<1>17. CASE UNCHANGED vars
  BY <1>17 DEF vars, session
<1> QED
  BY <1>1, <1>2, <1>3, <1>4, <1>5, <1>6, <1>7, <1>8, <1>9, <1>10, <1>11, <1>12,
     <1>13, <1>14, <1>15, <1>16, <1>17
     DEF Next, Runner

-----------------------------------------------------------------------------
(* The invariant.                                                          *)

\* A turn begins as the invariant says.
LEMMA SeatTurnInit == Init => SeatTurnInv
<1> SUFFICES ASSUME Init
             PROVE  SeatTurnInv
  OBVIOUS
<1> USE DEF Init, SessionInit
<1>1. SessionType
  BY DEF SessionType, NoClient, NoProcess
<1>2. AskedType
  BY DEF AskedType, Request, Attempt
<1>3. TurnType
  BY <1>2, FreshTyped DEF TurnType, Places, ReturnType, SpanType, SeenType
<1>4. FramesInv /\ FaultInv /\ KeptInv
  BY FreshTyped DEF FramesInv, FaultInv, KeptInv, EvidenceKept, Up, Awaiting, NoClient, NoProcess
<1>5. WaitInv
  BY SeatAssumption DEF WaitInv, Request
<1>6. WroteInv /\ EarnedInv /\ BlockInv
  BY DEF WroteInv, Shown, EarnedInv, BlockInv, Up, NoReturn
<1> QED
  BY <1>1, <1>3, <1>4, <1>5, <1>6 DEF SeatTurnInv, SeatTyped

\* Every step keeps it.
LEMMA SeatTurnNext == SeatTurnInv /\ [Next]_vars => SeatTurnInv'
BY SessionTyped, AskedTyped, ReturnTyped, SpanTyped, SeenTyped, PlaceTyped,
   FramesKept, FaultKept, EvidenceStays, WaitKept, WroteKept, EarnedKept, BlockKept
   DEF SeatTurnInv, SeatTyped, TurnType

\* The invariant of a seat's turn is inductive: for any seats, retry bounds,
\* ladders, sleeps, prompts and frames.
THEOREM SeatTurnInvariant == Spec => []SeatTurnInv
<1>1. Init => SeatTurnInv
  BY SeatTurnInit
<1>2. SeatTurnInv /\ [Next]_vars => SeatTurnInv'
  BY SeatTurnNext
<1> QED
  BY <1>1, <1>2, PTL DEF Spec

-----------------------------------------------------------------------------
(* What a turn promises.                                                   *)

\* What a session is paid for with waits is bounded: the retries and the time they
\* took never pass PROVIDER_RETRY_MAX and PROVIDER_RETRY_TOTAL_WAIT_MS.
THEOREM TurnWaitsBounded == Spec => []WaitBounded
<1>1. SeatTurnInv => WaitBounded
  BY SeatAssumption
     DEF SeatTurnInv, WaitInv, WaitBounded, SeatTyped, TurnType, AskedType,
         SeenType, Attempt
<1> QED
  BY <1>1, SeatTurnInvariant, PTL

\* No valid return of an earlier session is what a turn is accepted with.
THEOREM TurnEarnsReturn == Spec => []EarnedReturn
<1>1. SeatTurnInv => EarnedReturn
  BY SeatAssumption DEF SeatTurnInv, EarnedInv, EarnedReturn, BlockInv
<1> QED
  BY <1>1, SeatTurnInvariant, PTL

\* A turn that ended by itself is not accepted with the return its advisor
\* blocked, unless something spared it: a hash that could not be taken, or a
\* removal that failed.
THEOREM TurnLosesBlocked == Spec => []BlockedGone
<1>1. SeatTurnInv => BlockedGone
  BY SeatAssumption DEF SeatTurnInv, BlockInv, BlockedGone, Gone, NoReturn
<1> QED
  BY <1>1, SeatTurnInvariant, PTL

\* A seat that wrote where it may not has no return accepted, as far as the
\* comparisons at the end of its sessions can show what it wrote.
THEOREM TurnConfined == Spec => []Confined
<1>1. SeatTurnInv => Confined
  BY SeatAssumption DEF SeatTurnInv, WroteInv, Confined, Shown
<1> QED
  BY <1>1, SeatTurnInvariant, PTL

\* Only a seat that left no answer behind is given up for dead.
THEOREM TurnHearsAnswer == Spec => []AnswerHeard
<1>1. SeatTurnInv => AnswerHeard
  BY SeatAssumption DEF SeatTurnInv, FaultInv, AnswerHeard, Heard
<1> QED
  BY <1>1, SeatTurnInvariant, PTL

\* While anyone of a closed session lives, its reservation and directory stay.
THEOREM TurnKeepsEvidence == Spec => []EvidenceKept
<1>1. SeatTurnInv => EvidenceKept
  BY SeatAssumption DEF SeatTurnInv, KeptInv
<1> QED
  BY <1>1, SeatTurnInvariant, PTL
=============================================================================

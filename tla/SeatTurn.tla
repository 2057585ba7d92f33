------------------------------ MODULE SeatTurn ------------------------------
(***************************************************************************)
(* One turn of a seat as the lane loop sees it, down to the ACP session:   *)
(*   attempt of crew/loop.mjs       asks, reads the return, asks again     *)
(*   runSeat of crew/lean.mjs       provider retries, recording, records   *)
(*   runAcpSeat of crew/acp/seat.mjs  prompts, advice, deadline, teardown  *)
(* over the client of AcpClient.  The three nest and block on each other:  *)
(* pc is the statement reached.  The process moves beside them.            *)
(***************************************************************************)
EXTENDS AcpClient, FiniteSets

CONSTANTS
  Seats,      \* what a seat may be: see SeatAssumption
  RetryMax,   \* PROVIDER_RETRY_MAX
  TotalWait,  \* PROVIDER_RETRY_TOTAL_WAIT_MS
  Ladder,     \* PROVIDER_BACKOFF_LADDER_MS
  MaxOver,    \* how much longer than asked a sleep takes: bounds the model only
  MaxPrompts  \* prompts in one session: bounds the model only

ASSUME SeatAssumption ==
  /\ \A s \in Seats : /\ s.requests \in {2, 3}
                      /\ {s.confined, s.recorded, s.advised, s.apart} \subseteq BOOLEAN
  /\ RetryMax \in Nat /\ TotalWait \in Nat /\ MaxOver \in Nat /\ MaxPrompts \in Nat \ {0}
  /\ MaxFrames \in Nat
  /\ Ladder \in Seq(Nat) /\ Ladder # <<>>

VARIABLES
  pc,
  seat,     \* the seat: the requests of its setup; confined (muse that may write its task
            \* directory), recorded (muse that writes), advised; apart: its agent works in
            \* a process group of its own, as acp-bridge.mjs starts pi
  asked,    \* the request of the attempt under way, its retries and what they waited
  turn,     \* the session's turn: answer, fault, deadline, what the advisor blocked
  ret,      \* the file at the return path
  touched,  \* what differs from its fingerprint: "repo", "records"
  seen      \* history: whether a session left one alive, the return blocked last unless something
            \* spared it, what was written that may not be, time slept

vars == <<session, pc, seat, asked, turn, ret, touched, seen>>
lane == <<seat, ret, touched>>

\* A file is told apart by who wrote it (this session, an earlier one, one left
\* behind by an earlier one), after which prompt, and whether it is valid.
NoReturn == [by |-> "none", prompt |-> 0, is |-> "absent"]

\* What an advised session's listing of the returns gives for the file: null for
\* one that cannot be read, nothing if the directory cannot be listed.
Unreadable == [by |-> "none", prompt |-> 0, is |-> "unread"]
Hashes(r) ==
  {NoReturn} \union IF seat.advised /\ r # NoReturn THEN {r, Unreadable} ELSE {}
NoAnswer == "none"
FreshTurn == [answer |-> NoAnswer, fault |-> "none", late |-> FALSE, hung |-> FALSE,
              prior |-> NoReturn, blocked |-> NoReturn]
Request(repair, rerun) ==
  [repair |-> repair, rerun |-> rerun, tries |-> 0, waited |-> 0, wait |-> 0]

Init ==
  /\ SessionInit
  /\ seat \in Seats
  /\ pc = "open"
  /\ asked = [req |-> Request(FALSE, FALSE), reran |-> FALSE, names |-> {}]
  /\ turn = FreshTurn
  /\ ret = NoReturn
  /\ touched = {}
  /\ seen = [left |-> FALSE, blocked |-> NoReturn, wrote |-> {}, slept |-> 0]

\* The faults of a turn: one the loop may rerun, one a provider is to blame
\* for, a seat that exited before answering, and a seat that wrote elsewhere.
Fail(fault, at) == turn' = [turn EXCEPT !.fault = fault] /\ pc' = at
Quiet == UNCHANGED session

\* What a comparison with the fingerprints shows of it.
Shown(what) == what \ {"unseen"}

\* Returns that may not be read are taken away; that may fail.
TakeReturn == ret' \in {ret, NoReturn}

-----------------------------------------------------------------------------
(* crew/lean.mjs: one session after the other                              *)

\* The session file, created exclusively; an advised session hashes the return
\* that is there.
Name(req) == [repair |-> req.repair, rerun |-> req.rerun, tries |-> req.tries]

Open ==
  /\ pc = "open"
  /\ asked' = [asked EXCEPT !.names = @ \union {Name(asked.req)}]
  /\ \/ Name(asked.req) \in asked.names /\ Fail("duplicate", "read") /\ UNCHANGED ret
     \/ Name(asked.req) \notin asked.names /\ seat.recorded /\ Fail("violation", "read") /\ TakeReturn
     \/ /\ Name(asked.req) \notin asked.names
        /\ pc' = "start"
        /\ ret' = [ret EXCEPT !.by = IF @ = "this" THEN "earlier" ELSE @]
        /\ \E hash \in Hashes(ret') : turn' = [FreshTurn EXCEPT !.prior = hash]
  /\ touched' = {}
  /\ seen' = [seen EXCEPT !.blocked = NoReturn, !.wrote = Shown(@)]
  /\ NewClient /\ UNCHANGED seat

\* The records beside the session's own, once the session is closed; and
\* whether every relayed row was appended.
CheckRecords ==
  /\ pc = "records"
  /\ \/ seat.recorded /\ Fail("violation", "read") /\ TakeReturn
     \/ turn.fault = "violation" /\ pc' = "read" /\ UNCHANGED turn /\ TakeReturn
     \/ /\ turn.fault # "violation"
        /\ ~(seat.recorded /\ "records" \in touched)
        /\ UNCHANGED ret
        /\ \/ turn.fault # "none" /\ pc' = "read" /\ UNCHANGED turn
           \/ turn.fault = "none" /\ Fail("error", "read")
           \/ /\ turn.fault = "none" /\ UNCHANGED turn
              /\ pc' = IF turn.answer \in Kinds THEN "refused" ELSE "read"
  /\ Quiet /\ UNCHANGED <<seat, asked, touched, seen>>

\* A park until the stated reset, or the next rung of the ladder, whose last
\* rung stays; other kinds are not waited for.
Intended(kind, tries) ==
  CASE kind = "rate_limit" -> 0..TotalWait
    [] kind = "server_error" -> {Ladder[IF tries < Len(Ladder) THEN tries + 1 ELSE Len(Ladder)]}
    [] OTHER -> {}

Within(waited, waits) == {w \in waits : waited + w <= TotalWait}

\* Mutant: one retry too many.
WaitsOneMore == IF asked.req.tries > RetryMax THEN {}
                ELSE Within(asked.req.waited, Intended(turn.answer, asked.req.tries))

\* The waits the decision may intend: none when it does not retry.
Waits == IF asked.req.tries >= RetryMax THEN {}
         ELSE Within(asked.req.waited, Intended(turn.answer, asked.req.tries))

\* A reset that is not stated, or too far away, and every kind that is not
\* retried, end the turn; a refusal of no known kind is not the provider's.
Refused ==
  /\ pc = "refused"
  /\ \/ /\ turn.answer = "rate_limit" \/ Waits = {}
        /\ Fail(IF turn.answer = "other" THEN "error" ELSE "provider", "read")
        /\ UNCHANGED asked
     \/ /\ \E w \in Waits : asked' = [asked EXCEPT !.req.wait = w]
        /\ pc' = "sleep" /\ UNCHANGED turn
  /\ Quiet /\ UNCHANGED <<lane, seen>>

\* Mutant: what was intended counts, not what was taken.
CountedIntended(intended, taken) == intended

Counted(intended, taken) == IF taken > intended THEN taken ELSE intended

\* Mutant: the refused session's return stays.
ClearedNever == UNCHANGED ret

\* The refused session's return was never earned.
Cleared == ret' = NoReturn

Sleep ==
  /\ pc = "sleep"
  /\ \E over \in 0..MaxOver :
       LET taken == asked.req.wait + over
           waited == asked.req.waited + Counted(asked.req.wait, taken)
       IN /\ seen' = [seen EXCEPT !.slept = @ + taken]
          /\ \/ /\ waited > TotalWait
                /\ Fail("provider", "read")
                /\ asked' = [asked EXCEPT !.req.waited = waited]
                /\ UNCHANGED ret
             \/ /\ waited <= TotalWait
                /\ asked' = [asked EXCEPT !.req.waited = waited, !.req.tries = @ + 1,
                                                !.req.wait = 0]
                /\ \/ Cleared /\ pc' = "open" /\ UNCHANGED turn
                   \/ ret # NoReturn /\ Fail("error", "read") /\ UNCHANGED ret
  /\ Quiet /\ UNCHANGED <<seat, touched>>

-----------------------------------------------------------------------------
(* crew/acp/seat.mjs: one session                                          *)

Start ==
  /\ pc = "start"
  /\ \/ NotStarted /\ Fail("error", "records")
     \/ StartedDeaf /\ Fail("error", "close")
     \/ Started /\ pc' = "poll" /\ UNCHANGED turn
  /\ UNCHANGED <<lane, asked, seen>>

InSetup == client.seq <= seat.requests
Awaiting == pc \in {"poll", "marker", "again"}

Expire ==
  /\ Awaiting \/ pc \in {"settle", "advise"}
  /\ ~turn.late
  /\ turn' = [turn EXCEPT !.late = TRUE]
  /\ Quiet /\ UNCHANGED <<pc, lane, asked, seen>>

\* The next request of the setup, or the turn's prompt.  The turn's time
\* begins with its prompt.
SetUp(reply) ==
  \/ /\ reply = "ok"
     /\ Send
     /\ turn' = [turn EXCEPT !.late = @ /\ client.seq < seat.requests]
     /\ pc' = "poll"
  \/ /\ UNCHANGED client
     /\ Fail(IF reply = "denied" /\ client.seq = 2 THEN "provider" ELSE "error", "close")

\* What follows a pump without an answer.
Unheard ==
  \/ pc = "poll" /\ ~InSetup /\ turn.late /\ Fail("error", "close")
  \/ pc = "poll" /\ ~(~InSetup /\ turn.late) /\ pc' = "marker" /\ UNCHANGED turn
  \/ pc = "again" /\ Fail(IF ~InSetup /\ turn.late THEN "error" ELSE "closed", "close")

\* request and pollPrompt: a turn that settles after its deadline is none.
Poll ==
  /\ pc \in {"poll", "again"}
  /\ UNCHANGED <<lane, asked, seen, proc, runtime>>
  /\ \/ ~InSetup /\ pc = "poll" /\ runtime = "lost" /\ Fail("error", "close") /\ UNCHANGED <<client, stream>>
     \/ PumpRefused /\ Fail("error", "close") /\ UNCHANGED client
     \/ Pumped /\ Heard = {} /\ Unheard /\ UNCHANGED client
     \/ Pumped /\ Heard # {} /\ InSetup /\ SetUp(Answer)
     \/ /\ Pumped /\ Heard # {} /\ ~InSetup
        /\ UNCHANGED client
        /\ \/ turn.late /\ Fail("error", "close")
           \/ ~turn.late /\ turn' = [turn EXCEPT !.answer = Answer] /\ pc' = "settle"

\* Mutant: an exit marker ends the wait at once.
MarkedGivesUp == Fail("closed", "close")

\* The answer may have come between the empty poll and the marker.
Marked == pc' = "again" /\ UNCHANGED turn

Marker ==
  /\ pc = "marker"
  /\ \/ proc.marker /\ runtime = "here" /\ Marked
     \/ /\ ~(proc.marker /\ runtime = "here")
        /\ IF turn.late THEN Fail("error", "close") ELSE pc' = "poll" /\ UNCHANGED turn
  /\ Quiet /\ UNCHANGED <<lane, asked, seen>>

\* Mutant: a blocked return is left for the next turn.
UnblockedNever(hash, fails) == ret

\* A return that was blocked and still hashes the same is taken away; a removal
\* that fails is passed over, the block was delivered.
Unblocked(hash, fails) ==
  IF turn.blocked # NoReturn /\ hash = turn.blocked /\ ~fails THEN NoReturn ELSE ret

\* finishTurn.  Nothing follows a turn that did not end by itself.
Settle ==
  /\ pc = "settle"
  /\ \E hash \in Hashes(ret), fails \in {FALSE, turn.blocked # NoReturn} :
       /\ ret' = Unblocked(hash, fails)
       /\ seen' = [seen EXCEPT !.blocked = IF fails \/ hash # ret THEN NoReturn ELSE @]
  /\ \/ /\ turn.answer = "end_turn" /\ seat.recorded
        /\ \E hung \in {FALSE, seat.advised} : turn' = [turn EXCEPT !.blocked = NoReturn, !.hung = hung]
        /\ pc' = "advise"
     \/ /\ turn.answer # "end_turn" \/ ~seat.recorded
        /\ turn' = [turn EXCEPT !.blocked = NoReturn]
        /\ pc' = "close"
  /\ Quiet /\ UNCHANGED <<seat, asked, touched>>

\* Mutant: an advisor is waited for however long it takes.
TimedOutNever == FALSE

TimedOut == turn.late

\* The return a block is about, by its hash: one that cannot be read, or could
\* not be at the session's start, is never new.
Fresh(hash) == IF turn.prior \in {hash, Unreadable} \/ hash = Unreadable THEN NoReturn ELSE hash

\* A block is delivered as a prompt, and the return it is about remembered; so
\* are other notes, which are about none.
Advise ==
  /\ pc = "advise"
  /\ UNCHANGED <<lane, asked, proc, stream, runtime>>
  /\ \/ TimedOut /\ Fail("error", "close") /\ UNCHANGED <<client, seen>>
     \/ /\ ~turn.hung /\ ~turn.late
        /\ pc' = "close"
        /\ UNCHANGED <<client, turn, seen>>
     \/ /\ ~turn.hung /\ ~turn.late
        /\ client.seq < seat.requests + MaxPrompts
        /\ \E hash \in Hashes(ret) :
             /\ seen' = [seen EXCEPT !.blocked =
                            IF hash.by = "this" /\ turn.prior # Unreadable THEN ret ELSE NoReturn]
             /\ \/ Send /\ pc' = "poll"
                   /\ turn' = [turn EXCEPT !.answer = NoAnswer, !.blocked = Fresh(hash)]
                \/ UNCHANGED client
                   /\ pc' = "close"
                   /\ turn' = [turn EXCEPT !.fault = "error", !.blocked = Fresh(hash)]

\* What a session's processes wrote that they were not to write, at any time
\* since their prompt: nobody looks before the session is closed.  "unseen" is
\* all that the comparisons cannot show: ignored files, writes outside the
\* worktree or the records, the index alone, what was put back before they are
\* made, what is written after them by one the teardown left.
Forbidden ==
  IF client.seq <= seat.requests \/ ~(seat.confined \/ seat.recorded) THEN {}
  ELSE {w \in {"repo", "records", "unseen"} :
          (w = "repo" => seat.confined) /\ (w = "records" => seat.recorded)}

EndSession ==
  /\ pc = "close"
  /\ Close
  /\ \E apart \in {FALSE, seat.apart}, what \in SUBSET Forbidden :
       /\ seen' = [seen EXCEPT !.left = @ \/ proc'.group # {} \/ apart, !.wrote = @ \union what]
       /\ touched' = Shown(what)
  /\ pc' = IF seat.confined THEN "repo" ELSE "records"
  /\ turn' = [FreshTurn EXCEPT !.answer = turn.answer, !.fault = turn.fault]
  /\ UNCHANGED <<seat, ret, asked>>

\* A planner's worktree is compared once its session is closed; one that cannot
\* be measured, or that anyone else changed, is a violation as well.
CheckRepo ==
  /\ pc = "repo"
  /\ \/ Fail("violation", "records")
     \/ "repo" \notin touched /\ pc' = "records" /\ UNCHANGED turn
  /\ Quiet /\ UNCHANGED <<lane, asked, seen>>

-----------------------------------------------------------------------------
(* crew/loop.mjs: the attempts of one turn                                 *)

\* Mutant: a seat that wrote elsewhere has its return read like any other.
UnreadNever(fault) == FALSE

Unread(fault) == fault = "violation"
Routed == turn.fault \in {"provider", "violation"}
Acceptable == ret.is = "good" /\ ~Unread(turn.fault)

Again(repair, rerun, reran) ==
  /\ asked' = [asked EXCEPT !.req = Request(repair, rerun), !.reran = reran]
  /\ pc' = "open" /\ turn' = FreshTurn
  /\ seen' = [seen EXCEPT !.slept = 0]

\* One rerun of a turn that failed, one repair of a return that is refused.
Rerunnable == turn.fault # "none" /\ ~Acceptable /\ ~Routed /\ ~asked.reran
Repairable == turn.fault = "none" /\ ret.is = "flawed" /\ ~\E n \in asked.names : n.repair

\* A valid return counts, whatever its turn came to, unless the recorded
\* rows do not prove the skills it was to use.
Read ==
  /\ pc = "read"
  /\ \/ Rerunnable /\ Again(asked.req.repair, TRUE, TRUE)
     \/ Repairable /\ Again(TRUE, FALSE, asked.reran)
     \/ /\ ~Rerunnable /\ ~Repairable
        /\ pc' \in IF Acceptable THEN {"accepted", "failed"} ELSE {"failed"}
        /\ UNCHANGED <<asked, turn, seen>>
  /\ Quiet /\ UNCHANGED lane

Ended == pc \in {"accepted", "failed"} /\ UNCHANGED vars

-----------------------------------------------------------------------------
(* The processes                                                           *)

Replied == IF InSetup THEN Replies ELSE Stops

\* What a process does while nobody looks it may do when somebody does.
Move ==
  /\ Awaiting /\ Process(Replied)
  /\ UNCHANGED <<pc, lane, asked, turn, seen>>

\* The return path is written by the session's own processes, once they know it
\* and until the session is closed, and by those an earlier session left behind.
\* What counts is what is there when the path is next looked at, so that a write
\* happens here.  A file that is no envelope, nor the torn beginning of one,
\* counts as none.
WriteReturn ==
  /\ \/ /\ pc \in {"settle", "advise", "close"} /\ ~InSetup
        /\ \E is \in {"good", "flawed"} :
             ret' = [by |-> "this", is |-> is, prompt |-> IF seat.advised THEN client.seq ELSE 0]
     \/ /\ pc \in {"open", "settle", "advise", "sleep", "read"} /\ seen.left
        /\ ret' = [by |-> "left", prompt |-> 0, is |-> "good"]
  /\ Quiet /\ UNCHANGED <<pc, seat, asked, turn, touched, seen>>

Runner ==
  \/ Open \/ Start \/ Poll \/ Marker \/ Settle \/ Advise \/ EndSession
  \/ CheckRepo \/ CheckRecords \/ Refused \/ Sleep \/ Read

Next == Runner \/ Expire \/ Move \/ WriteReturn \/ Ended
Spec == Init /\ [][Next]_vars /\ WF_vars(Runner) /\ WF_vars(Expire)

-----------------------------------------------------------------------------
\* The return a turn is accepted with was written by its last session, or by
\* a process an earlier session left alive; never by one that was refused,
\* reran or repaired and is gone (lean.mjs:255).
EarnedReturn == pc = "accepted" => ret.by # "earlier"

\* A turn that ended by itself is not accepted with a return of its own that
\* its advisor blocked (seat.mjs:525-527, 545-548).  Two things spare a blocked
\* return, both passed over in silence, and the property is not about those: it,
\* or the one there at the session's start, could not be read when it was
\* hashed, or its removal failed.
BlockedGone ==
  pc = "accepted" /\ turn.fault = "none" => ret # seen.blocked \/ ret.by = "left"

\* A turn with a session whose process changed the worktree or the records it
\* may not write never has a return accepted, however often it is asked again:
\* all it wrote there is of a kind that the comparisons at the session's end
\* cannot show, which the code's own comment lists (seat.mjs:39-40).
Confined == pc = "accepted" => seen.wrote \subseteq {"unseen"}

\* A seat is given up for dead only when it left no answer (seat.mjs:586).
AnswerHeard == pc = "close" /\ turn.fault = "closed" => Heard = {}

\* A session that is opened again after a refusal was paid for: no more of them
\* than the retries, and the waits really taken stay within the bound
\* (lean.mjs:244, 253).
WaitBounded == pc = "start" => asked.req.tries <= RetryMax /\ seen.slept <= TotalWait

\* As long as anyone of a closed session's group lives, its reservation is
\* held and its directory, if nobody else took it, is there (seat.mjs:606).
EvidenceKept ==
  client.closed \in {"proven", "unproven"} /\ proc.group # {} => client.held /\ runtime # "gone"

\* Every turn of a seat comes to an end.
TurnEnds == <>(pc \in {"accepted", "failed"})
=============================================================================

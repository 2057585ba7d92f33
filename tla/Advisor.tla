------------------------------ MODULE Advisor ------------------------------
(***************************************************************************)
(* The advisor of a builder's seat: createAdvisor of                       *)
(* crew/pi/extensions/advisor.ts, as its two hosts run it (attachAdvisor   *)
(* inside pi, the seat runner for Muse).  The seat's tool calls arrive in  *)
(* parallel.  Each may queue triggers, and every trigger starts a consult: *)
(* a child process with a deadline whose reply becomes a note for the      *)
(* seat.  The call that writes the seat's return file waits for a consult  *)
(* of its own, which may refuse it.  A consult outlives its call, and the  *)
(* run it began in: when a later run of the lane rewrites the manifest the *)
(* advisor starts over and aborts what it has under way.                   *)
(***************************************************************************)
EXTENDS Naturals, Sequences, FiniteSets

CONSTANTS
  Calls,        \* tool calls a seat makes
  MaxConsults,  \* TIER1_MAX_CONSULTS
  Cadence,      \* CADENCE_CALLS
  MaxChanges,   \* times the manifest changes: bounds the model only
  MaxResults,   \* calls whose result is heard of: bounds the model only
  None

ASSUME AdvisorAssumption ==
  /\ Calls \in Nat /\ MaxConsults \in Nat /\ Cadence \in Nat \ {0}
  /\ None \notin Nat /\ None \notin [claim : Nat, grave : BOOLEAN]
  /\ None \notin {"aborted", "timeout", "stream", "spent", "unconsulted", "consulted",
                  "transport-error"}

Call == 1 .. Calls
Triggers == {"pre-return", "tier0-note", "cadence", "diff-growth"}
Consults == Call \X Triggers
ReturnKinds == {"sure", "maybe"}

VARIABLES
  manifest,  \* the epoch a reader finds in the lane's manifest, or None
  changes,   \* how often it has changed
  advisor,   \* what the advisor keeps between calls
  call,      \* each tool call, with the triggers it has queued
  consult,   \* each consult under way and its child
  ghost      \* of this generation: consults and maybes begun, findings told

vars == <<manifest, changes, advisor, call, consult, ghost>>

NoConsult == [at |-> "none", gen |-> 0, epoch |-> None, first |-> None,
              timedOut |-> FALSE, aborted |-> FALSE]
NoGhost == [begun |-> 0, maybes |-> 0, told |-> {}]

\* The seat runner wrote the manifest before it started the seat.
Init ==
  /\ manifest = 1
  /\ changes = 0
  /\ advisor = [epoch |-> None, gen |-> 0, calls |-> 0, consults |-> 0,
                spent |-> FALSE, maybe |-> None, grounded |-> FALSE,
                fired |-> FALSE, said |-> {}, heard |-> {}]
  /\ call = [i \in Call |-> [at |-> "new", kind |-> "plain", why |-> None,
                             gen |-> 0, queue |-> <<>>, over |-> FALSE]]
  /\ consult = [k \in Consults |-> NoConsult]
  /\ ghost = NoGhost

-----------------------------------------------------------------------------
(* The manifest: rewritten by the seats of a later run, gone with the lane, *)
(* unreadable for a while.                                                  *)

ManifestChanges ==
  /\ changes < MaxChanges
  /\ changes' = changes + 1
  /\ manifest' \in {changes + 2, None, advisor.epoch} \ {manifest}
  /\ UNCHANGED <<advisor, call, consult, ghost>>

-----------------------------------------------------------------------------
(* Starting over.  Each hook looks at the manifest first.                   *)

Restarting == advisor.epoch # None /\ manifest # advisor.epoch

\* Mutant: the new epoch's return counts as reviewed.
ResetButSpent(a) ==
  [a EXCEPT !.gen = @ + 1, !.consults = 0, !.maybe = None, !.grounded = FALSE,
            !.fired = FALSE, !.said = {}, !.heard = {}]

\* What a new epoch leaves: the count of calls, and nothing a consult was told.
Reset(a) ==
  [a EXCEPT !.gen = @ + 1, !.consults = 0, !.spent = FALSE, !.maybe = None,
            !.grounded = FALSE, !.fired = FALSE, !.said = {}, !.heard = {}]

Current == [(IF Restarting THEN Reset(advisor) ELSE advisor)
              EXCEPT !.epoch = manifest]

\* Every consult is aborted; one that had already failed keeps its cause.
Abort(c) ==
  IF c.at = "running"
  THEN [c EXCEPT !.at = "stopping", !.first = "aborted", !.aborted = TRUE]
  ELSE c

CurrentConsults ==
  [k \in Consults |-> IF Restarting THEN Abort(consult[k]) ELSE consult[k]]

CurrentGhost == IF Restarting THEN NoGhost ELSE ghost

CurrentCalls ==
  [i \in Call |-> IF Restarting THEN [call[i] EXCEPT !.queue = <<>>] ELSE call[i]]

-----------------------------------------------------------------------------
(* A consult is started when the manifest names a cell, the cap leaves room *)
(* and there is something to point at.                                      *)

MayConsult(a, grounded) ==
  a.epoch # None /\ a.consults < MaxConsults /\ grounded

Counted(a, n) == [a EXCEPT !.consults = @ + n]
Begun(a) == [NoConsult EXCEPT !.at = "running", !.gen = a.gen, !.epoch = a.epoch]

\* Mutant: the cap is looked at once for the whole queue.
DispatchedAtOnce(a, queue) == IF MayConsult(a, a.grounded) THEN queue ELSE <<>>

\* The consults of a call's triggers, each checked as its turn comes: once the
\* cap is reached the rest of the queue is dropped.
Dispatched(a, queue) ==
  IF MayConsult(a, a.grounded)
  THEN SubSeq(queue, 1, IF Len(queue) > MaxConsults - a.consults
                        THEN MaxConsults - a.consults ELSE Len(queue))
  ELSE <<>>

Queue(s, trigger) == IF \E n \in DOMAIN s : s[n] = trigger THEN s ELSE Append(s, trigger)

\* A predicate's own note: once per epoch, lost with its journal row.
Hits == {"none", "noted", "lost"}
Notes(a, hit) == hit = "noted" /\ ~a.fired
Fired(a, hit) == [a EXCEPT !.fired = @ \/ hit # "none"]

CallCounted(a) == [a EXCEPT !.calls = @ + 1]
CadenceDue(s, a) == IF a.calls % Cadence = 0 THEN Queue(s, "cadence") ELSE s

-----------------------------------------------------------------------------
(* A tool call.  Calls are named in the order they arrive.                  *)

Arrives(i) ==
  /\ call[i].at = "new"
  /\ \A j \in 1 .. i - 1 : call[j].at # "new"
  /\ UNCHANGED <<manifest, changes>>

Answered(i, kind, at, why, queue) ==
  [CurrentCalls EXCEPT ![i] =
     [@ EXCEPT !.at = at, !.kind = kind, !.why = why, !.queue = queue,
               !.gen = IF why = None THEN 0 ELSE Current.gen]]

PlainCall(i) ==
  /\ Arrives(i)
  /\ \E breach \in Hits :
       LET a == CallCounted(Current)
           noted == IF Notes(a, breach) THEN <<"tier0-note">> ELSE <<>>
       IN /\ advisor' = Fired(a, breach)
          /\ consult' = CurrentConsults
          /\ ghost' = CurrentGhost
          /\ call' = Answered(i, "plain", "passed", None, CadenceDue(noted, a))

\* The turn's pre-return consult has been had, or its one maybe is taken.
LetThrough(a, kind) == a.spent \/ (kind = "maybe" /\ a.maybe # None)

\* Not a call counted, and nothing is queued for it.
ReturnPasses(i, kind) ==
  /\ Arrives(i)
  /\ LetThrough(Current, kind)
  /\ advisor' = Current
  /\ consult' = CurrentConsults
  /\ ghost' = CurrentGhost
  /\ call' = Answered(i, kind, "passed", "spent", <<>>)

\* The slot is claimed before anything is awaited.
MaybeClaimed(a, i, kind) == IF kind = "maybe" THEN [a EXCEPT !.maybe = i] ELSE a

\* A call that writes the return file, or may: its consult sees the whole diff.
ReturnCall(i, kind) ==
  /\ Arrives(i)
  /\ ~LetThrough(Current, kind)
  /\ \E diff \in BOOLEAN :
       LET a == MaybeClaimed(CallCounted(Current), i, kind)
           queue == CadenceDue(<<>>, a)
       IN IF MayConsult(a, a.grounded \/ diff)
          THEN /\ advisor' = Counted(a, 1)
               /\ consult' = [CurrentConsults EXCEPT ![<<i, "pre-return">>] = Begun(a)]
               /\ ghost' = [CurrentGhost EXCEPT !.begun = @ + 1,
                              !.maybes = IF kind = "maybe" THEN @ + 1 ELSE @]
               /\ call' = Answered(i, kind, "waiting", None, queue)
          ELSE /\ advisor' = a
               /\ consult' = CurrentConsults
               /\ ghost' = CurrentGhost
               /\ call' = Answered(i, kind, "resuming", None, queue)

\* Mutant: whoever holds the slot loses it.
SlotReturnedBlindly(a, i) == [a EXCEPT !.maybe = None]

\* A return whose consult never ran goes on once its await resumes, behind every
\* call of the same tick, and gives back the slot if it still holds it.
SlotReturned(a, i) == IF a.maybe = i THEN [a EXCEPT !.maybe = None] ELSE a

Resume(i) ==
  /\ call[i].at = "resuming"
  /\ advisor' = SlotReturned(advisor, i)
  /\ call' = [call EXCEPT ![i] = [@ EXCEPT !.at = "passed", !.why = "unconsulted"]]
  /\ UNCHANGED <<manifest, changes, consult, ghost>>

\* The call is over, which the Muse host may hear before the verdict.  What it
\* changed may grow the diff, ground the next consult, or hit a predicate.
ToolResult(i) ==
  /\ call[i].at # "new"
  /\ ~call[i].over
  /\ Cardinality({j \in Call : call[j].over}) < MaxResults
  /\ \E grew, grounds \in BOOLEAN, hit \in Hits :
       LET a == [Fired(Current, hit) EXCEPT !.grounded = @ \/ grounds]
           q1 == IF grew THEN Queue(CurrentCalls[i].queue, "diff-growth")
                 ELSE CurrentCalls[i].queue
           q2 == IF Notes(Current, hit) THEN Queue(q1, "tier0-note") ELSE q1
           started == Dispatched(a, q2)
       IN /\ advisor' = Counted(a, Len(started))
          /\ consult' = [k \in Consults |->
               IF k[1] = i /\ \E n \in DOMAIN started : started[n] = k[2]
               THEN Begun(a) ELSE CurrentConsults[k]]
          /\ ghost' = [CurrentGhost EXCEPT !.begun = @ + Len(started)]
          /\ call' = [CurrentCalls EXCEPT ![i] = [@ EXCEPT !.queue = <<>>, !.over = TRUE]]
  /\ UNCHANGED <<manifest, changes>>

-----------------------------------------------------------------------------
(* The child of a consult.  A failure stops it: SIGTERM, SIGKILL after a    *)
(* grace, and the consult ends when the child has closed, or a second grace *)
(* later whatever the child does.  Nothing reads the state between the two  *)
(* graces, and they are one step.                                           *)

Fail(c, cause) == IF c.first = None THEN [c EXCEPT !.at = "stopping", !.first = cause] ELSE c

\* Mutant: a deadline that passes while the child is stopped relabels the failure.
ExpiredAlways(c) == [Fail(c, "timeout") EXCEPT !.timedOut = TRUE]

\* The deadline stays armed while the child is being stopped.
Expired(c) == [Fail(c, "timeout") EXCEPT !.timedOut = @ \/ c.first = None]

Child(k, c) ==
  /\ consult[k].at # "none"
  /\ c # consult[k]
  /\ consult' = [consult EXCEPT ![k] = c]
  /\ UNCHANGED <<manifest, changes, advisor, call, ghost>>

Timeout(k) == Child(k, Expired(consult[k]))

\* A frame that does not parse, too many bytes, a broken pipe.
StreamBreaks(k) == Child(k, Fail(consult[k], "stream"))

-----------------------------------------------------------------------------
(* The end of a consult, all of it in one turn of the event loop: what it   *)
(* cost, its rows, its finding, and the verdict a return is waiting for.    *)

\* Mutant: the manifest is not read again.
LiveByMemory(c) == c.gen = advisor.gen /\ c.epoch = advisor.epoch

\* Of the run that began it and of the one the manifest names now.
Live(c) == c.gen = advisor.gen /\ c.epoch = advisor.epoch /\ manifest = c.epoch

\* A pre-return finding of medium or high severity refuses the return.
Blocks(k, finding) == k[2] = "pre-return" /\ finding.grave

\* Mutant: what was said before is not said again, whatever it refuses.
UnsaidFirst(k, finding) == finding.claim \notin advisor.said /\ k[1] \notin advisor.heard

\* Mutant: a new claim is told though the call has heard one.
UnsaidOrAnother(k, finding) == Blocks(k, finding) \/ finding.claim \notin advisor.said

\* Said once per epoch and one per call, but for what refuses a return.
Unsaid(k, finding) ==
  \/ Blocks(k, finding)
  \/ finding.claim \notin advisor.said /\ k[1] \notin advisor.heard

Accepted(k, finding, kept) ==
  /\ Live(consult[k])
  /\ finding # None
  /\ Unsaid(k, finding)
  /\ kept

Remembered(a, k, finding) ==
  [a EXCEPT !.said = @ \union {finding.claim}, !.heard = @ \union {k[1]}]

\* Mutant: whatever may be a return spends it.
SpendsAny(k) == k[2] = "pre-return"

\* A sure return whose consult ran spends the turn's pre-return consult.
Spends(k) == k[2] = "pre-return" /\ call[k[1]].kind = "sure"

Ends(k, finding, kept) ==
  LET c == consult[k]
      i == k[1]
      accepted == Accepted(k, finding, kept)
      blocked == accepted /\ Blocks(k, finding)
      a == IF accepted THEN Remembered(advisor, k, finding) ELSE advisor
  IN /\ advisor' = [a EXCEPT !.spent = @ \/ Spends(k)]
     /\ consult' = [consult EXCEPT ![k] = NoConsult]
     /\ call' = IF k[2] = "pre-return"
                THEN [call EXCEPT ![i] =
                        [@ EXCEPT !.at = IF blocked THEN "blocked" ELSE "passed",
                                  !.why = "consulted", !.gen = advisor.gen]]
                ELSE call
     /\ ghost' = IF accepted
                 THEN [ghost EXCEPT !.told = @ \union
                         {[claim |-> finding.claim, call |-> i]}]
                 ELSE ghost
     /\ UNCHANGED <<manifest, changes>>

\* A finding claims what was claimed before or something new, and only of a
\* return does it matter how grave it is.
Claims == {note.claim : note \in ghost.told}
Findings(k) == [claim : Claims \union {Cardinality(Claims) + 1},
                grave : IF k[2] = "pre-return" THEN BOOLEAN ELSE {FALSE}]

\* The child closes well and has had its say: a finding, or none that is valid.
\* With its journal row a finding is lost.
Replies(k) ==
  /\ consult[k].at = "running"
  /\ \E finding \in Findings(k), kept \in BOOLEAN : Ends(k, finding, kept)

\* It closes without a valid finding, with an error or half a frame at its end,
\* or once it was stopped; or it could not be spawned.
Closes(k) == consult[k].at # "none" /\ Ends(k, None, TRUE)

\* Mutant: the second grace has no timer.
HardStopNever(k) == FALSE

\* A child that never closes does not hold the consult.
HardStop(k) == consult[k].at = "stopping" /\ Ends(k, None, TRUE)

-----------------------------------------------------------------------------
(* What the journal says of a consult, by what it had come to and how it    *)
(* ended: closed with 0, closed with half a frame, closed with an error or  *)
(* a signal, or never heard of again.  The rows are written at its end and  *)
(* nothing reads them back.  The spend is that of a child whose frames say  *)
(* all of it: any other is not measured.                                    *)

Endings == {"well", "torn", "badly", "unheard"}

\* Each thing that makes a spend unmeasured has a flag of its own; an abort
\* clears the ones that would count as a failure of the cell.
Thrown(c, end) == c.first # None \/ end # "well"
Failed(c, end) == Thrown(c, end) /\ ~c.aborted
Unclean(c, end) == end = "badly" /\ ~c.aborted
Measured(c, end) == ~Failed(c, end) /\ ~c.aborted /\ ~Unclean(c, end)

CellFailure(c, end) ==
  IF c.timedOut THEN "timeout"
  ELSE IF Failed(c, end) \/ Unclean(c, end) THEN "transport-error" ELSE None

-----------------------------------------------------------------------------
Next ==
  \/ ManifestChanges
  \/ \E i \in Call :
       \/ PlainCall(i)
       \/ \E kind \in ReturnKinds : ReturnPasses(i, kind) \/ ReturnCall(i, kind)
       \/ Resume(i)
       \/ ToolResult(i)
  \/ \E k \in Consults :
       Timeout(k) \/ StreamBreaks(k) \/ Replies(k) \/ Closes(k) \/ HardStop(k)

\* The runtime's event loop turns: its timers fire, and an awaited promise that
\* has settled is resumed.  Nothing is assumed of the child or the seat.
Loop ==
  \/ \E k \in Consults : Timeout(k) \/ HardStop(k)
  \/ \E i \in Call : Resume(i)

Spec == Init /\ [][Next]_vars /\ WF_vars(Loop)

-----------------------------------------------------------------------------
(* Whenever a consult ends, its finding reaches the seat only if the run it *)
(* was asked for is the one the manifest names, and is not repeated: within *)
(* a generation a claim is told once and a call hears of one finding, but   *)
(* for what refuses a return (acceptTier1NoteNow, liveGeneration).          *)
FreshAdvice ==
  \A k \in Consults : \A finding \in Findings(k) :
    consult[k].at = "running" /\ Accepted(k, finding, TRUE) =>
      /\ consult[k].epoch = manifest /\ advisor.epoch = manifest
      /\ consult[k].gen = advisor.gen
      /\ ~Blocks(k, finding) =>
           \A note \in ghost.told : note.claim # finding.claim /\ note.call # k[1]

(* A sure return goes through without a consult of its own only because     *)
(* another sure return's consult ended in the same generation: what only    *)
(* may be a return never stands for it.  And a grave finding about a return *)
(* refuses it whenever it comes from the run the manifest names, however    *)
(* often its claim was made before (returnWrite, acceptTier1NoteNow).       *)
ReturnReviewed ==
  /\ \A i \in Call :
       call[i].kind = "sure" /\ call[i].why = "spent" =>
         \E j \in Call \ {i} :
           call[j].kind = "sure" /\ call[j].why = "consulted" /\ call[j].gen = call[i].gen
  /\ \A k \in Consults : \A finding \in Findings(k) :
       (/\ consult[k].at = "running"
        /\ Blocks(k, finding)
        /\ consult[k].gen = advisor.gen
        /\ advisor.epoch = manifest)
       => Accepted(k, finding, TRUE)

(* However a consult ends, its spend is priced exactly when the child has   *)
(* closed by itself and well; and a failure of the cell goes on the journal *)
(* under the cause that came first, never for a consult the advisor itself  *)
(* called off (advisor.ts:1339, 1397, advisor.test.mjs:272).                 *)
PricedClean ==
  \A k \in Consults : \A end \in Endings :
    LET c == consult[k]
        clean == c.first = None /\ end = "well"
    IN c.at # "none" =>
         /\ Measured(c, end) <=> clean
         /\ (CellFailure(c, end) = "timeout") <=> (c.first = "timeout")
         /\ (CellFailure(c, end) = None) <=> (clean \/ c.first = "aborted")

(* Within a generation the consults stay under the cap whatever calls run   *)
(* at once, and at most one return that only may be one is consulted on, so *)
(* that maybes never use up what a sure return needs (returnWrite).         *)
ConsultBound == ghost.begun <= MaxConsults /\ ghost.maybes <= 1

(* Every consult comes to an end and every return is answered, though the   *)
(* child never closes and whatever fails: a consult never leaves the seat   *)
(* unable to return (runConsult's timers, preReturnVerdict).                *)
Settles ==
  <>[](/\ \A k \in Consults : consult[k].at = "none"
      /\ \A i \in Call : call[i].at \notin {"waiting", "resuming"})
=============================================================================

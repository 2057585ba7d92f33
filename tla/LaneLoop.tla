------------------------------ MODULE LaneLoop ------------------------------
(***************************************************************************)
(* One lane of crew/loop.mjs: runLoop takes a brief's worktree through     *)
(* plan, build, proof, suite, reviews, commit and rebase to a pull request *)
(* (shape "standard") or to a finish report (shape "finish").              *)
(*                                                                         *)
(* A worktree, an index and a commit are each one Tree: the change they    *)
(* hold relative to the base branch, BaseTree for none.  Seats are the     *)
(* agents the loop asks for a turn; what they write is arbitrary and only  *)
(* the shape of their answers is constrained.  A test suite may write in   *)
(* the checkout it runs in.  The origin may move its base branch at any    *)
(* fetch.                                                                  *)
(***************************************************************************)
EXTENDS Integers

CONSTANTS
  Tree,           \* the changes a checkout can hold
  BaseTree,       \* no change: what the base branch holds
  Protected,      \* the changes that touch a protected path
  None,           \* no tree: an evidence nothing has given yet
  DefaultRounds,  \* DEFAULT_ROUNDS: turns of a seat the roster does not bound
  MaxRechecks,    \* MAX_RECHECKS: how often a moved base repeats the checks
  FinishReviews,  \* FINISH_REVIEW_ROUNDS: reviews of one finish, all passes
  LeadTiers,      \* the tiers whose roster seats a lead
  Lanes           \* the runs to start: see LaneStart

Role == {"planner", "builder", "reviewer", "tech-lead", "lead"}
Tiers == {"mechanical", "build", "judge"}
Shapes == {"standard", "finish"}

\* What a run is started with: its brief, or the stop or the ready commit it
\* finishes.  Prior counts the reviews earlier passes of the same finish spent,
\* built is what the checkout holds, ready what the lane's own commits beneath
\* it hold: a return on a ready lane starts on its commit.
LaneStart == [shape : Shapes, tier : Tiers, planned : BOOLEAN,
              prior : 0..FinishReviews, built : Tree, ready : Tree]

ASSUME TreeAssumption ==
  /\ BaseTree \in Tree
  /\ Protected \subseteq Tree \ {BaseTree}
  /\ None \notin Tree

ASSUME BoundAssumption ==
  /\ DefaultRounds \in Nat \ {0}
  /\ MaxRechecks \in Nat
  /\ FinishReviews \in Nat \ {0}

ASSUME LaneAssumption ==
  /\ LeadTiers \subseteq Tiers
  /\ Lanes \subseteq LaneStart
  /\ \A l \in Lanes :
        l.shape = "standard" =>
          l.built = BaseTree /\ l.ready = BaseTree /\ l.prior = 0 /\ ~l.planned

VARIABLES
  pc,        \* the statement of runLoop the lane has reached
  lane,      \* shape, tier, planPath set, testsRequired, priorReviewRounds
  frame,     \* the seatTurn on top of the stack, and what it is nested in
  rounds,    \* turns each seat has spent
  bound,     \* turns each seat may spend
  phase,     \* 0 build, 1 review, 2 recheck
  failed,    \* kinds of failures recorded in the no-progress ledger
  git,       \* trees of the checkout, and the one staged for the checks
  pass,      \* what the current pass over the checks has established
  run,       \* allowances the whole run may spend once
  evidence,  \* the trees the proof, suite and reviews last passed on
  suite,     \* the suite process
  result     \* what runLoop has decided

vars == <<pc, lane, frame, rounds, bound, phase, failed, git, pass, run,
          evidence, suite, result>>

budget == <<rounds, bound, phase, failed>>

Finish == lane.shape = "finish"
Mechanical == ~Finish /\ lane.tier = "mechanical"

MaxOf(a, b) == IF a >= b THEN a ELSE b

-----------------------------------------------------------------------------
(* Seat turns.                                                             *)

Sites == {"plan", "build", "conflict", "review", "second"}

SiteRole == [plan |-> "planner", build |-> "builder", conflict |-> "builder",
             review |-> "reviewer", second |-> "tech-lead"]

\* The seat whose turn a seatTurn call is for, and the seat asked right now:
\* a held turn is put to the lead.
FrameRole == IF frame.nested # "none" THEN "planner" ELSE SiteRole[frame.site]
Seat == IF frame.consulting THEN "lead" ELSE FrameRole

\* A conflict turn gives whatever it was held for back to its caller.
Hold == frame.site = "conflict"

NewFrame(site, free, single) ==
  [site |-> site, nested |-> "none", consulting |-> FALSE,
   free |-> free, single |-> single, held |-> "none"]

\* The seat S gets one more turn, beyond its bound only when that is spent.
OneMore(b, S) ==
  [r \in Role |-> IF r \in S THEN MaxOf(b[r], rounds[r] + 1) ELSE b[r]]

\* A later phase opens with a fresh lead bound.
EnterPhase(n) ==
  /\ phase' = MaxOf(phase, n)
  /\ rounds' = IF n > phase THEN [rounds EXCEPT !["lead"] = 0] ELSE rounds

\* Mutant: Promise.all instead of allSettled, the first stop ends the run.
HaltAtOnce(why) ==
  /\ result' = [status |-> "stopped", reason |-> why]
  /\ pc' = "end"

\* The run stops.  A suite the review was paired with is waited for.
Halt(why) ==
  /\ result' = [status |-> "stopped", reason |-> why]
  /\ pc' = IF suite = "running" THEN "join" ELSE "end"

Raised(to) ==
  IF to = "judge" \/ lane.tier = "mechanical" THEN to ELSE lane.tier

\* A green suite is for the tree staged or committed before it, and it ran from
\* what the checkout held when it began.
NoEvidence == [proved |-> FALSE, suited |-> None, ran |-> None,
               reviewed |-> None, seconded |-> None]

Init ==
  /\ \E l \in Lanes :
       /\ lane = [shape |-> l.shape, tier |-> l.tier, planned |-> l.planned,
                  needTests |-> l.shape = "finish" \/ l.tier # "mechanical",
                  prior |-> l.prior]
       /\ git = [work |-> l.built, index |-> l.ready, head |-> l.ready,
                 ready |-> l.ready, checked |-> None, before |-> None]
  /\ pc = "start"
  /\ frame = NewFrame("plan", FALSE, FALSE)
  /\ rounds = [r \in Role |-> 0]
  /\ bound = [r \in Role |-> DefaultRounds]
  /\ phase = 0
  /\ failed = {}
  /\ pass = [named |-> FALSE, repairing |-> FALSE, recheck |-> FALSE,
             rebaseOnly |-> FALSE, verdict |-> "none"]
  /\ run = [reserve |-> "unspent", repaired |-> FALSE, rechecks |-> 0,
            conflictTurn |-> TRUE, based |-> FALSE, wip |-> FALSE]
  /\ evidence = NoEvidence
  /\ suite = "idle"
  /\ result = [status |-> "running", reason |-> "none"]

\* Standard lanes above mechanical start with their planner.
Begin ==
  /\ pc = "start"
  /\ ~Finish
  /\ pc' = IF lane.tier = "mechanical" THEN "fetch" ELSE "ask"
  /\ UNCHANGED <<lane, frame, budget, git, pass, run, evidence, suite, result>>

\* A finish has the reviews its earlier passes left.  A plan whose scope names
\* protected paths raises it.
BeginFinish ==
  /\ pc = "start"
  /\ Finish
  /\ bound' = [bound EXCEPT !["reviewer"] = FinishReviews - lane.prior]
  /\ \/ UNCHANGED lane
     \/ lane.planned /\ lane' = [lane EXCEPT !.tier = "judge"]
  /\ pc' = "snapshot"
  /\ UNCHANGED <<frame, rounds, phase, failed, git, pass, run, evidence, suite,
                 result>>

\* No task directory, or protected scope and no usable judge roster.
BeginFails ==
  /\ pc = "start"
  /\ Halt("runner-threw") \/ (Finish /\ lane.planned /\ Halt("seat-unmeasured"))
  /\ UNCHANGED <<lane, frame, budget, git, pass, run, evidence, suite>>

\* Mutant: a lead consult that is asked again is not counted.
SpendButLead ==
  /\ pc = "ask"
  /\ frame.free \/ rounds[Seat] < bound[Seat]
  /\ rounds' = IF frame.free \/ frame.consulting
               THEN rounds ELSE [rounds EXCEPT ![Seat] = @ + 1]

\* One turn is spent: a free one spends no round.
Spend ==
  /\ pc = "ask"
  /\ frame.free \/ rounds[Seat] < bound[Seat]
  /\ rounds' = IF frame.free THEN rounds ELSE [rounds EXCEPT ![Seat] = @ + 1]

\* Only the builder writes the repository, whatever its turn comes to; what it
\* stages is staged again before anything looks at the index.  The evidence
\* there was is about the tree it replaced.
SeatWrites ==
  IF Seat = "builder"
  THEN /\ \E t \in Tree : git' = [git EXCEPT !.work = t, !.index = t]
       /\ evidence' = NoEvidence
  ELSE UNCHANGED <<git, evidence>>

\* A seat's return is unreadable, its envelope refused, its runner failed.
SeatRefused ==
  /\ Spend
  /\ SeatWrites
  /\ IF Hold
     THEN pc' = "undo" /\ UNCHANGED result
     ELSE Halt(IF frame.consulting THEN "lead-refused" ELSE "seat-refused")
  /\ UNCHANGED <<lane, frame, bound, phase, failed, pass, run, suite>>

SeatDone ==
  /\ Spend
  /\ ~frame.consulting
  /\ SeatWrites
  /\ pc' = "returned"
  /\ frame' = [frame EXCEPT !.free = FALSE, !.held = "none"]
  /\ UNCHANGED <<lane, bound, phase, failed, pass, run, suite, result>>

\* A valid envelope that is not done: insufficient, or an escalation with or
\* without the question it has to name.
SeatHeld ==
  /\ Spend
  /\ ~frame.consulting
  /\ SeatWrites
  /\ \E kind \in {"insufficient", "question", "questionless"} :
       frame' = [frame EXCEPT !.free = FALSE, !.held = kind]
  /\ pc' = IF Hold THEN "undo" ELSE "held"
  /\ UNCHANGED <<lane, bound, phase, failed, pass, run, suite, result>>

\* The seat has no turn left: held, or, for the lead itself, the operator's.
SeatSpent ==
  /\ pc = "ask"
  /\ ~frame.free
  /\ rounds[Seat] >= bound[Seat]
  /\ IF frame.consulting
     THEN Halt("lead-escalated") /\ UNCHANGED frame
     ELSE /\ frame' = [frame EXCEPT !.held = "round-bound"]
          /\ pc' = "held"
          /\ UNCHANGED result
  /\ UNCHANGED <<lane, budget, git, pass, run, evidence, suite>>

-----------------------------------------------------------------------------
(* A held turn: routed in the order of seatTurn's tests.                   *)

\* A repair turn and a finish review are asked once.  Only a mechanical
\* builder's own return is still routed.
Single ==
  /\ frame.nested = "none"
  /\ frame.single
  /\ ~(FrameRole = "builder" /\ Mechanical /\ frame.held # "round-bound")

\* The same refusal with the same evidence was recorded before.
HeldRepeats == frame.held # "round-bound" /\ "seat" \in failed

Recorded == IF frame.held = "round-bound" THEN failed ELSE failed \union {"seat"}

HeldSingle ==
  /\ pc = "held"
  /\ Single
  /\ Halt(IF frame.held = "question" THEN "seat-escalated" ELSE "round-bound")
  /\ UNCHANGED <<lane, frame, budget, git, pass, run, evidence, suite>>

HeldNoProgress ==
  /\ pc = "held"
  /\ ~Single
  /\ HeldRepeats
  /\ Halt("no-progress")
  /\ UNCHANGED <<lane, frame, budget, git, pass, run, evidence, suite>>

HeldQuestionless ==
  /\ pc = "held"
  /\ ~Single
  /\ frame.held = "questionless"
  /\ failed' = Recorded
  /\ pc' = "ask"
  /\ UNCHANGED <<lane, frame, rounds, bound, phase, git, pass, run, evidence,
                 suite, result>>

\* Discards the build, raises the lane and has it planned; then the frame
\* continues, or (rejudge) the loop does.
Restart(to, nested) ==
  /\ git' = [git EXCEPT !.work = BaseTree, !.index = BaseTree]
  /\ lane' = [lane EXCEPT !.tier = Raised(to)]
  /\ rounds' = [rounds EXCEPT !["builder"] = 0]
  /\ run' = [run EXCEPT !.repaired = FALSE]
  /\ evidence' = NoEvidence
  /\ frame' = [NewFrame("build", FALSE, FALSE) EXCEPT !.nested = nested]
  /\ pc' = "ask"

\* git refused the discard, or the raised roster is unusable.
RestartFails ==
  /\ git' \in {git, [git EXCEPT !.work = BaseTree, !.index = BaseTree]}
  /\ \E why \in {"discard-failed", "seat-unmeasured"} : Halt(why)

HeldInsufficient ==
  /\ pc = "held"
  /\ ~Single
  /\ Mechanical /\ FrameRole = "builder" /\ frame.held = "insufficient"
  /\ failed' = Recorded
  /\ \/ Restart("build", "restart") /\ UNCHANGED result
     \/ RestartFails /\ UNCHANGED <<lane, frame, rounds, run, evidence>>
  /\ UNCHANGED <<bound, phase, pass, suite>>

HeldConsults ==
  /\ pc = "held"
  /\ ~Single
  /\ frame.held # "questionless"
  /\ ~(Mechanical /\ FrameRole = "builder" /\ frame.held = "insufficient")
  /\ failed' = Recorded
  /\ IF lane.tier \in LeadTiers
     THEN /\ frame' = [frame EXCEPT !.consulting = TRUE]
          /\ pc' = "ask"
          /\ UNCHANGED result
     ELSE Halt("lead-unavailable") /\ UNCHANGED frame
  /\ UNCHANGED <<lane, rounds, bound, phase, git, pass, run, evidence, suite>>

-----------------------------------------------------------------------------
(* The lead's decision on a held turn.                                     *)

\* An answer that is not done, or escalates without a question, is recorded
\* like any seat's: a repeat stops the lane, a missing question is asked for.
LeadReturns ==
  /\ Spend
  /\ frame.consulting
  /\ \/ pc' = "decide" /\ UNCHANGED <<failed, result>>
     \/ /\ "seat" \in failed
        /\ Halt("no-progress")
        /\ UNCHANGED failed
     \/ /\ failed' = failed \union {"seat"}
        /\ pc' \in {"ask", "decide"}
        /\ UNCHANGED result
  /\ UNCHANGED <<lane, frame, bound, phase, git, pass, run, evidence, suite>>

LeadEscalates ==
  /\ pc = "decide"
  /\ Halt("lead-escalated")
  /\ UNCHANGED <<lane, frame, budget, git, pass, run, evidence, suite>>

\* The lead may not accept a builder that found the plan insufficient.
MustRoute ==
  /\ ~Finish /\ lane.tier # "mechanical"
  /\ FrameRole = "builder"
  /\ frame.held = "insufficient"

\* Asked again: nothing was routed, or a finish has no planner to route to.
LeadAskedAgain ==
  /\ pc = "decide"
  /\ MustRoute \/ (Finish /\ FrameRole = "builder")
  /\ pc' = "ask"
  /\ UNCHANGED <<lane, frame, budget, git, pass, run, evidence, suite, result>>

LeadAccepts ==
  /\ pc = "decide"
  /\ frame.held # "round-bound"
  /\ ~MustRoute
  /\ pc' = "returned"
  /\ frame' = [frame EXCEPT !.consulting = FALSE, !.held = "none"]
  /\ UNCHANGED <<lane, budget, git, pass, run, evidence, suite, result>>

\* The turns a bounce gives: a rebuilt change is reviewed again.
Bounced(role, tier) ==
  {role} \union
  (IF role = "builder" /\ ~Finish
   THEN {"reviewer"} \union (IF tier = "judge" THEN {"tech-lead"} ELSE {})
   ELSE {})

\* Back to the seat; also what the acceptance of no envelope comes to.
LeadBounces ==
  /\ pc = "decide"
  /\ bound' = OneMore(bound, Bounced(FrameRole, lane.tier))
  /\ frame' = [frame EXCEPT !.consulting = FALSE, !.held = "none"]
  /\ pc' = "ask"
  /\ UNCHANGED <<lane, rounds, phase, failed, git, pass, run, evidence, suite,
                 result>>

\* A gap in the plan: one more planner turn inside the builder's frame, or the
\* restart of a mechanical lane whose roster seats a lead.
LeadBouncesPlanner ==
  /\ pc = "decide"
  /\ ~Finish
  /\ FrameRole = "builder"
  /\ \/ /\ lane.tier # "mechanical"
        /\ bound' = OneMore(bound, {"planner"})
        /\ frame' = [frame EXCEPT !.nested = "replan", !.consulting = FALSE,
                                  !.held = "none"]
        /\ pc' = "ask"
        /\ UNCHANGED <<lane, rounds, git, run, evidence, result>>
     \/ /\ lane.tier = "mechanical"
        /\ \/ Restart("build", "replan") /\ UNCHANGED result
           \/ RestartFails /\ UNCHANGED <<lane, frame, rounds, run, evidence>>
        /\ UNCHANGED bound
  /\ UNCHANGED <<phase, failed, pass, suite>>

-----------------------------------------------------------------------------
(* What the loop does with a turn it accepts.                              *)

\* acceptPlan, and the frame or the loop that asked for the plan goes on.
PlanReturned ==
  /\ pc = "returned"
  /\ FrameRole = "planner"
  /\ \E needTests \in BOOLEAN, tier \in {lane.tier, "judge"} :
       /\ lane' = [lane EXCEPT !.planned = TRUE, !.needTests = needTests,
                               !.tier = tier]
       /\ bound' = CASE frame.nested = "replan" ->
                          OneMore(bound, Bounced("builder", tier))
                     [] frame.nested = "restart" -> OneMore(bound, {"builder"})
                     [] OTHER -> bound
  /\ frame' = [frame EXCEPT !.nested = "none"]
  /\ pc' = CASE frame.nested = "none" -> "fetch"
             [] frame.nested = "rejudge" -> "build"
             [] OTHER -> "ask"
  /\ UNCHANGED <<rounds, phase, failed, git, pass, run, evidence, suite, result>>

\* The plan asks for a raise to a roster that cannot be resolved.
PlanRaiseFails ==
  /\ pc = "returned"
  /\ FrameRole = "planner"
  /\ lane.tier # "judge"
  /\ Halt("seat-unmeasured")
  /\ UNCHANGED <<lane, frame, budget, git, pass, run, evidence, suite>>

\* A standard lane starts on a fresh base.
FetchBase ==
  /\ pc = "fetch"
  /\ \/ /\ run' = [run EXCEPT !.based = TRUE]
        /\ pc' = "build"
        /\ UNCHANGED result
     \/ Halt("rebase-failed") /\ UNCHANGED run
  /\ UNCHANGED <<lane, frame, budget, git, pass, evidence, suite>>

\* The top of the loop: the builder, unless a moved base asks for the checks
\* alone.  The tree staged last is never read again, and only a recheck reads
\* the tests named last.
Build ==
  /\ pc = "build"
  /\ git' = [git EXCEPT !.checked = None]
  /\ pass' = [pass EXCEPT !.recheck = FALSE,
                          !.rebaseOnly = pass.recheck /\ ~Finish,
                          !.named = pass.named /\ pass.recheck]
  /\ IF pass.recheck
     THEN pc' = "proof" /\ UNCHANGED frame
     ELSE /\ frame' = NewFrame("build", FALSE,
                               pass.repairing /\ (Finish \/ Mechanical))
          /\ pc' = "ask"
  /\ UNCHANGED <<lane, budget, run, evidence, suite, result>>

AtSite(site) == pc = "returned" /\ frame.nested = "none" /\ frame.site = site

\* Every return names its own tests.
Built ==
  /\ AtSite("build")
  /\ \E named \in BOOLEAN :
       /\ named \/ Finish \/ ~lane.needTests
       /\ pass' = [pass EXCEPT !.repairing = FALSE, !.named = named]
  /\ pc' = "proof"
  /\ UNCHANGED <<lane, frame, budget, git, run, evidence, suite, result>>

\* A plan that wants tests is built without any: once is sent back.
BuiltNoTests ==
  /\ AtSite("build")
  /\ ~Finish /\ lane.needTests
  /\ pass' = [pass EXCEPT !.repairing = FALSE, !.named = FALSE]
  /\ IF "no-tests" \in failed
     THEN Halt("no-progress") /\ UNCHANGED failed
     ELSE /\ failed' = failed \union {"no-tests"}
          /\ pc' = "build"
          /\ UNCHANGED result
  /\ UNCHANGED <<lane, frame, rounds, bound, phase, git, run, evidence, suite>>

\* What a run of the tests may leave in the checkout, staged or not.
Residue == \E t \in Tree : \E i \in {git.index, t} :
             git' = [git EXCEPT !.work = t, !.index = i]

ProofSkipped ==
  /\ pc = "proof"
  /\ ~pass.named
  /\ pc' = "paths"
  /\ UNCHANGED <<lane, frame, budget, git, pass, run, evidence, suite, result>>

\* Red is the builder's, unless the same rows were red before; anything that is
\* neither green nor red stops.  What the tests write is staged with the change.
Proof ==
  /\ pc = "proof"
  /\ pass.named
  /\ \E t \in Tree : git' = [git EXCEPT !.work = t, !.index = t]
  /\ \/ /\ evidence' = [evidence EXCEPT !.proved = TRUE]
        /\ pc' = "paths"
        /\ UNCHANGED <<failed, result>>
     \/ /\ failed' = failed \union {"unproven"}
        /\ pc' = "build"
        /\ UNCHANGED <<evidence, result>>
     \/ /\ Halt(IF "unproven" \in failed THEN "no-progress" ELSE "proof-unmeasured")
        /\ UNCHANGED <<failed, evidence>>
     \/ Halt("proof-unmeasured") /\ UNCHANGED <<failed, evidence>>
  /\ UNCHANGED <<lane, frame, rounds, bound, phase, pass, run, suite>>

\* Whether the measured diff, from HEAD, touches a protected path: two changes
\* that do may differ there or elsewhere.
MayTouch(work, head) ==
  IF {work, head} \subseteq Protected /\ work # head
  THEN BOOLEAN
  ELSE {(work \in Protected) # (head \in Protected)}

\* Mutant: a recheck trusts the paths measured before the rebase.
TouchesAtFirst ==
  IF pass.rebaseOnly THEN {FALSE} ELSE MayTouch(git.work, git.head)

Touches == MayTouch(git.work, git.head)

\* stageChecked: what the checks look at is what the commit will hold.
Stage == git' = [git EXCEPT !.index = git.work, !.checked = git.work]

\* Mutant: a finish review held at its bound goes to the lead like any other.
AskReviewRouted ==
  /\ EnterPhase(1)
  /\ frame' = NewFrame("review", pass.rebaseOnly,
                       ~pass.rebaseOnly /\ run.reserve = "pending")
  /\ pc' = "ask"

\* A finish review and the reserve review are asked once.
AskReview ==
  /\ EnterPhase(1)
  /\ frame' = NewFrame("review", pass.rebaseOnly,
                       Finish \/ (~pass.rebaseOnly /\ run.reserve = "pending"))
  /\ pc' = "ask"

\* The changed paths are measured, a protected one raises the lane, the change
\* is staged and goes to its checks: suite and review at once on a build lane.
ChangedPaths ==
  /\ pc = "paths"
  /\ ~Mechanical
  /\ \E touched \in Touches :
       /\ touched /\ Finish /\ lane.tier # "judge" => lane.planned
       /\ lane' = IF touched THEN [lane EXCEPT !.tier = "judge"] ELSE lane
  /\ Stage
  /\ \/ Finish /\ AskReview /\ UNCHANGED suite
     \/ ~Finish /\ lane'.tier = "build" /\ AskReview /\ suite' = "running"
     \/ /\ ~Finish /\ lane'.tier = "judge"
        /\ pc' = "suite"
        /\ UNCHANGED <<frame, rounds, phase, suite>>
  /\ UNCHANGED <<bound, failed, pass, run, evidence, result>>

MechanicalPaths ==
  /\ pc = "paths"
  /\ Mechanical
  /\ FALSE \in Touches
  /\ Stage
  /\ pc' = "suite"
  /\ UNCHANGED <<lane, frame, budget, pass, run, evidence, suite, result>>

\* A mechanical build is never reviewed: protected work starts over as judge.
MechanicalProtected ==
  /\ pc = "paths"
  /\ Mechanical
  /\ TRUE \in Touches
  /\ \/ Restart("judge", "rejudge") /\ UNCHANGED result
     \/ RestartFails /\ UNCHANGED <<lane, frame, rounds, run, evidence>>
  /\ UNCHANGED <<bound, phase, failed, pass, suite>>

\* A path list or a tree that cannot be read, a raise that fails.
PathsFail ==
  /\ pc = "paths"
  /\ \/ Halt("paths-unmeasured")
     \/ /\ TRUE \in Touches
        /\ lane.tier # "judge"
        /\ Halt(IF Finish /\ ~lane.planned THEN "raise-needs-plan" ELSE "seat-unmeasured")
  /\ UNCHANGED <<lane, frame, budget, git, pass, run, evidence, suite>>

-----------------------------------------------------------------------------
(* Suite and reviews.                                                      *)

Suited(for, ran) == [evidence EXCEPT !.suited = for, !.ran = ran]

\* The suite a build lane started beside its review ends.
SuiteEnds ==
  /\ suite = "running"
  /\ suite' \in {"green", "red", "broken"}
  /\ Residue
  /\ evidence' = IF suite' = "green" THEN Suited(git.checked, git.checked)
                                     ELSE Suited(None, None)
  /\ UNCHANGED <<pc, lane, frame, budget, pass, run, result>>

\* One run of the suite, for the given tree, with nothing beside it.
RunSuite(for) ==
  /\ Residue
  /\ evidence' \in {Suited(for, git.work), Suited(None, None)}

SuiteGreen == evidence'.suited # None

\* A judge lane reviews only what its suite passed.
JudgeSuite ==
  /\ pc = "suite"
  /\ ~Finish /\ lane.tier = "judge"
  /\ RunSuite(git.checked)
  /\ IF SuiteGreen
     THEN AskReview /\ suite' = "green"
     ELSE /\ suite' \in {"red", "broken"}
          /\ pc' = "join"
          /\ UNCHANGED <<frame, rounds, phase>>
  /\ UNCHANGED <<lane, bound, failed, pass, run, result>>

\* The one repair turn of a mechanical or a finish suite.
Repair ==
  /\ ~run.repaired
  /\ bound' = IF Finish THEN [bound EXCEPT !["builder"] = @ + 1]
                        ELSE OneMore(bound, {"builder"})
  /\ pass' = [pass EXCEPT !.repairing = TRUE]
  /\ run' = [run EXCEPT !.repaired = TRUE]
  /\ pc' = "build"
  /\ UNCHANGED result

NoRepair == UNCHANGED <<bound, pass, run>>

\* The first red of a mechanical lane is the builder's, of a finish is rerun.
LastSuite ==
  /\ pc = "suite"
  /\ Finish \/ Mechanical
  /\ RunSuite(git.checked)
  /\ IF SuiteGreen
     THEN pc' = "precommit" /\ NoRepair /\ UNCHANGED result
     ELSE \/ Finish /\ pc' = "rerun" /\ NoRepair /\ UNCHANGED result
          \/ Mechanical /\ Repair
          \/ Mechanical /\ run.repaired /\ Halt("suite-red") /\ NoRepair
          \/ Halt("suite-unmeasured") /\ NoRepair
  /\ UNCHANGED <<lane, frame, rounds, phase, failed, suite>>

\* The rerun starts on what the red run left of the staged tree.
Rerun ==
  /\ pc = "rerun"
  /\ Residue
  /\ \/ /\ evidence' = Suited(git.checked, git.work)
        /\ pc' = "precommit"
        /\ NoRepair
        /\ UNCHANGED result
     \/ Repair /\ UNCHANGED evidence
     \/ Halt(IF run.repaired THEN "suite-red" ELSE "suite-unmeasured")
        /\ NoRepair /\ UNCHANGED evidence
  /\ UNCHANGED <<lane, frame, rounds, phase, failed, suite>>

\* A reviewer's verdict on the staged tree.
Reviewed ==
  /\ AtSite("review")
  /\ \E verdict \in {"pass", "changes"} :
       /\ \/ verdict = "pass"
             /\ evidence' = [evidence EXCEPT !.reviewed = git.checked]
          \/ verdict = "changes"
             /\ evidence' = [evidence EXCEPT !.reviewed = None]
       /\ \/ /\ Finish
             /\ pc' = IF verdict = "pass" THEN "suite" ELSE "build"
             /\ UNCHANGED pass
          \/ /\ ~Finish
             /\ pc' = "join"
             /\ pass' = [pass EXCEPT !.verdict = verdict]
  /\ UNCHANGED <<lane, frame, budget, git, run, suite, result>>

\* The last review of the bound asks for changes: one reserve review is left,
\* whose own verdict is final.
ReserveOpens == /\ ~pass.rebaseOnly
                /\ run.reserve = "unspent"
                /\ pass.verdict = "changes"
                /\ rounds["reviewer"] >= bound["reviewer"]
ReserveSpent == /\ ~pass.rebaseOnly
                /\ run.reserve = "pending"
                /\ pass.verdict # "none"

Joined == pc = "join" /\ suite # "running"

\* Both are in.  A review that stopped the lane, a suite without a result or
\* changes asked for by the reserve review end it.
JoinStops ==
  /\ Joined
  /\ \/ result.status = "stopped" /\ UNCHANGED result
     \/ /\ result.status = "running"
        /\ suite = "broken"
        /\ result' = [status |-> "stopped", reason |-> "suite-unmeasured"]
     \/ /\ result.status = "running"
        /\ suite # "broken" /\ ReserveSpent /\ pass.verdict = "changes"
        /\ result' = [status |-> "stopped", reason |-> "round-bound"]
  /\ suite' = "idle"
  /\ pc' = "end"
  /\ UNCHANGED <<lane, frame, budget, git, pass, run, evidence>>

\* Both are in, and the lane goes on: red to the builder, green to the second
\* review of a judge lane or to the commit.
Join ==
  /\ Joined
  /\ result.status = "running"
  /\ suite \in {"green", "red"}
  /\ ~(ReserveSpent /\ pass.verdict = "changes")
  /\ \/ /\ ReserveOpens
        /\ run' = [run EXCEPT !.reserve = "pending"]
        /\ bound' = [bound EXCEPT !["reviewer"] = @ + 1]
     \/ /\ ReserveSpent
        /\ run' = [run EXCEPT !.reserve = "spent"]
        /\ UNCHANGED bound
     \/ ~ReserveOpens /\ ~ReserveSpent /\ UNCHANGED <<run, bound>>
  /\ pass' = [pass EXCEPT !.verdict = "none", !.repairing = suite = "red"]
  /\ IF suite = "red" \/ pass.verdict = "changes"
     THEN pc' = "build" /\ UNCHANGED frame
     ELSE IF lane.tier = "judge"
     THEN pc' = "ask" /\ frame' = NewFrame("second", pass.rebaseOnly, FALSE)
     ELSE pc' = "precommit" /\ UNCHANGED frame
  /\ suite' = "idle"
  /\ UNCHANGED <<lane, rounds, phase, failed, git, evidence, result>>

\* The tech-lead's verdict on the tree the reviewer passed.
Seconded ==
  /\ AtSite("second")
  /\ \/ /\ evidence' = [evidence EXCEPT !.seconded = git.checked]
        /\ pc' = "precommit"
     \/ /\ evidence' = [evidence EXCEPT !.seconded = None]
        /\ pc' = "build"
  /\ UNCHANGED <<lane, frame, budget, git, pass, run, suite, result>>

-----------------------------------------------------------------------------
(* Commit, rebase, publish.                                                *)

\* Mutant: only the unstaged changes are looked for, not the staged tree.
DirtyStatus == git.work # git.index

\* The checkout differs from what was staged for the checks.
Dirty == git.work # git.index \/ git.index # git.checked

CommitStops ==
  /\ pc = "precommit"
  /\ \/ Dirty /\ Halt("dirty-worktree")
     \/ ~Dirty /\ git.work = git.head /\ Halt("nothing-to-commit")
     \/ Halt("commit-failed")
  /\ UNCHANGED <<lane, frame, budget, git, pass, run, evidence, suite>>

Commit ==
  /\ pc = "precommit"
  /\ ~Dirty
  /\ git.work # git.head
  /\ git' = [git EXCEPT !.head = git.work]
  /\ pc' = "rebase"
  /\ UNCHANGED <<lane, frame, budget, pass, run, evidence, suite, result>>

\* The checkout, its index and HEAD all hold t.
CheckedOut(t) == [git EXCEPT !.work = t, !.index = t, !.head = t]

\* The change t is put back, uncommitted, on the tip of the base.
Uncommitted(t) ==
  [git EXCEPT !.work = t, !.index = t, !.head = BaseTree, !.ready = BaseTree]

\* A finish snapshots what the stopped lane left, to rebase it; a checkout that
\* holds a ready commit and nothing else is rebased as it is.
Snapshot ==
  /\ pc = "snapshot"
  /\ \/ /\ IF git.work = git.head
           THEN UNCHANGED <<git, run>>
           ELSE /\ git' = CheckedOut(git.work)
                /\ run' = [run EXCEPT !.wip = TRUE]
        /\ pc' = "rebase"
        /\ UNCHANGED result
     \/ /\ \E why \in {"paths-unmeasured", "rebase-failed", "commit-failed"} :
             Halt(why)
        /\ UNCHANGED <<git, run>>
  /\ UNCHANGED <<lane, frame, budget, pass, evidence, suite>>

\* Mutant: the finish snapshot stays committed.
RebaseStopAsIs(g, why) == git' = g /\ Halt(why)

\* The stop of a rebase; a finish base first takes its snapshot back off, down
\* to the commit it was made on, unless the checkout is not proven clean.
RebaseStop(g, why) ==
  IF ~run.based /\ run.wip /\ why # "cleanup-unproven"
  THEN \/ git' = [g EXCEPT !.head = g.ready] /\ Halt(why)
       \/ git' = g /\ Halt("restore-failed")
  ELSE git' = g /\ Halt(why)

\* Mutants: one recheck too many; a finish of a mechanical lane rechecks as
\* little as the lane did.
RecheckOnceMore == run.rechecks <= MaxRechecks
RepeatsByTier == lane.tier # "mechanical"

RecheckLeft == run.rechecks < MaxRechecks
RepeatsChecks == Finish \/ lane.tier # "mechanical"

\* HEAD holds t on the base's tip now: dropped, a finish base (a snapshot taken
\* off again, or the ready commit), or a commit the checks have not seen on this
\* base.  Several commits may come to no change without being dropped.
Moved(t) ==
  \/ /\ t = BaseTree
     /\ git' = CheckedOut(t)
     /\ Halt("nothing-to-commit")
     /\ UNCHANGED <<rounds, phase, pass, run, evidence>>
  \/ /\ t # BaseTree \/ git.ready # BaseTree
     /\ ~run.based
     /\ git' = IF run.wip THEN Uncommitted(t) ELSE [CheckedOut(t) EXCEPT !.ready = t]
     /\ run' = [run EXCEPT !.based = TRUE]
     /\ pc' = "build"
     /\ UNCHANGED <<rounds, phase, pass, evidence, result>>
  \/ /\ t # BaseTree \/ git.ready # BaseTree
     /\ run.based
     /\ evidence' = NoEvidence
     /\ \/ /\ ~RepeatsChecks
           /\ git' = CheckedOut(t)
           /\ pc' = "reproof"
           /\ UNCHANGED <<rounds, phase, pass, run, result>>
        \/ /\ RepeatsChecks
           /\ ~RecheckLeft
           /\ git' = CheckedOut(t)
           /\ Halt("recheck-bound")
           /\ UNCHANGED <<rounds, phase, pass, run>>
        \/ /\ RepeatsChecks
           /\ RecheckLeft
           /\ git' = Uncommitted(t)
           /\ EnterPhase(2)
           /\ run' = [run EXCEPT !.rechecks = @ + 1]
           /\ pass' = [pass EXCEPT !.recheck = TRUE]
           /\ pc' = "build"
           /\ UNCHANGED result

\* The base did not move since the checks.
RebaseUnmoved ==
  /\ pc = "rebase"
  /\ run.based
  /\ pc' = "publish"
  /\ UNCHANGED <<lane, frame, budget, git, pass, run, evidence, suite, result>>

\* A rebase replays the change, or drops what the base already has: all of one
\* commit, some of several.
Replayed == IF git.ready = BaseTree THEN {git.head, BaseTree} ELSE Tree

RebaseMoved ==
  /\ pc = "rebase"
  /\ \E t \in Replayed : Moved(t)
  /\ UNCHANGED <<lane, frame, bound, failed, suite>>

RebaseFails ==
  /\ pc = "rebase"
  /\ \/ RebaseStop(git, "rebase-failed")
     \/ \E t \in Tree : RebaseStop([git EXCEPT !.work = t], "cleanup-unproven")
  /\ UNCHANGED <<lane, frame, budget, pass, run, evidence, suite>>

\* The first conflict of a run is one free builder turn.
Conflict ==
  /\ pc = "rebase"
  /\ IF run.conflictTurn
     THEN /\ git' = [git EXCEPT !.before = git.head]
          /\ run' = [run EXCEPT !.conflictTurn = FALSE]
          /\ frame' = NewFrame("conflict", TRUE, FALSE)
          /\ pc' = "ask"
          /\ UNCHANGED result
     ELSE /\ RebaseStop([git EXCEPT !.before = git.head], "rebase-conflict")
          /\ UNCHANGED <<run, frame>>
  /\ UNCHANGED <<lane, budget, pass, evidence, suite>>

\* The builder says the rebase is done: it is rebased again to see.
ConflictReturned ==
  /\ AtSite("conflict")
  /\ \/ \E t \in Tree : Moved(t)
     \/ pc' = "undo" /\ UNCHANGED <<rounds, phase, git, pass, run, evidence, result>>
  /\ UNCHANGED <<lane, frame, bound, failed, suite>>

\* Back to the HEAD the conflict was met at, whatever the turn did.
Undo ==
  /\ pc = "undo"
  /\ \/ \E why \in {"rebase-conflict", "authentication_failed"} :
          RebaseStop(CheckedOut(git.before), why)
     \/ \E t \in Tree : RebaseStop([git EXCEPT !.work = t], "undo-failed")
  /\ UNCHANGED <<lane, frame, budget, pass, run, evidence, suite>>

\* Mutant: the proof from before the rebase is trusted.
ReproofSkipped ==
  /\ pc = "reproof"
  /\ pc' = "retest"
  /\ UNCHANGED <<lane, frame, budget, git, pass, run, evidence, suite, result>>

\* A moved mechanical commit is proved and tested where it is now.
Reproof ==
  /\ pc = "reproof"
  /\ IF pass.named THEN Residue ELSE UNCHANGED git
  /\ \/ /\ evidence' = [evidence EXCEPT !.proved = pass.named]
        /\ pc' = "retest"
        /\ UNCHANGED result
     \/ Halt("proof-unmeasured") /\ UNCHANGED evidence
  /\ UNCHANGED <<lane, frame, budget, pass, run, suite>>

Retest ==
  /\ pc = "retest"
  /\ RunSuite(git.head)
  /\ IF SuiteGreen THEN pc' = "reclean" /\ UNCHANGED result
                   ELSE Halt("suite-red")
  /\ UNCHANGED <<lane, frame, budget, pass, run, suite>>

Reclean ==
  /\ pc = "reclean"
  /\ IF git.work = git.head /\ git.index = git.head
     THEN pc' = "publish" /\ UNCHANGED result
     ELSE Halt("dirty-worktree")
  /\ UNCHANGED <<lane, frame, budget, git, pass, run, evidence, suite>>

\* A standard lane opens its pull request, a finish writes its report.
Publish ==
  /\ pc = "publish"
  /\ \/ /\ ~Finish
        /\ result' = [status |-> "published", reason |-> "none"]
        /\ pc' = "end"
     \/ /\ Finish
        /\ result' = [status |-> "ready", reason |-> "none"]
        /\ pc' = "end"
     \/ Halt("publish-failed")
  /\ UNCHANGED <<lane, frame, budget, git, pass, run, evidence, suite>>

Ended == pc = "end" /\ UNCHANGED vars

-----------------------------------------------------------------------------

Turns == SeatRefused \/ SeatDone \/ SeatHeld \/ SeatSpent

Routing ==
  \/ HeldSingle \/ HeldNoProgress \/ HeldQuestionless \/ HeldInsufficient
  \/ HeldConsults
  \/ LeadReturns \/ LeadEscalates \/ LeadAskedAgain \/ LeadAccepts
  \/ LeadBounces \/ LeadBouncesPlanner

Checks ==
  \/ PlanReturned \/ PlanRaiseFails \/ FetchBase \/ Build \/ Built
  \/ BuiltNoTests \/ ProofSkipped \/ Proof \/ ChangedPaths \/ MechanicalPaths
  \/ MechanicalProtected \/ PathsFail \/ JudgeSuite \/ LastSuite \/ Rerun
  \/ Reviewed \/ JoinStops \/ Join \/ Seconded

Delivery ==
  \/ CommitStops \/ Commit \/ Snapshot \/ RebaseUnmoved \/ RebaseMoved
  \/ RebaseFails \/ Conflict \/ ConflictReturned \/ Undo \/ Reproof \/ Retest
  \/ Reclean \/ Publish

\* The loop's own next step; SuiteEnds belongs to the suite process.
Step == Begin \/ BeginFinish \/ BeginFails \/ Turns \/ Routing \/ Checks \/ Delivery

Next == Step \/ SuiteEnds \/ Ended

\* Every seat turn and every command ends or is timed out, so the loop and the
\* suite each go on as long as they can.
Fairness == WF_vars(Step) /\ WF_vars(SuiteEnds)

Spec == Init /\ [][Next]_vars /\ Fairness

-----------------------------------------------------------------------------
(* Properties.                                                             *)

Places ==
  {"start", "snapshot", "fetch", "ask", "held", "decide", "returned", "build",
   "proof", "paths", "suite", "rerun", "join", "precommit", "rebase", "undo",
   "reproof", "retest", "reclean", "publish", "end"}

\* What a lane stops with, by its cause: several causes share one of the code's
\* LOOP_REASONS.
Reasons ==
  {"lead-refused", "seat-refused", "lead-escalated", "seat-escalated",
   "round-bound", "no-progress", "discard-failed", "seat-unmeasured",
   "lead-unavailable", "rebase-failed", "rebase-conflict", "cleanup-unproven",
   "restore-failed", "undo-failed", "proof-unmeasured", "raise-needs-plan",
   "paths-unmeasured", "suite-red", "suite-unmeasured", "dirty-worktree",
   "nothing-to-commit", "commit-failed", "recheck-bound", "publish-failed",
   "authentication_failed", "runner-threw"}

Results == [status : {"running", "stopped", "published", "ready"},
            reason : Reasons \union {"none"}]

ControlType ==
  /\ pc \in Places
  /\ phase \in 0..2
  /\ failed \subseteq {"seat", "no-tests", "unproven"}
  /\ suite \in {"idle", "running", "green", "red", "broken"}
  /\ result \in Results

LaneType ==
  lane \in [shape : Shapes, tier : Tiers, planned : BOOLEAN,
            needTests : BOOLEAN, prior : 0..FinishReviews]

Frames ==
  [site : Sites, nested : {"none", "replan", "restart", "rejudge"},
   consulting : BOOLEAN, free : BOOLEAN, single : BOOLEAN,
   held : {"none", "round-bound", "insufficient", "question", "questionless"}]

FrameType == frame \in Frames

BudgetType == rounds \in [Role -> Nat] /\ bound \in [Role -> Nat]

Checkouts == [work : Tree, index : Tree, head : Tree, ready : Tree,
              checked : Tree \union {None}, before : Tree \union {None}]

GitType == git \in Checkouts

PassType ==
  pass \in [named : BOOLEAN, repairing : BOOLEAN, recheck : BOOLEAN,
            rebaseOnly : BOOLEAN, verdict : {"none", "pass", "changes"}]

RunType ==
  run \in [reserve : {"unspent", "pending", "spent"}, repaired : BOOLEAN,
           rechecks : 0..MaxRechecks, conflictTurn : BOOLEAN,
           based : BOOLEAN, wip : BOOLEAN]

Evidences == [proved : BOOLEAN, suited : Tree \union {None},
              ran : Tree \union {None}, reviewed : Tree \union {None},
              seconded : Tree \union {None}]

EvidenceType == evidence \in Evidences

\* Every variable stays in the set of values the code gives it; the rechecks of
\* a moved base stay within MAX_RECHECKS.
TypeOK ==
  /\ ControlType
  /\ LaneType
  /\ FrameType
  /\ BudgetType
  /\ GitType
  /\ PassType
  /\ RunType
  /\ EvidenceType

Delivered == result.status \in {"published", "ready"}

\* What a pull request or a finish report names is the very tree the suite was
\* green for and every review of the lane's tier passed, on the base it was
\* rebased to; the tests its builder named were proved since the last build or
\* rebase.  On a build or judge lane the green run began on exactly that tree.
\* (crew/README.md: lanes commit only the tree their suite and reviews checked,
\* and a moved head repeats every check.)
CheckedPublish ==
  Delivered =>
    /\ evidence.suited = git.head
    /\ ~Finish /\ ~Mechanical => evidence.ran = git.head
    /\ ~Mechanical => evidence.reviewed = git.head
    /\ ~Finish /\ lane.tier = "judge" => evidence.seconded = git.head
    /\ pass.named => evidence.proved

\* A lane above mechanical publishes a change that touches a protected path only
\* raised to judge, whether the plan, the build, a test run or a conflict turn
\* brought it in.
JudgedProtected ==
  result.status = "published" /\ lane.tier # "mechanical" /\ git.head \in Protected
    => lane.tier = "judge"

\* A mechanical lane, which nobody reviews, publishes no protected path: it is
\* restarted as judge (crew/README.md, "Protected paths restart it as judge").
MechanicalNeverProtected ==
  result.status = "published" /\ lane.tier = "mechanical" => git.head \notin Protected

\* The suite a moved mechanical commit is published on ran on that commit
\* (loop.mjs, "The tree the checks passed on must be the commit").
RetestedTree ==
  result.status = "published" /\ lane.tier = "mechanical" => evidence.ran = git.head

\* While the suite a review was paired with runs in the checkout, the lane asks
\* no builder, makes no commit, rebase or reset and does not end, whichever of
\* the two stops it first (Promise.allSettled).
SoleWriter ==
  suite = "running" =>
    /\ pc \in {"ask", "held", "decide", "returned", "join"}
    /\ pc # "join" => frame.site = "review" /\ frame.nested = "none"

\* The reviews of all passes of a finish never exceed FINISH_REVIEW_ROUNDS.
FinishReviewCap ==
  Finish => lane.prior + rounds["reviewer"] <= FinishReviews

\* A lane that stops on a rebase conflict leaves its change in the checkout as
\* it was before the rebase: committed by the lane or by the finish it returns
\* to, or, what a finish base had snapshotted, uncommitted on the commit beneath.
ConflictStopKeepsBuild ==
  result.reason = "rebase-conflict" =>
    /\ git.work = git.before
    /\ git.index = git.before
    /\ git.head = IF run.based \/ ~run.wip THEN git.before ELSE git.ready

\* Where the loop can be, with what has been established there: what
\* CheckedPublish rests on.  Every step keeps it.
Asking == {"ask", "held", "decide", "returned"}

NestedInBuild ==
  /\ frame.nested # "none" => frame.site = "build"
  /\ pc = "start" => frame.site = "plan"

\* A conflict turn is never held, so never consulted about or nested in, and
\* what it goes back to is known.
ConflictFrame ==
  /\ frame.site = "conflict" =>
       /\ pc \notin {"held", "decide"}
       /\ pc = "ask" => frame.free /\ ~frame.consulting
       /\ git.before # None
  /\ pc = "undo" => frame.site = "conflict"

TestsProved == pass.named => evidence.proved

\* The checks of a lane's tier, all given for the tree t.
Passed(t) ==
  /\ t # None
  /\ TestsProved
  /\ evidence.suited = t
  /\ ~Mechanical => evidence.reviewed = t
  /\ ~Mechanical /\ ~Finish => evidence.ran = t
  /\ ~Finish /\ lane.tier = "judge" => evidence.seconded = t

\* A suite that is green beside or before a review is green for the staged tree.
PairedSuite ==
  /\ git.checked # None
  /\ TestsProved
  /\ ~Finish
  /\ ~Mechanical
  /\ lane.tier = "judge" => suite # "running"
  /\ suite = "green" =>
       evidence.suited = git.checked /\ evidence.ran = git.checked

InReview ==
  pc \in Asking /\ frame.site = "review" =>
    /\ git.checked # None
    /\ TestsProved
    /\ ~Finish => PairedSuite /\ suite # "idle"

InSecond ==
  pc \in Asking /\ frame.site = "second" =>
    /\ PairedSuite
    /\ lane.tier = "judge"
    /\ suite = "idle"
    /\ evidence.suited = git.checked
    /\ evidence.ran = git.checked
    /\ evidence.reviewed = git.checked

InJoin ==
  /\ pass.verdict # "none" => pc \in {"join", "end"}
  /\ pc = "join" /\ result.status = "running" =>
       /\ PairedSuite
       /\ suite # "idle"
       /\ pass.verdict = "none" => suite \notin {"running", "green"}
       /\ pass.verdict = "pass" => evidence.reviewed = git.checked

InChecks ==
  /\ pc = "paths" => TestsProved
  /\ pc \in {"suite", "rerun"} =>
       /\ git.checked # None
       /\ TestsProved
       /\ Finish => evidence.reviewed = git.checked
       /\ ~Finish => lane.tier # "build" /\ git.work = git.checked
  /\ pc = "rerun" => Finish

InDelivery ==
  /\ pc \in {"start", "snapshot"} => ~run.based
  /\ pc = "precommit" => Passed(git.checked)
  /\ pc = "rebase" /\ run.based => Passed(git.head)
  /\ pc = "publish" => Passed(git.head)
  /\ pc \in {"reproof", "retest", "reclean"} => Mechanical
  /\ pc \in {"retest", "reclean"} => TestsProved
  /\ pc = "reclean" => evidence.suited = git.head

SuiteOnlyInPair ==
  suite # "idle" =>
    /\ ~Finish
    /\ pc \in {"join", "end"} \/ (pc \in Asking /\ frame.site = "review")

GateInv ==
  /\ NestedInBuild
  /\ ConflictFrame
  /\ SoleWriter
  /\ InReview
  /\ InSecond
  /\ InJoin
  /\ InChecks
  /\ InDelivery
  /\ SuiteOnlyInPair
  /\ Delivered => pc = "end"
  /\ CheckedPublish

\* Every loop is bounded: the lane ends, whatever its seats, its suite and the
\* base branch do.
Termination == <>(pc = "end")

=============================================================================

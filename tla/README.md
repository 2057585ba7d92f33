# A TLA+ project for the dev-team crew

The repository runs coding agents ("seats") in lanes. A lane takes one brief
through plan, build, proof, suite, reviews, commit and rebase to a pull request;
`crew/loop.mjs` is that lane's program, `crew/finish.mjs` and its neighbours are
the operator's verbs around a lane, `crew/acp-client.mjs` talks to a seat's
process, `crew/reclaim.mjs` keeps two of them from running one seat at once, and
`crew/pi/` is what runs inside one kind of seat. This directory holds models of
that code, what TLC checks of them on small instances and what TLAPS proves of
them for all.

Line numbers below are of the sources at the modelled commit. `PROJECT.json`
maps every definition to its lines.

## 1. Inventory

| component | state it keeps | operations | talks to | hard behaviour |
|---|---|---|---|---|
| **lane loop** `crew/loop.mjs` | tier, turn counters and bounds, failure ledger, named tests, findings, reserve review, rechecks, the tree staged for the checks | `runLoop`: seat turns, lead routing, restart, proof, suite beside review, commit, rebase with one conflict turn, recheck, publish or finish-ready | seats through files and `runSeat`; git, the suite and `gh` through `checks.mjs`; the journal | suite and review run at once in one checkout; tests write; the base moves after the checks; bounds that bounces raise again; a snapshot that every failure must take off |
| **reclaim lock and store** `crew/reclaim.mjs` | epoch files of a lock directory, a marker file per key | acquire, verify, retire, release, reserve, advance, clear | other processes through the directory only | every file operation interleaves; owners die; fences; stale handles; torn files |
| **lane verbs** `crew/finish.mjs`, `closeout.mjs`, `record-pr.mjs`, `run-pid.mjs` | journal rows, `finish-*.claim`, `finish-*.reclaim`, decision claims, `run.pid`, `finish.json`, report | finish, `--return`, `--accept`, `--abandon`, closeout, `--discard`, record-pr | the detached loop through the journal and pids | several operators at once, crash between spawn and record, rows out of order |
| **lane start** `crew/start.mjs`, `lanes.mjs`, `onboard.mjs` | branch, worktree, `lean.json` | start, onboarding check | verbs, loop | a start that fails half-way |
| **checks** `crew/checks.mjs` | the checkout and its index, the remote branch | `runSuite`, `commitChanges`, `rebaseBranch`, `openPullRequest` | git, gh, process groups | restore after a failed step; deadline, exit and close race; a push that failed or did not |
| **proof** `crew/proof.mjs` | rows, a worktree of the old source | `proveTests` | suite runner, git | a run cut short after it has reported; a worktree that will not go |
| **ACP client, seat runner** `crew/acp-client.mjs`, `crew/acp/seat.mjs`, `wire.mjs` | stream offset, pending and cancelled prompts, reservation handle | start, request, prompt, poll, cancel, close | the seat's process; the store; the advisor | late answers, torn frames, unproven death |
| **provider retry** `crew/lean.mjs`, `crew/acp/provider.mjs` | attempts, waited time | `runSeat`, `providerRetryDecision` | seat runner | bounds on retries and on waiting; what a refused attempt left |
| **pi seat** `crew/pi/acp-bridge.mjs`, `extensions/acp-server.ts`, `extensions/subagent.ts` | the prompt in flight, its cancel, pending permissions; the spawn counter, one child per agent call; pi's process group | prompt, cancel, gate, settle; the agent tool; teardown | the ACP client through pipes; pi by callbacks; a child pi | a cancel that names no prompt; a permission awaited while all else goes on; children in one group |
| **advisor** `crew/pi/extensions/advisor.ts` | epoch, pending triggers, consults under way, accepted notes, the pre-return slot | `onToolCall`, `onToolResult`, consults | the seat's hooks; a consult process; the lane manifest | parallel calls across awaits; a later run taking over; a consult that never closes |
| **other Pi extensions, grants, permissions, adapters, hooks, protocols** | little or none | translate or decide single tool calls | seats | - |
| **memory, skill proof, export, show, visualizer, scripts, bench** | none the lane depends on | reading, reporting | - | - |

What makes each correct:

- *lane loop*: what is published is what was proved, tested and reviewed, on the
  base it is published on; protected work is judged; nothing else touches the
  checkout beside the paired suite; review rounds and rechecks keep their bounds
  over passes; a failed rebase leaves the build; the lane ends.
- *reclaim*: one live holder; a fence never comes back; one reservation, that
  only its own handle clears; calls return.
- *lane verbs*: one run per lane, one decision per stop, review rounds counted
  right over all finishes, a discard that takes nothing from a live run, a journal
  whose last word is true.
- *checks and proof*: a failed commit or rebase leaves HEAD, index and tree as
  found; one verdict per suite run, by its own exit; a proof rests on runs that
  ended by themselves; at most one pull request.
- *seat turn*: the return that the loop reads is the present attempt's and was
  not taken back; each answer is heard once or given up; waits keep their bound;
  evidence stays until a process group is proven dead; the turn ends.
- *pi seat*: a prompt is answered once, when its run is over, and as cancelled
  exactly when its cancel came in time; no gated call runs on another's word;
  scouts keep their budget; a teardown takes the group.
- *advisor*: a finding reaches the run it is about, once; a certain return is
  reviewed or its review failed; consults keep their cap and their true cost.

`PROJECT.json` lists the hazards at their lines; two have no property, with the
reason.

## 2. Modules

| module | models | extends or uses |
|---|---|---|
| `LaneLoop` | `runLoop` of `crew/loop.mjs`, all three tiers and both shapes | |
| `LaneLoopProofs` | the theorems about it | `LaneLoop` |
| `ReclaimLock` | `reclaimStore` of `crew/reclaim.mjs`, file operation by file operation | implements `Reservation` |
| `Reservation` | what that store promises its callers about one key | |
| `ReclaimProofs` | the theorems about it, the refinement of `Reservation` included | `ReclaimLock` |
| `LaneVerbs` | finish, its decisions, closeout, record-pr and start as processes that may be killed, and the runs they launch by the rows these write | |
| `VerbProofs` | the theorems about them, but for what a finish is given | `LaneVerbs` |
| `FinishProofs` | the theorems about what a finish is given: review rounds and build | `VerbProofs` |
| `AcpClient` | one ACP session of `crew/acp-client.mjs` over any agent process | |
| `SeatTurn` | one seat turn: attempts, `runSeat`, `runAcpSeat`, the advisor's verdict | `AcpClient` |
| `SeatTurnProofs` | the theorems about it | `SeatTurn` |
| `SuiteRun` | `runSuite` of `crew/checks.mjs` and the processes it starts | |
| `ProofRun` | `proveTests` of `crew/proof.mjs`, every run of it a `SuiteRun` | `SuiteRun` |
| `Checkout` | `commitChanges`, `restoreCheckout`, `rebaseBranch`, git command by git command | |
| `Publication` | `openPullRequest` beside other users of the branch | |
| `Delivery` | the four in the order the loop calls them, and a finish's snapshot | all four |
| `DeliveryProofs` | the theorems about them | `Delivery` |
| `Advisor` | `createAdvisor` with parallel calls, consults and a later run of the lane | |
| `AdvisorProofs` | the theorems about it | `Advisor` |
| `AcpServer` | `acp-server.ts` and pi's run | |
| `AgentTool` | the agent tool of `subagent.ts` | |
| `AcpBridge` | `main` of `acp-bridge.mjs` | |
| `PiSeat` | the three of them with the client's frames | all three |
| `PiSeatProofs` | the theorems about it | `PiSeat` |
| `MC...` | the instances TLC checks | |

### LaneLoop

`runLoop` is one thread that awaits; `pc` names the statement it has reached,
and each action is one stretch between two awaits whose outcome is chosen. The
nested `seatTurn` calls are one `frame`: the call at the bottom (`site`), what it
is nested in (`replan`, `restart`, `rejudge`) and whether the lead is being
consulted about it. The one concurrency of the loop is `Promise.allSettled` of
suite and review (loop.mjs:696): `SuiteEnds` is the suite process, and `Halt`
goes to `join` while it runs.

| code | here |
|---|---|
| `rounds`, `seats[role].rounds`, `phase`, `failures` | `rounds`, `bound`, `phase`, `failed` |
| checkout, index, HEAD; `checkedTree`; HEAD before a rebase | `git.work`, `git.index`, `git.head`; `git.checked`; `git.before` |
| `namedTests`, `repairing`, `recheck`, `rebaseOnly`, verdict awaited by the join | `pass` |
| `reservePending`/`reserveSpent`, `repaired`, `rechecks`, `conflictTurn`, `rebasedHead`, `wip` | `run` |
| nothing: what the checks really established | `evidence` (a history variable; no action reads it but to decide what a green suite means) |

Abstractions:

- A tree is the change a checkout holds against its base. `Protected` trees touch
  a protected path. `{base, clean, protected}` tells apart everything the code
  compares: equal or not, empty or not, protected or not.
- A seat's turn, with the one repair of its envelope and the provider's retries
  inside it, is one step: done, held for one of four reasons, or refused. What a
  builder leaves in the checkout is any tree, whatever its turn comes to; that
  other seats leave it alone is checked by `seat.mjs` and assumed here.
- A suite or proof run may leave any tree, staged or not. A green suite records
  two trees: the one it counts for (`suited`) and the one it started on (`ran`).
- The failure ledger keeps three kinds (a seat's refusal, no tests, an unproven
  test) instead of deep-equal records: a second refusal of a seat, or a second red
  proof, may or may not repeat the first, so here it may stop the lane or go on.
- Bodies, subjects, findings, journal rows and usage are left out. Several causes
  of a stop share one of the code's `LOOP_REASONS`; the model names the cause.
- A finish's reviews of earlier passes (`prior`), the tree it finds (`built`) and what
  the commits it is launched on hold (`ready`: nothing on a stopped lane, the ready
  commit where `--return` went on from one, finish.mjs:442-458) come with `Lanes`;
  counting and placing them is the verbs' business. A finish that finds nothing
  uncommitted on a ready commit takes no snapshot and rebases that commit.
- Whether the diff between two protected trees touches a protected path is left
  open (`MayTouch`), and so is how much of several commits a rebase drops (`Replayed`).

### ReclaimLock

Each process runs one verb at a time; its `pc` is the next file operation.
`files` is the lock directory: epoch numbers, tokens, and whether released.
`acquire` is `Look`, `Read`, `Probe`, `Link`, then `Verify`, `Confirm` or
`Forsake`, `Disown`; the holder then lists (`Sweep`) and unlinks (`Retire`) older
epochs one by one; the verbs are `Inspect`, `Create` for reserve and `Check`,
`Match`, `Recheck`, `Write` for advance and clear; `Release`, `Mark` end the call.
File operations may fail. `Crash` stops a process anywhere. `PowerLoss` stops
all that have called and may tear the newest epoch file, which is written
without a sync; the marker file has the same exposure but is taken to be whole
(a torn marker refuses every verb, as an unknown one does). Listing and reading
the epoch in `checkFence` and `releaseEpoch` is one step each where the two reads
can only disagree in the direction that refuses. Evidence of a marker decides
only which refusal a `reserve` returns (reclaim.mjs:294), so `Vacant` is all of it.

`handle` is a caller's last reservation: `Begin` uses it for advance and clear
however stale it is, as the ACP client may (acp-client.mjs:143-151, 397).

`Reservation` has `holder` and `phase`. `ReclaimLock` instantiates it with the
marker's identity and phase; `OneReservation` is the refinement.

### LaneVerbs

Each verb process takes one file or git operation per step, so that two calls,
the run one of them launched and a run found alive or dead interleave; a crash
may stop any of them between two steps. The journal is a sequence of rows, cut
to what the verbs look for in them; claims, `run.pid` and `finish.json` are
files with the process they name. A detached run is the rows it writes: begin,
build, review, commit, publish or ready, stop. `ghost` records which calls launched for
which end of a run, which decisions were never written, and whether a launch was
for an end that was not the call's own (`raced`); no action reads it.

`Histories` are the lanes the calls may meet. `Lived` says what any lane has been
through when its runs came one after the other: what a run did stands after its
start row, a ready row is followed by rows of verbs only unless a return on it
launched, the row of a return is that of a launch for the end it had read of, the
run at work, if there is one, has begun and is the one `run.pid` names if it names
any; the branch is on the base, on a ready commit, or on the last commit made and not
taken back.

Merged or left out: the spawn and the write of `run.pid` are one step;
onboarding, the plan and the report file are data; the merged-request checks of
closeout are one read. `record-pr` takes no claim, as in the code.

A commit of the lane has the name of the run that made it, whichever base it was
rebased onto, and remembers the head it was made on (`below`): the base, or the
ready commit a return went on from. The reset to `head^` or to a rebase's `onto`
(finish.mjs:261-265, 290) goes there (`Beneath`). A finish that finds changes
rebases them as a snapshot and leaves HEAD on the base (`RunRebases`,
loop.mjs:580-603), so that a ready commit beneath them is changes too; one that
finds none keeps the commit. A snapshot left by a run that died, or whose restore
failed, is a commit made and never told of. The commits that one run makes, takes
back and makes again in its rechecks are one, since it takes them back itself.

### AcpClient, SeatTurn

`SeatTurn` is one `seatTurn` attempt loop of the lane: the request, its repair
and its rerun; inside it `runSeat` with its provider retries and recordings;
inside that `runAcpSeat` from setup to teardown over one `AcpClient` session.
The agent's process is free: it answers setup and prompts in any way or not at
all, writes or removes its return, forks, leaves. Its writes are taken at the
last moment before something reads them. Setup requests are merged by their
order; updates, permission decisions and cancel frames are left out. The advisor
is seen as a verdict that may be pending, block, or come too late.

### SuiteRun, ProofRun, Checkout, Publication, Delivery

`SuiteRun` has the runner's one thread and, beside it, leader, children and
descendants that leave the group but keep a pipe. `ProofRun` makes each of its
runs a `SuiteRun`: the setup, two runs of the declared test, two of the file that
holds the others; a row is what the proof tells apart (red or not on the old
source, green or not on the build). A tree in `Checkout` is the set of changes it
holds. Every git command may have done nothing, all or half of its work when it
comes back not green, and may leave a lock; reads may fail; other lanes fetch.
`Publication` lets others open, close and push at any moment. `Delivery` is one
lane: a run proves, runs the suite, commits, rebases, publishes (again by
`--accept`); a finish commits a snapshot, rebases and takes it back.

Left out: input validation; what a process whose group could not be proven dead
does later; a run killed inside a call; EPERM and unknown probes; the conflict
turn (LaneLoop's); bodies and titles.

### Advisor

The two hosts call `onToolCall` for parallel calls without waiting in between and
`onToolResult` later; every hook first looks whether the manifest names a later
run and starts afresh if it does. Calls, consults and notes are numbered in their
order. A consult is a process with a deadline, a stream that may break, a stop by
epoch and a hard timer; its conclusion is one step. Notes are a trigger and a
claim. Left out: text, redaction, anchors, the eviction of old codes, rows
without content, and the host of one process per hook, which nothing in the
repository uses.

### AcpServer, AgentTool, AcpBridge, PiSeat

`AcpServer` has the socket's frames in order, the one client, the prompt in
flight, the cancel, and pi as an external run: it may fail before it starts
without a word, retry, call one tool at a time, hear an abort and end. The gate's
`await` is two steps, so that frames come between the answer and the call it
lets through. `AgentTool` is one call at a time with its child, which may be
stopped by the deadline and by the run's abort, each TERM and after a grace KILL.
`AcpBridge` passes frames, and takes pi's group down. In `PiSeat` the abort of
the run is the signal of the scout, and the scout is in pi's group.

Client to server there is latency, server to client none: the client may still
cancel a prompt that was answered, which is what latency would add. End of stdin
and signals are one `stop`. Left out: `initialize` and `session/new`, updates,
usage, the findings schema, exit codes, the scout nudge. The limits the source
states hold here as well: a prompt cancelled in a preflight that starts no run
stays unanswered (acp-server.ts:17-29).

## 3. Properties and runs

| run | instance | shows |
|---|---|---|
| `lane_reviewed` | build and judge lanes and finishes of either, one round per seat, one recheck | `CheckedPublish`, `JudgedProtected`, `SoleWriter` |
| `lane_ends` | mechanical lanes with a lead on every tier and finishes of every tier, of a stopped lane or of a ready commit, first or second pass, with and without a plan; no recheck left, two finish reviews | `FinishReviewCap`, `ConflictStopKeepsBuild`, `Termination` |
| `reclaim_lock` | two processes, three calls against one, two attempts | `MutualExclusion`, `FenceHeld`, `EpochsRise`, `OneReservation`, `Returns` |
| `lane_verbs` | two verb calls on a lane that is new, has died, has published, has stopped with a commit on the base or on a ready one it was returned on from, is ready, or is to be finished once more | `OneRunButRetaken`, `DecidedOnce`, `ReviewBudget`, `EndTold`, `DiscardQuiet`, `BuildReturned` |
| `seat_turn` | one turn of a pi, builder, planner or claude seat: up to three sessions out of retry, rerun and repair | `EarnedReturn`, `BlockedGone`, `Confined`, `AnswerHeard`, `WaitBounded`, `EvidenceKept`, `TurnEnds` |
| `delivery` | one lane of either shape, three named tests, two publications | `VerdictEarned`, `AsFound`, `Exact`, `UpstreamNeverLocal`, `OneRequest`, `Ends` |
| `advisor` | three parallel calls, two consults, one later run | `FreshAdvice`, `ReturnReviewed`, `PricedClean`, `ConsultBound`, `Settles` |
| `pi_seat` | two prompts, one call each, a budget of one scout | `Answered`, `GateHeld`, `ScoutsKept`, `NothingLeft`, `Stops` |
| `mechanical_protected`, `mechanical_retest`, `reclaim_torn`, `verbs_undo_race` | as above, smaller | the four findings of section 6 |

*Lane loop*

- `CheckedPublish`: the published or reported HEAD is the tree its suite was green
  for and its reviews passed, since the last build or rebase; on build and judge
  lanes the suite also began on it.
- `JudgedProtected`: a reviewed lane publishes protected paths only as judge.
- `SoleWriter`: while the paired suite runs, the loop is in the review's turn or
  waiting for the suite.
- `FinishReviewCap`: reviews of all passes stay within `FINISH_REVIEW_ROUNDS`.
- `ConflictStopKeepsBuild`: a lane stopped by a conflict has its change in the
  checkout as before the rebase: committed, or, when a finish had snapshotted it,
  uncommitted on the commit the finish was launched on.
- `Termination`: "Every loop is bounded" (crew/README.md:62).

*Lock*

- `MutualExclusion`, `FenceHeld`, `EpochsRise`: one live process under the lock,
  whose own epoch is the newest, and the newest epoch is never taken away.
- `OneReservation`: the store implements `Reservation`, in which a reservation is
  cleared by its own handle only.
- `Returns`: a call of a process that stays alive comes back.

*Verbs*

- `OneRunButRetaken`: no two runs work on a lane, until a launch is made for an end
  that is not the call's own (`Retaken`): the end of the last run has another name
  by then and another launch, or the launch under its own name had its decision
  given back, or `crew start` launches on a lane that has had runs. The race of
  section 6 is one way to get there.
- `DecidedOnce`: one stop or ready row is decided once, whoever dies where, unless
  the decision could not be written.
- `ReviewBudget`: over all finishes of a lane the reviews stay within
  `FINISH_REVIEW_ROUNDS` (`RoundsSpent`), though each return counts them back out of
  the journal; until a launch is made for an end that is not the call's own
  (`Retaken`), or not the one its return was judged on and counted to
  (`stake # at`; section 6).
- `EndTold`: when all is over, the journal, and the viewer's order of it, tell how the
  last run ended; unless a verb has the last word, or took a commit back and
  launched nothing, or could not write its decision.
- `DiscardQuiet`: a lane is thrown away only when no run of it has a process; apart
  from a run that no file names, and unless a return has claimed the same end by
  another name (`Renamed`) or such a run has written a row after that end, or two
  launches have been for one end before.
- `BuildReturned`: what a finish starts on. A return on a stop launches where no
  commit stands and HEAD is no commit the journal names but a ready one: the build
  lies on the base, or on the ready commit it went on from, as changes. A return on
  a ready row launches at that row's commit. No pushed commit is reset on the way;
  unless an accept could push a ready row that was returned on as well (`Strayed`):
  the return's decision was given back, or it was for the same end under another
  name. All of it until a launch is made for an end that is not the call's own.

*Seat turn*

- `EarnedReturn`: an accepted return was written by the turn's last session, or by a
  process an earlier one left alive; never by one that was refused, rerun or
  repaired and is gone.
- `BlockedGone`: a turn that ended by itself is not accepted with a return its
  advisor blocked. Two cases of the code are outside it, and the model has both: the
  return, or the one there at the session's start, could not be read when it was
  hashed (seat.mjs:528), or its removal failed (seat.mjs:546).
- `Confined`: a seat that wrote the worktree or the records it may not write has no
  return accepted, in that session or a later one of the turn, if the write is one
  the comparison shows. A session may also make writes the comparison cannot show
  (`"unseen"`: ignored files, writes outside the worktree, edits put back, the index
  alone, writes after a teardown that was not proven; seat.mjs:39-40), and with those
  alone it is accepted.
- `AnswerHeard`: a seat is given up for dead only when it left no answer.
- `WaitBounded`: the sessions reopened after a refusal stay within the retries, and
  the waits really taken within the bound.
- `EvidenceKept`: while anyone of a closed session's group lives, its reservation is
  held and its directory, unless somebody else took it, is there.
- `TurnEnds`: every turn ends.

*Delivery*

- `VerdictEarned`: green or red is the leader's own exit, undisturbed, with nobody
  left in the group; a green proof rests on runs that all ended like that.
- `AsFound`: a failed commit or rebase leaves everything as found or says that it
  may not; ignored files survive; a proof leaves no worktree, or says so.
- `Exact`: a green commit or rebase holds exactly what it should.
- `UpstreamNeverLocal`: a finish never leaves upstream's changes as the lane's own.
- `OneRequest`: no second pull request is opened beside an older one.
- `Ends`: every call comes back.

*Advisor*

- `FreshAdvice`: a finding reaches the seat only if the run it was asked for is the
  one the manifest names, and is told once in it, but for what refuses a return.
- `ReturnReviewed`: a sure return passes without a consult of its own only because
  another sure one's ended in the same generation, and a grave finding about a
  return refuses it.
- `PricedClean`: a consult is priced exactly when its child closed by itself and
  well, and a failure is journalled under the cause that came first.
- `ConsultBound`: consults stay under the cap whatever runs at once, and at most one
  call that only may be a return is consulted on.
- `Settles`: every consult ends and every return is answered.

*Pi seat*

- `Answered`: an answered prompt's run and scout are over, and it is told cancelled
  exactly when its cancel came in time.
- `GateHeld`: a gated call runs by the client's word for that very call, and no
  call starts in a cancelled run (one exception, section 6).
- `ScoutsKept`: no more scouts than were counted, nor than the budget, and nothing
  is heard of one that was stopped.
- `NothingLeft`: the bridge returns with the group gone or killed.
- `Stops`: a cancelled run settles and a stopped bridge returns.

Each property of a passing run has a mutant in `PROJECT.json`: a plausible bug in
one mapped definition that makes the run fail. The type invariants, `GateInv` and
`GrantedKept` are in the modules for the proofs, which hold for every instance.

**Bounds.** One seat round already reaches every route of the loop: the turn, the
exhausted bound, the lead's bounce that raises it, the bounce to the planner, the
reserve review. One recheck gives a moved base with and without one left
(`MaxRechecks` is 3 in the code). Finishes get two reviews because their cap spans
passes. Two processes are what a displacement, a stale handle and a race for an
epoch need; three calls let one process acquire, release and retire twice while
the other stands between two file operations, so that an old epoch's name is
linked anew. Two verb calls are a race; the conditions the lane starts in stand
for the calls before them. A third call brings one thing two do not have: its
decision row, written late, gives a dead run's tail another position while two
others are at it. That is how `Retaken` and `Renamed` came to be worded by the end
a launch is for and not by the finding's one row; all six properties of the verbs
are proved for any number of calls. The lane that stopped on a commit made on a returned ready commit (`Stacked`) is the
shortest in which a reset does not end on the base. A lane once raced is not
followed further (`Unraced`). A seat
turn has up to three sessions, the first and two more: retries, the rerun,
the repair; the waits may use up the total bound before the retries are. Three tests are
one of each kind and two that share a run. Three calls are what it takes for an
uncertain return to give its slot back while two others pass. One tool call per
run over two prompts lets an answer to the first run's question meet the second
run's; a budget of one lets the second scout be refused. `MaxResults`,
`MaxChanges` and `MaxCalls` bound the model only. The proofs remove the bounds
from the safety properties they cover.

**Fairness.** `LaneLoop`: weak fairness of the loop and, separately, of the suite.
Every await of the loop ends: a seat's turn has a deadline (`seat.mjs`), a command
and a suite have a timeout (`checks.mjs:129`). Nothing is assumed of which outcome
they have. `ReclaimLock`: a process that runs takes its next file operation; no
fairness for calls, crashes or power losses, none towards success. Both
liveness properties therefore rest on the code's counters. `SeatTurn`: the runner's
thread and its deadlines. `Delivery`: node's timers and close events, and the
deadline every git and gh command has. `Advisor`: the event loop turns; nothing is
assumed of the consult process, the seat or the manifest. `PiSeat`: the event loops
of pi and the bridge and their timers; KILL kills; and of pi, that a run whose
signal is aborted ends its tool and then itself, which is pi's contract and outside
this repository. `LaneVerbs` states safety only.

**Deadlock** is checked in every run but those of the verbs and of the advisor,
where nothing more need be asked of a lane or of a seat; in the others the modules'
`Done`, `Ended` and `Finished` are the only stops.

## 4. What is proved

`tlapm` checks all proofs; nothing is assumed but the named `ASSUME`s of the
modules, which TLC evaluates in the runs:

| assumption | says |
|---|---|
| `TreeAssumption`, `BoundAssumption`, `LaneAssumption` | the base is a tree and unprotected, `None` is no tree; the bounds are naturals, one round at least; lanes are well-formed, and a standard lane starts on the base, nothing beneath it, without a plan |
| `ProcAssumption` | identities are no null; attempts are positive |
| `VerbsAssumption`, `HistoriesAssumption` | rounds and runs are positive, calls and runs have different pids and `None` is neither; every lane the calls meet is `Lived` |
| `SeatAssumption` | seats are well-formed; retries, waits and the ladder are naturals |
| `PublishesAssumption` | the lane is published at least once |
| `AdvisorAssumption` | cap, cadence and calls are naturals; `None` is none of the names it stands beside |
| `PromptsAssumption`, `BudgetAssumption` | prompts and the scouts' budget are naturals; `None` is no prompt |

All theorems hold for every value of the constants these allow: any number of
processes, calls, prompts, tests, rounds. What bounds the models only (`MaxCalls`,
`MaxRuns`, `MaxResults`, `MaxChanges`, `MaxPrompts`, `MaxFrames`) is arbitrary in
them as well.

*LaneLoop* (any trees, protected set, bounds, rosters, lanes):

- `LaneTyped`: `Spec => []TypeOK`; in particular at most `MaxRechecks` rechecks.
- `LaneChecked`: `Spec => []CheckedPublish`; `LaneSoleWriter`: `Spec => []SoleWriter`;
  `LaneGated`: `Spec => []GateInv`, which implies both.

`CheckedPublish` speaks of the end only. `GateInv` says, per place, what has been
shown: in `suite` the review of a finish passed on `checked`; in `precommit`
everything the tier wants passed on `checked`; a commit happens only when the
checkout is still `checked`, so in `rebase` it passed on HEAD; a moved base clears
the evidence and goes back to the top or, mechanical, to proof and suite. It also
needs where the paired suite can be running (`SuiteOnlyInPair`, `PairedSuite`), that
a conflict turn is never held or consulted about (`ConflictFrame`), and that
nesting happens in the builder's turn only (`NestedInBuild`): otherwise a builder
could write while a review's evidence is kept. `IInv == TypeOK /\ GateInv` is
inductive; `TypeStep` and `GateStep` have one step per action.

- `LaneJudged` (`JudgedProtected`), `LaneReviewsCapped` (`FinishReviewCap`),
  `LaneKeepsBuild` (`ConflictStopKeepsBuild`), from `LaneBounded`.

Each has an invariant of its own over the places of the loop. The paths are
measured against HEAD, so a standard lane stands on the base until it commits
(`OnBase`), and from the measuring on what it staged and committed as a build lane
is unprotected (`Unprotected`); it is the staged tree and not the checkout that is
carried over the suite. Of a finish nothing of the kind is needed, which never
publishes. A finish's review bound is set once and never raised, because its
reviews are neither free nor held for the lead (`ReviewsCounted`). A rebase starts
clean and committed, and a finish with nothing to snapshot starts it on the commit
it was launched on, the base or the ready one (`RebaseClean`); so taking a snapshot
off gives the build as it was found, and without one the commit is left alone.

*ReclaimLock* (any number of processes, calls and attempts):

- `LockTyped`, `Exclusive`, `FenceKept`, `EpochsNeverFall`, `GrantsKept`;
- `StoreImplements`: `Spec => OneReservation`, by the step lemma `MarkerStep`.

The key of `LockInv` is what a stale listing cannot spoil: the epoch a process has
listed is still there or a newer one is (`SeenBelow`); what a live process linked
stays until superseded (`LinkedStays`); from its confirmation on it is the newest
(`OwnNewest`), because whoever stands right behind it has seen it unreleased and
its owner alive, or has been overtaken (`Displaced`). `StoreInv` adds that between
its checks and its write a process still matches the marker, which needs the
exclusion.

*LaneVerbs* (any number of calls, runs, rounds and histories; a call or a run may
be killed between any two steps):

- `VerbInvariant` and `DecisionsOnce` (`DecidedOnce`);
- `RaceInvariant` and `OneRunAtWork` (`OneRunButRetaken`);
- `DueInvariant`;
- `ThrowInvariant` and `DiscardsQuietly` (`DiscardQuiet`);
- `EndInvariant` and `EndsTold` (`EndTold`);
- in `FinishProofs`: `BudgetInvariant` and `ReviewsBounded` (`ReviewBudget`),
  `HeadInvariant` and `BuildKept` (`BuildReturned`).

`VerbInv`: every call that holds a decision has its claim, no two hold one, what
was carried out stays claimed or is known to be unrecorded. `RaceInv` says, while
nothing was retaken, what a return may conclude from the files. One run is at
work, `run.pid` names it or nothing, and the journal has its start with no stop
or ready row after it once it has begun (`OpenBegan`); until then the last row of
a run is at or before the end it was launched for (`BornCalled`). So rows that
only a begun run writes tell of one (`WorkBegan`), and a ready row is the last
word of the runs until one is launched for it (`ReadyServed`). A return that has
its stop before it, or a dead run and an open tail, therefore has an end after
which no run wrote (`ClearedQuiet`), and a launch by any other call in the
meantime is for the same end: under the same name the claim excludes it
(`VerbInv`), under another it makes the return's own launch `Retaken`. Without
`ReadyServed` the invariant is not inductive: a return on a ready row does not read
the journal again after its claim.

`DueInv` adds what the rows themselves tell. `Dues` holds whatever races: the end a
call has found is settled in the rows it has read (`Settled`), a return on a stop
that waits for its claim has a stop row or an open tail before it, and every row of
a return is answered by a launch for the end it had read of (`ReturnsTold`). `Lays`
holds while nothing was retaken: as long as the journal is the one a waiting return
has read, no commit stands that was pushed (`Parked`), and from its confirmation to
its launch no row of one is left that was not taken back (`TakenBack`). A run at work cannot push in between,
because the journal would show it begun. An accept can: its ready row is then
either the last word of the runs, and no return could be waiting unless a return's
row, and so a launch, came after it, or it has been launched for. Both are `Strayed`
(`AcceptStrays`), which is why `BuildReturned` excepts it.

`HeadInv` says where the branch is, which the rows alone do not: a reset is done
before its row is written, and goes one commit down, to where others may stand. A
commit to rest on (`Rests`) is the base, one that a ready row names after its commit
row, or one no row ever told of. HEAD is such a commit, the one that stands, or
what a run at work has just made (`HeadLeft`, `HeadAtWork`), and what any commit was
made on is one to rest on in its turn (`BelowRests`). So a reset of the commit that
stands ends on one to rest on, and at the launch, where none stands, the build lies
there. That holds because one call at most is between a reset and its row
(`OneUndo`): a second one would find HEAD below the commit its rows say stands, and
is refused. For a ready row it is enough that its commit is HEAD as long as nobody
returned on it and no run followed (`HeadReady`); a run that has yet to begin finds
no commit standing but such a one (`BornOn`).

`ThrowInv` is about the claim files. A call that has staked its end owns the one
claim of it until it lets go (`Own`): nobody displaces the claim of a process under
way, and nobody writes over one. A launch therefore names its run under a claim no
discard owns, and the rows since the discard's end tell whether the launch was for
that end (`Excepted`); a run that was there before is in the list until it is asked
after (`Listed`), the claim of a launcher about to be handed to its run included
(`Names`). `died` stays a dead pid, so a launch that fails names nothing alive
again.

`EndInv` is about the order of rows. Once the last run has begun, the last row of a
run there is is its own and says the phase it is in, and no launch was for an end as
late as that row (`LastTold`). What follows it are rows of the verbs (`Afterwords`). A
late `return` among them is answered by a launch for an earlier end (`ReturnsTold`),
so the row it names is not after the run's, and if that row is a start or an end it
makes the return a superseded one. The newest row the readers go by is therefore the
run's or a `pr` after it (`LastRowSaid`), and a stopped or ready lane is not shown as
returned (`StatusSaid`).

`BudgetInv` is about who has counted every review. A run that has a review writes
its row, so the journal tells of them from any place where the lane's finishes may
begin: after a stop, or where a recovery wrote in `finish.json`; a ready row on the
way tells of those before it (`SpecTells`). The finish at work has them in its own
count (`WorkCounts`), a ready row with the rows after it (`ReadyCounts`). A return
counts them to the end it was judged on (`StopCounts`) and carries that count to its
launch (`CallCounts`), and what it makes of `finish.json` tells of them as well
(`CallTells`). A run at work would add a review behind its back; that its row is
then in the journal, and the journal not the one the return has read, is `RaceInv`.
All of it stops at a launch for another end than the one counted to.
`HistoriesAssumption` asks the same of a lane's past.

*SeatTurn* (any seats, retries, waits and frames): `TurnEarnsReturn`
(`EarnedReturn`), `TurnLosesBlocked` (`BlockedGone`), `TurnConfined` (`Confined`),
`TurnHearsAnswer` (`AnswerHeard`), `TurnWaitsBounded` (`WaitBounded`),
`TurnKeepsEvidence` (`EvidenceKept`), from `SeatTurnInvariant`. A return carries the
session that wrote it and the prompt it came after; `EarnedInv` says that a valid
one of an earlier session never reaches the next, `BlockInv` that a blocked one
that is still there is older than the session's last prompt, and is taken away when
that settles unless it cannot be hashed or removed; `FramesInv` that an awaited frame answers what was asked when it
was written; `WroteInv` that what a session wrote and a comparison can show is still to be
found or was found.

*Delivery* (any number of publications): `VerdictsEarned`, `LeftAsFound`,
`CallsExact`, `UpstreamKeptApart` and the action property `RequestsStayOne`, from
`DeliveryInvariant`. `SuiteInv` ties a verdict to the group: a run nobody stops has
disturbed nobody, and one stopped without deadline or overflow was stopped by its
close after its leader had left. `ProofInv` keeps that a run cut short has spoiled
a row which nothing clears. For the checkout there is one conjunct per place of
commit, rebase and restore that says how it differs from what the call found.
`NoneBefore` keeps the requests that were there before the call apart from its own.

*Advisor* (any number of calls, any cap and cadence): `ConsultsBounded`,
`ConsultsPriced`, `AdviceFresh`, `ReturnsReviewed`, from `AdvisorInvariant`. Every
hook looks at the manifest first and may start over, so the invariant is stated of
the values a hook has after its look, and kept by the look and by what follows.
Its parts: the cap counts what was begun and a consulted maybe keeps its slot
(`Capped`), a consult of this generation is of the epoch the advisor knows
(`Aged`), a spent slot names another sure return whose consult ended (`SpentOnce`).

*PiSeat* (any number of prompts, calls and spawns): `SeatAnswers` (`Answered`),
`SeatGates` (`GateHeld`), `SeatScouts` (`ScoutsKept`), `SeatTornDown`
(`NothingLeft`), from `SeatInvariant`: nothing is said of a prompt before it is
heard (`PromptsUnheard`), the run that has not settled is the one in flight and is
aborted by its cancel only (`InFlight`), an allowing answer on its way or taken is
for an ask the client allowed (`AskInv`).

*Model-checked only*:

- liveness under fairness, which is out of the provers' reach: `Termination`,
  `Returns`, `TurnEnds`, `Ends`, `Settles`, `Stops`.

## 5. Not modelled

- *Grants, permissions, protocol schemas, hooks, the texts a provider failure is
  recognised by*: tables over one input; the models take their outcomes as chosen.
- *Read gate and skeleton reads* (`readgate.ts`, `skeletonread.ts`): what one agent
  may read again, decided from text and line ranges inside one hook call; no other
  actor changes what they remember but the file, which they compare.
- *Adapters*: they turn another agent's protocol into frames inside its process,
  and the client's models let that process do anything.
- *Memory, skill proof, transcript export, show, command line, visualizer*: they
  read and report; the one rule of the visualizer the verbs share is in `LaneVerbs`.
- *Scripts and benchmarks*: build and measurement tooling, and much of the
  repository's lines.
- *The advisor's one-process-per-hook host*: no host in the repository uses it.
- *A process whose group could not be proven dead*: what it does afterwards.

## 6. Findings

1. *mechanical_protected.* crew/README.md:49 says protected paths restart a
   mechanical lane as judge. The paths are measured before the commit
   (loop.mjs:671-684). If the base then moves with a conflict, a builder's turn
   resolves it, and the block for moved mechanical lanes (loop.mjs:887-910) proves and
   tests the result without measuring its paths again.
2. *mechanical_retest.* The comment at loop.mjs:902 wants the published commit to
   be the tree the checks passed on. The proof and the suite run one after the other
   and only the end is compared: the suite may have started on what the proof left.
   The rerun of a finish's red suite (loop.mjs:770-773) starts on what the red run
   left in the same way, which is why `CheckedPublish` asks `ran` of build and
   judge lanes only.
3. *reclaim_torn.* docs/conventions.md:14 has the locks of `reclaim.mjs` inherit
   the concurrency entry, which at :32 says a corrupt lock is stale, never a wedge. A
   newest epoch that cannot be read is refused forever (reclaim.mjs:161);
   `reclaim.test.mjs` pins that behaviour.
4. *verbs_undo_race.* The comment at finish.mjs:185 says that two calls before the
   run's first row cannot both spawn. A return on a stop that left a commit appends
   its `finish-uncommit` row (finish.mjs:291) while `run.pid` still names the run
   that stopped; the journal's tail is open again, so a second return takes the lane
   for one whose run died, claims another row, and both launch in one worktree.
   `OneRunButRetaken` and the other verb properties except this race and its like:
   another launch for the same end under another name.

Observed, and no finding:

- *reclaim*: an epoch file retired between its listing and its reading is refused as
  `unresolvable` although it was only contended; a marker whose verdict is
  `RECLAIMABLE` is never reclaimed, `reserve` answers busy (reclaim.mjs:294).
- *verbs*: crew/README.md:59 has `--return` refuse "once three review rounds are
  spent". A return judged on a stop counts the reviews up to that stop
  (finish.mjs:345); if another return's run reviews after it and is found dead only
  when the launch looks for its stop again (finish.mjs:246, `stoppedLane` at :215),
  the journal read is the same, the stop is a new one, and the old count goes into
  the new run (with `expected.died` null nothing at finish.mjs:247 objects). The
  rounds of both together may pass three. It takes a first return that left its
  `finish-uncommit` row and launched nothing, a second that took the lane for a dead
  run's, and a third beside it. TLC shows it in `MCVerbs.cfg` with `RoundsSpent`
  in the place of `ReviewBudget`, which excepts the case.
- *verbs*: a crash between the spawn and `run.pid` leaves a run nobody can name,
  which `--discard` can take away (`DiscardQuiet` excepts it); a ready-path return
  whose decision row cannot be written gives its decision claim back after the
  launch (finish.mjs:465-467), where the stop path keeps it "once spawned"
  (finish.mjs:371), so a second return may launch for the same ready row beside the
  first one's run (`Retaken` names the case); a return killed between claim and decision leaves its
  stop decided for good; a run may outlive the stopped row it wrote.
- *verbs*: when a run that committed on a returned ready commit stops after a rebase
  moved both (at its recheck bound, say), every return is refused with
  `finish-committed`, because two commits lie on the new base where
  finish.mjs:263-264 wants one; and a return on a ready row whose worktree was edited
  meanwhile takes the ready commit off with the edits, the snapshot's restore going
  to the base (loop.mjs:600).
- *seat turn*: a return the advisor blocked survives if the follow-up turn fails, if it
  or the one there before could not be read when hashed (seat.mjs:528), or if its
  removal fails (seat.mjs:546); what a read-only seat writes to ignored files, outside
  its worktree, to the index alone, or puts back, is not found (seat.mjs:39-40);
  a valid return counts after a turn error (docs/adr/adr-055, line 272); `lean.mjs`
  retries although the teardown is unproven, and pi, in a group of its own behind the
  bridge, can outlive a teardown that was taken for proven when the bridge is killed
  before it has killed pi. `EarnedReturn` excepts a return that such a leftover wrote.
- *delivery*: a rebase that exited 0 and could not be read back is returned as failed
  without a restore (checks.mjs:538); a finish then takes its snapshot off with
  `wip^` and leaves upstream's changes staged as local, which the comment at
  loop.mjs:591 excludes for the case it names. `AsFound` and `UpstreamNeverLocal`
  except it. A killed `git add` may leave an index lock that `restoreCheckout` does
  not compare.
- *proof*: a `git worktree add` that fails after it has registered the worktree is not
  remembered as added, so that only the directory is deleted and the registration
  stays, which the comment at proof.mjs:240 excludes; `AsFound` speaks of worktrees
  the proof knows it added. A test whose group is not proven dead makes the proof red,
  not unmeasured, so the builder runs again beside what the test left.
- *advisor*: a consult overtaken by a later run still spends that later run's
  pre-return slot (advisor.ts:1568); two certain returns in parallel both consult; an
  abort after an invalid frame relabels the reason the row records.
- *pi seat*: an answer that allows a call and a cancel read in one chunk let the gate
  go on: it does not look at the cancel again after its await (acp-server.ts:306),
  though the comment at acp-server.ts:122 has every call blocked from then on.
  `GateHeld` excepts a call whose permission was answered just before. A second
  signal of one kind ends the bridge amid its teardown, its handlers being
  installed once (acp-bridge.mjs:71).

## 7. Plan

The components whose actors meet are modelled. Every safety invariant and action
property a passing run checks is proved; what liveness the runs check stays with TLC.

---------------------------- MODULE DeliveryProofs ----------------------------
(***************************************************************************)
(* Theorems about Delivery: verdicts are earned, a checkout is left as a   *)
(* call found it or as its result says, and no second pull request is      *)
(* opened, for any number of calls to publish.                             *)
(***************************************************************************)
EXTENDS Delivery, TLAPS

-----------------------------------------------------------------------------
(* The suite runner                                                        *)

ProcStates == [group : SUBSET Members, piped : SUBSET (Members \union {"escaped"}),
               code : Codes \union {"none"}, undisturbed : BOOLEAN]
Verdicts == {"none", "spawn-error", "cleanup-unproven", "timeout", "output-limit", "green", "red", "signal"}
RunStates == [phase : {"idle", "running", "term", "kill", "settled"}, closed : BOOLEAN,
              timedOut : BOOLEAN, overflow : BOOLEAN, status : Verdicts]

\* A leader that has exited is not of the group any more.
LeaderLeft == procs.code # "none" => "leader" \notin procs.group

\* A run nobody stops has told nobody off; one that is stopped without a
\* deadline or an overflow was stopped by its close.
StopCause ==
  /\ runner.phase = "idle" => procs = NoProcs
  /\ runner.phase \in {"idle", "running"} => procs.undisturbed /\ ~runner.timedOut /\ ~runner.overflow
  /\ runner.phase \in {"term", "kill"} /\ ~runner.timedOut /\ ~runner.overflow
       => procs.undisturbed /\ procs.code # "none"
  /\ runner.phase # "settled" => runner.status = "none"

Earned ==
  /\ runner.status = "green" => procs.group = {} /\ procs.undisturbed /\ procs.code = "zero"
  /\ runner.status = "red" => procs.group = {} /\ procs.undisturbed /\ procs.code = "nonzero"

SuiteInv == procs \in ProcStates /\ runner \in RunStates /\ LeaderLeft /\ StopCause /\ Earned

-----------------------------------------------------------------------------
(* The proof                                                               *)

Row == [base : {"not-run", "red", "other"}, build : {"not-run", "green", "other"},
        reason : {"none", "refused", "cut"}]
ProofStates == [at : {"add", "read", "weigh", "remove", "done"} \union Runs, rows : [Tests -> Row],
                added : BOOLEAN, registered : BOOLEAN, path : BOOLEAN,
                result : {"none", "unmeasured", "green", "red", "cleanup-unproven"}, cut : BOOLEAN]

\* A suite run under way in a proof is for somebody.
RunFor == lane.stage = "proof" /\ runner.phase # "idle" => ProofRuns

\* A run that was cut short has spoiled a row, which nothing clears.
Spoiled ==
  /\ proof.cut => proof.at \notin {"add", "read"} /\ \E t \in Tests : proof.rows[t].reason # "none"
  /\ proof.at \notin {"remove", "done"} => proof.result = "none"
  /\ proof.result = "green" => ~proof.cut

\* A worktree that was added is gone, or it is said not to be.
TakenAway ==
  (proof.at = "done" /\ proof.added /\ proof.result # "cleanup-unproven")
    => ~proof.registered /\ ~proof.path

ProofInv == proof \in ProofStates /\ RunFor /\ Spoiled /\ TakenAway

-----------------------------------------------------------------------------
(* The pull request                                                        *)

Requests == [base : Bases, by : {"lane", "others"}]
PubStates == [at : {"idle", "publish", "query", "head", "push", "pushed", "text", "created"},
              found : SUBSET Requests,
              result : {"none", "green", "push-unmeasured", "pr-unmeasured"}]

\* What has been open since before the call is open, and was found if anything was.
NoneBefore ==
  /\ standing \subseteq remote.open
  /\ pub.at \in {"head", "push", "pushed", "text"} /\ pub.found = {} => standing = {}

RequestInv ==
  /\ remote \in [branch : {"absent", "lane", "other"}, open : SUBSET Requests]
  /\ pub \in PubStates
  /\ NoneBefore

-----------------------------------------------------------------------------
(* The checkout                                                            *)

CheckoutStates == [head : SUBSET Changes, index : SUBSET Changes, work : SUBSET Changes,
                   busy : SUBSET {"lock", "rebase"}, onBranch : BOOLEAN]
CommitPlaces == {"commit", "add", "make", "confirm", "restore-head", "restore-index", "restored"}
RebasePlaces == {"rebase", "collide", "run", "verify", "abort", "undo", "judge", "resolve",
                 "regenerate", "land", "landed", "back", "reset", "proven"}
Giving == {"abort", "undo", "judge", "back", "reset", "proven"}
Refusals == {"commit-failed", "dirty-worktree", "nothing-to-commit", "rebase-failed",
             "rebase-conflict", "invalid-input"}
Befores == CheckoutStates \union {{}}
CallStates == [at : {"idle"} \union CommitPlaces \union RebasePlaces, before : Befores,
               onto : SUBSET Upstream, new : SUBSET Changes,
               why : Refusals \union {"none", "cleanup-unproven"}, sound : BOOLEAN,
               generated : BOOLEAN,
               result : Refusals \union {"none", "green", "cleanup-unproven", "unverified"}]
Stages == {"proof", "suite", "commit", "rebase", "restore", "publish", "done"}
LaneStates == [shape : {"run", "finish"}, found : CheckoutStates, published : Nat, stage : Stages]

CheckoutType ==
  /\ co \in CheckoutStates
  /\ ignored \in [path : Upstream \union {"generated", "none"}, kept : BOOLEAN]
  /\ origin \in SUBSET Upstream
  /\ call \in CallStates
  /\ lane \in LaneStates

Unharmed == ignored.kept /\ ignored.path \notin co.work

\* Nothing but the lane's own files, and nothing under way.
Pristine(c) ==
  c.head = {} /\ c.index \subseteq Lane /\ c.work \subseteq Lane /\ c.busy = {} /\ c.onBranch

BeforeCommit == lane.stage \in {"proof", "suite"} => Pristine(co) /\ call = Idle("none")

\* The listed files are staged, and nothing else is touched.
AddedTo(found) ==
  /\ co.index = (found.index \ {"draft"}) \union {"mine"}
  /\ co.work = found.work /\ co.busy = {} /\ co.onBranch

InCommit ==
  /\ Pristine(lane.found)
  /\ call.at \in {"idle"} \union CommitPlaces
  /\ co.work = lane.found.work /\ "rebase" \notin co.busy
  /\ call.at \notin {"idle", "commit"} => call.before = lane.found
  /\ call.at \in {"commit", "add"} => co = lane.found
  /\ call.at = "make" => co.head = {} /\ AddedTo(lane.found)
  /\ call.at = "confirm" => co.head = {"mine"} /\ AddedTo(lane.found)

CommitEnded ==
  /\ call.result = "none" => co = lane.found
  /\ call.result = "green" => co.head = {"mine"} /\ AddedTo(lane.found)
  /\ call.result \in Refusals => sameCheckout(lane.found, co)

\* The base that was resolved, and the lane's commit on it.
Moved == call.onto \union {"mine"}

InRebase ==
  /\ lane.found.head = {"mine"} /\ lane.found.index \subseteq Lane /\ lane.found.work \subseteq Lane
  /\ call.at \in {"idle"} \union RebasePlaces
  /\ call.at \in {"rebase", "collide", "run"} => co = lane.found
  /\ call.at \notin {"idle", "rebase"} => call.before = lane.found
  /\ call.at \notin {"idle", "rebase", "collide"} => ignored.path \notin call.onto
  /\ call.at \in {"verify", "regenerate", "land"} => co.head = Moved
  /\ call.at = "regenerate" => call.new = Moved
  /\ call.at \in {"land", "landed"} => call.new \ {"generated"} = Moved
  /\ call.at \in Giving => call.why \in Refusals \union {"cleanup-unproven"}

RebaseEnded ==
  /\ call.result = "none" => co = lane.found
  /\ call.result = "green" =>
       Clean(co) /\ co.onBranch /\ co.busy = {} /\ co.head \ {"generated"} = Moved
  /\ call.result \in Refusals =>
       /\ sameCheckout(lane.found, co)
       /\ UnderWay => "rebase" \in lane.found.busy

\* A finish that rebased has its commits on the base alone, one that did not has none of upstream.
BeforeRestore ==
  /\ call.result = "green" => Clean(co) /\ co.head \ {"generated"} = Moved
  /\ call.result \in Refusals => co.index \subseteq Lane

NoUpstream ==
  call.result \notin {"cleanup-unproven", "unverified"} => (co.index \ co.head) \intersect Upstream = {}

PlaceInv ==
  /\ call.at # "idle" => call.result = "none" /\ lane.stage \in {"commit", "rebase"}
  /\ BeforeCommit
  /\ lane.stage = "commit" => InCommit /\ (call.at = "idle" => CommitEnded)
  /\ lane.stage = "rebase" => InRebase /\ (call.at = "idle" => RebaseEnded)
  /\ lane.stage = "publish" => Clean(co)
  /\ lane.stage = "restore" => call.result # "none" /\ BeforeRestore
  /\ lane.stage = "done" => NoUpstream

CheckoutInv == CheckoutType /\ Unharmed /\ PlaceInv

DeliveryInv == SuiteInv /\ ProofInv /\ RequestInv /\ CheckoutInv

-----------------------------------------------------------------------------
(* A suite run's step                                                      *)

\* What an end is called: only an exit nobody disturbed by time or size is green or red.
LEMMA Classified ==
  ASSUME NEW r \in RunStates
  PROVE  /\ classify(r, "unproven") = "cleanup-unproven"
         /\ classify(r, "proven") \in {"timeout", "output-limit", "green", "red", "signal"}
         /\ classify(r, "proven") = "green" => ~r.timedOut /\ ~r.overflow /\ procs.code = "zero"
         /\ classify(r, "proven") = "red" => ~r.timedOut /\ ~r.overflow /\ procs.code = "nonzero"
<1>1. r.timedOut \in BOOLEAN /\ r.overflow \in BOOLEAN
  BY DEF RunStates
<1> QED
  BY <1>1 DEF classify

\* A run that starts is undisturbed; one that does not start is neither green nor red.
LEMMA SpawnStep == SuiteInv /\ Spawn => SuiteInv'
<1> SUFFICES ASSUME SuiteInv, Spawn PROVE SuiteInv'
  OBVIOUS
<1> USE DEF SuiteInv, ProcStates, RunStates, Members, Codes, Verdicts
<1>1. procs = NoProcs
  BY DEF Spawn, StopCause
<1>2. procs' \in ProcStates /\ runner' \in RunStates
  <2>1. CASE runner' = [runner EXCEPT !.phase = "running"]
    <3>1. runner' \in RunStates
      BY <2>1
    <3>2. procs' \in {[procs EXCEPT !.group = {"leader"}, !.piped = {"leader"}], procs}
      BY DEF Spawn
    <3> QED
      BY <3>1, <3>2
  <2>2. CASE runner' = [runner EXCEPT !.phase = "settled", !.status = "spawn-error"]
    BY <1>1, <2>2 DEF Spawn, NoProcs
  <2> QED
    BY <2>1, <2>2 DEF Spawn
<1>3. LeaderLeft'
  BY <1>1 DEF Spawn, NoProcs, LeaderLeft
<1>4. StopCause'
  BY <1>1 DEF Spawn, NoProcs, StopCause
<1>5. Earned'
  BY <1>1 DEF Spawn, NoProcs, Earned, StopCause
<1> QED
  BY <1>2, <1>3, <1>4, <1>5

\* The deadline and the output limit stop the run, and no end is green or red after them.
LEMMA StopStep == SuiteInv /\ (Deadline \/ Overflow) => SuiteInv'
<1> SUFFICES ASSUME SuiteInv, Deadline \/ Overflow PROVE SuiteInv'
  OBVIOUS
<1> USE DEF SuiteInv, ProcStates, RunStates, Members, Codes, Verdicts
<1>1. procs' = procs
  BY DEF Deadline, Overflow
<1>2. /\ runner' \in RunStates /\ runner'.status = runner.status
      /\ runner.phase \in {"running", "term", "kill"} /\ runner'.phase \in {"term", "kill"}
      /\ runner'.timedOut \/ runner'.overflow
  BY DEF Deadline, Overflow, stop, Armed, Listening
<1>3. LeaderLeft' /\ StopCause' /\ Earned'
  BY <1>1, <1>2 DEF LeaderLeft, StopCause, Earned
<1> QED
  BY <1>1, <1>2, <1>3

\* A close that finds nobody left settles the run by the leader's own exit.
LEMMA ClosesStep == SuiteInv /\ Closes => SuiteInv'
<1> SUFFICES ASSUME SuiteInv, Closes PROVE SuiteInv'
  OBVIOUS
<1> DEFINE r == [runner EXCEPT !.closed = TRUE]
<1>1. procs' = procs /\ runner.phase \in {"running", "term", "kill"} /\ procs.code # "none"
  BY DEF Closes, Listening
<1>2. /\ r \in RunStates /\ r.phase = runner.phase /\ r.timedOut = runner.timedOut
      /\ r.overflow = runner.overflow /\ r.status = "none"
  BY <1>1 DEF SuiteInv, StopCause, RunStates
<1>3. runner' = IF r.phase # "running" THEN r
                ELSE IF groupDead THEN settle(r, "proven") ELSE [r EXCEPT !.phase = "term"]
  BY <1>1, <1>2 DEF Closes, stop
<1> HIDE DEF r
<1>4. CASE runner.phase # "running"
  BY <1>1, <1>2, <1>3, <1>4 DEF SuiteInv, StopCause, Earned, LeaderLeft
<1>5. CASE runner.phase = "running" /\ ~groupDead
  <2>1. runner' = [r EXCEPT !.phase = "term"]
    BY <1>2, <1>3, <1>5
  <2>2. runner' \in RunStates /\ runner'.phase = "term" /\ runner'.status = "none"
    BY <1>2, <2>1 DEF RunStates
  <2> QED
    BY <1>1, <1>5, <2>2 DEF SuiteInv, StopCause, Earned, LeaderLeft
<1>6. CASE runner.phase = "running" /\ groupDead
  <2>1. runner' = [r EXCEPT !.phase = "settled", !.status = classify(r, "proven")]
    BY <1>2, <1>3, <1>6 DEF settle
  <2>2. classify(r, "proven") \in {"timeout", "output-limit", "green", "red", "signal"}
    BY <1>2, Classified
  <2>3. /\ runner' \in RunStates /\ runner'.phase = "settled"
        /\ runner'.status = classify(r, "proven")
    BY <1>2, <2>1, <2>2 DEF RunStates, Verdicts
  <2>4. Earned'
    BY <1>1, <1>2, <1>6, <2>3, Classified DEF SuiteInv, StopCause, Earned, groupDead
  <2> QED
    BY <1>1, <1>6, <2>3, <2>4 DEF SuiteInv, StopCause, LeaderLeft
<1> QED
  BY <1>1, <1>4, <1>5, <1>6

\* The teardown settles a run by its code only if nobody stopped it, and nobody is left.
LEMMA ReapStep == SuiteInv /\ Reap => SuiteInv'
<1> SUFFICES ASSUME SuiteInv, Reap PROVE SuiteInv'
  OBVIOUS
<1>1. procs' = procs /\ runner.phase \in {"term", "kill"} /\ runner \in RunStates
  BY DEF Reap, SuiteInv
<1>2. CASE reaped
  <2>1. runner' = [runner EXCEPT !.phase = "settled", !.status = classify(runner, "proven")]
    BY <1>2 DEF settle, Reap
  <2>2. classify(runner, "proven") \in {"timeout", "output-limit", "green", "red", "signal"}
    BY <1>1, Classified
  <2>3. /\ runner' \in RunStates /\ runner'.phase = "settled"
        /\ runner'.status = classify(runner, "proven")
    BY <1>1, <2>1, <2>2 DEF RunStates, Verdicts
  <2>4. Earned'
    BY <1>1, <1>2, <2>3, Classified DEF SuiteInv, StopCause, Earned, reaped
  <2> QED
    BY <1>1, <2>3, <2>4 DEF SuiteInv, StopCause, LeaderLeft
<1>3. CASE ~reaped /\ runner.phase = "term"
  <2>1. runner' \in RunStates /\ runner' = [runner EXCEPT !.phase = "kill"]
    BY <1>1, <1>3 DEF Reap, RunStates
  <2> QED
    BY <1>1, <1>3, <2>1 DEF SuiteInv, StopCause, LeaderLeft, Earned, RunStates
<1>4. CASE ~reaped /\ runner.phase = "kill"
  <2>1. runner' = [runner EXCEPT !.phase = "settled", !.status = "cleanup-unproven"]
    BY <1>1, <1>4, Classified DEF Reap, settle
  <2>2. runner' \in RunStates /\ runner'.phase = "settled" /\ runner'.status = "cleanup-unproven"
    BY <1>1, <2>1 DEF RunStates, Verdicts
  <2> QED
    BY <1>1, <2>2 DEF SuiteInv, StopCause, LeaderLeft, Earned
<1> QED
  BY <1>1, <1>2, <1>3, <1>4

\* A leader exits once, and undisturbed only while nobody stops the run.
LEMMA ProcessStep == SuiteInv /\ Processes => SuiteInv'
<1> SUFFICES ASSUME SuiteInv, Processes PROVE SuiteInv'
  OBVIOUS
<1> USE DEF SuiteInv
<1>1. runner' = runner
  BY DEF Processes, LeaderExits, ChildStarts, ChildEnds, Escapes, LetsGo
<1>2. procs' \in ProcStates
  <2> USE DEF ProcStates, Members, Codes
  <2>1. CASE LeaderExits
    BY <2>1 DEF LeaderExits
  <2>2. CASE ChildStarts
    BY <2>2 DEF ChildStarts
  <2>3. CASE ChildEnds
    BY <2>3 DEF ChildEnds
  <2>4. CASE Escapes
    BY <2>4 DEF Escapes
  <2>5. CASE LetsGo
    BY <2>5 DEF LetsGo
  <2> QED
    BY <2>1, <2>2, <2>3, <2>4, <2>5 DEF Processes
<1>3. CASE LeaderExits
  <2>1. PICK code \in Codes :
          procs' = [group |-> procs.group \ {"leader"}, piped |-> procs.piped \ {"leader"},
                    code |-> code, undisturbed |-> runner.phase = "running"]
    BY <1>3 DEF LeaderExits
  <2>2. /\ procs'.group = procs.group \ {"leader"} /\ procs'.code = code
        /\ procs'.undisturbed <=> runner.phase = "running"
    BY <2>1
  <2>3. procs.code = "none" /\ "leader" \in procs.group
    BY <1>3 DEF LeaderExits, LeaderLeft
  <2>4. runner.phase # "idle"
    BY <2>3 DEF StopCause, NoProcs
  <2> QED
    BY <1>1, <1>2, <2>2, <2>3, <2>4 DEF LeaderLeft, StopCause, Earned
<1>4. CASE ~LeaderExits
  <2> DEFINE Stays == /\ procs'.code = procs.code /\ (procs'.undisturbed <=> procs.undisturbed)
                      /\ procs'.group \subseteq procs.group \union {"child"}
                      /\ procs.group = {} => procs'.group = {}
                      /\ procs # NoProcs
  <2> USE DEF ProcStates, NoProcs
  <2>1. ChildStarts => Stays
    BY DEF ChildStarts
  <2>2. ChildEnds => Stays
    BY DEF ChildEnds
  <2>3. Escapes => Stays
    BY DEF Escapes
  <2>4. LetsGo => Stays
    BY DEF LetsGo
  <2>5. Stays
    BY <1>4, <2>1, <2>2, <2>3, <2>4 DEF Processes
  <2> QED
    BY <1>1, <1>2, <2>5 DEF LeaderLeft, StopCause, Earned
<1> QED
  BY <1>3, <1>4

\* Whatever moves a suite run, its verdict stays earned.
LEMMA SuiteStep ==
  SuiteInv /\ (Spawn \/ Deadline \/ Overflow \/ Closes \/ Reap \/ Processes) => SuiteInv'
BY SpawnStep, StopStep, ClosesStep, ReapStep, ProcessStep

\* A run that is taken leaves the runner as it was before any.
LEMMA FreshSuite == procs' = NoProcs /\ runner' = NewRun => SuiteInv'
BY DEF SuiteInv, ProcStates, RunStates, LeaderLeft, StopCause, Earned, NoProcs, NewRun,
       Members, Codes, Verdicts

\* So does whatever leaves the runner alone.
LEMMA SameSuite == SuiteInv /\ UNCHANGED suite => SuiteInv'
BY DEF SuiteInv, LeaderLeft, StopCause, Earned, suite

-----------------------------------------------------------------------------
(* A step of the proof                                                     *)

\* After a run comes another, or the weighing.
LEMMA AfterRuns == \A run \in Runs : After(run) \in Runs \union {"weigh"}
BY DEF Runs, After

\* What is seen of a run are rows; a run that was cut short spoils all of its own,
\* and no row that was spoiled before is cleared.
LEMMA SeenRows ==
  ASSUME NEW run \in Runs, proof.rows \in [Tests -> Row],
         NEW seen \in [Due(run) -> States(Side(run))]
  PROVE  /\ Seen(run, seen) \in [Tests -> Row]
         /\ \A t \in Tests : proof.rows[t].reason # "none" => Seen(run, seen)[t].reason # "none"
         /\ ~Measured => \A t \in Due(run) : Seen(run, seen)[t].reason # "none"
<1>1. CASE Side(run) = "base"
  <2>1. \A t \in Due(run) : seen[t] \in {"red", "other"}
    BY <1>1 DEF States
  <2>2. ASSUME NEW t \in Tests
        PROVE  /\ Seen(run, seen)[t] \in Row
               /\ proof.rows[t].reason # "none" => Seen(run, seen)[t].reason # "none"
               /\ ~Measured /\ t \in Due(run) => Seen(run, seen)[t].reason # "none"
    <3>1. Seen(run, seen)[t] =
            CASE t \notin Due(run) -> proof.rows[t]
              [] t \in Due(run) /\ Measured -> [proof.rows[t] EXCEPT !.base = seen[t]]
              [] OTHER -> [proof.rows[t] EXCEPT !.base = "other", !.reason = "cut"]
      BY <1>1 DEF Seen
    <3>2. proof.rows[t] \in Row
      OBVIOUS
    <3>3. CASE t \notin Due(run)
      BY <3>1, <3>2, <3>3
    <3>4. CASE t \in Due(run) /\ Measured
      <4>1. Seen(run, seen)[t] = [proof.rows[t] EXCEPT !.base = seen[t]]
        BY <3>1, <3>4
      <4> QED
        BY <2>1, <3>2, <3>4, <4>1 DEF Row
    <3>5. CASE t \in Due(run) /\ ~Measured
      <4>1. Seen(run, seen)[t] = [proof.rows[t] EXCEPT !.base = "other", !.reason = "cut"]
        BY <3>1, <3>5
      <4> QED
        BY <3>2, <3>5, <4>1 DEF Row
    <3> QED
      BY <3>3, <3>4, <3>5
  <2>3. Due(run) \subseteq Tests
    BY DEF Due, Tests, Filed, Declared
  <2>4. Seen(run, seen) = [t \in Tests |-> Seen(run, seen)[t]]
    BY Zenon DEF Seen
  <2> QED
    BY <2>2, <2>3, <2>4
<1>2. CASE Side(run) = "build"
  <2>1. \A t \in Due(run) : seen[t] \in {"green", "other"}
    BY <1>2 DEF States
  <2>2. ASSUME NEW t \in Tests
        PROVE  /\ Seen(run, seen)[t] \in Row
               /\ proof.rows[t].reason # "none" => Seen(run, seen)[t].reason # "none"
               /\ ~Measured /\ t \in Due(run) => Seen(run, seen)[t].reason # "none"
    <3>1. Seen(run, seen)[t] =
            CASE t \notin Due(run) -> proof.rows[t]
              [] t \in Due(run) /\ Measured -> [proof.rows[t] EXCEPT !.build = seen[t]]
              [] OTHER -> [proof.rows[t] EXCEPT !.build = "other", !.reason = "cut"]
      BY <1>2 DEF Seen
    <3>2. proof.rows[t] \in Row
      OBVIOUS
    <3>3. CASE t \notin Due(run)
      BY <3>1, <3>2, <3>3
    <3>4. CASE t \in Due(run) /\ Measured
      <4>1. Seen(run, seen)[t] = [proof.rows[t] EXCEPT !.build = seen[t]]
        BY <3>1, <3>4
      <4> QED
        BY <2>1, <3>2, <3>4, <4>1 DEF Row
    <3>5. CASE t \in Due(run) /\ ~Measured
      <4>1. Seen(run, seen)[t] = [proof.rows[t] EXCEPT !.build = "other", !.reason = "cut"]
        BY <3>1, <3>5
      <4> QED
        BY <3>2, <3>5, <4>1 DEF Row
    <3> QED
      BY <3>3, <3>4, <3>5
  <2>3. Due(run) \subseteq Tests
    BY DEF Due, Tests, Filed, Declared
  <2>4. Seen(run, seen) = [t \in Tests |-> Seen(run, seen)[t]]
    BY Zenon DEF Seen
  <2> QED
    BY <2>2, <2>3, <2>4
<1> QED
  BY <1>1, <1>2 DEF Side

\* Every step of a proof keeps what is said of it and of its runs.
LEMMA ProvingStep ==
  SuiteInv /\ ProofInv /\ lane.stage = "proof" /\ Proving =>
    /\ SuiteInv' /\ proof' \in ProofStates /\ Spoiled' /\ TakenAway'
    /\ runner'.phase # "idle" => ProofRuns'
<1> SUFFICES ASSUME SuiteInv, ProofInv, lane.stage = "proof", Proving
             PROVE  /\ SuiteInv' /\ proof' \in ProofStates /\ Spoiled' /\ TakenAway'
                    /\ runner'.phase # "idle" => ProofRuns'
  OBVIOUS
<1> DEFINE Goal == /\ proof' \in ProofStates /\ Spoiled' /\ TakenAway'
                   /\ runner'.phase # "idle" => ProofRuns'
<1>0. proof \in ProofStates /\ (runner.phase # "idle" => ProofRuns) /\ Spoiled /\ TakenAway
  BY DEF ProofInv, RunFor
<1>00. proof.at \notin Runs => runner.phase = "idle"
  BY <1>0 DEF ProofRuns
<1>1. CASE AddWorktree
  <2>1. procs' = procs /\ runner' = runner /\ proof.at = "add"
    BY <1>1 DEF AddWorktree, suite
  <2>2. proof' \in ProofStates
    BY <1>0, <1>1 DEF AddWorktree, ProofStates
  <2>3. ~proof.cut /\ proof'.cut = proof.cut /\ proof'.at # "done"
    BY <1>0, <1>1 DEF AddWorktree, Spoiled, ProofStates
  <2>4. proof'.at # "remove" => proof'.result = proof.result
    BY <1>0, <1>1 DEF AddWorktree, ProofStates
  <2>5. Goal
    BY <1>0, <1>00, <2>1, <2>2, <2>3, <2>4 DEF Spoiled, TakenAway, Runs
  <2> QED
    BY <2>1, <2>5, SameSuite DEF suite
<1>2. CASE ReadProject
  <2>1. procs' = procs /\ runner' = runner /\ proof.at = "read"
    BY <1>2 DEF ReadProject, suite
  <2>2. proof' \in ProofStates
    <3>1. NotRun \in Row /\ [NotRun EXCEPT !.reason = "refused"] \in Row
      BY DEF NotRun, Row
    <3>2. CASE proof' = [proof EXCEPT !.at = "remove", !.result = "unmeasured"]
      BY <1>0, <3>2 DEF ProofStates
    <3>3. ASSUME NEW refused \in SUBSET Tests,
                 proof' = [proof EXCEPT !.at = "setup",
                      !.rows = [t \in Tests |-> IF t \in refused
                                  THEN [NotRun EXCEPT !.reason = "refused"] ELSE NotRun]]
          PROVE  proof' \in ProofStates
      <4>1. PICK rows : rows = [t \in Tests |-> IF t \in refused
                                  THEN [NotRun EXCEPT !.reason = "refused"] ELSE NotRun]
        OBVIOUS
      <4>2. rows \in [Tests -> Row]
        BY <3>1, <4>1
      <4> QED
        BY <1>0, <3>3, <4>1, <4>2 DEF ProofStates, Runs
    <3> QED
      BY <1>2, <3>2, <3>3 DEF ReadProject, Leave
  <2>3. ~proof.cut /\ proof'.cut = proof.cut /\ proof'.at # "done"
    BY <1>0, <1>2 DEF ReadProject, Leave, Spoiled, ProofStates
  <2>4. proof'.at # "remove" => proof'.result = proof.result
    BY <1>0, <1>2 DEF ReadProject, Leave, ProofStates
  <2>5. Goal
    BY <1>0, <1>00, <2>1, <2>2, <2>3, <2>4 DEF Spoiled, TakenAway, Runs
  <2> QED
    BY <2>1, <2>5, SameSuite DEF suite
<1>3. CASE PassOver
  <2>1. procs' = procs /\ runner' = runner /\ runner.phase = "idle" /\ proof.at \in Runs
    BY <1>3 DEF PassOver, suite
  <2>2. proof' = [proof EXCEPT !.at = After(proof.at)] /\ After(proof.at) \in Runs \union {"weigh"}
    BY <1>3, <2>1, AfterRuns DEF PassOver
  <2>3. /\ proof' \in ProofStates /\ proof'.at \in Runs \union {"weigh"} /\ proof'.cut = proof.cut
        /\ proof'.rows = proof.rows /\ proof'.result = proof.result
    BY <1>0, <2>2 DEF ProofStates
  <2>4. Goal
    BY <1>0, <2>1, <2>3 DEF Spoiled, TakenAway, Runs
  <2> QED
    BY <2>1, <2>4, SameSuite DEF suite
<1>4. CASE TakeRun
  <2>1. procs' = NoProcs /\ runner' = NewRun /\ proof.at \in Runs /\ runner.phase = "settled"
    BY <1>4 DEF TakeRun
  <2>2. PICK seen \in [Due(proof.at) -> States(Side(proof.at))] :
          proof' = [proof EXCEPT !.at = After(@), !.rows = Seen(proof.at, seen),
                                 !.cut = @ \/ ~Measured]
    BY <1>4 DEF TakeRun
  <2>3. PICK rows : rows = Seen(proof.at, seen)
    OBVIOUS
  <2>4. PICK at \in Runs \union {"weigh"} : at = After(proof.at)
    BY <2>1, AfterRuns
  <2>5. /\ rows \in [Tests -> Row]
        /\ \A t \in Tests : proof.rows[t].reason # "none" => rows[t].reason # "none"
        /\ ~Measured => \A t \in Due(proof.at) : rows[t].reason # "none"
    BY <1>0, <2>1, <2>3, SeenRows DEF ProofStates
  <2>6. Due(proof.at) # {} /\ Due(proof.at) \subseteq Tests
    BY <1>0, <2>1 DEF ProofRuns, Due, Tests, Filed, Declared
  <2>7. proof' = [proof EXCEPT !.at = at, !.rows = rows, !.cut = proof.cut \/ ~Measured]
    BY <2>2, <2>3, <2>4
  <2>8. (proof.cut \/ ~Measured) \in BOOLEAN
    BY <1>0 DEF ProofStates, Measured
  <2>9. /\ proof' \in ProofStates /\ proof'.at = at /\ proof'.rows = rows
        /\ proof'.result = proof.result /\ (proof'.cut <=> proof.cut \/ ~Measured)
    BY <1>0, <2>5, <2>7, <2>8 DEF ProofStates
  <2>10. Goal
    BY <1>0, <2>1, <2>5, <2>6, <2>9 DEF Spoiled, TakenAway, Runs, NewRun
  <2> QED
    BY <2>1, <2>10, FreshSuite
<1>5. CASE TakeSetup
  <2>1. procs' = NoProcs /\ runner' = NewRun /\ proof.at = "setup"
    BY <1>5 DEF TakeSetup
  <2>2. \/ proof' = [proof EXCEPT !.at = "declared-base"]
        \/ proof' = [proof EXCEPT !.at = "remove", !.result = "unmeasured"]
    BY <1>5, <2>1 DEF TakeSetup, Leave, After
  <2>3. /\ proof' \in ProofStates /\ proof'.at \in {"declared-base", "remove"}
        /\ proof'.cut = proof.cut /\ proof'.rows = proof.rows
        /\ proof'.result \in {proof.result, "unmeasured"}
        /\ proof'.at # "remove" => proof'.result = proof.result
    BY <1>0, <2>2 DEF ProofStates, Runs
  <2>4. Goal
    BY <1>0, <2>1, <2>3 DEF Spoiled, TakenAway, Runs, NewRun
  <2> QED
    BY <2>1, <2>4, FreshSuite
<1>6. CASE Weigh
  <2>1. procs' = procs /\ runner' = runner /\ proof.at = "weigh"
    BY <1>6 DEF Weigh, suite
  <2>2. \E result \in {"green", "red"} :
          /\ proof' = [proof EXCEPT !.at = "remove", !.result = result]
          /\ result = "green" => \A t \in Tests : proof.rows[t].reason = "none"
    BY <1>6 DEF Weigh, Leave
  <2>3. PICK result \in {"green", "red"} :
          /\ proof' = [proof EXCEPT !.at = "remove", !.result = result]
          /\ result = "green" => \A t \in Tests : proof.rows[t].reason = "none"
    BY <2>2
  <2>4. /\ proof' \in ProofStates /\ proof'.at = "remove" /\ proof'.cut = proof.cut
        /\ proof'.rows = proof.rows /\ proof'.result = result
    BY <1>0, <2>3 DEF ProofStates
  <2>5. Goal
    BY <1>0, <1>00, <2>1, <2>3, <2>4 DEF Spoiled, TakenAway, Runs
  <2> QED
    BY <2>1, <2>5, SameSuite DEF suite
<1>7. CASE RemoveWorktree
  <2>1. procs' = procs /\ runner' = runner /\ proof.at = "remove"
    BY <1>7 DEF RemoveWorktree, suite
  <2>2. /\ proof' \in ProofStates /\ proof'.at = "done" /\ proof'.cut = proof.cut
        /\ proof'.rows = proof.rows /\ proof'.result \in {proof.result, "cleanup-unproven"}
        /\ proof'.added = proof.added
    BY <1>0, <1>7 DEF RemoveWorktree, Removed, Kept, ProofStates
  <2>3. proof.added /\ proof'.result # "cleanup-unproven" => ~proof'.registered /\ ~proof'.path
    BY <1>0, <1>7 DEF RemoveWorktree, Removed, Kept, ProofStates
  <2>4. Goal
    BY <1>0, <1>00, <2>1, <2>2, <2>3 DEF Spoiled, TakenAway, Runs
  <2> QED
    BY <2>1, <2>4, SameSuite DEF suite
<1> QED
  BY <1>1, <1>2, <1>3, <1>4, <1>5, <1>6, <1>7 DEF Proving

-----------------------------------------------------------------------------
(* A step of openPullRequest, and of the others                            *)

\* The publisher opens a request only where none has been open since before its call.
LEMMA PublisherStep ==
  RequestInv /\ Publisher =>
    RequestInv' /\ \A r \in remote'.open \ remote.open : r.by = "lane" => standing = {}
<1> SUFFICES ASSUME RequestInv, Publisher
             PROVE  RequestInv' /\ \A r \in remote'.open \ remote.open : r.by = "lane" => standing = {}
  OBVIOUS
<1> DEFINE Same == remote' = remote /\ standing' = standing
<1>1. remote \in [branch : {"absent", "lane", "other"}, open : SUBSET Requests] /\ pub \in PubStates
  BY DEF RequestInv
<1>2. standing \subseteq remote.open
  BY DEF RequestInv, NoneBefore
<1>3. CASE Same /\ pub' \in PubStates /\ (pub'.at \in {"head", "push", "pushed", "text"} =>
             pub.at \in {"head", "push", "pushed", "text"} /\ pub'.found = pub.found)
  BY <1>1, <1>3 DEF RequestInv, NoneBefore
<1>4. CASE OpenPullRequest
  <2>1. remote' = remote /\ standing' = remote.open
    BY <1>4 DEF OpenPullRequest
  <2>2. pub' \in PubStates /\ pub'.at \in {"idle", "query"}
    BY <1>1, <1>4 DEF OpenPullRequest, Answer, Then, Quiet, PubStates
  <2> QED
    BY <1>1, <2>1, <2>2 DEF RequestInv, NoneBefore
<1>5. CASE Query
  <2>1. Same
    BY <1>5 DEF Query, Ask
  <2>2. \/ pub' = Quiet("pr-unmeasured")
        \/ \E found \in SUBSET Requests :
             /\ pub' = [pub EXCEPT !.at = "head", !.found = found]
             /\ found = {} => remote.open = {}
    BY <1>1, <1>5 DEF Query, Answer, openPrs
  <2>3. CASE pub' = Quiet("pr-unmeasured")
    BY <1>3, <2>1, <2>3 DEF Quiet, PubStates
  <2>4. CASE pub' # Quiet("pr-unmeasured")
    <3>1. PICK found \in SUBSET Requests :
             /\ pub' = [pub EXCEPT !.at = "head", !.found = found]
             /\ found = {} => remote.open = {}
      BY <2>2, <2>4
    <3>2. pub' \in PubStates /\ pub'.found = found
      BY <1>1, <3>1 DEF PubStates
    <3> QED
      BY <1>1, <1>2, <2>1, <3>1, <3>2 DEF RequestInv, NoneBefore
  <2> QED
    BY <2>3, <2>4
<1>6. CASE RemoteHead \/ Pushed \/ Edit
  <2>1. Same
    BY <1>6 DEF RemoteHead, Pushed, Edit, Ask
  <2>2. pub' \in PubStates /\ (pub'.at # "idle" =>
             pub.at \in {"head", "push", "pushed", "text"} /\ pub'.found = pub.found)
    BY <1>1, <1>6 DEF RemoteHead, Pushed, Edit, Answer, Then, Quiet, PubStates
  <2> QED
    BY <1>3, <2>1, <2>2
<1>7. CASE Push
  <2>1. pub' \in PubStates /\ pub.at = "push" /\ pub'.found = pub.found /\ standing' = standing
    BY <1>1, <1>7 DEF Push, Then, PubStates
  <2>2. /\ remote' \in [branch : {"absent", "lane", "other"}, open : SUBSET Requests]
        /\ remote'.open = remote.open
    BY <1>1, <1>7 DEF Push
  <2> QED
    BY <1>1, <1>2, <2>1, <2>2 DEF RequestInv, NoneBefore
<1>8. CASE Create
  <2>1. pub' \in PubStates /\ pub'.at = "created" /\ standing' = standing
    BY <1>1, <1>8 DEF Create, Then, PubStates
  <2>2. standing = {}
    BY <1>8 DEF Create, RequestInv, NoneBefore
  <2>3. Request("base", "lane") \in Requests
    BY DEF Request, Requests, Bases
  <2>4. remote' \in [branch : {"absent", "lane", "other"}, open : SUBSET Requests]
    BY <1>1, <1>8, <2>3 DEF Create
  <2> QED
    BY <2>1, <2>2, <2>4 DEF RequestInv, NoneBefore
<1>9. CASE Created
  <2>1. Same /\ pub' \in PubStates /\ pub'.at = "idle"
    BY <1>1, <1>9 DEF Created, Ask, Answer, Quiet, PubStates
  <2> QED
    BY <1>3, <2>1
<1> QED
  BY <1>4, <1>5, <1>6, <1>7, <1>8, <1>9 DEF Publisher

\* What others close, open or push takes from what has been open, and adds none of the lane's.
LEMMA OthersStep ==
  RequestInv /\ Others =>
    RequestInv' /\ \A r \in remote'.open \ remote.open : r.by = "lane" => standing = {}
<1> SUFFICES ASSUME RequestInv, Others
             PROVE  RequestInv' /\ \A r \in remote'.open \ remote.open : r.by = "lane" => standing = {}
  OBVIOUS
<1>1. remote \in [branch : {"absent", "lane", "other"}, open : SUBSET Requests] /\ pub \in PubStates
  BY DEF RequestInv
<1>2. pub' = pub
  BY DEF Others
<1>3. CASE \E r \in remote.open :
             remote' = [remote EXCEPT !.open = @ \ {r}] /\ standing' = standing \ {r}
  <2>1. PICK r \in remote.open :
             remote' = [remote EXCEPT !.open = remote.open \ {r}] /\ standing' = standing \ {r}
    BY <1>3
  <2>2. /\ remote' \in [branch : {"absent", "lane", "other"}, open : SUBSET Requests]
        /\ remote'.open = remote.open \ {r}
    BY <1>1, <2>1
  <2> QED
    BY <1>1, <1>2, <2>1, <2>2 DEF RequestInv, NoneBefore
<1>4. CASE \E base \in Bases :
             /\ remote' = [remote EXCEPT !.open = @ \union {Request(base, "others")}]
             /\ UNCHANGED standing
  <2>1. PICK base \in Bases :
             /\ remote' = [remote EXCEPT !.open = remote.open \union {Request(base, "others")}]
             /\ UNCHANGED standing
    BY <1>4
  <2>2. PICK r : r = Request(base, "others")
    OBVIOUS
  <2>3. r \in Requests /\ r.by = "others"
    BY <2>2 DEF Request, Requests
  <2>4. /\ remote' \in [branch : {"absent", "lane", "other"}, open : SUBSET Requests]
        /\ remote'.open = remote.open \union {r}
    BY <1>1, <2>1, <2>2, <2>3
  <2> QED
    BY <1>1, <1>2, <2>1, <2>3, <2>4 DEF RequestInv, NoneBefore
<1>5. CASE remote' = [remote EXCEPT !.branch = "other"] /\ UNCHANGED standing
  <2>1. /\ remote' \in [branch : {"absent", "lane", "other"}, open : SUBSET Requests]
        /\ remote'.open = remote.open
    BY <1>1, <1>5
  <2> QED
    BY <1>1, <1>2, <1>5, <2>1 DEF RequestInv, NoneBefore
<1> QED
  BY <1>3, <1>4, <1>5 DEF Others

\* A call that begins asks afresh.
LEMMA CallPublishStep == RequestInv /\ CallPublish => RequestInv'
<1> SUFFICES ASSUME RequestInv, CallPublish PROVE RequestInv'
  OBVIOUS
<1>1. remote' = remote /\ standing' = standing
  BY DEF CallPublish
<1>2. pub' \in PubStates /\ pub'.at \in {"publish", "idle"}
  BY DEF CallPublish, Then, RequestInv, PubStates
<1> QED
  BY <1>1, <1>2 DEF RequestInv, NoneBefore

-----------------------------------------------------------------------------
(* A step of a git call                                                    *)

\* One checkout is another, but for a lock that may have been left.
Like(c, d) ==
  /\ c.head = d.head /\ c.index = d.index /\ c.work = d.work /\ c.onBranch = d.onBranch
  /\ d.busy \subseteq c.busy /\ c.busy \subseteq d.busy \union {"lock"}

\* A command that puts nothing over the ignored file leaves it, green or not.
LEMMA Becoming ==
  ASSUME CheckoutType, Unharmed, NEW new \in CheckoutStates, ignored.path \notin new.work,
         Becomes(new) \/ Fails(new)
  PROVE  /\ co' \in CheckoutStates /\ Unharmed' /\ ignored'.path = ignored.path
         /\ ignored' \in [path : Upstream \union {"generated", "none"}, kept : BOOLEAN]
         /\ origin' = origin
         /\ Becomes(new) => co' = new
         /\ Like(co', co) \/ Like(co', new)
<1>1. PICK c \in CheckoutStates :
         Becomes(c) /\ c.work \in {co.work, new.work} /\ (Like(c, co) \/ Like(c, new))
  <2>1. CASE Becomes(new)
    BY <2>1 DEF Like
  <2>2. ASSUME NEW d \in {co, new}, Becomes(d) \/ Becomes(Locked(d))
        PROVE  \E c \in CheckoutStates :
                 Becomes(c) /\ c.work \in {co.work, new.work} /\ (Like(c, co) \/ Like(c, new))
    <3>1. d \in CheckoutStates
      BY DEF CheckoutType
    <3>2. CASE Becomes(d)
      BY <3>1, <3>2 DEF Like
    <3>3. CASE Becomes(Locked(d))
      <4>1. PICK e : e = Locked(d)
        OBVIOUS
      <4>2. e \in CheckoutStates /\ e.work = d.work /\ Like(e, d)
        BY <3>1, <4>1 DEF Locked, CheckoutStates, Like
      <4> QED
        BY <3>3, <4>1, <4>2
    <3> QED
      BY <2>2, <3>2, <3>3
  <2> QED
    BY <2>1, <2>2 DEF Fails
<1>2. co' = c /\ origin' = origin
  BY <1>1 DEF Becomes
<1>3. /\ ignored' \in [path : Upstream \union {"generated", "none"}, kept : BOOLEAN]
      /\ ignored'.path = ignored.path /\ ignored'.kept
  BY <1>1 DEF Becomes, CheckoutType, Unharmed
<1>4. Unharmed'
  BY <1>1, <1>2, <1>3 DEF Unharmed
<1> QED
  BY <1>1, <1>2, <1>3, <1>4 DEF Becomes

\* What a checkout without a base is compared with is one, or nothing.
LEMMA BeforeTypes == {} \in Befores /\ CheckoutStates \subseteq Befores
BY DEF Befores

\* What a step of a call does to it.
LEMMA CallType ==
  ASSUME call \in CallStates
  PROVE  /\ \A at \in {"idle"} \union CommitPlaces \union RebasePlaces :
              Go(at) => /\ call' \in CallStates /\ call'.at = at /\ call'.before = call.before
                        /\ call'.onto = call.onto /\ call'.new = call.new /\ call'.why = call.why
                        /\ call'.result = call.result
         /\ \A result \in Refusals \union {"none", "green", "cleanup-unproven", "unverified"} :
              Return(result) => /\ call' \in CallStates /\ call'.at = "idle"
                                /\ call'.onto = call.onto /\ call'.result = result
<1>1. call.before \in Befores
  BY DEF CallStates
<1>2. ASSUME NEW at \in {"idle"} \union CommitPlaces \union RebasePlaces, Go(at)
      PROVE  /\ call' \in CallStates /\ call'.at = at /\ call'.before = call.before
             /\ call'.onto = call.onto /\ call'.new = call.new /\ call'.why = call.why
             /\ call'.result = call.result
  BY <1>2 DEF Go, CallStates
<1>3. ASSUME NEW result \in Refusals \union {"none", "green", "cleanup-unproven", "unverified"},
             Return(result)
      PROVE  /\ call' \in CallStates /\ call'.at = "idle"
             /\ call'.onto = call.onto /\ call'.result = result
  <2>1. call' = [at |-> "idle", before |-> {}, onto |-> call.onto, new |-> {}, why |-> "none",
                 sound |-> TRUE, generated |-> FALSE, result |-> result]
    BY <1>3 DEF Return, Idle
  <2> QED
    BY <2>1, BeforeTypes DEF CallStates
<1> QED
  BY <1>2, <1>3

\* In a commit only what is said of commits has to be kept.
LEMMA CommitPlace ==
  ASSUME lane.stage = "commit", lane' = lane, InCommit',
         call'.at # "idle" => call'.result = "none", call'.at = "idle" => CommitEnded'
  PROVE  PlaceInv'
BY DEF PlaceInv, BeforeCommit

\* In a rebase only what is said of rebases.
LEMMA RebasePlace ==
  ASSUME lane.stage = "rebase", lane' = lane, InRebase',
         call'.at # "idle" => call'.result = "none", call'.at = "idle" => RebaseEnded'
  PROVE  PlaceInv'
BY DEF PlaceInv, BeforeCommit

\* Every command of commitChanges keeps what is said of its place.
LEMMA CommitStep ==
  ASSUME CheckoutInv, lane.stage = "commit", lane' = lane,
         Commit \/ Add \/ Make \/ Confirm \/ RestoreHead \/ RestoreIndex \/ Restored
  PROVE  CheckoutInv'
<1>1. /\ CheckoutType /\ Unharmed /\ InCommit
      /\ call \in CallStates /\ co \in CheckoutStates /\ lane.found \in CheckoutStates
      /\ call.at # "idle" => call.result = "none"
  BY DEF CheckoutInv, PlaceInv, CheckoutType, LaneStates
<1>2. lane' \in LaneStates /\ call.before \in Befores
  BY DEF CheckoutInv, CheckoutType, CallStates
<1>3. /\ Pristine(lane.found) /\ co.work = lane.found.work /\ "rebase" \notin co.busy
      /\ co.work \subseteq Lane /\ lane.found.work \subseteq Lane /\ lane.found.index \subseteq Lane
  BY <1>1 DEF InCommit, Pristine
<1>4. ignored.path \notin Lane
  BY <1>1 DEF CheckoutType, Upstream, Lane
<1>5. ASSUME co' = co, ignored' = ignored, origin' = origin, call' \in CallStates
      PROVE  CheckoutType' /\ Unharmed'
  BY <1>1, <1>2, <1>5 DEF CheckoutType, Unharmed
<1>6. ASSUME NEW new \in CheckoutStates, new.work = lane.found.work, "rebase" \notin new.busy,
             Becomes(new) \/ Fails(new), call' \in CallStates
      PROVE  /\ CheckoutType' /\ Unharmed' /\ co' \in CheckoutStates
             /\ co'.work = lane.found.work /\ "rebase" \notin co'.busy
             /\ Becomes(new) => co' = new
  <2>1. ignored.path \notin new.work
    BY <1>3, <1>4, <1>6
  <2>2. /\ co' \in CheckoutStates /\ Unharmed'
        /\ ignored' \in [path : Upstream \union {"generated", "none"}, kept : BOOLEAN]
        /\ origin' = origin
        /\ Becomes(new) => co' = new
        /\ Like(co', co) \/ Like(co', new)
    BY <1>1, <1>6, <2>1, Becoming
  <2> QED
    BY <1>1, <1>2, <1>3, <1>6, <2>2 DEF CheckoutType, Like
<1>7. CASE Commit
  <2>1. /\ co' = co /\ ignored' = ignored /\ origin' = origin /\ call.at = "commit"
        /\ co = lane.found
    BY <1>1, <1>7 DEF Commit, Unchanged, InCommit
  <2>2. CASE \E result \in Refusals : Return(result)
    <3>1. call' \in CallStates /\ call'.at = "idle" /\ call'.result \in Refusals
      BY <1>1, <2>2, CallType
    <3>2. InCommit' /\ CommitEnded'
      BY <1>1, <2>1, <3>1 DEF InCommit, CommitEnded, sameCheckout, Refusals
    <3> QED
      BY <1>5, <2>1, <3>1, <3>2, CommitPlace DEF CheckoutInv
  <2>3. CASE call' = [call EXCEPT !.at = "add", !.before = co]
    <3>1. co \in Befores
      BY <1>1, BeforeTypes
    <3>2. call' \in CallStates /\ call'.at = "add" /\ call'.result = call.result /\ call'.before = co
      BY <1>1, <2>3, <3>1 DEF CallStates, CommitPlaces
    <3>3. InCommit'
      BY <1>1, <2>1, <3>2 DEF InCommit, CommitPlaces
    <3> QED
      BY <1>1, <1>5, <2>1, <3>2, <3>3, CommitPlace DEF CheckoutInv
  <2> QED
    BY <1>7, <2>2, <2>3 DEF Commit, Refusals
<1>8. CASE Add
  <2>1. PICK new : new = [co EXCEPT !.index = (co.index \ {"draft"}) \union {"mine"}]
    OBVIOUS
  <2>2. call.at = "add" /\ co = lane.found /\ call.before = lane.found
    BY <1>1, <1>8 DEF Add, InCommit
  <2>3. /\ new \in CheckoutStates /\ new.work = co.work /\ new.busy = co.busy /\ new.head = co.head
        /\ new.index = (co.index \ {"draft"}) \union {"mine"} /\ new.onBranch = co.onBranch
    BY <1>1, <2>1 DEF CheckoutStates, Changes, Lane
  <2>4. \/ Becomes(new) /\ Go("make")
        \/ Fails(new) /\ Go("restore-head")
    BY <1>8, <2>1 DEF Add
  <2>5. /\ call' \in CallStates /\ call'.at \in {"make", "restore-head"}
        /\ call'.before = call.before /\ call'.result = call.result
        /\ call'.at = "make" => Becomes(new)
    BY <1>1, <2>4, CallType DEF CommitPlaces
  <2>6. /\ CheckoutType' /\ Unharmed' /\ co'.work = lane.found.work /\ "rebase" \notin co'.busy
        /\ Becomes(new) => co' = new
    BY <1>3, <1>6, <2>3, <2>4, <2>5
  <2>7. InCommit'
    BY <1>1, <1>3, <2>2, <2>3, <2>5, <2>6 DEF InCommit, CommitPlaces, AddedTo, Pristine
  <2> QED
    BY <1>1, <2>2, <2>5, <2>6, <2>7, CommitPlace DEF CheckoutInv
<1>9. CASE Make
  <2>1. PICK new : new = Committed(co)
    OBVIOUS
  <2>2. call.at = "make" /\ co.head = {} /\ AddedTo(lane.found) /\ call.before = lane.found
    BY <1>1, <1>9 DEF Make, InCommit
  <2>3. /\ new \in CheckoutStates /\ new.work = co.work /\ new.busy = co.busy /\ new.head = {"mine"}
        /\ new.index = co.index /\ new.onBranch = co.onBranch
    BY <1>1, <2>1, <2>2 DEF CheckoutStates, Changes, Lane, Committed
  <2>4. \/ Becomes(new) /\ Go("confirm")
        \/ Fails(new) /\ Go("restore-head")
    BY <1>9, <2>1 DEF Make
  <2>5. /\ call' \in CallStates /\ call'.at \in {"confirm", "restore-head"}
        /\ call'.before = call.before /\ call'.result = call.result
        /\ call'.at = "confirm" => Becomes(new)
    BY <1>1, <2>4, CallType DEF CommitPlaces
  <2>6. /\ CheckoutType' /\ Unharmed' /\ co'.work = lane.found.work /\ "rebase" \notin co'.busy
        /\ Becomes(new) => co' = new
    BY <1>3, <1>6, <2>3, <2>4, <2>5
  <2>7. InCommit'
    BY <1>1, <1>3, <2>2, <2>3, <2>5, <2>6 DEF InCommit, CommitPlaces, AddedTo
  <2> QED
    BY <1>1, <2>2, <2>5, <2>6, <2>7, CommitPlace DEF CheckoutInv
<1>10. CASE Confirm
  <2>1. /\ co' = co /\ ignored' = ignored /\ origin' = origin /\ call.at = "confirm"
        /\ co.head = {"mine"} /\ AddedTo(lane.found) /\ call.before = lane.found
    BY <1>1, <1>10 DEF Confirm, Unchanged, InCommit
  <2>2. CASE Return("green")
    <3>1. call' \in CallStates /\ call'.at = "idle" /\ call'.result = "green"
      BY <1>1, <2>2, CallType
    <3>2. InCommit' /\ CommitEnded'
      BY <1>1, <2>1, <3>1 DEF InCommit, CommitEnded, AddedTo, Refusals
    <3> QED
      BY <1>5, <2>1, <3>1, <3>2, CommitPlace DEF CheckoutInv
  <2>3. CASE Go("restore-head")
    <3>1. /\ call' \in CallStates /\ call'.at = "restore-head" /\ call'.before = call.before
          /\ call'.result = call.result
      BY <1>1, <2>3, CallType DEF CommitPlaces
    <3>2. InCommit'
      BY <1>1, <2>1, <3>1 DEF InCommit, CommitPlaces
    <3> QED
      BY <1>1, <1>5, <2>1, <3>1, <3>2, CommitPlace DEF CheckoutInv
  <2> QED
    BY <1>10, <2>2, <2>3 DEF Confirm
<1>11. CASE RestoreHead \/ RestoreIndex
  <2>1. call.at \in {"restore-head", "restore-index"} /\ call.before = lane.found
    BY <1>1, <1>11 DEF RestoreHead, RestoreIndex, InCommit
  <2>2. /\ call' \in CallStates /\ call'.at \in {"restore-index", "restored"}
        /\ call'.before = call.before /\ call'.result = call.result
    BY <1>1, <1>2, <1>11 DEF RestoreHead, RestoreIndex, Go, CallStates, CommitPlaces
  <2>3. CASE Unchanged
    <3>1. InCommit'
      BY <1>1, <2>1, <2>2, <2>3 DEF InCommit, CommitPlaces, Unchanged
    <3> QED
      BY <1>1, <1>5, <2>1, <2>2, <2>3, <3>1, CommitPlace DEF CheckoutInv, Unchanged
  <2>4. CASE ~Unchanged
    <3>1. PICK new \in {[co EXCEPT !.head = lane.found.head], [co EXCEPT !.index = lane.found.index]} :
            Becomes(new) \/ Fails(new)
      BY <1>11, <2>1, <2>4 DEF RestoreHead, RestoreIndex
    <3>2. new \in CheckoutStates /\ new.work = co.work /\ new.busy = co.busy
      BY <1>1 DEF CheckoutStates
    <3>3. /\ CheckoutType' /\ Unharmed' /\ co'.work = lane.found.work /\ "rebase" \notin co'.busy
      BY <1>3, <1>6, <2>2, <3>1, <3>2
    <3>4. InCommit'
      BY <1>1, <2>1, <2>2, <3>3 DEF InCommit, CommitPlaces
    <3> QED
      BY <1>1, <2>1, <2>2, <3>3, <3>4, CommitPlace DEF CheckoutInv
  <2> QED
    BY <2>3, <2>4
<1>12. CASE Restored
  <2>1. /\ co' = co /\ ignored' = ignored /\ origin' = origin /\ call.at = "restored"
        /\ call.before = lane.found
    BY <1>1, <1>12 DEF Restored, Unchanged, InCommit
  <2>2. \E result \in {"commit-failed", "cleanup-unproven"} :
           Return(result) /\ (result = "commit-failed" => sameCheckout(lane.found, co))
    BY <1>12, <2>1 DEF Restored
  <2>3. /\ call' \in CallStates /\ call'.at = "idle"
        /\ call'.result \in {"commit-failed", "cleanup-unproven"}
        /\ call'.result = "commit-failed" => sameCheckout(lane.found, co)
    BY <1>1, <2>2, CallType DEF Refusals
  <2>4. InCommit' /\ CommitEnded'
    BY <1>1, <2>1, <2>3 DEF InCommit, CommitEnded, sameCheckout, Refusals
  <2> QED
    BY <1>5, <2>1, <2>3, <2>4, CommitPlace DEF CheckoutInv
<1> QED
  BY <1>7, <1>8, <1>9, <1>10, <1>11, <1>12

\* Wherever a rebase gives up, it still knows what it found and why it gives up.
LEMMA GivingUp ==
  ASSUME CheckoutInv, lane.stage = "rebase", lane' = lane, ignored'.path = ignored.path,
         call.at \notin {"idle", "rebase", "collide"}, call' \in CallStates, call'.at \in Giving,
         call'.before = call.before, call'.onto = call.onto, call'.result = call.result,
         call'.why \in Refusals \union {"cleanup-unproven"}
  PROVE  PlaceInv'
<1>1. InRebase /\ call.result = "none"
  BY DEF CheckoutInv, PlaceInv
<1>2. call'.at \in RebasePlaces
       /\ call'.at \notin {"idle", "rebase", "collide", "run", "verify", "regenerate", "land", "landed"}
  BY DEF Giving, RebasePlaces
<1>3. InRebase'
  BY <1>1, <1>2 DEF InRebase
<1> QED
  BY <1>1, <1>2, <1>3, RebasePlace

\* The ways a rebase comes to an end.
LEMMA RebaseOver ==
  ASSUME CheckoutInv, lane.stage = "rebase", lane' = lane, co' = co, ignored' = ignored,
         origin' = origin, call.at # "idle",
         NEW result \in Refusals \union {"green", "cleanup-unproven", "unverified"}, Return(result),
         result = "green" => Clean(co) /\ co.onBranch /\ co.busy = {} /\ co.head \ {"generated"} = Moved,
         result \in Refusals =>
           sameCheckout(lane.found, co) /\ (UnderWay => "rebase" \in lane.found.busy)
  PROVE  CheckoutInv'
<1>1. InRebase /\ CheckoutType /\ Unharmed
  BY DEF CheckoutInv, PlaceInv
<1>2. call' \in CallStates /\ call'.at = "idle" /\ call'.onto = call.onto /\ call'.result = result
  BY <1>1, CallType DEF CheckoutType
<1>3. InRebase'
  BY <1>1, <1>2 DEF InRebase, Giving
<1>4. RebaseEnded'
  BY <1>2 DEF RebaseEnded, Clean, Moved, sameCheckout, UnderWay, Refusals
<1>5. CheckoutType' /\ Unharmed'
  BY <1>1, <1>2 DEF CheckoutType, Unharmed
<1> QED
  BY <1>2, <1>3, <1>4, <1>5, RebasePlace DEF CheckoutInv

\* Every command of rebaseBranch keeps what is said of its place.
LEMMA RebaseStep ==
  ASSUME CheckoutInv, lane.stage = "rebase", lane' = lane,
         \/ Rebase \/ Collide \/ Run \/ Verify \/ Abort \/ Undo \/ Judge
         \/ Resolve \/ Regenerate \/ Land \/ Landed \/ Back \/ ResetHard \/ Proven
  PROVE  CheckoutInv'
<1>1. /\ CheckoutType /\ Unharmed /\ InRebase
      /\ call \in CallStates /\ co \in CheckoutStates /\ lane.found \in CheckoutStates
      /\ call.at # "idle" => call.result = "none"
  BY DEF CheckoutInv, PlaceInv, CheckoutType, LaneStates
<1>2. /\ lane' \in LaneStates /\ call.before \in Befores /\ call.onto \subseteq Upstream
      /\ call.new \subseteq Changes /\ origin \subseteq Upstream
  BY DEF CheckoutInv, CheckoutType, CallStates
<1>3. /\ lane.found.head = {"mine"} /\ lane.found.index \subseteq Lane
      /\ lane.found.work \subseteq Lane
  BY <1>1 DEF InRebase
<1>4. ignored.path \notin Lane \union {"conflict"} /\ ignored.path \notin co.work
  BY <1>1 DEF CheckoutType, Upstream, Lane, Unharmed
<1>5. ASSUME co' = co, ignored' = ignored, origin' = origin, call' \in CallStates
      PROVE  CheckoutType' /\ Unharmed'
  BY <1>1, <1>2, <1>5 DEF CheckoutType, Unharmed
<1>6. ASSUME NEW new \in CheckoutStates, ignored.path \notin new.work,
             Becomes(new) \/ Fails(new), call' \in CallStates
      PROVE  /\ CheckoutType' /\ Unharmed' /\ ignored'.path = ignored.path
             /\ Becomes(new) => co' = new
  <2>1. /\ co' \in CheckoutStates /\ Unharmed' /\ ignored'.path = ignored.path
        /\ ignored' \in [path : Upstream \union {"generated", "none"}, kept : BOOLEAN]
        /\ origin' = origin
        /\ Becomes(new) => co' = new
    BY <1>1, <1>6, Becoming
  <2> QED
    BY <1>1, <1>2, <1>6, <2>1 DEF CheckoutType
<1>61. {"mine"} \subseteq Lane /\ Moved \subseteq Changes /\ {"mine"} \subseteq Changes
  BY <1>2 DEF Moved, Changes, Lane
<1>62. \A tree \in SUBSET Changes :
        /\ At(tree) \in CheckoutStates /\ At(tree).head = tree /\ At(tree).index = tree
        /\ At(tree).work = tree /\ At(tree).busy = co.busy /\ At(tree).onBranch = co.onBranch
  BY <1>1 DEF At, CheckoutStates
<1>7. CASE Rebase
  <2>1. /\ co' = co /\ ignored' = ignored /\ origin' = origin /\ call.at = "rebase"
        /\ co = lane.found
    BY <1>1, <1>7 DEF Rebase, Unchanged, InRebase
  <2>2. CASE \E result \in Refusals : Return(result)
    <3>1. PICK result \in Refusals : Return(result)
      BY <2>2
    <3>2. sameCheckout(lane.found, co) /\ (UnderWay => "rebase" \in lane.found.busy) /\ result # "green"
      BY <2>1 DEF sameCheckout, UnderWay, Refusals
    <3> QED
      BY <2>1, <3>1, <3>2, RebaseOver
  <2>3. CASE \E declared \in BOOLEAN :
             call' = [call EXCEPT !.at = "collide", !.before = co, !.onto = origin,
                                  !.generated = declared]
    <3>1. PICK declared \in BOOLEAN :
             call' = [call EXCEPT !.at = "collide", !.before = co, !.onto = origin,
                                  !.generated = declared]
      BY <2>3
    <3>2. co \in Befores
      BY <1>1, BeforeTypes
    <3>3. call' \in CallStates /\ call'.at = "collide" /\ call'.result = call.result /\ call'.before = co
      BY <1>1, <1>2, <3>1, <3>2 DEF CallStates, RebasePlaces
    <3>4. InRebase'
      BY <1>1, <2>1, <3>3 DEF InRebase, RebasePlaces, Giving
    <3> QED
      BY <1>1, <1>5, <2>1, <3>3, <3>4, RebasePlace DEF CheckoutInv
  <2> QED
    BY <1>7, <2>2, <2>3 DEF Rebase, Refusals
<1>8. CASE Collide
  <2>1. /\ co' = co /\ ignored' = ignored /\ origin' = origin /\ call.at = "collide"
        /\ co = lane.found /\ call.before = lane.found
    BY <1>1, <1>8 DEF Collide, Unchanged, InRebase
  <2>2. CASE \E result \in Refusals : Return(result)
    <3>1. PICK result \in Refusals : Return(result)
      BY <2>2
    <3>2. sameCheckout(lane.found, co) /\ (UnderWay => "rebase" \in lane.found.busy) /\ result # "green"
      BY <2>1 DEF sameCheckout, UnderWay, Refusals
    <3> QED
      BY <2>1, <3>1, <3>2, RebaseOver
  <2>3. CASE ~Collides /\ Go("run")
    <3>1. /\ call' \in CallStates /\ call'.at = "run" /\ call'.before = call.before
          /\ call'.onto = call.onto /\ call'.result = call.result
      BY <1>1, <2>3, CallType DEF RebasePlaces
    <3>2. InRebase'
      BY <1>1, <2>1, <2>3, <3>1 DEF InRebase, RebasePlaces, Giving, Collides
    <3> QED
      BY <1>1, <1>5, <2>1, <3>1, <3>2, RebasePlace DEF CheckoutInv
  <2> QED
    BY <1>8, <2>2, <2>3 DEF Collide, Refusals
<1>9. CASE Run
  <2>1. /\ call.at = "run" /\ call.before = lane.found /\ ignored.path \notin call.onto
        /\ Onto = call.onto /\ call.before.head = {"mine"}
    BY <1>1, <1>3, <1>9 DEF Run, InRebase, Onto
  <2>2. PICK rebased : rebased = Rebased
    OBVIOUS
  <2>3. PICK stopped : stopped = Stopped
    OBVIOUS
  <2>4. rebased = At(Moved)
    BY <2>1, <2>2 DEF Rebased, Moved
  <2>5. /\ rebased \in CheckoutStates /\ rebased.head = Moved /\ rebased.work = Moved
    BY <1>61, <1>62, <2>4
  <2>6. /\ stopped \in CheckoutStates /\ stopped.work = call.onto \union {"conflict"}
    BY <1>1, <1>2, <2>1, <2>3 DEF Stopped, CheckoutStates, Changes
  <2>7. ignored.path \notin rebased.work /\ ignored.path \notin stopped.work
    BY <1>4, <1>61, <2>1, <2>5, <2>6 DEF Moved
  <2>8. \/ Becomes(rebased) /\ Go("verify")
        \/ Becomes(stopped) /\ Go("resolve")
        \/ /\ Becomes(stopped) \/ Fails(rebased) \/ Fails(stopped)
           /\ \E why \in {"rebase-conflict", "rebase-failed"} :
                call' = [call EXCEPT !.at = "abort", !.why = why]
    BY <1>9, <2>2, <2>3 DEF Run
  <2>9. /\ call' \in CallStates /\ call'.at \in {"verify", "resolve", "abort"}
        /\ call'.before = call.before /\ call'.onto = call.onto /\ call'.result = call.result
        /\ call'.at = "verify" => Becomes(rebased)
        /\ call'.at = "abort" => call'.why \in Refusals
    BY <1>1, <1>2, <2>8 DEF CallStates, Go, RebasePlaces, Refusals
  <2>10. /\ CheckoutType' /\ Unharmed' /\ ignored'.path = ignored.path
         /\ call'.at = "verify" => co' = rebased
    BY <1>6, <2>5, <2>6, <2>7, <2>8, <2>9
  <2>11. CASE call'.at = "abort"
    <3>1. call.at \notin {"idle", "rebase", "collide"} /\ call'.at \in Giving
      BY <2>1, <2>11 DEF Giving
    <3> QED
      BY <2>9, <2>10, <2>11, <3>1, GivingUp DEF CheckoutInv
  <2>12. CASE call'.at # "abort"
    <3>1. InRebase'
      BY <1>1, <2>1, <2>5, <2>9, <2>10, <2>12 DEF InRebase, RebasePlaces, Giving, Moved
    <3> QED
      BY <1>1, <2>1, <2>9, <2>10, <2>12, <3>1, RebasePlace DEF CheckoutInv
  <2> QED
    BY <2>11, <2>12
<1>10. CASE Verify
  <2>1. /\ co' = co /\ ignored' = ignored /\ origin' = origin /\ call.at = "verify"
        /\ co.head = Moved
    BY <1>1, <1>10 DEF Verify, Unchanged, InRebase
  <2>2. "generated" \notin Moved
    BY <1>2 DEF Moved, Upstream
  <2>3. \E result \in {"green", "unverified"} :
          /\ Return(result)
          /\ result = "green" => Clean(co) /\ co.busy = {} /\ co.onBranch
    BY <1>10 DEF Verify
  <2> QED
    BY <2>1, <2>2, <2>3, RebaseOver DEF Refusals
<1>11. CASE Judge \/ Proven
  <2>1. /\ co' = co /\ ignored' = ignored /\ origin' = origin /\ call.at \in {"judge", "proven"}
        /\ call.before = lane.found /\ call.why \in Refusals \union {"cleanup-unproven"}
    BY <1>1, <1>11 DEF Judge, Proven, Unchanged, InRebase, Giving
  <2>2. \E result \in Refusals \union {"cleanup-unproven"} :
          /\ Return(result)
          /\ result \in Refusals => sameCheckout(lane.found, co) /\ co.busy = {}
    BY <1>11, <2>1 DEF Judge, Proven, Refusals
  <2> QED
    BY <2>1, <2>2, RebaseOver DEF Refusals, UnderWay
<1>12. CASE Abort \/ Back
  <2>1. /\ call.at \in {"abort", "back"} /\ call.before = lane.found
        /\ call.why \in Refusals \union {"cleanup-unproven"}
    BY <1>1, <1>12 DEF Abort, Back, InRebase, Giving
  <2>2. PICK at \in {"undo", "reset"} : TryAbort(at)
    BY <1>12 DEF Abort, Back
  <2>3. /\ call' \in CallStates /\ call'.at = at /\ call'.before = call.before
        /\ call'.onto = call.onto /\ call'.why = call.why /\ call'.result = call.result
    BY <1>1, <2>2, CallType DEF TryAbort, RebasePlaces
  <2>4. PICK new : new = Aborted
    OBVIOUS
  <2>5. new \in CheckoutStates /\ new.work = {"mine"}
    BY <1>1, <1>3, <1>61, <2>1, <2>4 DEF Aborted, At, CheckoutStates
  <2>6. Unchanged \/ Becomes(new) \/ Fails(new)
    BY <2>2, <2>4 DEF TryAbort
  <2>7. CheckoutType' /\ Unharmed' /\ ignored'.path = ignored.path
    BY <1>4, <1>5, <1>6, <1>61, <2>3, <2>5, <2>6 DEF Unchanged
  <2> QED
    BY <2>1, <2>3, <2>7, GivingUp DEF CheckoutInv, Giving
<1>13. CASE Undo \/ ResetHard
  <2>1. /\ call.at \in {"undo", "reset"} /\ call.before = lane.found
        /\ call.why \in Refusals \union {"cleanup-unproven"}
    BY <1>1, <1>13 DEF Undo, ResetHard, InRebase, Giving
  <2>2. PICK at \in {"judge", "proven"} : Go(at)
    BY <1>13 DEF Undo, ResetHard
  <2>3. /\ call' \in CallStates /\ call'.at = at /\ call'.before = call.before
        /\ call'.onto = call.onto /\ call'.why = call.why /\ call'.result = call.result
    BY <1>1, <2>2, CallType DEF RebasePlaces
  <2>4. PICK new : new = At(call.before.head)
    OBVIOUS
  <2>5. new \in CheckoutStates /\ new.work = {"mine"}
    BY <1>3, <1>61, <1>62, <2>1, <2>4
  <2>6. Unchanged \/ Becomes(new) \/ Fails(new)
    BY <1>13, <2>4 DEF Undo, ResetHard
  <2>7. CheckoutType' /\ Unharmed' /\ ignored'.path = ignored.path
    BY <1>4, <1>5, <1>6, <1>61, <2>3, <2>5, <2>6 DEF Unchanged
  <2> QED
    BY <2>1, <2>3, <2>7, GivingUp DEF CheckoutInv, Giving
<1>14. CASE Resolve
  <2>1. /\ call.at = "resolve" /\ call.before = lane.found /\ ignored.path \notin call.onto
        /\ call.before.head = {"mine"}
    BY <1>1, <1>3, <1>14 DEF Resolve, InRebase
  <2>2. PICK done : done = [Rebased EXCEPT !.busy = @ \ {"rebase"}, !.onBranch = TRUE]
    OBVIOUS
  <2>3. PICK rebased : rebased = Rebased
    OBVIOUS
  <2>4. rebased = At(Moved)
    BY <2>1, <2>3 DEF Rebased, Moved, Onto
  <2>5. rebased \in CheckoutStates /\ rebased.head = Moved /\ rebased.work = Moved
    BY <1>61, <1>62, <2>4
  <2>6. done \in CheckoutStates /\ done.head = Moved /\ done.work = Moved
    BY <2>2, <2>3, <2>5 DEF CheckoutStates
  <2>7. ignored.path \notin done.work
    BY <1>4, <1>61, <2>1, <2>6 DEF Moved
  <2>8. \/ Becomes(done) /\ call' = [call EXCEPT !.at = "regenerate", !.new = Moved]
        \/ Fails(done) /\ \E why \in {"rebase-failed", "rebase-conflict"} :
                            call' = [call EXCEPT !.at = "back", !.why = why]
    BY <1>14, <2>2, <2>6 DEF Resolve
  <2>9. /\ call' \in CallStates /\ call'.at \in {"regenerate", "back"}
        /\ call'.before = call.before /\ call'.onto = call.onto /\ call'.result = call.result
        /\ call'.at = "regenerate" => call'.new = Moved /\ Becomes(done)
        /\ call'.at = "back" => call'.why \in Refusals
    BY <1>1, <1>2, <1>61, <2>8 DEF CallStates, RebasePlaces, Refusals
  <2>10. /\ CheckoutType' /\ Unharmed' /\ ignored'.path = ignored.path
         /\ call'.at = "regenerate" => co' = done
    BY <1>6, <2>6, <2>7, <2>8, <2>9
  <2>11. CASE call'.at = "back"
    <3>1. call.at \notin {"idle", "rebase", "collide"} /\ call'.at \in Giving
      BY <2>1, <2>11 DEF Giving
    <3> QED
      BY <2>9, <2>10, <2>11, <3>1, GivingUp DEF CheckoutInv
  <2>12. CASE call'.at = "regenerate"
    <3>1. InRebase'
      BY <1>1, <2>1, <2>6, <2>9, <2>10, <2>12 DEF InRebase, RebasePlaces, Giving, Moved
    <3> QED
      BY <1>1, <2>1, <2>9, <2>10, <2>12, <3>1, RebasePlace DEF CheckoutInv
  <2> QED
    BY <2>9, <2>11, <2>12
<1>15. CASE Regenerate
  <2>1. /\ call.at = "regenerate" /\ co.head = Moved /\ call.new = Moved
        /\ co' = co /\ ignored' = ignored /\ origin' = origin
    BY <1>1, <1>15 DEF Regenerate, Unchanged, InRebase
  <2>2. CASE \E made \in SUBSET {"generated"} : call' = [call EXCEPT !.at = "land", !.new = @ \union made]
    <3>1. PICK made \in SUBSET {"generated"} :
            call' = [call EXCEPT !.at = "land", !.new = call.new \union made]
      BY <2>2
    <3>2. call.new \union made \subseteq Changes /\ (call.new \union made) \ {"generated"} = Moved
      BY <1>2, <2>1 DEF Moved, Changes, Upstream
    <3>3. /\ call' \in CallStates /\ call'.at = "land" /\ call'.new = call.new \union made
          /\ call'.before = call.before /\ call'.onto = call.onto /\ call'.result = call.result
      BY <1>1, <1>2, <3>1, <3>2 DEF CallStates, RebasePlaces
    <3>4. InRebase'
      BY <1>1, <2>1, <3>2, <3>3 DEF InRebase, RebasePlaces, Giving, Moved
    <3> QED
      BY <1>1, <1>5, <2>1, <3>3, <3>4, RebasePlace DEF CheckoutInv
  <2>3. CASE \E why \in Refusals \union {"cleanup-unproven"} :
               call' = [call EXCEPT !.at = "back", !.why = why]
    <3>1. /\ call' \in CallStates /\ call'.at = "back" /\ call'.why \in Refusals \union {"cleanup-unproven"}
          /\ call'.before = call.before /\ call'.onto = call.onto /\ call'.result = call.result
      BY <1>1, <1>2, <2>3 DEF CallStates, RebasePlaces
    <3> QED
      BY <1>5, <2>1, <3>1, GivingUp DEF CheckoutInv, Giving
  <2> QED
    BY <1>15, <2>2, <2>3 DEF Regenerate, Refusals
<1>16. CASE Land
  <2>1. /\ call.at = "land" /\ co.head = Moved /\ call.new \ {"generated"} = Moved
        /\ ignored.path \notin call.onto
    BY <1>1, <1>16 DEF Land, InRebase
  <2>2. PICK landed : landed = At(call.new)
    OBVIOUS
  <2>3. landed \in CheckoutStates /\ landed.work = call.new
    BY <1>2, <1>62, <2>2
  <2>4. ignored.path \notin co.head
    BY <1>4, <1>61, <2>1 DEF Moved
  <2>5. \/ Unchanged /\ call' = [call EXCEPT !.at = "back", !.why = "dirty-worktree"]
        \/ Unchanged /\ call' = [call EXCEPT !.at = "back", !.why = "rebase-failed"]
        \/ /\ ignored.path \notin call.new \ co.head /\ Fails(landed)
           /\ call' = [call EXCEPT !.at = "back", !.why = "rebase-failed"]
        \/ ignored.path \notin call.new \ co.head /\ Becomes(landed) /\ Go("landed")
    BY <1>16, <2>2 DEF Land
  <2>6. /\ call' \in CallStates /\ call'.at \in {"back", "landed"}
        /\ call'.before = call.before /\ call'.onto = call.onto /\ call'.result = call.result
        /\ call'.new = call.new
        /\ call'.at = "back" => call'.why \in Refusals
    BY <1>1, <1>2, <2>5 DEF CallStates, RebasePlaces, Refusals, Go
  <2>7. \/ Unchanged
        \/ ignored.path \notin landed.work /\ (Becomes(landed) \/ Fails(landed))
    BY <2>3, <2>4, <2>5
  <2>8. CheckoutType' /\ Unharmed' /\ ignored'.path = ignored.path
    BY <1>5, <1>6, <2>3, <2>6, <2>7 DEF Unchanged
  <2>9. CASE call'.at = "back"
    <3>1. call.at \notin {"idle", "rebase", "collide"} /\ call'.at \in Giving
      BY <2>1, <2>9 DEF Giving
    <3> QED
      BY <2>6, <2>8, <2>9, <3>1, GivingUp DEF CheckoutInv
  <2>10. CASE call'.at = "landed"
    <3>1. InRebase'
      BY <1>1, <2>1, <2>6, <2>8, <2>10 DEF InRebase, RebasePlaces, Giving, Moved
    <3> QED
      BY <1>1, <2>1, <2>6, <2>8, <2>10, <3>1, RebasePlace DEF CheckoutInv
  <2> QED
    BY <2>6, <2>9, <2>10
<1>17. CASE Landed
  <2>1. /\ co' = co /\ ignored' = ignored /\ origin' = origin /\ call.at = "landed"
        /\ call.new \ {"generated"} = Moved
    BY <1>1, <1>17 DEF Landed, Unchanged, InRebase
  <2>2. CASE co = [At(call.new) EXCEPT !.busy = {}, !.onBranch = TRUE] /\ Return("green")
    <3>1. PICK landed : landed = At(call.new)
      OBVIOUS
    <3>2. /\ landed \in CheckoutStates /\ landed.work = call.new /\ landed.head = call.new
          /\ landed.index = call.new
      BY <1>2, <1>62, <3>1
    <3>3. co = [landed EXCEPT !.busy = {}, !.onBranch = TRUE]
      BY <2>2, <3>1
    <3>4. Clean(co) /\ co.onBranch /\ co.busy = {} /\ co.head = call.new
      BY <3>2, <3>3 DEF Clean, CheckoutStates
    <3> QED
      BY <2>1, <2>2, <3>4, RebaseOver DEF Refusals
  <2>3. CASE call' = [call EXCEPT !.at = "back", !.why = "rebase-failed"]
    <3>1. /\ call' \in CallStates /\ call'.at = "back" /\ call'.why \in Refusals
          /\ call'.before = call.before /\ call'.onto = call.onto /\ call'.result = call.result
      BY <1>1, <1>2, <2>3 DEF CallStates, RebasePlaces, Refusals
    <3> QED
      BY <1>5, <2>1, <3>1, GivingUp DEF CheckoutInv, Giving
  <2> QED
    BY <1>17, <2>2, <2>3 DEF Landed
<1> QED
  BY <1>7, <1>8, <1>9, <1>10, <1>11, <1>12, <1>13, <1>14, <1>15, <1>16, <1>17

-----------------------------------------------------------------------------
(* A step of the lane                                                      *)

\* The checkout is kept by a step that leaves it, its call and the lane alone.
LEMMA SameCheckout == CheckoutInv /\ UNCHANGED checkout /\ lane' = lane => CheckoutInv'
BY DEF CheckoutInv, CheckoutType, Unharmed, PlaceInv, BeforeCommit, InCommit, CommitEnded, InRebase,
       RebaseEnded, BeforeRestore, NoUpstream, Clean, Moved, sameCheckout, UnderWay, AddedTo, checkout

\* A fetch of another lane moves the ref and nothing of this checkout.
LEMMA FetchStep == CheckoutInv /\ Fetch /\ lane' = lane => CheckoutInv'
<1> SUFFICES ASSUME CheckoutInv, Fetch, lane' = lane PROVE CheckoutInv'
  OBVIOUS
<1>1. origin' \in SUBSET Upstream
  BY DEF Fetch, CheckoutInv, CheckoutType
<1>2. co' = co /\ ignored' = ignored /\ call' = call
  BY DEF Fetch
<1> QED
  BY <1>1, <1>2 DEF CheckoutInv, CheckoutType, Unharmed, PlaceInv, BeforeCommit, InCommit,
       CommitEnded, InRebase, RebaseEnded, BeforeRestore, NoUpstream, Clean, Moved, sameCheckout,
       UnderWay, AddedTo

\* A call of git is at a place of the stage the lane is at.
LEMMA GitStep == CheckoutInv /\ Git /\ lane' = lane => CheckoutInv'
<1> SUFFICES ASSUME CheckoutInv, Git, lane' = lane PROVE CheckoutInv'
  OBVIOUS
<1> DEFINE Commits == Commit \/ Add \/ Make \/ Confirm \/ RestoreHead \/ RestoreIndex \/ Restored
           Rebases == \/ Rebase \/ Collide \/ Run \/ Verify \/ Abort \/ Undo \/ Judge
                      \/ Resolve \/ Regenerate \/ Land \/ Landed \/ Back \/ ResetHard \/ Proven
<1>1. Commits => call.at \in CommitPlaces
  BY DEF Commit, Add, Make, Confirm, RestoreHead, RestoreIndex, Restored, CommitPlaces
<1>2. Rebases => call.at \in RebasePlaces
  BY DEF Rebase, Collide, Run, Verify, Abort, Undo, Judge, Resolve, Regenerate, Land, Landed,
         Back, ResetHard, Proven, RebasePlaces
<1>3. Commits \/ Rebases
  BY DEF Git
<1>4. call.at \in CommitPlaces \union RebasePlaces => lane.stage \in {"commit", "rebase"}
  BY DEF CheckoutInv, PlaceInv, CommitPlaces, RebasePlaces
<1>5. lane.stage = "commit" => call.at \notin RebasePlaces
  BY DEF CheckoutInv, PlaceInv, InCommit, CommitPlaces, RebasePlaces
<1>6. lane.stage = "rebase" => call.at \notin CommitPlaces
  BY DEF CheckoutInv, PlaceInv, InRebase, CommitPlaces, RebasePlaces
<1>7. (Commits /\ lane.stage = "commit") \/ (Rebases /\ lane.stage = "rebase")
  BY <1>1, <1>2, <1>3, <1>4, <1>5, <1>6
<1> QED
  BY <1>7, CommitStep, RebaseStep

\* A lane that goes on takes the checkout as it is.
LEMMA MoveType ==
  ASSUME CheckoutType, NEW stage \in Stages, Move(stage)
  PROVE  /\ lane' \in LaneStates /\ lane'.found = co /\ lane'.stage = stage
         /\ lane'.shape = lane.shape
BY DEF CheckoutType, LaneStates, Move

\* Between two calls the lane goes where the last result sends it.
LEMMA LaneStep ==
  ASSUME CheckoutInv,
         Proved \/ Suited \/ CallCommit \/ AfterCommit \/ CallRebase \/ AfterRebase
           \/ BaseRestore \/ CallPublish
  PROVE  CheckoutInv' /\ (lane'.stage # lane.stage => lane'.stage # "proof")
<1>1. CheckoutType /\ Unharmed /\ PlaceInv /\ call \in CallStates /\ co \in CheckoutStates
  BY DEF CheckoutInv, CheckoutType
<1>2. ASSUME co' = co, ignored' = ignored, origin' = origin, call' \in CallStates, lane' \in LaneStates
      PROVE  CheckoutType' /\ Unharmed'
  BY <1>1, <1>2 DEF CheckoutType, Unharmed
<1>0. Idle("none") \in CallStates /\ Idle("none").at = "idle" /\ Idle("none").result = "none"
  BY BeforeTypes DEF Idle, CallStates
<1>3. CASE Proved \/ Suited
  <2>1. /\ lane.stage \in {"proof", "suite"}
        /\ co' = co /\ ignored' = ignored /\ origin' = origin /\ call' = call
    BY <1>3 DEF Proved, Suited, checkout
  <2>2. PICK stage \in {"suite", "commit", "done"} : Move(stage)
    BY <1>3 DEF Proved, Suited
  <2>3. lane' \in LaneStates /\ lane'.found = co /\ lane'.stage = stage
    BY <1>1, <2>2, MoveType DEF Stages
  <2>4. Pristine(co) /\ call = Idle("none")
    BY <1>1, <2>1 DEF PlaceInv, BeforeCommit
  <2>5. co.index \intersect Upstream = {} /\ co.busy = {}
    BY <2>4 DEF Pristine, Lane, Upstream
  <2>6. BeforeCommit' /\ NoUpstream'
    BY <2>1, <2>3, <2>4, <2>5 DEF BeforeCommit, NoUpstream, Pristine
  <2>7. InCommit' /\ CommitEnded'
    BY <1>0, <2>1, <2>3, <2>4, <2>5 DEF InCommit, CommitEnded, CommitPlaces, Refusals
  <2>8. PlaceInv'
    BY <1>0, <2>1, <2>3, <2>4, <2>6, <2>7 DEF PlaceInv
  <2> QED
    BY <1>1, <1>2, <2>1, <2>3, <2>8 DEF CheckoutInv
<1>4. CASE CallCommit \/ CallRebase
  <2>1. PICK stage \in {"commit", "rebase"} : Called(stage)
    BY <1>4 DEF CallCommit, CallRebase
  <2>2. /\ lane.stage = stage /\ call.at = "idle" /\ call.result = "none"
        /\ co' = co /\ ignored' = ignored /\ origin' = origin /\ lane' = lane
        /\ call' = [Idle("none") EXCEPT !.at = stage]
    BY <2>1 DEF Called, Fresh
  <2>3. call' \in CallStates /\ call'.at = stage /\ call'.result = "none"
    BY <1>0, <2>2 DEF CallStates, CommitPlaces, RebasePlaces
  <2>4. CheckoutType' /\ Unharmed'
    BY <1>1, <1>2, <2>2, <2>3 DEF CheckoutType
  <2>5. CASE stage = "commit"
    <3>1. InCommit /\ CommitEnded
      BY <1>1, <2>2, <2>5 DEF PlaceInv
    <3>2. InCommit'
      BY <2>2, <2>3, <2>5, <3>1 DEF InCommit, CommitEnded, CommitPlaces
    <3> QED
      BY <2>2, <2>3, <2>4, <2>5, <3>2, CommitPlace DEF CheckoutInv
  <2>6. CASE stage = "rebase"
    <3>1. InRebase /\ RebaseEnded
      BY <1>1, <2>2, <2>6 DEF PlaceInv
    <3>2. InRebase'
      BY <2>2, <2>3, <2>6, <3>1 DEF InRebase, RebaseEnded, RebasePlaces, Giving
    <3> QED
      BY <2>2, <2>3, <2>4, <2>6, <3>2, RebasePlace DEF CheckoutInv
  <2> QED
    BY <2>5, <2>6
<1>5. CASE AfterCommit
  <2>1. /\ lane.stage = "commit" /\ call.at = "idle" /\ call.result # "none"
        /\ co' = co /\ ignored' = ignored /\ origin' = origin
    BY <1>5 DEF AfterCommit, Returned
  <2>2. InCommit /\ CommitEnded
    BY <1>1, <2>1 DEF PlaceInv
  <2>3. CASE call.result = "green"
    <3>1. Move("rebase") /\ call' = Idle("none")
      BY <1>5, <2>3 DEF AfterCommit
    <3>2. lane' \in LaneStates /\ lane'.found = co /\ lane'.stage = "rebase"
      BY <1>1, <3>1, MoveType DEF Stages
    <3>3. InRebase' /\ RebaseEnded'
      <4>1. co.head = {"mine"} /\ co.index \subseteq Lane /\ co.work \subseteq Lane
        BY <2>2, <2>3 DEF CommitEnded, AddedTo, InCommit, Pristine, Lane
      <4> QED
        BY <1>0, <2>1, <3>1, <3>2, <4>1 DEF InRebase, RebaseEnded, Giving, Refusals
    <3>4. PlaceInv'
      BY <1>0, <3>1, <3>2, <3>3 DEF PlaceInv, BeforeCommit
    <3> QED
      BY <1>2, <1>0, <2>1, <3>1, <3>2, <3>4 DEF CheckoutInv
  <2>4. CASE call.result # "green"
    <3>1. Move("done") /\ call' = call
      BY <1>5, <2>4 DEF AfterCommit
    <3>2. lane' \in LaneStates /\ lane'.found = co /\ lane'.stage = "done"
      BY <1>1, <3>1, MoveType DEF Stages
    <3>3. NoUpstream'
      <4>1. call.result \in Refusals => co.index \subseteq Lane
        BY <2>2 DEF CommitEnded, sameCheckout, InCommit, Pristine
      <4>2. call.result \in Refusals \union {"cleanup-unproven", "unverified"}
        BY <1>1, <2>1, <2>4 DEF CallStates
      <4> QED
        BY <2>1, <3>1, <4>1, <4>2 DEF NoUpstream, Lane, Upstream
    <3>4. PlaceInv'
      BY <2>1, <3>1, <3>2, <3>3 DEF PlaceInv, BeforeCommit
    <3> QED
      BY <1>1, <1>2, <2>1, <3>1, <3>2, <3>4 DEF CheckoutInv
  <2> QED
    BY <2>3, <2>4
<1>6. CASE AfterRebase
  <2>1. /\ lane.stage = "rebase" /\ call.at = "idle" /\ call.result # "none"
        /\ co' = co /\ ignored' = ignored /\ origin' = origin /\ call' = call
    BY <1>6 DEF AfterRebase, Returned, checkout
  <2>2. InRebase /\ RebaseEnded
    BY <1>1, <2>1 DEF PlaceInv
  <2>3. PICK stage \in {"restore", "publish", "done"} :
          /\ Move(stage)
          /\ stage = "publish" => call.result = "green"
    BY <1>6 DEF AfterRebase
  <2>4. lane' \in LaneStates /\ lane'.found = co /\ lane'.stage = stage
    BY <1>1, <2>3, MoveType DEF Stages
  <2>5. call.result \in Refusals => co.index \subseteq Lane
    BY <2>2 DEF InRebase, RebaseEnded, sameCheckout
  <2>6. call.result = "green" => Clean(co) /\ co.head \ {"generated"} = Moved
    BY <2>2 DEF RebaseEnded
  <2>7. NoUpstream /\ BeforeRestore
    <3>1. call.result \in Refusals \union {"green", "cleanup-unproven", "unverified"}
      BY <1>1, <2>1 DEF CallStates
    <3> QED
      BY <2>5, <2>6, <3>1 DEF NoUpstream, BeforeRestore, Clean, Lane, Upstream
  <2>8. NoUpstream' /\ BeforeRestore'
    BY <2>1, <2>7 DEF NoUpstream, BeforeRestore, Clean, Moved
  <2>9. PlaceInv'
    BY <2>1, <2>3, <2>4, <2>6, <2>8 DEF PlaceInv, BeforeCommit, Clean
  <2> QED
    BY <1>1, <1>2, <2>1, <2>3, <2>4, <2>9 DEF CheckoutInv
<1>7. CASE BaseRestore
  <2>1. lane.stage = "restore" /\ call' = call /\ Move("done")
    BY <1>7 DEF BaseRestore
  <2>2. call.at = "idle" /\ call.result # "none" /\ BeforeRestore
    BY <1>1, <2>1 DEF PlaceInv
  <2>3. PICK onto : onto = IF call.result = "green" THEN call.onto ELSE {}
    OBVIOUS
  <2>4. PICK new : new = [co EXCEPT !.head = onto]
    OBVIOUS
  <2>5. onto \in SUBSET Upstream
    BY <1>1, <2>3 DEF CallStates
  <2>6. /\ new \in CheckoutStates /\ new.head = onto /\ new.index = co.index /\ new.work = co.work
    BY <1>1, <2>4, <2>5 DEF CheckoutStates, Changes
  <2>7. Becomes(new) \/ Fails(new)
    BY <1>7, <2>3, <2>4 DEF BaseRestore
  <2>8. /\ co' \in CheckoutStates /\ Unharmed'
        /\ ignored' \in [path : Upstream \union {"generated", "none"}, kept : BOOLEAN]
        /\ origin' = origin
        /\ Like(co', co) \/ Like(co', new)
    BY <1>1, <2>6, <2>7, Becoming DEF Unharmed
  <2>9. co'.index = co.index /\ co'.head \in {co.head, onto}
    BY <2>6, <2>8 DEF Like
  <2>10. lane' \in LaneStates /\ lane'.stage = "done"
    BY <1>1, <2>1, MoveType DEF Stages
  <2>11. NoUpstream'
    <3>1. CASE call.result = "green"
      <4>1. co.index = co.head /\ co.head \ {"generated"} = onto \union {"mine"}
        BY <2>2, <2>3, <3>1 DEF BeforeRestore, Clean, Moved
      <4>2. (co'.index \ co'.head) \intersect Upstream = {}
        BY <2>9, <4>1 DEF Upstream
      <4> QED
        BY <4>2 DEF NoUpstream
    <3>2. CASE call.result \in Refusals
      BY <2>2, <2>9, <3>2 DEF NoUpstream, BeforeRestore, Lane, Upstream
    <3>3. CASE call.result \in {"cleanup-unproven", "unverified"}
      BY <2>1, <3>3 DEF NoUpstream
    <3> QED
      BY <1>1, <2>2, <3>1, <3>2, <3>3 DEF CallStates
  <2>12. CheckoutType'
    BY <1>1, <2>1, <2>8, <2>10 DEF CheckoutType
  <2>13. PlaceInv'
    BY <2>1, <2>2, <2>10, <2>11 DEF PlaceInv, BeforeCommit
  <2> QED
    BY <2>8, <2>10, <2>12, <2>13 DEF CheckoutInv
<1>8. CASE CallPublish
  <2>1. /\ lane.stage = "publish"
        /\ co' = co /\ ignored' = ignored /\ origin' = origin /\ call' = call
    BY <1>8 DEF CallPublish, checkout
  <2>2. Clean(co) /\ call.at = "idle"
    BY <1>1, <2>1 DEF PlaceInv
  <2>3. lane' \in LaneStates /\ lane'.stage \in {"publish", "done"}
    <3>1. CASE lane' = [lane EXCEPT !.published = @ + 1]
      BY <1>1, <2>1, <3>1 DEF CheckoutType, LaneStates
    <3>2. CASE Move("done")
      BY <1>1, <3>2, MoveType DEF Stages
    <3> QED
      BY <1>8, <3>1, <3>2 DEF CallPublish
  <2>4. PlaceInv'
    BY <2>1, <2>2, <2>3 DEF PlaceInv, BeforeCommit, NoUpstream, Clean
  <2> QED
    BY <1>1, <1>2, <2>1, <2>3, <2>4 DEF CheckoutInv
<1> QED
  BY <1>3, <1>4, <1>5, <1>6, <1>7, <1>8

-----------------------------------------------------------------------------
(* The theorems                                                            *)

\* Every lane begins with nothing run, nothing committed and nothing asked.
LEMMA DeliveryInit == Init => DeliveryInv
<1> SUFFICES ASSUME Init PROVE DeliveryInv
  OBVIOUS
<1>1. SuiteInv
  BY DEF Init, SuiteInit, SuiteInv, ProcStates, RunStates, LeaderLeft, StopCause, Earned, NoProcs,
         NewRun, Members, Codes, Verdicts
<1>2. ProofInv
  <2>1. [t \in Tests |-> NotRun] \in [Tests -> Row]
    BY DEF NotRun, Row
  <2> QED
    BY <2>1 DEF Init, ProofInit, SuiteInit, NewRun, ProofInv, ProofStates, RunFor, Spoiled, TakenAway
<1>3. RequestInv
  <2>1. \A b \in Bases : Request(b, "others") \in Requests
    BY DEF Request, Requests
  <2>2. /\ remote \in [branch : {"absent", "lane", "other"}, open : SUBSET Requests]
        /\ pub = Quiet("none") /\ standing = {}
    BY <2>1 DEF Init, PublicationInit
  <2> QED
    BY <2>2 DEF RequestInv, NoneBefore, PubStates, Quiet
<1>4. CheckoutInv
  <2>1. /\ co \in CheckoutStates /\ Pristine(co)
    BY DEF Init, CheckoutInit, CheckoutStates, Pristine, Lane, Changes
  <2>2. /\ ignored \in [path : Upstream \union {"generated", "none"}, kept : BOOLEAN]
        /\ ignored.kept /\ origin = {} /\ call = Idle("none")
    BY DEF Init, CheckoutInit
  <2>3. call \in CallStates /\ call.at = "idle" /\ call.result = "none"
    BY <2>2, BeforeTypes DEF Idle, CallStates
  <2>4. lane \in LaneStates /\ lane.found = co /\ lane.stage \in {"proof", "suite", "commit"}
    BY <2>1 DEF Init, LaneStates, Stages
  <2>5. Unharmed
    BY <2>1, <2>2 DEF Unharmed, Pristine, Lane, Upstream
  <2>6. InCommit /\ CommitEnded
    BY <2>1, <2>3, <2>4 DEF InCommit, CommitEnded, CommitPlaces, Pristine, Refusals
  <2>7. PlaceInv
    BY <2>1, <2>2, <2>3, <2>4, <2>6 DEF PlaceInv, BeforeCommit
  <2> QED
    BY <2>1, <2>2, <2>3, <2>4, <2>5, <2>7 DEF CheckoutInv, CheckoutType
<1> QED
  BY <1>1, <1>2, <1>3, <1>4 DEF DeliveryInv

\* What a step says of a suite run under way in a proof.
LEMMA ProofKept ==
  ASSUME ProofInv, proof' = proof,
         lane'.stage = "proof" => lane.stage = "proof",
         lane'.stage = "proof" /\ runner'.phase # "idle" => runner.phase # "idle" \/ ProofRuns
  PROVE  ProofInv'
<1>1. ProofRuns' = ProofRuns
  BY DEF ProofRuns, Due
<1> QED
  BY <1>1 DEF ProofInv, RunFor, Spoiled, TakenAway

\* The publisher's part is kept by a step that leaves it alone.
LEMMA SameRequest == RequestInv /\ UNCHANGED publication => RequestInv'
BY DEF RequestInv, NoneBefore, publication

\* Every step keeps the invariant, and opens no request where one has been open.
LEMMA DeliveryStep ==
  ASSUME DeliveryInv, [Next]_vars
  PROVE  /\ DeliveryInv'
         /\ \A r \in remote'.open \ remote.open : r.by = "lane" => standing = {}
<1>1. SuiteInv /\ ProofInv /\ RequestInv /\ CheckoutInv
  BY DEF DeliveryInv
<1> DEFINE Opens == \A r \in remote'.open \ remote.open : r.by = "lane" => standing = {}
<1>0. UNCHANGED publication => Opens
  BY DEF publication
<1>2. CASE \/ Suite(Spawn) \/ Suite(Deadline) \/ Suite(Overflow) \/ Suite(Closes) \/ Suite(Reap)
           \/ Suite(Processes)
  <2>1. /\ Spawn \/ Deadline \/ Overflow \/ Closes \/ Reap \/ Processes
        /\ lane.stage = "suite" \/ (lane.stage = "proof" /\ ProofRuns)
        /\ UNCHANGED <<proof, checkout, publication, lane>>
    BY <1>2 DEF Suite
  <2>2. SuiteInv'
    BY <1>1, <2>1, SuiteStep
  <2>3. ProofInv'
    BY <1>1, <2>1, ProofKept
  <2> QED
    BY <1>1, <1>0, <2>1, <2>2, <2>3, SameRequest, SameCheckout DEF DeliveryInv
<1>3. CASE Prove
  <2>1. lane.stage = "proof" /\ Proving /\ UNCHANGED <<checkout, publication, lane>>
    BY <1>3 DEF Prove
  <2>2. /\ SuiteInv' /\ proof' \in ProofStates /\ Spoiled' /\ TakenAway'
        /\ runner'.phase # "idle" => ProofRuns'
    BY <1>1, <2>1, ProvingStep
  <2>3. ProofInv'
    BY <2>2 DEF ProofInv, RunFor
  <2> QED
    BY <1>1, <1>0, <2>1, <2>2, <2>3, SameRequest, SameCheckout DEF DeliveryInv
<1>4. CASE Calls
  <2>1. Git /\ UNCHANGED <<suite, proof, publication, lane>>
    BY <1>4 DEF Calls
  <2>2. CheckoutInv'
    BY <1>1, <2>1, GitStep
  <2>3. ProofInv'
    BY <1>1, <2>1, ProofKept DEF suite
  <2> QED
    BY <1>1, <1>0, <2>1, <2>2, <2>3, SameRequest, SameSuite DEF DeliveryInv
<1>5. CASE Publishing
  <2>1. Publisher /\ UNCHANGED <<suite, proof, checkout, lane>>
    BY <1>5 DEF Publishing
  <2>2. RequestInv' /\ Opens
    BY <1>1, <2>1, PublisherStep
  <2>3. ProofInv'
    BY <1>1, <2>1, ProofKept DEF suite
  <2> QED
    BY <1>1, <2>1, <2>2, <2>3, SameSuite, SameCheckout DEF DeliveryInv
<1>6. CASE Proved \/ Suited \/ CallCommit \/ AfterCommit \/ CallRebase \/ AfterRebase
             \/ BaseRestore \/ CallPublish
  <2>1. CheckoutInv' /\ (lane'.stage # lane.stage => lane'.stage # "proof")
    BY <1>1, <1>6, LaneStep
  <2>2. UNCHANGED <<suite, proof>>
    BY <1>6 DEF Proved, Suited, CallCommit, AfterCommit, CallRebase, AfterRebase, BaseRestore,
                CallPublish, Called
  <2>3. RequestInv' /\ Opens
    <3>1. CASE CallPublish
      <4>1. remote' = remote
        BY <3>1 DEF CallPublish
      <4> QED
        BY <1>1, <3>1, <4>1, CallPublishStep
    <3>2. CASE ~CallPublish
      <4>1. UNCHANGED publication
        BY <1>6, <3>2 DEF Proved, Suited, CallCommit, AfterCommit, CallRebase, AfterRebase,
                          BaseRestore, Called
      <4> QED
        BY <1>1, <1>0, <4>1, SameRequest
    <3> QED
      BY <3>1, <3>2
  <2>4. ProofInv'
    BY <1>1, <2>1, <2>2, ProofKept DEF suite
  <2> QED
    BY <1>1, <2>1, <2>2, <2>3, <2>4, SameSuite DEF DeliveryInv
<1>7. CASE Fetch /\ UNCHANGED <<suite, proof, publication, lane>>
  <2>1. ProofInv'
    BY <1>1, <1>7, ProofKept DEF suite
  <2> QED
    BY <1>1, <1>7, <1>0, <2>1, FetchStep, SameSuite, SameRequest DEF DeliveryInv
<1>8. CASE Others /\ UNCHANGED <<suite, proof, checkout, lane>>
  <2>1. ProofInv'
    BY <1>1, <1>8, ProofKept DEF suite
  <2> QED
    BY <1>1, <1>8, <2>1, OthersStep, SameSuite, SameCheckout DEF DeliveryInv
<1>9. CASE UNCHANGED vars
  <2>1. UNCHANGED <<suite, proof, checkout, publication, lane>>
    BY <1>9 DEF vars
  <2>2. ProofInv'
    BY <1>1, <2>1, ProofKept DEF suite
  <2> QED
    BY <1>1, <1>0, <2>1, <2>2, SameSuite, SameRequest, SameCheckout DEF DeliveryInv
<1> QED
  BY <1>2, <1>3, <1>4, <1>5, <1>6, <1>7, <1>8, <1>9 DEF Next, Environment, Steps, Done

\* The invariant of a delivery is inductive: for any number of calls to publish,
\* whatever the processes, git, the remote and the other lanes do.
THEOREM DeliveryInvariant == Spec => []DeliveryInv
<1>1. DeliveryInv /\ [Next]_vars => DeliveryInv'
  BY DeliveryStep
<1> QED
  BY DeliveryInit, <1>1, PTL DEF Spec

\* A green or red suite ended by itself with nobody left, and a green proof
\* rests on no run that was cut short (checks.mjs, runSuite; proof.mjs).
THEOREM VerdictsEarned == Spec => []VerdictEarned
<1>1. DeliveryInv => VerdictEarned
  BY DEF DeliveryInv, SuiteInv, Earned, ProofInv, Spoiled, VerdictEarned
<1> QED
  BY DeliveryInvariant, <1>1, PTL

\* A commit or rebase that was refused leaves the checkout as it found it, no
\* call writes over an ignored file, and a proof's worktree is taken away
\* (checks.mjs, restoreCheckout and rebaseBranch; proof.mjs).
THEOREM LeftAsFound == Spec => []AsFound
<1>1. ASSUME DeliveryInv PROVE AsFound
  <2>1. /\ CheckoutType /\ PlaceInv /\ ignored.kept /\ TakenAway
        /\ co \in CheckoutStates /\ lane.found \in CheckoutStates /\ call \in CallStates
    BY <1>1 DEF DeliveryInv, ProofInv, CheckoutInv, CheckoutType, Unharmed, LaneStates
  <2>2. ASSUME lane.stage \in {"commit", "rebase"}, call.at = "idle",
               call.result \notin {"none", "green", "cleanup-unproven", "unverified"}
        PROVE  /\ [co EXCEPT !.busy = lane.found.busy] = lane.found
               /\ UnderWay => "rebase" \in lane.found.busy
    <3>1. call.result \in Refusals
      BY <2>1, <2>2 DEF CallStates
    <3>2. sameCheckout(lane.found, co)
      BY <2>1, <2>2, <3>1 DEF PlaceInv, CommitEnded, RebaseEnded
    <3>3. [co EXCEPT !.busy = lane.found.busy] = lane.found
      BY <2>1, <3>2 DEF sameCheckout, CheckoutStates
    <3>4. UnderWay => "rebase" \in lane.found.busy
      BY <2>1, <2>2, <3>1 DEF PlaceInv, InCommit, RebaseEnded, UnderWay
    <3> QED
      BY <3>3, <3>4
  <2> QED
    BY <2>1, <2>2 DEF AsFound, TakenAway
<1> QED
  BY DeliveryInvariant, <1>1, PTL

\* A green commit holds the listed files and nothing that was staged beside
\* them; a green rebase the lane's commits on the base it names (checks.mjs,
\* commitChanges and rebaseBranch).
THEOREM CallsExact == Spec => []Exact
<1>1. ASSUME DeliveryInv PROVE Exact
  <2>1. PlaceInv
    BY <1>1 DEF DeliveryInv, CheckoutInv
  <2>2. ASSUME call.at = "idle", call.result = "green", lane.stage = "commit"
        PROVE  /\ co.head = lane.found.head \union {"mine"}
               /\ co.index \ co.head = lane.found.index \ {"mine", "draft"}
               /\ co.work = lane.found.work
    BY <2>1, <2>2 DEF PlaceInv, InCommit, CommitEnded, AddedTo, Pristine
  <2>3. ASSUME call.at = "idle", call.result = "green", lane.stage = "rebase"
        PROVE  /\ co.head \ {"generated"} = call.onto \union lane.found.head
               /\ Clean(co) /\ co.onBranch /\ co.busy = {}
    BY <2>1, <2>3 DEF PlaceInv, InRebase, RebaseEnded, Moved
  <2> QED
    BY <2>2, <2>3 DEF Exact
<1> QED
  BY DeliveryInvariant, <1>1, PTL

\* A finish leaves no change of upstream's staged as the lane's own (loop.mjs).
THEOREM UpstreamKeptApart == Spec => []UpstreamNeverLocal
<1>1. DeliveryInv => UpstreamNeverLocal
  BY DEF DeliveryInv, CheckoutInv, PlaceInv, NoUpstream, UpstreamNeverLocal
<1> QED
  BY DeliveryInvariant, <1>1, PTL

\* The lane opens no pull request beside one that was open before its call
\* (checks.mjs, openPullRequest).
THEOREM RequestsStayOne == Spec => OneRequest
<1>1. DeliveryInv /\ [Next]_vars =>
        [\A r \in remote'.open \ remote.open : r.by = "lane" => standing = {}]_vars
  BY DeliveryStep
<1> QED
  BY DeliveryInvariant, <1>1, PTL DEF Spec, OneRequest
=============================================================================

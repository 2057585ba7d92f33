------------------------------ MODULE Delivery ------------------------------
(***************************************************************************)
(* The calls of crew/proof.mjs and crew/checks.mjs in the order            *)
(* crew/loop.mjs makes them: a run that has built proves its tests, runs   *)
(* the suite, commits, rebases and publishes; a finish commits a snapshot, *)
(* rebases it and takes it back.  LaneLoop models when they are made and   *)
(* takes what they leave for granted; this module is about what they leave.*)
(***************************************************************************)
EXTENDS ProofRun, Checkout, Publication

CONSTANT Publishes  \* calls of openPullRequest: by the run, and again by --accept

ASSUME PublishesAssumption == Publishes \in Nat \ {0}

VARIABLE lane  \* its shape, the call it is at, the checkout that call found, calls of openPullRequest

vars == <<suite, proof, checkout, publication, lane>>

\* A proof is followed from one checkout: it reads nothing of what the others add.
Plain == co.index = {} /\ ignored.path = "none"

Init ==
  /\ SuiteInit /\ ProofInit /\ CheckoutInit /\ PublicationInit
  /\ \E shape \in {"run", "finish"} :
       lane = [shape |-> shape, found |-> co, published |-> 0,
               stage |-> IF shape = "finish" THEN "commit" ELSE IF Plain THEN "proof" ELSE "suite"]

Move(stage) == lane' = [lane EXCEPT !.stage = stage, !.found = co]
Fresh == call.at = "idle" /\ call.result = "none"
Returned(stage) == lane.stage = stage /\ call.at = "idle" /\ call.result # "none"
Called(stage) == /\ lane.stage = stage /\ Fresh
                 /\ call' = [Idle("none") EXCEPT !.at = stage]
                 /\ UNCHANGED <<co, ignored, origin, suite, proof, publication, lane>>

\* No test may be named; anything but a green proof ends the pass.
Proved ==
  /\ lane.stage = "proof"
  /\ \/ proof.at = "add" /\ Move("suite")
     \/ proof.at = "done" /\ Move(IF proof.result = "green" THEN "suite" ELSE "done")
  /\ UNCHANGED <<suite, proof, checkout, publication>>

Suited ==
  /\ lane.stage = "suite" /\ runner.phase = "settled"
  /\ Move(IF runner.status = "green" THEN "commit" ELSE "done")
  /\ UNCHANGED <<suite, proof, checkout, publication>>

CallCommit == Called("commit")
CallRebase == Called("rebase")

AfterCommit ==
  /\ Returned("commit")
  /\ IF call.result = "green" THEN Move("rebase") /\ call' = Idle("none")
     ELSE Move("done") /\ UNCHANGED call
  /\ UNCHANGED <<co, ignored, origin, suite, proof, publication>>

AfterRebase ==
  /\ Returned("rebase")
  /\ Move(CASE lane.shape = "finish" /\ call.result # "cleanup-unproven" -> "restore"
            [] lane.shape = "run" /\ call.result = "green" -> "publish"
            [] OTHER -> "done")
  /\ UNCHANGED <<suite, proof, checkout, publication>>

\* The snapshot is taken back, onto the base or to where it was made.
BaseRestore ==
  /\ lane.stage = "restore"
  /\ LET onto == IF call.result = "green" THEN call.onto ELSE {}
     IN \/ Becomes([co EXCEPT !.head = onto]) \/ Fails([co EXCEPT !.head = onto])
  /\ Move("done")
  /\ UNCHANGED <<call, suite, proof, publication>>

CallPublish ==
  /\ lane.stage = "publish" /\ pub.at = "idle"
  /\ \/ /\ lane.published < Publishes /\ pub.result # "green"
        /\ Then("publish")
        /\ lane' = [lane EXCEPT !.published = @ + 1]
     \/ lane.published > 0 /\ Move("done") /\ UNCHANGED pub
  /\ UNCHANGED <<remote, standing, suite, proof, checkout>>

Done == lane.stage = "done" /\ UNCHANGED vars

\* A suite run of the proof, or the suite.
Suite(A) ==
  /\ lane.stage = "suite" \/ (lane.stage = "proof" /\ ProofRuns)
  /\ A
  /\ UNCHANGED <<proof, checkout, publication, lane>>

Prove == lane.stage = "proof" /\ Proving /\ UNCHANGED <<checkout, publication, lane>>
Calls == Git /\ UNCHANGED <<suite, proof, publication, lane>>
Publishing == Publisher /\ UNCHANGED <<suite, proof, checkout, lane>>
Steps == Prove \/ Proved \/ Suited \/ CallCommit \/ AfterCommit \/ CallRebase \/ AfterRebase \/ BaseRestore \/ CallPublish

Environment ==
  \/ Suite(Processes)
  \/ Fetch /\ UNCHANGED <<suite, proof, publication, lane>>
  \/ lane.stage = "publish" /\ Others /\ UNCHANGED <<suite, proof, checkout, lane>>

Next ==
  \/ Suite(Spawn) \/ Suite(Deadline) \/ Suite(Overflow) \/ Suite(Closes) \/ Suite(Reap)
  \/ Calls \/ Publishing \/ Steps \/ Environment \/ Done

\* node's timers fire and its events come; every git and gh command has a deadline.
Fairness ==
  /\ WF_vars(Suite(Spawn)) /\ WF_vars(Suite(Deadline)) /\ WF_vars(Suite(Closes)) /\ WF_vars(Suite(Reap))
  /\ WF_vars(Calls) /\ WF_vars(Publishing) /\ WF_vars(Steps)

Spec == Init /\ [][Next]_vars /\ Fairness

-----------------------------------------------------------------------------
\* A suite is green or red by its leader's own exit, before anyone signalled it,
\* and with nobody left in its group to write in the checkout (checks.mjs:113-119).
\* A proof is green only if every run it rests on ended like that (proof.mjs:222).
VerdictEarned ==
  /\ runner.status \in {"green", "red"} =>
       /\ procs.group = {} /\ procs.undisturbed
       /\ procs.code = IF runner.status = "green" THEN "zero" ELSE "nonzero"
  /\ proof.result = "green" => ~proof.cut

\* A commit or a rebase that fails, and does not say that its cleanup is
\* unproven, leaves HEAD, index and tree as it found them, except a rebase
\* that exited 0 and could not be read back (checks.mjs:294, 351, 538); and no
\* call, green or not, ever writes over an ignored file (checks.mjs:378).  A
\* proof that added its worktree takes it away or says so, and leaves no
\* registration of one that is gone (proof.mjs:240).
AsFound ==
  /\ ignored.kept
  /\ (proof.at = "done" /\ proof.added /\ proof.result # "cleanup-unproven")
       => ~proof.registered /\ ~proof.path
  /\ (/\ lane.stage \in {"commit", "rebase"} /\ call.at = "idle"
      /\ call.result \notin {"none", "green", "cleanup-unproven", "unverified"})
     => /\ [co EXCEPT !.busy = lane.found.busy] = lane.found
        /\ UnderWay => "rebase" \in lane.found.busy

\* A green commit holds the listed files and leaves what is staged beside them
\* staged; a green rebase holds the lane's commits on exactly the base it
\* names, whatever the shared ref has become (checks.mjs:294, 376).
Exact ==
  call.at = "idle" /\ call.result = "green" =>
    CASE lane.stage = "commit" ->
           /\ co.head = lane.found.head \union {"mine"}
           /\ co.index \ co.head = lane.found.index \ {"mine", "draft"}
           /\ co.work = lane.found.work
      [] lane.stage = "rebase" ->
           /\ co.head \ {"generated"} = call.onto \union lane.found.head
           /\ Clean(co) /\ co.onBranch /\ co.busy = {}
      [] OTHER -> TRUE

\* A finish never leaves upstream's changes staged as if they were the lane's
\* (loop.mjs:591), except after a rebase that exited 0 and was not read back.
UpstreamNeverLocal ==
  lane.stage = "done" /\ lane.shape = "finish"
    /\ call.result \notin {"cleanup-unproven", "unverified"}
  => (co.index \ co.head) \intersect Upstream = {}

\* The lane opens no pull request beside one that has been open since before
\* the call, on any base (checks.mjs:593).
OneRequest ==
  [][\A r \in remote'.open \ remote.open : r.by = "lane" => standing = {}]_vars

\* Every call comes back: a suite by its deadline even when its leader is gone
\* and somebody holds its pipes (checks.mjs:128).
Ends == <>(lane.stage = "done")
=============================================================================

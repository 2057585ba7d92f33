------------------------------- MODULE ProofRun -------------------------------
(***************************************************************************)
(* proveTests of crew/proof.mjs: the named tests are run on the old source, *)
(* in a worktree added for it, and in the checkout, each by a suite run of *)
(* its own; afterwards the worktree is removed.  One test is run by a      *)
(* command the project declares, the others share a node test file.        *)
(***************************************************************************)
EXTENDS SuiteRun

VARIABLE proof  \* where it is, the rows, the worktree, the result; was any run cut short?

Declared == {"declared"}
Filed == {"first", "second"}
Tests == Declared \union Filed

NotRun == [base |-> "not-run", build |-> "not-run", reason |-> "none"]

ProofInit ==
  proof = [at |-> "add", rows |-> [t \in Tests |-> NotRun], added |-> FALSE,
           registered |-> FALSE, path |-> FALSE, result |-> "none", cut |-> FALSE]

\* The runs in their order; a file's tests are run together.
Runs == {"setup", "declared-base", "declared-build", "file-base", "file-build"}
After(run) ==
  CASE run = "setup" -> "declared-base"
    [] run = "declared-base" -> "declared-build"
    [] run = "declared-build" -> "file-base"
    [] run = "file-base" -> "file-build"
    [] run = "file-build" -> "weigh"
Side(run) == IF run \in {"declared-base", "file-base"} THEN "base" ELSE "build"

\* testState, as far as a proof tells its values apart.
States(side) == {IF side = "base" THEN "red" ELSE "green", "other"}

\* The rows a run is for: those nothing has been said against so far.
Due(run) ==
  {t \in IF run \in {"file-base", "file-build"} THEN Filed ELSE Declared :
     proof.rows[t].reason = "none"}

Leave(result) == proof' = [proof EXCEPT !.at = "remove", !.result = result]

-----------------------------------------------------------------------------
\* A worktree add that failed may have registered it all the same.
AddWorktree ==
  /\ proof.at = "add"
  /\ \/ proof' = [proof EXCEPT !.at = "read", !.added = TRUE, !.registered = TRUE, !.path = TRUE]
     \/ \E made \in BOOLEAN :
          proof' = [proof EXCEPT !.at = "remove", !.registered = made, !.path = made,
                                 !.result = "unmeasured"]
  /\ UNCHANGED suite

\* The old source's project file, and the build's tests copied beside it.
ReadProject ==
  /\ proof.at = "read"
  /\ \/ Leave("unmeasured")
     \/ \E refused \in SUBSET Tests :
          proof' = [proof EXCEPT !.at = "setup",
                      !.rows = [t \in Tests |-> IF t \in refused
                                  THEN [NotRun EXCEPT !.reason = "refused"] ELSE NotRun]]
  /\ UNCHANGED suite

\* Nothing to run, or no setup declared.
PassOver ==
  /\ proof.at \in Runs /\ runner.phase = "idle"
  /\ Due(proof.at) = {} \/ proof.at = "setup"
  /\ proof' = [proof EXCEPT !.at = After(@)]
  /\ UNCHANGED suite

Measured == runner.status \in {"green", "red"}

\* Mutant: what a run that was cut short reported counts as well.
SeenAnyway(run, seen) ==
  [t \in Tests |-> IF t \in Due(run) THEN [proof.rows[t] EXCEPT ![Side(run)] = seen[t]]
                   ELSE proof.rows[t]]

\* What a run says of its tests: nothing, unless it ended by itself.
Seen(run, seen) ==
  [t \in Tests |->
     CASE t \notin Due(run) -> proof.rows[t]
       [] t \in Due(run) /\ Measured -> [proof.rows[t] EXCEPT ![Side(run)] = seen[t]]
       [] OTHER -> [proof.rows[t] EXCEPT ![Side(run)] = "other", !.reason = "cut"]]

TakeRun ==
  /\ proof.at \in Runs \ {"setup"} /\ runner.phase = "settled"
  /\ \E seen \in [Due(proof.at) -> States(Side(proof.at))] :
       proof' = [proof EXCEPT !.at = After(@), !.rows = Seen(proof.at, seen),
                              !.cut = @ \/ ~Measured]
  /\ procs' = NoProcs /\ runner' = NewRun

TakeSetup ==
  /\ proof.at = "setup" /\ runner.phase = "settled"
  /\ IF runner.status = "green" THEN proof' = [proof EXCEPT !.at = After(@)] ELSE Leave("unmeasured")
  /\ procs' = NoProcs /\ runner' = NewRun

\* Red on the old source and green on the build, for a file's test at one place in both.
Weigh ==
  /\ proof.at = "weigh"
  /\ \E moved \in SUBSET Filed :
       LET proven(t) == /\ proof.rows[t].reason = "none" /\ t \notin moved
                        /\ proof.rows[t].base = "red" /\ proof.rows[t].build = "green"
       IN Leave(IF \A t \in Tests : proven(t) THEN "green" ELSE "red")
  /\ UNCHANGED suite

-----------------------------------------------------------------------------
\* Mutant: a worktree git would not remove is deleted all the same.
DroppedAnyway == [proof EXCEPT !.at = "done", !.path = FALSE]

\* Kept and reported, never deleted under git.
Kept == [proof EXCEPT !.at = "done", !.result = "cleanup-unproven"]

\* git removes the tree and then its registration; the temporary directory goes after them.
Removed == [proof EXCEPT !.at = "done", !.registered = @ /\ ~proof.added, !.path = FALSE]

RemoveWorktree ==
  /\ proof.at = "remove"
  /\ \/ proof' = Removed
     \/ proof' = [Removed EXCEPT !.result = "cleanup-unproven", !.path = proof.path /\ ~proof.added]
     \/ proof.added /\ proof' \in {Kept, [Kept EXCEPT !.path = FALSE]}
  /\ UNCHANGED suite

Proving ==
  AddWorktree \/ ReadProject \/ PassOver \/ TakeRun \/ TakeSetup \/ Weigh \/ RemoveWorktree

\* Suite runs are made at these places only, and for somebody.
ProofRuns == proof.at \in Runs /\ Due(proof.at) # {}
=============================================================================

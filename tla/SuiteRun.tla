------------------------------ MODULE SuiteRun ------------------------------
(***************************************************************************)
(* runSuite of crew/checks.mjs: one command in a process group of its own, *)
(* with a deadline, an output limit and a teardown.  The runner is one     *)
(* thread and learns of the processes by node's events, a probe of the     *)
(* group and its timers, which race to settle the run.                     *)
(***************************************************************************)
VARIABLES
  procs,  \* the live group, who holds the output pipes, how the leader exited
  runner  \* what the runner has been told, and the result

suite == <<procs, runner>>

\* A child started by the leader; "escaped" is one that left the group.
Members == {"leader", "child"}
Codes == {"zero", "nonzero", "signal"}

NoProcs == [group |-> {}, piped |-> {}, code |-> "none", undisturbed |-> TRUE]
NewRun == [phase |-> "idle", closed |-> FALSE, timedOut |-> FALSE,
           overflow |-> FALSE, status |-> "none"]

SuiteInit == procs = NoProcs /\ runner = NewRun

-----------------------------------------------------------------------------
(* The runner                                                              *)

\* Mutant: the exit code is looked at before the deadline.
ByCode(r, cleanup) ==
  CASE cleanup = "unproven" -> "cleanup-unproven"
    [] cleanup = "proven" /\ procs.code = "zero" -> "green"
    [] cleanup = "proven" /\ procs.code = "nonzero" -> "red"
    [] OTHER -> "signal"

classify(r, cleanup) ==
  CASE cleanup = "unproven" -> "cleanup-unproven"
    [] cleanup = "proven" /\ r.timedOut -> "timeout"
    [] cleanup = "proven" /\ ~r.timedOut /\ r.overflow -> "output-limit"
    [] OTHER -> CASE procs.code = "zero" -> "green"
                  [] procs.code = "nonzero" -> "red"
                  [] OTHER -> "signal"

settle(r, cleanup) == [r EXCEPT !.phase = "settled", !.status = classify(r, cleanup)]

\* Mutant: closed pipes are taken for the death of the group.
DeadByPipes == runner.phase = "running"

groupDead == procs.group = {}

\* The first to stop the run goes on with it; only a close may find nobody left.
stop(r, force) ==
  IF r.phase # "running" THEN r
  ELSE IF ~force /\ groupDead THEN settle(r, "proven") ELSE [r EXCEPT !.phase = "term"]

Spawn ==
  /\ runner.phase = "idle"
  /\ \/ /\ runner' = [runner EXCEPT !.phase = "running"]
        /\ procs' = [procs EXCEPT !.group = {"leader"}, !.piped = {"leader"}]
     \/ /\ runner' = [runner EXCEPT !.phase = "settled", !.status = "spawn-error"]
        /\ UNCHANGED procs

Listening == runner.phase \in {"running", "term", "kill"}

\* Mutant: the leader's exit ends the deadline.
ArmedByLeader == runner.phase = "running" /\ "leader" \in procs.group

\* The deadline outlives the leader: its descendants may hold the pipes.
Armed == runner.phase = "running"

Deadline ==
  /\ Armed
  /\ runner' = stop([runner EXCEPT !.timedOut = TRUE], TRUE)
  /\ UNCHANGED procs

Overflow ==
  /\ Listening /\ ~runner.closed /\ ~runner.overflow
  /\ runner' = stop([runner EXCEPT !.overflow = TRUE], TRUE)
  /\ UNCHANGED procs

\* node's close: the leader has exited and nobody holds the pipes.
Closes ==
  /\ Listening /\ ~runner.closed
  /\ procs.code # "none" /\ procs.piped = {}
  /\ runner' = stop([runner EXCEPT !.closed = TRUE], FALSE)
  /\ UNCHANGED procs

\* reapGroup: TERM, a grace, KILL, a bounded wait for the group and the pipes.
reaped == procs.group = {} /\ runner.closed

Reap ==
  /\ runner.phase \in {"term", "kill"}
  /\ runner' = IF reaped THEN settle(runner, "proven")
               ELSE IF runner.phase = "term" THEN [runner EXCEPT !.phase = "kill"]
               ELSE settle(runner, "unproven")
  /\ UNCHANGED procs

-----------------------------------------------------------------------------
(* The processes: any command.  A killed process may take its time to die. *)

LeaderExits ==
  /\ "leader" \in procs.group
  /\ \E code \in Codes :
       procs' = [group |-> procs.group \ {"leader"}, piped |-> procs.piped \ {"leader"},
                 code |-> code, undisturbed |-> runner.phase = "running"]
  /\ UNCHANGED runner

ChildStarts ==
  /\ "leader" \in procs.group
  /\ \E held \in {{}, {"child"}} :
       procs' = [procs EXCEPT !.group = @ \union {"child"}, !.piped = @ \union held]
  /\ UNCHANGED runner

ChildEnds ==
  /\ procs' = [procs EXCEPT !.group = @ \ {"child"}, !.piped = @ \ {"child"}]
  /\ "child" \in procs.group
  /\ UNCHANGED runner

\* A daemon: out of the runner's reach, seen only as long as it holds a pipe.
Escapes ==
  /\ "child" \in procs.group
  /\ procs' = [procs EXCEPT !.group = @ \ {"child"},
                            !.piped = {IF m = "child" THEN "escaped" ELSE m : m \in @}]
  /\ UNCHANGED runner

LetsGo ==
  /\ "escaped" \in procs.piped
  /\ procs' = [procs EXCEPT !.piped = @ \ {"escaped"}]
  /\ UNCHANGED runner

Processes == LeaderExits \/ ChildStarts \/ ChildEnds \/ Escapes \/ LetsGo
=============================================================================

------------------------------ MODULE AgentTool ------------------------------
(***************************************************************************)
(* The agent tool of crew/pi/extensions/subagent.ts: a call reserves one   *)
(* spawn of its lane's budget, starts a read-only pi child and waits for   *)
(* it to close.  A deadline and the abort of the run both stop the child,  *)
(* by TERM and after a grace by KILL.  The child is external.              *)
(***************************************************************************)
EXTENDS Naturals

CONSTANT Budget  \* SUBAGENT_SPAWN_BUDGET

ASSUME BudgetAssumption == Budget \in Nat

VARIABLES
  spawns,  \* the counter file beside the journal; outlives the seat
  scout    \* the child of the call under way, how it was stopped, what came of it

agenttool == <<spawns, scout>>

NoScout == [at |-> "none", code |-> "none", oversize |-> FALSE, timedOut |-> FALSE,
            error |-> FALSE, stopped |-> FALSE, grace |-> "off", result |-> "none"]

AgentToolInit == spawns = [counted |-> 0, started |-> 0] /\ scout = NoScout

Refused == [NoScout EXCEPT !.result = "refused"]

-----------------------------------------------------------------------------
\* Mutant: one more than the budget.
AtBudget == spawns.counted <= Budget

MayReserve == spawns.counted < Budget

\* Counted before the child is started, whatever becomes of it.
reserveSpawn(n) ==
  /\ MayReserve
  /\ spawns' = [counted |-> spawns.counted + 1, started |-> spawns.started + n]

\* Not granted, no definition, no directory, the budget spent, or a counter that
\* cannot be read or written: nothing is started.
Refuses == scout' = Refused /\ UNCHANGED spawns

\* spawn threw, or failed with an error event and a close to follow.
SpawnFails ==
  /\ reserveSpawn(0)
  /\ \/ scout' = Refused
     \/ scout' = [NoScout EXCEPT !.at = "exited", !.error = TRUE]

\* TERM now and KILL after the grace, while the child is there.
killChild(s) ==
  IF s.at \in {"up", "exited"} THEN [s EXCEPT !.stopped = TRUE, !.grace = "on"] ELSE s

Spawns(aborted) ==
  /\ reserveSpawn(1)
  /\ LET up == [NoScout EXCEPT !.at = "up"]
     IN scout' = IF aborted THEN killChild(up) ELSE up

\* Its output passes the cap: the rest is not read, and it is left to end.
Oversize ==
  /\ scout.at = "up" /\ ~scout.oversize
  /\ scout' = [scout EXCEPT !.oversize = TRUE]
  /\ UNCHANGED spawns

ScoutDeadline ==
  /\ scout.at \in {"up", "exited"} /\ ~scout.timedOut
  /\ scout' = killChild([scout EXCEPT !.timedOut = TRUE])
  /\ UNCHANGED spawns

GraceEnds ==
  /\ scout.at \in {"up", "exited"} /\ scout.grace = "on"
  /\ scout' = [scout EXCEPT !.grace = "killed"]
  /\ UNCHANGED spawns

\* External: the process ends, by itself or by a signal.
ScoutExits(killed) ==
  /\ scout.at = "up"
  /\ \E code \in {"zero", "nonzero", "signal"} :
       /\ killed => code = "signal"
       /\ scout' = [scout EXCEPT !.at = "exited", !.code = code]
  /\ UNCHANGED spawns

\* Mutant: an exit of 0 is looked at before how the child was stopped.
ByExit(s, aborted) == IF s.code = "zero" THEN {"findings", "refused"} ELSE {"refused"}

\* A child that exited 0 and was not stopped has findings if they can be read.
Classified(s, aborted) ==
  IF s.error \/ s.oversize \/ aborted \/ s.timedOut \/ s.code # "zero"
  THEN {"refused"} ELSE {"findings", "refused"}

\* close, not exit or error, ends the call; it takes the timers with it.
ScoutCloses(aborted) ==
  /\ scout.at = "exited"
  /\ \E result \in Classified(scout, aborted) :
       scout' = [scout EXCEPT !.at = "closed", !.grace = "off", !.result = result]
  /\ UNCHANGED spawns
=============================================================================

---------------------------- MODULE MCLaneVerbs ----------------------------
(* Two verb calls at once on one lane that is new, died in its build, has  *)
(* just published or stopped, has a finish that is ready, or is to be      *)
(* finished once more, its commit taken back or made on a ready one.       *)
EXTENDS LaneVerbs, TLC

CONSTANTS a, b

MCOps == {a, b}
Symmetry == Permutations(MCOps)

Rows(evs) == [i \in DOMAIN evs |-> Row(evs[i], 0, 0)]
ARun(live, phase, finish, reviews, commit) ==
  [live |-> live, phase |-> phase, finish |-> finish, prior |-> 0, reviews |-> reviews,
   commit |-> commit, below |-> 0]
NoLane == [dir |-> "none", tree |-> FALSE, head |-> 0, tip |-> 0, pr |-> "none",
           pid |-> None, spec |-> [rec |-> 0, died |-> FALSE]]
ALane(head, pid) == [NoLane EXCEPT !.dir = "live", !.tree = TRUE, !.head = head, !.pid = pid]

New == [journal |-> <<>>, lane |-> NoLane, runs |-> <<>>, stale |-> {}, acts |-> {}]

\* Its run died after a review.
Died == [journal |-> Rows(<<"start", "build", "review">>), lane |-> ALane(0, 1), stale |-> {}, acts |-> {},
         runs |-> <<ARun(FALSE, "open", FALSE, 1, "no")>>]

\* Its run has published and is about to say so.
Published == [journal |-> Rows(<<"start", "build">>) \o <<Row("commit", 0, 1)>>,
              lane |-> [ALane(1, 1) EXCEPT !.tip = 1, !.pr = "open"], stale |-> {}, acts |-> {},
              runs |-> <<ARun(TRUE, "open", FALSE, 0, "pushed")>>]

\* It stopped with a commit, has not ended yet, and a closeout died on it.
Stopped == [journal |-> Rows(<<"start", "build">>) \o <<Row("commit", 0, 1), Row("stop", 0, 0)>>,
            lane |-> ALane(1, 1), stale |-> {4}, acts |-> {},
            runs |-> <<ARun(TRUE, "stopped", FALSE, 0, "told")>>]

\* Its first finish reviewed once, is ready, and its decision came late.
ReadyLane == [journal |-> Rows(<<"start", "build", "stop", "start", "review">>)
                          \o <<Row("commit", 0, 2), Row("return", 4, 0), Row("ready", 1, 2)>>,
              lane |-> ALane(2, 2), stale |-> {},
              acts |-> {[at |-> 3, what |-> "return", run |-> 2, stake |-> 3, died |-> None]},
              runs |-> <<ARun(FALSE, "stopped", FALSE, 0, "no"), ARun(TRUE, "ready", TRUE, 1, "told")>>]

\* Its second run finished a dead one, and stopped; a return has its commit back.
Back == [journal |-> Rows(<<"start", "build", "start", "review">>)
                     \o <<Row("commit", 0, 2), Row("stop", 0, 0), Row("uncommit", 0, 0)>>,
         lane |-> [ALane(0, 2) EXCEPT !.spec = [rec |-> 3, died |-> TRUE]], stale |-> {},
         acts |-> {[at |-> 3, what |-> "return", run |-> 2, stake |-> 3, died |-> None]},
         runs |-> <<ARun(FALSE, "open", FALSE, 0, "no"), ARun(FALSE, "stopped", TRUE, 1, "told")>>]

\* Its second run was ready and returned on, and its third committed on that one
\* and stopped.
Stacked == [journal |-> Rows(<<"start", "build", "stop", "start">>)
                        \o <<Row("commit", 0, 2), Row("return", 4, 0), Row("ready", 0, 2), Row("return", 8, 0)>>
                        \o <<Row("start", 0, 0), Row("commit", 0, 3), Row("stop", 0, 0)>>,
            lane |-> ALane(3, 3), stale |-> {},
            acts |-> {[at |-> 3, what |-> "return", run |-> 2, stake |-> 3, died |-> None],
                      [at |-> 7, what |-> "return", run |-> 3, stake |-> 7, died |-> None]},
            runs |-> <<ARun(FALSE, "stopped", FALSE, 0, "no"), ARun(FALSE, "ready", TRUE, 0, "told"),
                       [ARun(FALSE, "stopped", TRUE, 0, "told") EXCEPT !.below = 2]>>]

MCHistories == {New, Died, Published, Stopped, ReadyLane, Back, Stacked}
RaceHistories == {Stopped}

\* Nothing more is asked of a lane once a second launch was for one end of a run.
Unraced == ~ghost.raced
=============================================================================

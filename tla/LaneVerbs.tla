----------------------------- MODULE LaneVerbs -----------------------------
(***************************************************************************)
(* The verbs an operator gives about one lane, and the detached runs they  *)
(* launch: crew start, finish (--return, --accept, --abandon), closeout    *)
(* (--discard) and record-pr.  Verbs and runs share the journal, run.pid,  *)
(* finish.json and the claim files of the lane directory, and nothing      *)
(* else.  Every call is a process: it may be killed before any step, and   *)
(* between two of its steps any other process may move.                    *)
(***************************************************************************)
EXTENDS Integers, Sequences, FiniteSetsExt

CONSTANTS
  Ops,      \* the verb calls that may be made, each a process with its pid
  None,     \* no pid: no claim, no run.pid, nothing proven dead
  Rounds,   \* FINISH_REVIEW_ROUNDS
  MaxRuns,  \* how many runs a lane has had in the end: bounds the model only
  Histories \* what the lane may have been through before these calls

ASSUME VerbsAssumption ==
  /\ Rounds \in Nat \ {0}
  /\ MaxRuns \in Nat \ {0}
  /\ None \notin Ops /\ None \notin Nat
  /\ IsFiniteSet(Ops) /\ Ops \intersect Nat = {}

\* Bounds the model only: no run writes more than a start, a build, a commit and
\* an end beside its reviews, and no call more than two rows.
MaxRows == MaxRuns * (Rounds + 5) + 2 * Cardinality(Ops)
Positions == 1..(MaxRows + 1)

\* Rows of the verbs: no run begins, works or ends with one.  (A run has ended
\* when it writes its pr row.)
CallRows == {"uncommit", "return", "accept", "abandon", "pr"}
Kinds == CallRows \union {"start", "build", "review", "commit", "stop", "ready"}
Launch == [at : Nat \ {0}, what : {"return"}, run : Nat, stake : Nat \ {0}, died : {None}]

\* The last word of a run that has begun, in the phase it is in.
Says(phase, ev) ==
  \/ phase = "open" /\ ev \in {"start", "build", "review", "commit"}
  \/ phase = "stopped" /\ ev = "stop"
  \/ phase = "ready" /\ ev = "ready"
  \/ phase = "published" /\ ev = "pr"

\* Over all the finishes of a lane: one element for each review.
FinishReviews(rs) == UNION {{r} \X (1..(IF rs[r].finish THEN rs[r].reviews ELSE 0)) : r \in DOMAIN rs}

\* Where the finishes of a lane may begin: after a stop, or at a recovered one.
\* Rows tell of f reviews from there on: so many are there, or a ready row is.
Begins(rows, rec) == {p + 1 : p \in {q \in DOMAIN rows : rows[q].ev = "stop"}} \union ({rec} \ {0})
Tells(rows, rec, f) ==
  \E from \in Begins(rows, rec) :
    \/ f <= Cardinality({p \in from..Len(rows) : rows[p].ev = "review"})
    \/ \E p \in from..Len(rows) : rows[p].ev = "ready"

\* A commit that a row names, and no ready row after that.
Loose(rows, head) ==
  \E p \in 1..Len(rows) :
    /\ rows[p].ev = "commit" /\ rows[p].head = head
    /\ ~\E q \in (p + 1)..Len(rows) : rows[q].ev = "ready" /\ rows[q].head = head

\* What a lane has been through: runs wrote its rows, one after the other, and
\* each after the first was launched by a return whose decision is claimed, to
\* finish; the last one may still be at work, and is the one run.pid names.  Its
\* branch is on the base or a ready commit, or on the last one that was made and
\* not taken back.
Lived(h) ==
  LET n == Len(h.journal)
      ev(p) == h.journal[p].ev
      begun(q) == \E p \in 1..q : ev(p) = "start" /\ \A k \in (p + 1)..q : ev(k) \notin {"stop", "ready"}
      working(r) == h.runs[r].live /\ h.runs[r].phase \in {"born", "open"}
      done == Cardinality(FinishReviews(h.runs))
      rests(c) == c = 0 \/ /\ c \in DOMAIN h.runs /\ h.runs[c].commit # "no"
                           /\ h.runs[c].commit = "made" => ~working(c)
                           /\ ~Loose(h.journal, c)
  IN /\ h.journal \in Seq([ev : Kinds, num : Nat, head : Nat])
     /\ h.runs \in Seq([live : BOOLEAN, phase : STRING, finish : BOOLEAN,
                        prior : Nat, reviews : Nat, commit : STRING, below : Nat])
     /\ h.lane \in [dir : STRING, tree : BOOLEAN, head : Nat, tip : Nat, pr : STRING,
                    pid : Nat \union {None}, spec : [rec : Nat, died : BOOLEAN]]
     /\ h.acts \subseteq Launch
     /\ h.lane.pid \in DOMAIN h.runs \union {None}
     /\ n <= MaxRows
     /\ h.runs = <<>> => h.journal = <<>>
     /\ \A p \in 1..n : ev(p) \in {"build", "review", "commit"} => begun(p)
     /\ \A r \in DOMAIN h.runs : working(r) =>
          /\ h.runs[r].phase = "open" /\ begun(n)
          /\ h.lane.pid \in {r, None}
          /\ r = Len(h.runs)
     /\ \A p \in 1..n : ev(p) = "ready" =>
          \/ /\ \A r \in DOMAIN h.runs : ~working(r)
             /\ \A q \in (p + 1)..n : ev(q) \in CallRows \ {"uncommit"}
             /\ h.lane.head = h.journal[p].head
          \/ \E act \in h.acts : act.at = p
     /\ \A p \in 1..n : ev(p) = "return" =>
          /\ h.journal[p].num \in 1..p
          /\ \E act \in h.acts : \A q \in (act.stake + 1)..(h.journal[p].num - 1) :
               ev(q) \notin {"start", "stop", "ready"}
     /\ \A r \in DOMAIN h.runs :
          /\ ~h.runs[r].finish => r = 1
          /\ h.runs[r].commit = "pushed" \/ h.runs[r].phase = "published" => ~h.runs[r].finish
     /\ h.runs # <<>> /\ h.runs[Len(h.runs)].phase # "born" =>
          \E s \in 1..n : /\ Says(h.runs[Len(h.runs)].phase, ev(s))
                          /\ \A q \in (s + 1)..n : ev(q) \in CallRows
                          /\ \A act \in h.acts : act.stake < s
     /\ \A act \in h.acts : act.run \in 2..Len(h.runs) /\ act.stake \in 1..n
     /\ \A act, other \in h.acts : act.at = other.at => act = other
     /\ \A p \in 1..n :
          LET c == h.journal[p].head IN
          /\ ev(p) = "commit" => c \in DOMAIN h.runs /\ h.runs[c].commit \notin {"no", "made"}
          /\ ev(p) = "ready" => rests(c)
     /\ \A r \in DOMAIN h.runs :
          /\ h.runs[r].commit # "no" => h.runs[r].below # r /\ rests(h.runs[r].below)
          /\ working(r) => IF h.runs[r].commit = "no" THEN rests(h.lane.head) ELSE h.lane.head = r
     /\ \/ rests(h.lane.head)
        \/ \E r \in DOMAIN h.runs : working(r) /\ h.runs[r].commit = "made"
        \/ \E p \in 1..n : /\ ev(p) = "commit" /\ h.journal[p].head = h.lane.head
                           /\ \A q \in (p + 1)..n : ev(q) \notin {"commit", "uncommit"}
     /\ h.lane.spec.rec <= n + 1
     /\ \A r \in DOMAIN h.runs : h.runs[r].finish => h.runs[r].prior + h.runs[r].reviews <= Rounds
     /\ \A p \in 1..n : ev(p) = "ready" => h.journal[p].num <= Rounds
     /\ \/ \E act \in h.acts : act.stake # act.at
        \/ /\ done <= Rounds
           /\ \A r \in DOMAIN h.runs : working(r) /\ h.runs[r].finish =>
                done <= h.runs[r].prior + h.runs[r].reviews
           /\ \A p \in 1..n : ev(p) = "ready" =>
                done <= h.journal[p].num + Cardinality({q \in (p + 1)..n : ev(q) = "review"})
           /\ \/ Tells(h.journal, h.lane.spec.rec, done)
              \/ /\ Begins(h.journal, h.lane.spec.rec) = {}
                 /\ \A r \in DOMAIN h.runs : ~h.runs[r].finish

ASSUME HistoriesAssumption == \A h \in Histories : Lived(h)

VARIABLES
  journal,  \* journal.jsonl: the rows some verb or reader looks at
  lane,     \* worktree, branch, pull request, run.pid, finish.json, directory
  claims,   \* finish-<position>.claim, the pid in it
  locks,    \* finish-<position>.reclaim, the pid in it
  decided,  \* the positions that have a finish-decision-<position>.claim
  runs,     \* the detached runs, in the order launched; a run's pid is its place
  ops,      \* what each call is at, and what it has read
  ghost     \* decisions carried out; those never recorded; an end launched from twice

files == <<claims, locks, decided>>
vars == <<journal, lane, claims, locks, decided, runs, ops, ghost>>

Decisions == {"return", "accept", "abandon"}
Row(ev, num, head) == [ev |-> ev, num |-> num, head |-> head]
Put(row) == Len(journal) < MaxRows /\ journal' = Append(journal, row)

Fresh == [pc |-> "new", verb |-> "none", way |-> "none", n |-> 0, at |-> 0, stake |-> 0,
          died |-> None, text |-> None, rec |-> 0, prior |-> 0, run |-> 0, todo |-> {}]

\* Mutant: whoever is asked for is dead.
FoundDeadAlways(pid) == {TRUE}

\* A pid is alive while its call is under way, or its run has a process.
Alive(pid) == \/ pid \in Ops /\ ops[pid].pc \notin {"new", "done"}
              \/ pid \in DOMAIN runs /\ runs[pid].live

\* A dead process is found dead, unless its pid is another's by now.
FoundDead(pid) == IF Alive(pid) THEN {FALSE} ELSE BOOLEAN

Init ==
  /\ \E h \in Histories :
       /\ journal = h.journal
       /\ lane = h.lane
       /\ runs = h.runs
       /\ claims = [p \in Positions |-> IF p \in h.stale THEN 0 ELSE None]
       /\ decided = {act.at : act \in h.acts}
       /\ ghost = [acts |-> h.acts, unrecorded |-> {}, raced |-> FALSE]
  /\ locks = [p \in Positions |-> None]
  /\ ops = [o \in Ops |-> Fresh]

-----------------------------------------------------------------------------
(* Reading the first n rows of the journal.  A row's position is its index *)
(* in the code plus one; zero stands for no row.                           *)

Of(n, evs) == {p \in 1..n : journal[p].ev \in evs}
Newest(S) == Max(S \union {0})
Last(n, evs) == Newest(Of(n, evs))
After(n, p, evs) == {q \in Of(n, evs) : q > p}

\* Mutant: no return's row is taken for a late one.
SupersededReturnNever(p) == journal[p].ev = "return" /\ p = 0

\* A return's decision row that its own run's rows overtook.
SupersededReturn(p) ==
  /\ journal[p].ev = "return"
  /\ \E q \in journal[p].num..(p - 1) : journal[q].ev \in {"start", "ready", "stop"}

LastRow(n) == Newest({p \in 1..n : ~SupersededReturn(p)})
OpenTail(n) ==
  /\ LastRow(n) # 0
  /\ journal[LastRow(n)].ev \notin {"stop", "pr", "ready", "accept", "abandon"}

\* Whether a caller that has read n rows finds the run dead.
DeadRun(n) == IF OpenTail(n) /\ lane.pid # None THEN FoundDead(lane.pid) ELSE {FALSE}

\* A decision about the stop or ready row at p, and not about a later one.
DecidedAt(n, p) ==
  \E q \in After(n, p, Decisions) : journal[q].ev = "return" => journal[q].num > p

Reran(n, p) == After(n, p, {"start", "ready"}) # {}
Reviews(from, to) == Cardinality({p \in from..to : journal[p].ev = "review"})

\* The last commit row no finish-uncommit row takes back.
Standing(n) == LET c == Last(n, {"commit"}) IN IF After(n, c, {"uncommit"}) = {} THEN c ELSE 0

\* What a lane list or the journal viewer says of n rows.
Status(n) ==
  LET ready == Last(n, {"ready"})
      tail == Last(n, {e \in {journal[p].ev : p \in 1..n} : e \notin Decisions})
      newest == IF LastRow(n) = 0 THEN n ELSE LastRow(n)
      moved == /\ journal[newest].ev \in Decisions
               /\ tail > ready
               /\ \/ journal[tail].ev = "pr"
                  \/ journal[newest].ev = "return" /\ ready # 0
      last == IF moved THEN tail ELSE newest
      terminal == Newest({p \in Of(n, Decisions \union {"ready"}) : ~SupersededReturn(p)})
      said(ev) == terminal # 0 /\ journal[terminal].ev = ev
  IN CASE n = 0 -> "unknown"
       [] /\ n # 0 /\ said("ready")
          /\ ~(journal[last].ev = "stop" /\ last > terminal)
          /\ ~\E p \in Of(n, {"return"}) : journal[p].num > terminal /\ SupersededReturn(p) -> "ready"
       [] n # 0 /\ said("abandon") -> "abandoned"
       [] /\ n # 0 /\ said("return")
          /\ After(n, IF ready # 0 THEN ready ELSE terminal, {"start", "stop"}) = {} -> "returned"
       [] OTHER -> CASE journal[last].ev = "stop" -> "stopped"
                     [] journal[last].ev = "pr" -> "done"
                     [] OTHER -> "running"

-----------------------------------------------------------------------------
(* Every file of the lane is under its directory: once that is archived a  *)
(* call that is under way finds none of them.                              *)

At(o, pc) == ops[o].pc = pc /\ lane.dir # "archived"
Go(o, pc) == ops' = [ops EXCEPT ![o].pc = pc]
Done == [Fresh EXCEPT !.pc = "done"]
Leave(o) == ops' = [ops EXCEPT ![o] = Done]

\* A call that fails lets go of what it holds.
Unclaim(o) == claims' = [claims EXCEPT ![ops[o].stake] = None]
Undecide(o) == decided' = decided \ {ops[o].at}

\* Refused before it claimed anything.
Refuse(o) == Leave(o) /\ UNCHANGED <<journal, lane, files, runs, ghost>>

\* Fails with the decision claimed, and not the stop.
Forfeit(o) == Leave(o) /\ Undecide(o) /\ UNCHANGED <<journal, lane, claims, locks, runs, ghost>>

\* Fails with both claimed; a discard has only the stop.
LetGo(o) ==
  /\ Leave(o)
  /\ Unclaim(o)
  /\ IF ops[o].verb = "discard" THEN UNCHANGED decided ELSE Undecide(o)
  /\ UNCHANGED <<journal, locks, runs>>
Release(o) == LetGo(o) /\ UNCHANGED ghost

Proceed(o, pc) == Go(o, pc) /\ UNCHANGED <<journal, lane, files, runs, ghost>>

-----------------------------------------------------------------------------
(* crew start                                                              *)

BeginStart(o) ==
  /\ At(o, "new")
  /\ lane.dir = "none" /\ ~lane.tree
  /\ ops' = [ops EXCEPT ![o].pc = "add", ![o].verb = "start"]
  /\ UNCHANGED <<journal, lane, files, runs, ghost>>

\* git worktree add -b: the branch is there already for all callers but one.
AddWorktree(o) ==
  /\ At(o, "add")
  /\ \/ lane.tree /\ Refuse(o)
     \/ /\ ~lane.tree
        /\ lane' = [lane EXCEPT !.tree = TRUE]
        /\ Go(o, "enroll")
        /\ UNCHANGED <<journal, files, runs, ghost>>

\* The snapshot of the brief, crew.json and lean.json; a failure leaves the worktree.
RecordLane(o) ==
  /\ At(o, "enroll")
  /\ \/ Refuse(o)
     \/ /\ lane' = [lane EXCEPT !.dir = "live"]
        /\ Go(o, "spawn")
        /\ UNCHANGED <<journal, files, runs, ghost>>

-----------------------------------------------------------------------------
(* crew finish: what a decision is about                                   *)

Load(o, verb, pc) ==
  /\ At(o, "new")
  /\ lane.dir = "live"
  /\ ops' = [ops EXCEPT ![o].pc = pc, ![o].verb = verb, ![o].n = Len(journal)]
  /\ UNCHANGED <<journal, lane, files, runs, ghost>>

BeginReturn(o) == Load(o, "return", "judge")
BeginDiscard(o) == Load(o, "discard", "inspect")
BeginRecord(o) == Load(o, "record", "quiet")
BeginCloseout(o) == Load(o, "closeout", "view")

\* Accept and abandon are for a ready row nothing has followed.
BeginReady(o, choice) ==
  /\ At(o, "new")
  /\ lane.dir = "live"
  /\ LET n == Len(journal)
         ready == Last(n, {"ready"})
     IN /\ ready # 0 /\ After(n, ready, {"start", "stop"}) = {} /\ ~DecidedAt(n, ready)
        /\ ops' = [ops EXCEPT ![o].pc = "claim", ![o].verb = choice, ![o].n = n,
                              ![o].at = ready, ![o].way = "ready"]
  /\ UNCHANGED <<journal, lane, files, runs, ghost>>

\* Mutant: the spec of the finish before is not looked at.
StopPriorOfStops(n, p) ==
  LET stops == Of(n, {"stop"}) IN
  IF stops = {} THEN 0 ELSE Reviews(Min(stops) + 1, p - 1)

\* Finish reviews so far, for a return on the stop at p: those after the first
\* stop, or the recovered one, and never fewer than a ready row reported.
StopPrior(n, p) ==
  LET stops == Of(n, {"stop"})
      first == IF stops = {} THEN p ELSE Min(stops) + 1
      from == IF lane.spec.rec = 0 THEN first ELSE Min({first, lane.spec.rec})
  IN Max({Reviews(from, p - 1)}
         \union {journal[q].num + Reviews(q + 1, p - 1) : q \in Of(p - 1, {"ready"}) \intersect (from..n)})

\* The same for a return on the ready row at p.
ReadyRec(p) == IF lane.spec.died /\ lane.spec.rec \in 1..p THEN lane.spec.rec ELSE 0
ReadyPrior(p) ==
  LET stop == Last(p - 1, {"stop"})
      from == Min({IF stop = 0 THEN p ELSE stop + 1, IF ReadyRec(p) = 0 THEN p ELSE ReadyRec(p)})
  IN Max({Reviews(from, p - 1), journal[p].num})

\* decideFinish reads run.pid after the journal.
Judge(o) ==
  /\ At(o, "judge")
  /\ \E died \in DeadRun(ops[o].n) :
       LET n == ops[o].n
           ready == Last(n, {"ready"})
           stop == IF died THEN n + 1 ELSE Last(n, {"stop"})
           onStop == died \/ stop > ready
           p == IF onStop THEN stop ELSE ready
           sound == /\ p # 0 /\ ~DecidedAt(n, p)
                    /\ IF onStop THEN lane.spec.rec <= stop
                       ELSE /\ After(n, ready, {"start", "stop"}) = {}
                            /\ Last(ready - 1, {"stop"}) # 0 \/ ReadyRec(ready) # 0
           prior == IF onStop THEN StopPrior(n, stop) ELSE ReadyPrior(ready)
       IN IF sound /\ prior < Rounds
          THEN /\ ops' = [ops EXCEPT ![o].pc = "claim", ![o].at = p, ![o].prior = prior,
                            ![o].way = IF onStop THEN "stop" ELSE "ready",
                            ![o].rec = IF onStop THEN lane.spec.rec ELSE ReadyRec(ready),
                            ![o].died = IF died THEN lane.pid ELSE None]
               /\ UNCHANGED <<journal, lane, files, runs, ghost>>
          ELSE Refuse(o)

\* Mutant: the decision is not claimed.
ClaimDecisionNot(o) ==
  /\ At(o, "claim")
  /\ ops' = [ops EXCEPT
       ![o].pc = CASE ops[o].verb = "accept" -> "head"
                   [] ops[o].verb = "abandon" -> "decide"
                   [] OTHER -> IF ops[o].way = "stop" THEN "recheck" ELSE "stake",
       ![o].stake = ops[o].at]
  /\ UNCHANGED <<journal, lane, files, runs, ghost>>

\* The decision claim, exclusive and never taken over.
ClaimDecision(o) ==
  /\ At(o, "claim")
  /\ \/ ops[o].at \in decided /\ Refuse(o)
     \/ /\ ops[o].at \notin decided
        /\ decided' = decided \union {ops[o].at}
        /\ ops' = [ops EXCEPT
             ![o].pc = CASE ops[o].verb = "accept" -> "head"
                         [] ops[o].verb = "abandon" -> "decide"
                         [] OTHER -> IF ops[o].way = "stop" THEN "recheck" ELSE "stake",
             ![o].stake = ops[o].at]
        /\ UNCHANGED <<journal, lane, claims, locks, runs, ghost>>

-----------------------------------------------------------------------------
(* finishLane: the stop is looked at again, claimed, and looked at once    *)
(* more; then a standing commit is taken back.                             *)

UndoOk(n) == Standing(n) # 0 => lane.head = journal[Standing(n)].head

\* Refused, too, when git or the origin cannot be asked, or when a rebase moved
\* the commit together with one below it.
Recheck(o) ==
  /\ At(o, "recheck")
  /\ \E died \in DeadRun(Len(journal)) :
       LET n == Len(journal)
           stop == IF died THEN n + 1 ELSE Last(n, {"stop"})
           rec == ops[o].rec
           sound == /\ n = ops[o].n
                    /\ lane.tree
                    /\ ops[o].died # None => died /\ lane.pid = ops[o].died
                    /\ stop # 0 /\ ~Reran(n, stop)
                    /\ Of(n, {"pr"}) = {}
                    /\ UndoOk(n) /\ (Standing(n) # 0 => lane.tip = 0)
                    /\ Of(n, {"build"}) # {}
       IN \/ /\ sound
             /\ ops' = [ops EXCEPT ![o].pc = "stake", ![o].stake = stop,
                            ![o].died = IF died THEN lane.pid ELSE None,
                            ![o].rec = IF ~died THEN rec
                                       ELSE Min({stop, IF rec = 0 THEN stop ELSE rec})]
             /\ UNCHANGED <<journal, lane, files, runs, ghost>>
          \/ Forfeit(o)

\* claimStop: where a call goes once the stop is its own, and when it is not.
Staked(o) == IF ops[o].verb = "discard" THEN "reread"
             ELSE IF ops[o].way = "stop" THEN "confirm" ELSE "spec"
Unstaked(o) == IF ops[o].verb = "discard" THEN Refuse(o) ELSE Forfeit(o)

Stake(o) ==
  /\ At(o, "stake")
  /\ LET p == ops[o].stake IN
     \/ /\ claims[p] = None
        /\ claims' = [claims EXCEPT ![p] = o]
        /\ Go(o, Staked(o))
        /\ UNCHANGED <<journal, lane, locks, decided, runs, ghost>>
     \/ /\ claims[p] # None
        /\ \E dead \in FoundDead(claims[p]) :
             IF dead THEN /\ ops' = [ops EXCEPT ![o].pc = "lock", ![o].text = claims[p]]
                          /\ UNCHANGED <<journal, lane, files, runs, ghost>>
                     ELSE Unstaked(o)

\* A dead caller's claim is taken over under a lock of its own.
TakeLock(o) ==
  /\ At(o, "lock")
  /\ LET p == ops[o].stake IN
     IF locks[p] # None THEN Unstaked(o)
     ELSE /\ locks' = [locks EXCEPT ![p] = o]
          /\ Go(o, "displace")
          /\ UNCHANGED <<journal, lane, claims, decided, runs, ghost>>

Unlocked(o) ==
  /\ Leave(o)
  /\ locks' = [locks EXCEPT ![ops[o].stake] = None]
  /\ IF ops[o].verb = "discard" THEN UNCHANGED decided ELSE Undecide(o)
  /\ UNCHANGED <<journal, lane, claims, runs, ghost>>

Displace(o) ==
  /\ At(o, "displace")
  /\ LET p == ops[o].stake IN
     IF claims[p] # ops[o].text THEN Unlocked(o)
     ELSE \E dead \in FoundDead(claims[p]) :
            IF ~dead THEN Unlocked(o)
            ELSE /\ claims' = [claims EXCEPT ![p] = None]
                 /\ Go(o, "replace")
                 /\ UNCHANGED <<journal, lane, locks, decided, runs, ghost>>

Replace(o) ==
  /\ At(o, "replace")
  /\ LET p == ops[o].stake IN
     IF claims[p] # None THEN Unlocked(o)
     ELSE /\ claims' = [claims EXCEPT ![p] = o]
          /\ locks' = [locks EXCEPT ![p] = None]
          /\ ops' = [ops EXCEPT ![o].pc = Staked(o), ![o].text = None]
          /\ UNCHANGED <<journal, lane, decided, runs, ghost>>

\* Mutant: a commit is left where it is.
ConfirmKeepingCommit(o) ==
  /\ At(o, "confirm")
  /\ Len(journal) = ops[o].n /\ lane.tree
  /\ Proceed(o, "spec")

\* The commit the one at HEAD was made on: the base's, or the ready one that a
\* return went on from.
Beneath == IF lane.head \in DOMAIN runs THEN runs[lane.head].below ELSE 0

\* A previous claimant may have finished meanwhile.  A commit that stands is
\* reset to what is beneath it.
Confirm(o) ==
  /\ At(o, "confirm")
  /\ \/ UNCHANGED lane /\ Release(o)
     \/ /\ Len(journal) = ops[o].n /\ lane.tree /\ UndoOk(ops[o].n)
        /\ IF Standing(ops[o].n) = 0 THEN Proceed(o, "spec")
           ELSE /\ lane' = [lane EXCEPT !.head = Beneath]
                /\ Go(o, "uncommit")
                /\ UNCHANGED <<journal, files, runs, ghost>>

RecordUndo(o) ==
  /\ At(o, "uncommit")
  /\ \/ UNCHANGED lane /\ Release(o)
     \/ /\ Put(Row("uncommit", 0, 0))
        /\ Go(o, "spec")
        /\ UNCHANGED <<lane, files, runs, ghost>>

-----------------------------------------------------------------------------
(* launch                                                                  *)

\* finish.json is written before the old proof of death is removed.
WriteSpec(o) ==
  /\ At(o, "spec")
  /\ \/ UNCHANGED lane /\ Release(o)
     \/ /\ lane' = [lane EXCEPT !.spec = [rec |-> ops[o].rec,
                      died |-> IF ops[o].way = "stop" THEN ops[o].died # None ELSE ops[o].rec # 0]]
        /\ Go(o, "drop")
        /\ UNCHANGED <<journal, files, runs, ghost>>

DropPid(o) ==
  /\ At(o, "drop")
  /\ lane' = [lane EXCEPT !.pid = None]
  /\ Go(o, "spawn")
  /\ UNCHANGED <<journal, files, runs, ghost>>

Act(o, what, r) == [at |-> ops[o].at, what |-> what, run |-> r,
                    stake |-> ops[o].stake, died |-> ops[o].died]
NewRun(o) == [live |-> TRUE, phase |-> "born", finish |-> ops[o].verb # "start",
              prior |-> ops[o].prior, reviews |-> 0, commit |-> "no", below |-> 0]

\* The end a launch is for is the last row before it: its stop or ready row, or
\* the row the dead run was at.  Two launches are for the same end when no run
\* wrote a row in between, whatever the names of their claims.
EndOf(launch) == IF launch.died = None THEN launch.stake ELSE launch.stake - 1
NoRunBetween(p, q) == \A row \in (p + 1)..q : journal[row].ev \in CallRows
Launches == {act \in ghost.acts : act.what = "return"}
SameEnd(a, b) == NoRunBetween(EndOf(a), EndOf(b)) /\ NoRunBetween(EndOf(b), EndOf(a))

\* The end o launches for is not its own: another was launched for it under
\* another name, and is not the run o knows to be dead; or was launched under
\* this one, and the decision was given back because it could not be written.
\* A lane that is started again was being thrown away.
Retaken(o) ==
  IF ops[o].verb = "start" THEN runs # <<>>
  ELSE \E act \in Launches :
         \/ act.at = ops[o].at /\ act.at \in ghost.unrecorded
         \/ act.at # ops[o].at /\ act.run # ops[o].died /\ SameEnd(act, ops[o])

\* run.pid is written in the breath that spawned the run, or not at all: the
\* write fails, or the launcher is killed.
Spawn(o) ==
  /\ At(o, "spawn")
  /\ Len(runs) < MaxRuns
  /\ LET r == Len(runs) + 1 IN
     /\ runs' = Append(runs, NewRun(o))
     /\ \E pid \in {r, None} : lane' = [lane EXCEPT !.pid = pid]
     /\ \/ ops[o].verb = "start" /\ Leave(o)
        \/ ops[o].verb = "return" /\ ops' = [ops EXCEPT ![o].pc = "hand", ![o].run = r]
        \/ lane'.pid = None /\ Leave(o)
     /\ ghost' = [ghost EXCEPT !.raced = (@ \/ Retaken(o)),
                               !.acts = @ \union IF ops[o].verb = "start" THEN {} ELSE {Act(o, "return", r)}]
  /\ UNCHANGED <<journal, files>>

\* A run known to be dead is named in run.pid again.
SpawnFails(o) ==
  /\ At(o, "spawn")
  /\ IF ops[o].verb = "start" THEN Refuse(o)
     ELSE /\ lane' = IF ops[o].died = None THEN lane ELSE [lane EXCEPT !.pid = ops[o].died]
          /\ ghost' = [ghost EXCEPT !.raced = (@ \/ (ops[o].died # None /\ Retaken(o)))]
          /\ LetGo(o)

\* The claim names the run from now on, if it can be written.
Hand(o) ==
  /\ At(o, "hand")
  /\ \E pid \in {ops[o].run, claims[ops[o].stake]} :
       claims' = [claims EXCEPT ![ops[o].stake] = pid]
  /\ Go(o, "decide")
  /\ UNCHANGED <<journal, lane, locks, decided, runs, ghost>>

Decide(o) ==
  /\ At(o, "decide")
  /\ Put(Row(ops[o].verb, IF ops[o].verb = "return" THEN ops[o].n + 1 ELSE 0, 0))
  /\ Leave(o)
  /\ ghost' = IF ops[o].verb # "abandon" THEN ghost
              ELSE [ghost EXCEPT !.acts = @ \union {Act(o, "abandon", 0)}]
  /\ UNCHANGED <<lane, files, runs>>

\* The decision claim is kept only for a run launched from a stop.
DecideFails(o) ==
  /\ At(o, "decide")
  /\ Leave(o)
  /\ IF ops[o].way = "stop" THEN UNCHANGED decided ELSE Undecide(o)
  /\ ghost' = [ghost EXCEPT !.unrecorded = @ \union {ops[o].at}]
  /\ UNCHANGED <<journal, lane, claims, locks, runs>>

-----------------------------------------------------------------------------
(* crew finish --accept                                                    *)

CheckHead(o) ==
  /\ At(o, "head")
  /\ IF lane.tree /\ lane.head = journal[ops[o].at].head THEN Proceed(o, "open") ELSE Forfeit(o)

\* A publication that fails may have pushed, and may have opened the request.
OpenPullRequest(o) ==
  /\ At(o, "open")
  /\ \/ /\ lane.pr \in {"none", "open"}
        /\ lane' = [lane EXCEPT !.tip = lane.head, !.pr = "open"]
        /\ Go(o, "edit")
        /\ UNCHANGED <<journal, files, runs, ghost>>
     \/ /\ lane' \in {lane, [lane EXCEPT !.tip = lane.head],
                      [lane EXCEPT !.tip = lane.head, !.pr = IF @ = "none" THEN "open" ELSE @]}
        /\ Leave(o) /\ Undecide(o)
        /\ UNCHANGED <<journal, claims, locks, runs, ghost>>

EditPullRequest(o) == At(o, "edit") /\ (Forfeit(o) \/ Proceed(o, "publish"))

RecordPublished(o) ==
  /\ At(o, "publish")
  /\ \/ Forfeit(o)
     \/ /\ Put(Row("pr", 0, 0))
        /\ Go(o, "decide")
        /\ ghost' = [ghost EXCEPT !.acts = @ \union {Act(o, "accept", 0)}]
        /\ UNCHANGED <<lane, files, runs>>

-----------------------------------------------------------------------------
(* crew closeout, with and without --discard                               *)

\* The rows before a closing pr row, and the stop they end on, if they do.
Discardable(n) == IF n # 0 /\ journal[n].ev = "pr" THEN n - 1 ELSE n

Inspect(o) ==
  /\ At(o, "inspect")
  /\ \E died \in DeadRun(Discardable(ops[o].n)) :
       LET n == ops[o].n
           m == Discardable(n)
           sound == /\ Of(n, Decisions \union {"ready"}) = {}
                    /\ Of(n, {"pr"}) # {} => lane.pr = "closed"
                    /\ died \/ (m # 0 /\ journal[m].ev = "stop")
       IN IF sound
          THEN /\ ops' = [ops EXCEPT ![o].pc = "stake", ![o].stake = IF died THEN m + 1 ELSE m,
                                     ![o].died = IF died THEN lane.pid ELSE None]
               /\ UNCHANGED <<journal, lane, files, runs, ghost>>
          ELSE Refuse(o)

Reread(o) ==
  /\ At(o, "reread")
  /\ IF Len(journal) = ops[o].n THEN Proceed(o, "list") ELSE Release(o) /\ UNCHANGED lane

ListClaims(o) ==
  /\ At(o, "list")
  /\ ops' = [ops EXCEPT ![o].pc = "proof", ![o].todo =
               {<<"claim", p>> : p \in {q \in Positions \ {ops[o].stake} : claims[q] # None}}
               \union {<<"lock", p>> : p \in {q \in Positions : locks[q] # None}}]
  /\ UNCHANGED <<journal, lane, files, runs, ghost>>

\* Mutant: run.pid is not looked at.
CheckPidSkipped(o) == At(o, "proof") /\ Proceed(o, "others")

\* run.pid may be missing; a claim that was listed may not.
CheckPid(o) ==
  /\ At(o, "proof")
  /\ \E dead \in IF lane.pid = None THEN {TRUE} ELSE FoundDead(lane.pid) :
       IF dead THEN Proceed(o, "others") ELSE Release(o) /\ UNCHANGED lane

Written(file) == IF file[1] = "claim" THEN claims[file[2]] ELSE locks[file[2]]

CheckClaim(o) ==
  /\ At(o, "others")
  /\ \/ \E file \in ops[o].todo :
          \E dead \in IF Written(file) = None THEN {FALSE} ELSE FoundDead(Written(file)) :
            IF dead THEN /\ ops' = [ops EXCEPT ![o].todo = @ \ {file}]
                         /\ UNCHANGED <<journal, lane, files, runs, ghost>>
                    ELSE Release(o) /\ UNCHANGED lane
     \/ /\ ops[o].todo = {}
        /\ \E dead \in IF ops[o].died = None THEN {TRUE} ELSE DeadRun(Discardable(ops[o].n)) :
             IF dead THEN Proceed(o, "remove") ELSE Release(o) /\ UNCHANGED lane

\* Plain closeout: the recorded request is merged, with this branch's tip as its head.
View(o) ==
  /\ At(o, "view")
  /\ IF Of(ops[o].n, {"pr"}) # {} /\ lane.pr = "merged" /\ lane.head = lane.tip
     THEN Proceed(o, "remove")
     ELSE Refuse(o)

\* What a failing closeout leaves claimed.
GiveUp(o) == IF ops[o].verb = "discard" THEN Release(o) ELSE Leave(o) /\ UNCHANGED <<journal, files, runs, ghost>>

\* git refuses to remove a worktree with uncommitted changes.
RemoveWorktree(o) ==
  /\ At(o, "remove")
  /\ \/ UNCHANGED lane /\ GiveUp(o)
     \/ /\ lane.tree
        /\ lane' = [lane EXCEPT !.tree = FALSE]
        /\ Go(o, "move")
        /\ UNCHANGED <<journal, files, runs, ghost>>

Archive(o) ==
  /\ At(o, "move")
  /\ \/ UNCHANGED lane /\ GiveUp(o)
     \/ lane' = [lane EXCEPT !.dir = "archived"] /\ GiveUp(o)

-----------------------------------------------------------------------------
(* crew record-pr: no claim, and the row goes where the journal ends now.  *)

CheckQuiet(o) ==
  /\ At(o, "quiet")
  /\ \E died \in DeadRun(ops[o].n) :
       LET n == ops[o].n IN
       IF /\ Of(n, {"pr"}) = {}
          /\ (LastRow(n) # 0 /\ journal[LastRow(n)].ev = "stop") \/ died
       THEN Proceed(o, "append")
       ELSE Refuse(o)

AppendPr(o) ==
  /\ At(o, "append")
  /\ Put(Row("pr", 0, 0))
  /\ Leave(o)
  /\ UNCHANGED <<lane, files, runs, ghost>>

-----------------------------------------------------------------------------
(* Calls die, or find their lane archived.                                 *)

Crash(o) ==
  /\ ops[o].pc \notin {"new", "done"}
  /\ Refuse(o)

Lost(o) ==
  /\ lane.dir = "archived" /\ ops[o].pc \notin {"new", "done"}
  /\ Refuse(o)

-----------------------------------------------------------------------------
(* The detached run, by the rows it leaves (crew/loop.mjs).  It has been   *)
(* killed, or has ended, when its process is gone; between its last row    *)
(* and that, it may still be in the checkout.                              *)

Running(r, phase) == runs[r].live /\ runs[r].phase = phase /\ lane.dir = "live"
Write(r, row, field, value) ==
  /\ Put(row)
  /\ runs' = [runs EXCEPT ![r][field] = value]
  /\ UNCHANGED <<lane, files, ops, ghost>>

RunBegins(r) == Running(r, "born") /\ Write(r, Row("start", 0, 0), "phase", "open")

RunBuilds(r) ==
  /\ Running(r, "open") /\ Of(Len(journal), {"build"}) = {}
  /\ Write(r, Row("build", 0, 0), "phase", "open")

RunReviews(r) ==
  /\ Running(r, "open") /\ runs[r].commit = "no"
  /\ runs[r].reviews < IF runs[r].finish THEN Rounds - runs[r].prior ELSE 1
  /\ Write(r, Row("review", 0, 0), "reviews", runs[r].reviews + 1)

\* A finish that finds changes rebases them as a snapshot, and takes every commit
\* of the lane off with it.
RunRebases(r) ==
  /\ Running(r, "open") /\ runs[r].commit = "no" /\ runs[r].finish
  /\ lane' = [lane EXCEPT !.head = 0]
  /\ UNCHANGED <<journal, files, runs, ops, ghost>>

RunCommits(r) ==
  /\ Running(r, "open") /\ runs[r].commit = "no"
  /\ lane' = [lane EXCEPT !.head = r]
  /\ runs' = [runs EXCEPT ![r].commit = "made", ![r].below = lane.head]
  /\ UNCHANGED <<journal, files, ops, ghost>>

RunRecordsCommit(r) ==
  /\ Running(r, "open") /\ runs[r].commit = "made"
  /\ Write(r, Row("commit", 0, r), "commit", "told")

RunPushes(r) ==
  /\ Running(r, "open") /\ runs[r].commit = "told" /\ ~runs[r].finish
  /\ lane' = [lane EXCEPT !.tip = lane.head, !.pr = "open"]
  /\ runs' = [runs EXCEPT ![r].commit = "pushed"]
  /\ UNCHANGED <<journal, files, ops, ghost>>

RunPublishes(r) ==
  /\ Running(r, "open") /\ runs[r].commit = "pushed"
  /\ Write(r, Row("pr", 0, 0), "phase", "published")

RunReady(r) ==
  /\ Running(r, "open") /\ runs[r].commit = "told" /\ runs[r].finish
  /\ Write(r, Row("ready", runs[r].prior + runs[r].reviews, lane.head), "phase", "ready")

\* A refused spec stops before any other row.
RunStops(r) ==
  /\ Running(r, "born") \/ Running(r, "open")
  /\ Write(r, Row("stop", 0, 0), "phase", "stopped")

RunEnds(r) ==
  /\ runs[r].live
  /\ runs' = [runs EXCEPT ![r].live = FALSE]
  /\ UNCHANGED <<journal, lane, files, ops, ghost>>

\* Someone merges or closes the pull request.
Settle ==
  /\ lane.pr = "open"
  /\ \E pr \in {"merged", "closed"} : lane' = [lane EXCEPT !.pr = pr]
  /\ UNCHANGED <<journal, files, runs, ops, ghost>>

Verb(o) ==
  \/ BeginStart(o) \/ AddWorktree(o) \/ RecordLane(o)
  \/ BeginReturn(o) \/ BeginDiscard(o) \/ BeginRecord(o) \/ BeginCloseout(o)
  \/ (\E choice \in {"accept", "abandon"} : BeginReady(o, choice))
  \/ Judge(o) \/ ClaimDecision(o) \/ Recheck(o)
  \/ Stake(o) \/ TakeLock(o) \/ Displace(o) \/ Replace(o)
  \/ Confirm(o) \/ RecordUndo(o) \/ WriteSpec(o) \/ DropPid(o)
  \/ Spawn(o) \/ SpawnFails(o) \/ Hand(o) \/ Decide(o) \/ DecideFails(o)
  \/ CheckHead(o) \/ OpenPullRequest(o) \/ EditPullRequest(o) \/ RecordPublished(o)
  \/ Inspect(o) \/ Reread(o) \/ ListClaims(o) \/ CheckPid(o) \/ CheckClaim(o)
  \/ View(o) \/ RemoveWorktree(o) \/ Archive(o)
  \/ CheckQuiet(o) \/ AppendPr(o)
  \/ Lost(o) \/ Crash(o)

Run(r) ==
  \/ RunBegins(r) \/ RunBuilds(r) \/ RunReviews(r) \/ RunRebases(r) \/ RunCommits(r)
  \/ RunRecordsCommit(r) \/ RunPushes(r) \/ RunPublishes(r) \/ RunReady(r) \/ RunStops(r) \/ RunEnds(r)

Next == (\E o \in Ops : Verb(o)) \/ (\E r \in DOMAIN runs : Run(r)) \/ Settle

Spec == Init /\ [][Next]_vars

-----------------------------------------------------------------------------
\* No two runs are at work on one lane: "the claim is exclusive and names the
\* stop it finishes, so two calls before the run's first row cannot both spawn"
\* (finish.mjs:185).
AtWork(r) == runs[r].live /\ runs[r].phase \in {"born", "open"}
OneRun == \A r, s \in DOMAIN runs : AtWork(r) /\ AtWork(s) => r = s

\* What does hold of that, whoever dies at which point of claiming, launching
\* and recording: it takes a launch for an end that is not the call's own, which
\* a row another call wrote gave a second name, or whose decision was given back.
OneRunButRetaken == OneRun \/ ghost.raced

\* One stop or ready row is decided once (a run launched, a publication
\* recorded, or the lane abandoned), unless the decision could not be written.
DecidedOnce ==
  \A a, b \in ghost.acts : a.at = b.at => a = b \/ a.at \in ghost.unrecorded

\* "--return refuses with finish-rounds-spent once three review rounds are spent"
\* (crew/README.md:59): over all the finishes of a lane, reviews stay within
\* FINISH_REVIEW_ROUNDS.
RoundsSpent == Cardinality(FinishReviews(runs)) <= Rounds \/ ghost.raced

\* What does hold of that: each return counts the reviews back out of the journal,
\* those of runs that died included, and two returns at once do not both have the
\* last one; unless a return was judged on a stop, and launched for a run that was
\* found dead after its last look at the count.
ReviewBudget == RoundsSpent \/ \E act \in Launches : act.stake # act.at

\* A lane is thrown away only when none of its runs has a process, a run apart
\* that no file names (its launcher died, or could not write the pid anywhere),
\* and unless a return has claimed the same end by another name, or a run that
\* no file named has written a row after that end.
Unnamed(r) == lane.pid # r /\ \A p \in Positions : claims[p] # r
Renamed(o) == \E act \in Launches : act.stake # ops[o].stake /\ SameEnd(act, ops[o])
DiscardQuiet ==
  [][\A o \in Ops : /\ ops[o].verb = "discard" /\ ops[o].pc = "remove"
                    /\ lane.tree /\ ~lane'.tree
                    /\ ~Renamed(o) /\ NoRunBetween(EndOf(ops[o]), Len(journal))
                    /\ ~ghost.raced
       => \A r \in DOMAIN runs : runs[r].live => Unnamed(r)]_vars

\* What a return gives its run to start on.  On a stop: no commit that the journal
\* names, unless a ready row names it as well, so that the build lies there as
\* changes, on the base or on the ready commit it went on from.  On a ready row:
\* that row's commit.  Each unless the launch is for an end that is not its own.
\* And no commit that was pushed is taken back on the way there, unless an accept
\* could push a ready row that was returned on as well, its decision given back or
\* its end launched for under another name.
Strayed(p) ==
  /\ journal[p].ev = "ready"
  /\ \E act \in Launches :
       IF act.at = p THEN p \in ghost.unrecorded ELSE p <= EndOf(act) /\ NoRunBetween(p, EndOf(act))
Launching(o, way) == /\ ops[o].verb = "return" /\ ops[o].way = way
                     /\ ops[o].pc = "spawn" /\ ops'[o].pc # "spawn"
                     /\ Len(runs') > Len(runs)
BuildReturned ==
  [][/\ ops' # ops /\ lane'.head # lane.head
          => lane.tip = 0 \/ ghost.raced \/ \E p \in DOMAIN journal : Strayed(p)
     /\ \A o \in Ops : Launching(o, "stop")
          => (Standing(Len(journal)) = 0 /\ ~Loose(journal, lane.head)) \/ ghost.raced'
     /\ \A o \in Ops : Launching(o, "ready")
          => lane.head = journal[ops[o].at].head \/ ghost.raced']_vars

\* When all calls are over and no run has a process, the journal and the viewer
\* tell how the last run ended, however late the decision that launched it was
\* written: unless a verb has the last word, or took a commit back and then
\* launched nothing, or could not write its decision.
Idle == /\ \A o \in Ops : ops[o].pc \in {"new", "done"}
        /\ runs # <<>> /\ \A r \in DOMAIN runs : ~runs[r].live
LastWordIsRuns ==
  LET n == Len(journal) IN
  /\ n # 0
  /\ \A p \in Of(n, {"uncommit"}) : After(n, p, {"start", "stop"}) # {}
  /\ Of(n, {"accept", "abandon"}) = {}
  /\ ghost.unrecorded = {} /\ ~ghost.raced
EndTold ==
  Idle /\ LastWordIsRuns =>
    LET n == Len(journal)
        last == runs[Len(runs)].phase
    IN /\ last \in {"stopped", "ready", "published"} => ~OpenTail(n)
       /\ last = "open" => OpenTail(n) \/ Of(n, {"pr"}) # {}
       /\ last \in {"stopped", "ready"} => Status(n) = last \/ Of(n, {"pr"}) # {}
=============================================================================

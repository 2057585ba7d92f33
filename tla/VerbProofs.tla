----------------------------- MODULE VerbProofs -----------------------------
(***************************************************************************)
(* Theorems about LaneVerbs, for any number of calls, runs and review      *)
(* rounds, and wherever a call dies: a stop or ready row is decided once;  *)
(* two runs are at work on a lane only after a launch for an end that was  *)
(* not the call's own; a lane is thrown away only when no run that is      *)
(* named has a process; and when all is over the journal tells how the     *)
(* last run ended.                                                         *)
(***************************************************************************)
EXTENDS LaneVerbs, FiniteSetTheorems, SequenceTheorems, WellFoundedInduction, TLAPS

-----------------------------------------------------------------------------
(* What a decision rests on                                                *)

\* A call is a record of what it is at and what it has read.
Fielded(c) ==
  c = [pc |-> c.pc, verb |-> c.verb, way |-> c.way, n |-> c.n, at |-> c.at, stake |-> c.stake,
       died |-> c.died, text |-> c.text, rec |-> c.rec, prior |-> c.prior, run |-> c.run,
       todo |-> c.todo]
CallShape == ops = [o \in Ops |-> ops[o]] /\ \A o \in Ops : Fielded(ops[o])
GhostShape == ghost = [acts |-> ghost.acts, unrecorded |-> ghost.unrecorded, raced |-> ghost.raced]

\* The places of each verb.
Returning == {"recheck", "stake", "lock", "displace", "replace", "confirm", "uncommit", "spec", "drop", "spawn"}
Accepting == {"head", "open", "edit", "publish"}
Places(verb) ==
  CASE verb = "none" -> {"new", "done"}
    [] verb = "start" -> {"add", "enroll", "spawn"}
    [] verb = "return" -> {"judge", "claim", "hand", "decide"} \union Returning
    [] verb = "accept" -> {"claim", "decide"} \union Accepting
    [] verb = "abandon" -> {"claim", "decide"}
    [] verb = "discard" -> {"inspect", "stake", "lock", "displace", "replace", "reread", "list",
                            "proof", "others", "remove", "move"}
    [] verb = "closeout" -> {"view", "remove", "move"}
    [] verb = "record" -> {"quiet", "append"}
Verbs == {"none", "start", "return", "accept", "abandon", "discard", "closeout", "record"}
InPlace(o) == ops[o].verb \in Verbs /\ ops[o].pc \in Places(ops[o].verb)

\* A call that holds its decision and has not carried it out; one that has, and
\* has not recorded it.
DecidesAt(verb, pc) ==
  \/ verb = "return" /\ pc \in Returning
  \/ verb = "accept" /\ pc \in Accepting
  \/ verb = "abandon" /\ pc = "decide"
RecordsAt(verb, pc) ==
  \/ verb = "return" /\ pc \in {"hand", "decide"}
  \/ verb = "accept" /\ pc = "decide"
HoldsAt(verb, pc) == DecidesAt(verb, pc) \/ RecordsAt(verb, pc)

Deciding(o) == DecidesAt(ops[o].verb, ops[o].pc)
Holds(o) == HoldsAt(ops[o].verb, ops[o].pc)

\* The decision claim is of one call at a time, and stays where it was acted on.
ClaimsHeld == \A o \in Ops : Holds(o) => ops[o].at \in decided
OneHolder == \A o, q \in Ops : Holds(o) /\ Holds(q) /\ ops[o].at = ops[q].at => o = q
ActsClaimed == \A act \in ghost.acts : act.at \in decided \union ghost.unrecorded
NotYet == \A o \in Ops : Deciding(o) =>
            \A act \in ghost.acts : act.at = ops[o].at => act.at \in ghost.unrecorded

ClaimInv == ClaimsHeld /\ OneHolder /\ ActsClaimed /\ NotYet /\ DecidedOnce
VerbInv == CallShape /\ GhostShape /\ (\A o \in Ops : InPlace(o)) /\ ClaimInv

-----------------------------------------------------------------------------
(* What a step does to its call                                            *)

\* A call is replaced by another of the same shape.
LEMMA Replaced ==
  ASSUME CallShape, NEW o \in Ops, NEW c, Fielded(c), ops' = [ops EXCEPT ![o] = c]
  PROVE  CallShape' /\ ops'[o] = c /\ \A q \in Ops \ {o} : ops'[q] = ops[q]
<1>1. PICK f : f = ops /\ f = [q \in Ops |-> f[q]]
  BY DEF CallShape
<1>2. ops' = [f EXCEPT ![o] = c]
  BY <1>1
<1>3. ops' = [q \in Ops |-> ops'[q]] /\ ops'[o] = c /\ \A q \in Ops \ {o} : ops'[q] = f[q]
  BY <1>1, <1>2
<1>4. \A q \in Ops : Fielded(ops'[q])
  BY <1>1, <1>3 DEF CallShape
<1> QED
  BY <1>1, <1>3, <1>4 DEF CallShape

\* A call that goes on is at its next place, and has read what it had.
LEMMA GoOn ==
  ASSUME CallShape, NEW o \in Ops, NEW pc, Go(o, pc)
  PROVE  /\ CallShape'
         /\ ops'[o].pc = pc /\ ops'[o].verb = ops[o].verb /\ ops'[o].at = ops[o].at
         /\ \A q \in Ops \ {o} : ops'[q] = ops[q]
<1>1. PICK c : c = [ops[o] EXCEPT !.pc = pc]
  OBVIOUS
<1>2. Fielded(c) /\ c.pc = pc /\ c.verb = ops[o].verb /\ c.at = ops[o].at
  <2>1. PICK d : d = ops[o] /\ Fielded(d)
    BY DEF CallShape
  <2>2. c = [d EXCEPT !.pc = pc]
    BY <1>1, <2>1
  <2>3. Fielded(c) /\ c.pc = pc /\ c.verb = d.verb /\ c.at = d.at
    BY <2>1, <2>2 DEF Fielded
  <2> QED
    BY <2>1, <2>3
<1>3. ops' = [ops EXCEPT ![o] = c]
  BY <1>1 DEF Go
<1> QED
  BY <1>2, <1>3, Replaced

\* A call that leaves is at its end.
LEMMA GoAway ==
  ASSUME CallShape, NEW o \in Ops, Leave(o)
  PROVE  /\ CallShape'
         /\ ops'[o].pc = "done" /\ ops'[o].verb = "none"
         /\ \A q \in Ops \ {o} : ops'[q] = ops[q]
<1>1. PICK c : c = Done
  OBVIOUS
<1>2. Fielded(c) /\ c.pc = "done" /\ c.verb = "none"
  BY <1>1 DEF Done, Fresh, Fielded
<1>3. ops' = [ops EXCEPT ![o] = c]
  BY <1>1 DEF Leave
<1> QED
  BY <1>2, <1>3, Replaced

-----------------------------------------------------------------------------
(* What a step does to the decisions                                       *)

\* A step may add to what was carried out, and tells of one launched from twice.
SameActs == ghost'.acts = ghost.acts /\ ghost'.unrecorded = ghost.unrecorded

\* What carrying a decision out adds.
LEMMA GhostGrows ==
  ASSUME GhostShape, NEW A, ghost' = [ghost EXCEPT !.acts = @ \union A]
  PROVE  /\ GhostShape'
         /\ ghost'.acts = ghost.acts \union A
         /\ ghost'.unrecorded = ghost.unrecorded
         /\ ghost'.raced = ghost.raced
<1>1. PICK g : g = ghost /\ g = [acts |-> g.acts, unrecorded |-> g.unrecorded, raced |-> g.raced]
  BY DEF GhostShape
<1>2. ghost' = [g EXCEPT !.acts = g.acts \union A]
  BY <1>1
<1> QED
  BY <1>1, <1>2 DEF GhostShape

\* What a launch adds, and what it tells of its end.
LEMMA GhostRaces ==
  ASSUME GhostShape, NEW A, NEW raced,
         ghost' = [ghost EXCEPT !.raced = raced, !.acts = @ \union A]
  PROVE  /\ GhostShape'
         /\ ghost'.acts = ghost.acts \union A
         /\ ghost'.unrecorded = ghost.unrecorded
         /\ ghost'.raced = raced
<1>1. PICK g : g = ghost /\ g = [acts |-> g.acts, unrecorded |-> g.unrecorded, raced |-> g.raced]
  BY DEF GhostShape
<1>2. ghost' = [g EXCEPT !.raced = raced, !.acts = g.acts \union A]
  BY <1>1
<1> QED
  BY <1>1, <1>2 DEF GhostShape

\* What a launch, or a failing one, does to it.
LEMMA SpawnRaces ==
  ASSUME GhostShape, NEW o \in Ops, Spawn(o)
  PROVE  /\ GhostShape'
         /\ ghost'.acts = ghost.acts \union IF ops[o].verb = "start" THEN {} ELSE {Act(o, "return", Len(runs) + 1)}
         /\ ghost'.unrecorded = ghost.unrecorded
         /\ ghost'.raced = (ghost.raced \/ Retaken(o))
<1>1. PICK raced : raced = (ghost.raced \/ Retaken(o))
  OBVIOUS
<1>2. PICK A : A = IF ops[o].verb = "start" THEN {} ELSE {Act(o, "return", Len(runs) + 1)}
  OBVIOUS
<1>3. ghost' = [ghost EXCEPT !.raced = raced, !.acts = @ \union A]
  BY <1>1, <1>2, Zenon DEF Spawn
<1> QED
  BY <1>1, <1>2, <1>3, GhostRaces

\* A launch that fails adds nothing.
LEMMA FailRaces ==
  ASSUME GhostShape, NEW o \in Ops, SpawnFails(o), ops[o].verb # "start"
  PROVE  /\ GhostShape' /\ SameActs
         /\ ghost'.raced = (ghost.raced \/ (ops[o].died # None /\ Retaken(o)))
<1>1. PICK raced : raced = (ghost.raced \/ (ops[o].died # None /\ Retaken(o)))
  OBVIOUS
<1>2. ghost' = [ghost EXCEPT !.raced = raced]
  BY <1>1 DEF SpawnFails
<1>3. PICK g : g = ghost /\ g = [acts |-> g.acts, unrecorded |-> g.unrecorded, raced |-> g.raced]
  BY DEF GhostShape
<1>4. ghost' = [g EXCEPT !.raced = raced]
  BY <1>2, <1>3
<1> QED
  BY <1>1, <1>3, <1>4 DEF GhostShape, SameActs

\* The others are where they were.
Alone(o) == \A q \in Ops \ {o} : ops'[q] = ops[q]

\* No decision is touched by a call that claims nothing and carries nothing out.
LEMMA Calm ==
  ASSUME ClaimInv, NEW o \in Ops, Alone(o), SameActs, decided' = decided,
         Holds(o)' => Holds(o) /\ ops'[o].at = ops[o].at, Deciding(o)' => Deciding(o)
  PROVE  ClaimInv'
<1>1. \A q \in Ops : /\ Holds(q)' => Holds(q) /\ ops'[q].at = ops[q].at
                     /\ Deciding(q)' => Deciding(q)
  BY DEF Alone, Holds, Deciding
<1> HIDE DEF Holds, Deciding
<1>2. \A q \in Ops : Deciding(q)' => Holds(q)'
  BY DEF Deciding, Holds, HoldsAt
<1>3. ClaimsHeld' /\ OneHolder'
  BY <1>1 DEF ClaimInv, ClaimsHeld, OneHolder
<1>4. ActsClaimed' /\ DecidedOnce'
  BY DEF ClaimInv, ActsClaimed, DecidedOnce, SameActs
<1>5. NotYet'
  BY <1>1, <1>2 DEF ClaimInv, NotYet, SameActs
<1> QED
  BY <1>3, <1>4, <1>5 DEF ClaimInv

\* A decision that was not carried out is given up.
LEMMA GivenUp ==
  ASSUME ClaimInv, NEW o \in Ops, Alone(o), Deciding(o), ~Holds(o)',
         SameActs, decided' = decided \ {ops[o].at}
  PROVE  ClaimInv'
<1>1. \A q \in Ops : Holds(q)' => /\ q # o /\ Holds(q) /\ ops'[q].at = ops[q].at
                                  /\ ops[q].at # ops[o].at
  BY DEF Alone, Holds, Deciding, HoldsAt, ClaimInv, OneHolder
<1>2. \A q \in Ops : Deciding(q)' => Holds(q)' /\ Deciding(q)
  BY <1>1 DEF Deciding, Holds, HoldsAt, Alone
<1>3. ClaimsHeld' /\ OneHolder'
  BY <1>1 DEF ClaimInv, ClaimsHeld, OneHolder
<1>4. ActsClaimed' /\ DecidedOnce'
  BY DEF ClaimInv, ActsClaimed, DecidedOnce, NotYet, SameActs
<1>5. NotYet'
  BY <1>1, <1>2 DEF ClaimInv, NotYet, SameActs
<1> QED
  BY <1>3, <1>4, <1>5 DEF ClaimInv

\* A decision nobody has claimed is claimed.
LEMMA TakenUp ==
  ASSUME ClaimInv, NEW o \in Ops, Alone(o), ghost' = ghost, ~Holds(o),
         ops'[o].at \notin decided, decided' = decided \union {ops'[o].at}
  PROVE  ClaimInv'
<1>1. \A q \in Ops \ {o} : /\ Holds(q)' <=> Holds(q)
                           /\ Deciding(q)' <=> Deciding(q)
                           /\ ops'[q].at = ops[q].at
  BY DEF Alone, Holds, Deciding
<1>2. ClaimsHeld' /\ OneHolder'
  BY <1>1 DEF ClaimInv, ClaimsHeld, OneHolder
<1>3. ActsClaimed' /\ DecidedOnce'
  BY DEF ClaimInv, ActsClaimed, DecidedOnce
<1>4. NotYet'
  BY <1>1 DEF ClaimInv, NotYet, ActsClaimed
<1> QED
  BY <1>2, <1>3, <1>4 DEF ClaimInv

\* A decision is carried out by the call that holds it.
LEMMA CarriedOut ==
  ASSUME ClaimInv, NEW o \in Ops, Alone(o), Deciding(o), ~Deciding(o)',
         Holds(o)' => ops'[o].at = ops[o].at, decided' = decided,
         NEW act, act.at = ops[o].at, ghost'.acts = ghost.acts \union {act},
         ghost'.unrecorded = ghost.unrecorded
  PROVE  ClaimInv'
<1>1. \A q \in Ops : /\ Holds(q)' => Holds(q) /\ ops'[q].at = ops[q].at
                     /\ Deciding(q)' => Deciding(q) /\ Holds(q) /\ q # o /\ ops'[q].at = ops[q].at
  BY DEF Alone, Holds, Deciding, HoldsAt
<1>2. Holds(o)
  BY DEF Holds, Deciding, HoldsAt
<1>3. ClaimsHeld' /\ OneHolder'
  BY <1>1 DEF ClaimInv, ClaimsHeld, OneHolder
<1>4. ActsClaimed'
  BY <1>2 DEF ClaimInv, ActsClaimed, ClaimsHeld
<1>5. NotYet'
  BY <1>1, <1>2 DEF ClaimInv, NotYet, OneHolder
<1>6. DecidedOnce'
  BY DEF ClaimInv, NotYet, DecidedOnce
<1> QED
  BY <1>3, <1>4, <1>5, <1>6 DEF ClaimInv

\* A decision that could not be written is known for one.
LEMMA NotRecorded ==
  ASSUME ClaimInv, NEW o \in Ops, Alone(o), Holds(o), ~Holds(o)',
         decided' \in {decided, decided \ {ops[o].at}}, ghost'.acts = ghost.acts,
         ghost'.unrecorded = ghost.unrecorded \union {ops[o].at}
  PROVE  ClaimInv'
<1>1. \A q \in Ops : Holds(q)' => /\ q # o /\ Holds(q) /\ ops'[q].at = ops[q].at
                                  /\ ops[q].at # ops[o].at
  BY DEF Alone, Holds, ClaimInv, OneHolder
<1>2. \A q \in Ops : Deciding(q)' => Holds(q)' /\ Deciding(q)
  BY <1>1 DEF Deciding, Holds, HoldsAt, Alone
<1>3. ClaimsHeld' /\ OneHolder'
  BY <1>1 DEF ClaimInv, ClaimsHeld, OneHolder
<1>4. ActsClaimed' /\ DecidedOnce'
  BY DEF ClaimInv, ActsClaimed, DecidedOnce
<1>5. NotYet'
  BY <1>1, <1>2 DEF ClaimInv, NotYet
<1> QED
  BY <1>3, <1>4, <1>5 DEF ClaimInv

\* Every place tells the verb.
LEMMA VerbAt ==
  ASSUME NEW o \in Ops, InPlace(o)
  PROVE  /\ ops[o].pc \in {"new", "done"} <=> ops[o].verb = "none"
         /\ ops[o].pc \in {"add", "enroll"} => ops[o].verb = "start"
         /\ ops[o].pc = "spawn" => ops[o].verb \in {"start", "return"}
         /\ ops[o].pc \in {"judge", "recheck", "confirm", "uncommit", "spec", "drop", "hand"}
              => ops[o].verb = "return"
         /\ ops[o].pc \in {"stake", "lock", "displace", "replace"} => ops[o].verb \in {"return", "discard"}
         /\ ops[o].pc \in {"claim", "decide"} => ops[o].verb \in {"return", "accept", "abandon"}
         /\ ops[o].pc \in Accepting => ops[o].verb = "accept"
         /\ ops[o].pc \in {"inspect", "reread", "list", "proof", "others"} => ops[o].verb = "discard"
         /\ ops[o].pc \in {"remove", "move"} => ops[o].verb \in {"discard", "closeout"}
         /\ ops[o].pc = "view" => ops[o].verb = "closeout"
         /\ ops[o].pc \in {"quiet", "append"} => ops[o].verb = "record"
BY DEF InPlace, Verbs, Places, Returning, Accepting

\* The places of each verb, one by one.
LEMMA PlaceSets ==
  /\ Places("none") = {"new", "done"}
  /\ Places("start") = {"add", "enroll", "spawn"}
  /\ Places("return") = {"judge", "claim", "hand", "decide"} \union Returning
  /\ Places("accept") = {"claim", "decide"} \union Accepting
  /\ Places("abandon") = {"claim", "decide"}
  /\ Places("discard") = {"inspect", "stake", "lock", "displace", "replace", "reread", "list",
                          "proof", "others", "remove", "move"}
  /\ Places("closeout") = {"view", "remove", "move"}
  /\ Places("record") = {"quiet", "append"}
BY DEF Places

-----------------------------------------------------------------------------
(* A step of a call                                                        *)

\* A call that reads, or goes on with what it holds.
LEMMA ReadOn ==
  ASSUME VerbInv, NEW o \in Ops, CallShape', Alone(o), ghost' = ghost, decided' = decided,
         ops'[o].verb \in Verbs, ops'[o].pc \in Places(ops'[o].verb),
         HoldsAt(ops'[o].verb, ops'[o].pc) => Holds(o) /\ ops'[o].at = ops[o].at,
         DecidesAt(ops'[o].verb, ops'[o].pc) => Deciding(o)
  PROVE  VerbInv'
<1>1. ClaimInv'
  BY Calm DEF VerbInv, Holds, Deciding, SameActs
<1>2. \A q \in Ops : InPlace(q)'
  BY DEF VerbInv, InPlace, Alone
<1>3. GhostShape'
  BY DEF VerbInv, GhostShape
<1> QED
  BY <1>1, <1>2, <1>3 DEF VerbInv

\* A call that goes on at another place of its verb.
LEMMA GoesOn ==
  ASSUME VerbInv, NEW o \in Ops, NEW pc \in Places(ops[o].verb), Go(o, pc),
         ghost' = ghost, decided' = decided,
         HoldsAt(ops[o].verb, pc) => Holds(o), DecidesAt(ops[o].verb, pc) => Deciding(o)
  PROVE  VerbInv'
<1>1. /\ CallShape' /\ Alone(o)
      /\ ops'[o].pc = pc /\ ops'[o].verb = ops[o].verb /\ ops'[o].at = ops[o].at
  BY GoOn DEF VerbInv, Alone
<1>2. ops[o].verb \in Verbs
  BY DEF VerbInv, InPlace
<1> QED
  BY <1>1, <1>2, ReadOn

\* A call that leaves, or is killed, and gives up at most what it has not carried out.
LEMMA GoesAway ==
  ASSUME VerbInv, NEW o \in Ops, Leave(o), ghost' = ghost \/ (SameActs /\ GhostShape'),
         \/ decided' = decided
         \/ Deciding(o) /\ decided' = decided \ {ops[o].at}
  PROVE  VerbInv'
<1>0. SameActs /\ GhostShape'
  BY DEF VerbInv, GhostShape, SameActs
<1>1. CallShape' /\ Alone(o) /\ ops'[o].pc = "done" /\ ops'[o].verb = "none"
  BY GoAway DEF VerbInv, Alone
<1>2. ~Holds(o)' /\ ~Deciding(o)'
  BY <1>1 DEF Holds, HoldsAt, DecidesAt, RecordsAt, Deciding
<1>3. ClaimInv'
  BY <1>0, <1>1, <1>2, Calm, GivenUp DEF VerbInv
<1>4. \A q \in Ops : InPlace(q)'
  BY <1>1, PlaceSets DEF VerbInv, InPlace, Alone, Verbs
<1> QED
  BY <1>0, <1>1, <1>3, <1>4 DEF VerbInv

\* A call that is replaced by one that has read more.
LEMMA Becomes ==
  ASSUME VerbInv, NEW o \in Ops, NEW c, Fielded(c), ops' = [ops EXCEPT ![o] = c],
         ghost' = ghost, decided' = decided,
         c.verb \in Verbs, c.pc \in Places(c.verb),
         HoldsAt(c.verb, c.pc) => Holds(o) /\ c.at = ops[o].at,
         DecidesAt(c.verb, c.pc) => Deciding(o)
  PROVE  VerbInv'
<1>1. CallShape' /\ ops'[o] = c /\ Alone(o)
  BY Replaced DEF VerbInv, Alone
<1> QED
  BY <1>1, ReadOn

\* A call that fails gives up what it holds, and no more.
LEMMA Fails ==
  ASSUME VerbInv, NEW o \in Ops,
         \/ Refuse(o)
         \/ Forfeit(o) /\ Deciding(o)
         \/ (Release(o) \/ Unlocked(o) \/ Unstaked(o)) /\ (Deciding(o) \/ ops[o].verb = "discard")
  PROVE  VerbInv'
<1>1. Leave(o) /\ ghost' = ghost
  BY DEF Refuse, Forfeit, Unstaked, Release, LetGo, Unlocked
<1>2. \/ decided' = decided
      \/ Deciding(o) /\ decided' = decided \ {ops[o].at}
  BY DEF Refuse, Forfeit, Unstaked, Release, LetGo, Unlocked, Undecide, files
<1> QED
  BY <1>1, <1>2, GoesAway

\* A call that only reads goes on.
LEMMA Proceeds ==
  ASSUME VerbInv, NEW o \in Ops, NEW pc \in Places(ops[o].verb), Proceed(o, pc),
         HoldsAt(ops[o].verb, pc) => Holds(o), DecidesAt(ops[o].verb, pc) => Deciding(o)
  PROVE  VerbInv'
<1>1. Go(o, pc) /\ ghost' = ghost /\ decided' = decided
  BY DEF Proceed, files
<1> QED
  BY <1>1, GoesOn

-----------------------------------------------------------------------------
(* crew start, and the first look of each verb                             *)

\* A lane is started.
LEMMA Started ==
  ASSUME VerbInv, NEW o \in Ops, BeginStart(o) \/ AddWorktree(o) \/ RecordLane(o)
  PROVE  VerbInv'
<1>1. CASE BeginStart(o)
  <2>1. PICK c : c = [ops[o] EXCEPT !.pc = "add", !.verb = "start"]
    OBVIOUS
  <2>2. Fielded(c) /\ c.pc = "add" /\ c.verb = "start"
    <3>1. PICK d : d = ops[o] /\ Fielded(d)
      BY DEF VerbInv, CallShape
    <3>2. c = [d EXCEPT !.pc = "add", !.verb = "start"]
      BY <2>1, <3>1
    <3> QED
      BY <3>1, <3>2 DEF Fielded
  <2>3. ops' = [ops EXCEPT ![o] = c] /\ ghost' = ghost /\ decided' = decided
    BY <1>1, <2>1 DEF BeginStart, files
  <2>4. c.verb \in Verbs /\ c.pc \in Places(c.verb) /\ ~HoldsAt(c.verb, c.pc) /\ ~DecidesAt(c.verb, c.pc)
    BY <2>2, PlaceSets DEF Verbs, HoldsAt, DecidesAt, RecordsAt
  <2> QED
    BY <2>2, <2>3, <2>4, Becomes
<1>2. CASE AddWorktree(o) \/ RecordLane(o)
  <2>1. InPlace(o) /\ ops[o].verb = "start"
    BY <1>2, VerbAt DEF VerbInv, AddWorktree, RecordLane, At
  <2>2. \A pc : ~HoldsAt(ops[o].verb, pc) /\ ~DecidesAt(ops[o].verb, pc)
    BY <2>1 DEF HoldsAt, DecidesAt, RecordsAt
  <2>3. CASE Refuse(o)
    BY <2>3, Fails
  <2>4. CASE \E pc \in {"enroll", "spawn"} : Go(o, pc) /\ ghost' = ghost /\ decided' = decided
    BY <2>1, <2>2, <2>4, PlaceSets, GoesOn
  <2> QED
    BY <1>2, <2>3, <2>4 DEF AddWorktree, RecordLane, files
<1> QED
  BY <1>1, <1>2

\* A verb has read the journal, and claimed nothing.
LEMMA Loaded ==
  ASSUME VerbInv, NEW o \in Ops,
         \/ BeginReturn(o) \/ BeginDiscard(o) \/ BeginRecord(o) \/ BeginCloseout(o)
         \/ \E choice \in {"accept", "abandon"} : BeginReady(o, choice)
  PROVE  VerbInv'
<1>1. PICK d : d = ops[o] /\ Fielded(d)
  BY DEF VerbInv, CallShape
<1>2. ASSUME NEW verb \in Verbs, NEW pc \in Places(verb), Load(o, verb, pc),
             ~HoldsAt(verb, pc)
      PROVE  VerbInv'
  <2>1. PICK c : c = [ops[o] EXCEPT !.pc = pc, !.verb = verb, !.n = Len(journal)]
    OBVIOUS
  <2>2. c = [d EXCEPT !.pc = pc, !.verb = verb, !.n = Len(journal)]
    BY <1>1, <2>1
  <2>3. Fielded(c) /\ c.pc = pc /\ c.verb = verb
    BY <1>1, <2>2 DEF Fielded
  <2>4. ops' = [ops EXCEPT ![o] = c] /\ ghost' = ghost /\ decided' = decided
    BY <1>2, <2>1 DEF Load, files
  <2>5. ~DecidesAt(verb, pc)
    BY <1>2 DEF HoldsAt
  <2> QED
    BY <1>2, <2>3, <2>4, <2>5, Becomes
<1>3. CASE BeginReturn(o) \/ BeginDiscard(o) \/ BeginRecord(o) \/ BeginCloseout(o)
  <2>1. PICK pair \in {<<"return", "judge">>, <<"discard", "inspect">>, <<"record", "quiet">>,
                       <<"closeout", "view">>} : Load(o, pair[1], pair[2])
    BY <1>3 DEF BeginReturn, BeginDiscard, BeginRecord, BeginCloseout
  <2>2. pair[1] \in Verbs /\ pair[2] \in Places(pair[1]) /\ ~HoldsAt(pair[1], pair[2])
    BY PlaceSets DEF Verbs, HoldsAt, DecidesAt, RecordsAt, Returning
  <2> QED
    BY <1>2, <2>1, <2>2
<1>4. ASSUME NEW choice \in {"accept", "abandon"}, BeginReady(o, choice)
      PROVE  VerbInv'
  <2>1. PICK n, ready : ops' = [ops EXCEPT ![o].pc = "claim", ![o].verb = choice, ![o].n = n,
                                           ![o].at = ready, ![o].way = "ready"]
    BY <1>4 DEF BeginReady
  <2>2. PICK c : c = [ops[o] EXCEPT !.pc = "claim", !.verb = choice, !.n = n, !.at = ready, !.way = "ready"]
    OBVIOUS
  <2>3. c = [d EXCEPT !.pc = "claim", !.verb = choice, !.n = n, !.at = ready, !.way = "ready"]
    BY <1>1, <2>2
  <2>4. Fielded(c) /\ c.pc = "claim" /\ c.verb = choice
    BY <1>1, <2>3 DEF Fielded
  <2>5. ops' = [ops EXCEPT ![o] = c]
    BY <2>1, <2>2
  <2>6. ghost' = ghost /\ decided' = decided
    BY <1>4 DEF BeginReady, files
  <2>7. c.verb \in Verbs /\ c.pc \in Places(c.verb) /\ ~HoldsAt(c.verb, c.pc) /\ ~DecidesAt(c.verb, c.pc)
    BY <1>4, <2>4, PlaceSets DEF Verbs, HoldsAt, DecidesAt, RecordsAt, Accepting
  <2> QED
    BY <2>4, <2>5, <2>6, <2>7, Becomes
<1> QED
  BY <1>3, <1>4

-----------------------------------------------------------------------------
(* The return, from its claim to its row                                   *)

\* A return that is judged, and looked at again, has read more.
LEMMA Judged ==
  ASSUME VerbInv, NEW o \in Ops, Judge(o) \/ Recheck(o)
  PROVE  VerbInv'
<1>1. InPlace(o) /\ ops[o].verb = "return"
  BY VerbAt DEF VerbInv, Judge, Recheck, At
<1>2. PICK d : d = ops[o] /\ Fielded(d)
  BY DEF VerbInv, CallShape
<1>3. CASE Judge(o)
  <2>1. CASE Refuse(o)
    BY <2>1, Fails
  <2>2. ASSUME ~Refuse(o) PROVE VerbInv'
    <3>0. PICK dead \in DeadRun(ops[o].n) : \E stop, ready, onStop :
               LET p == IF onStop THEN stop ELSE ready
                   prior == IF onStop THEN StopPrior(ops[o].n, stop) ELSE ReadyPrior(ready)
               IN  ops' = [ops EXCEPT ![o].pc = "claim", ![o].at = p, ![o].prior = prior,
                            ![o].way = IF onStop THEN "stop" ELSE "ready",
                            ![o].rec = IF onStop THEN lane.spec.rec ELSE ReadyRec(ready),
                            ![o].died = IF dead THEN lane.pid ELSE None]
      BY <1>3, <2>2, ZenonT(60) DEF Judge
    <3>9. PICK stop, ready, onStop :
               LET p == IF onStop THEN stop ELSE ready
                   prior == IF onStop THEN StopPrior(ops[o].n, stop) ELSE ReadyPrior(ready)
               IN  ops' = [ops EXCEPT ![o].pc = "claim", ![o].at = p, ![o].prior = prior,
                            ![o].way = IF onStop THEN "stop" ELSE "ready",
                            ![o].rec = IF onStop THEN lane.spec.rec ELSE ReadyRec(ready),
                            ![o].died = IF dead THEN lane.pid ELSE None]
      BY <3>0, Zenon
    <3>1. PICK p, prior, way, rec, died :
               ops' = [ops EXCEPT ![o].pc = "claim", ![o].at = p, ![o].prior = prior,
                                  ![o].way = way, ![o].rec = rec, ![o].died = died]
      BY <3>9, Zenon
    <3>2. PICK c : c = [ops[o] EXCEPT !.pc = "claim", !.at = p, !.prior = prior,
                                      !.way = way, !.rec = rec, !.died = died]
      OBVIOUS
    <3>3. c = [d EXCEPT !.pc = "claim", !.at = p, !.prior = prior,
                        !.way = way, !.rec = rec, !.died = died]
      BY <1>2, <3>2
    <3>4. Fielded(c) /\ c.pc = "claim" /\ c.verb = d.verb
      BY <1>2, <3>3 DEF Fielded
    <3>5. ops' = [ops EXCEPT ![o] = c]
      BY <3>1, <3>2
    <3>6. ghost' = ghost /\ decided' = decided
      BY <1>3, <2>2 DEF Judge, files
    <3>7. c.verb = "return"
      BY <1>1, <1>2, <3>4
    <3>8. c.verb \in Verbs /\ c.pc \in Places(c.verb) /\ ~HoldsAt(c.verb, c.pc) /\ ~DecidesAt(c.verb, c.pc)
      BY <3>4, <3>7, PlaceSets DEF Verbs, HoldsAt, DecidesAt, RecordsAt, Returning
    <3> QED
      BY <3>4, <3>5, <3>6, <3>8, Becomes
  <2> QED
    BY <2>1, <2>2
<1>4. CASE Recheck(o)
  <2>0. Deciding(o) /\ Holds(o)
    BY <1>1, <1>4 DEF Recheck, At, Deciding, Holds, HoldsAt, DecidesAt, Returning
  <2>1. CASE Forfeit(o)
    BY <2>0, <2>1, Fails
  <2>2. ASSUME ~Forfeit(o) PROVE VerbInv'
    <3>0. PICK dead \in DeadRun(Len(journal)) :
               LET stop == IF dead THEN Len(journal) + 1 ELSE Last(Len(journal), {"stop"})
                   rec == ops[o].rec
               IN  ops' = [ops EXCEPT ![o].pc = "stake", ![o].stake = stop,
                            ![o].died = IF dead THEN lane.pid ELSE None,
                            ![o].rec = IF ~dead THEN rec
                                       ELSE Min({stop, IF rec = 0 THEN stop ELSE rec})]
      BY <1>4, <2>2, Zenon DEF Recheck
    <3>1. PICK stop, died, rec :
               ops' = [ops EXCEPT ![o].pc = "stake", ![o].stake = stop, ![o].died = died, ![o].rec = rec]
      BY <3>0, Zenon
    <3>2. PICK c : c = [ops[o] EXCEPT !.pc = "stake", !.stake = stop, !.died = died, !.rec = rec]
      OBVIOUS
    <3>3. c = [d EXCEPT !.pc = "stake", !.stake = stop, !.died = died, !.rec = rec]
      BY <1>2, <3>2
    <3>4. Fielded(c) /\ c.pc = "stake" /\ c.verb = d.verb /\ c.at = d.at
      BY <1>2, <3>3 DEF Fielded
    <3>5. ops' = [ops EXCEPT ![o] = c]
      BY <3>1, <3>2
    <3>6. ghost' = ghost /\ decided' = decided
      BY <1>4, <2>2 DEF Recheck, files
    <3>7. c.verb = "return" /\ c.at = ops[o].at
      BY <1>1, <1>2, <3>4
    <3>8. c.verb \in Verbs /\ c.pc \in Places(c.verb)
      BY <3>4, <3>7, PlaceSets DEF Verbs, Returning
    <3> QED
      BY <2>0, <3>4, <3>5, <3>6, <3>7, <3>8, Becomes
  <2> QED
    BY <2>1, <2>2
<1> QED
  BY <1>3, <1>4

\* A decision is claimed by one call, and none claims it again.
LEMMA Claimed ==
  ASSUME VerbInv, NEW o \in Ops, ClaimDecision(o)
  PROVE  VerbInv'
<1>1. InPlace(o) /\ ops[o].verb \in {"return", "accept", "abandon"} /\ ops[o].pc = "claim"
  BY VerbAt DEF VerbInv, ClaimDecision, At
<1>2. CASE Refuse(o)
  BY <1>2, Fails
<1>3. CASE ops[o].at \notin decided /\ ~Refuse(o)
  <2>1. PICK d : d = ops[o] /\ Fielded(d)
    BY DEF VerbInv, CallShape
  <2>2. PICK pc : /\ pc = CASE ops[o].verb = "accept" -> "head"
                            [] ops[o].verb = "abandon" -> "decide"
                            [] OTHER -> IF ops[o].way = "stop" THEN "recheck" ELSE "stake"
                  /\ ops' = [ops EXCEPT ![o].pc = pc, ![o].stake = ops[o].at]
    BY <1>3 DEF ClaimDecision
  <2>3. PICK c : c = [ops[o] EXCEPT !.pc = pc, !.stake = ops[o].at]
    OBVIOUS
  <2>4. c = [d EXCEPT !.pc = pc, !.stake = d.at]
    BY <2>1, <2>3
  <2>5. Fielded(c) /\ c.pc = pc /\ c.verb = d.verb /\ c.at = d.at
    BY <2>1, <2>4 DEF Fielded
  <2>6. ops' = [ops EXCEPT ![o] = c]
    BY <2>2, <2>3
  <2>7. CallShape' /\ ops'[o] = c /\ Alone(o)
    BY <2>5, <2>6, Replaced DEF VerbInv, Alone
  <2>8. ops'[o].pc = pc /\ ops'[o].verb = ops[o].verb /\ ops'[o].at = ops[o].at
    BY <2>1, <2>5, <2>7
  <2>9. ghost' = ghost /\ decided' = decided \union {ops'[o].at} /\ ~Holds(o)
    BY <1>1, <1>3, <2>8 DEF ClaimDecision, Holds, HoldsAt, DecidesAt, RecordsAt, Returning, Accepting
  <2>10. ClaimInv'
    BY <1>3, <2>7, <2>8, <2>9, TakenUp DEF VerbInv
  <2>11. pc \in Places(ops[o].verb) /\ ops[o].verb \in Verbs
    BY <1>1, <2>2, PlaceSets DEF Verbs, Returning, Accepting
  <2>12. \A q \in Ops : InPlace(q)'
    BY <2>7, <2>8, <2>11 DEF VerbInv, InPlace, Alone
  <2>13. GhostShape'
    BY <2>9 DEF VerbInv, GhostShape
  <2> QED
    BY <2>7, <2>10, <2>12, <2>13 DEF VerbInv
<1> QED
  BY <1>2, <1>3 DEF ClaimDecision

\* The stop is claimed for a return or a discard, over a dead caller's claim too.
LEMMA Takes ==
  ASSUME VerbInv, NEW o \in Ops, Stake(o) \/ TakeLock(o) \/ Displace(o) \/ Replace(o)
  PROVE  VerbInv'
<1>1. /\ InPlace(o) /\ ops[o].verb \in {"return", "discard"}
      /\ ops[o].pc \in {"stake", "lock", "displace", "replace"}
  BY VerbAt DEF VerbInv, Stake, TakeLock, Displace, Replace, At
<1>2. ops[o].verb = "return" => Deciding(o) /\ Holds(o)
  BY <1>1 DEF Deciding, Holds, HoldsAt, DecidesAt, Returning
<1>3. ops[o].verb = "discard" => \A pc : ~HoldsAt(ops[o].verb, pc) /\ ~DecidesAt(ops[o].verb, pc)
  BY DEF HoldsAt, DecidesAt, RecordsAt
<1>4. Staked(o) \in Places(ops[o].verb) /\ {"lock", "displace", "replace"} \subseteq Places(ops[o].verb)
  <2>1. CASE ops[o].verb = "discard"
    <3>1. Staked(o) = "reread"
      BY <2>1 DEF Staked
    <3> QED
      BY <2>1, <3>1, PlaceSets
  <2>2. CASE ops[o].verb = "return"
    <3>1. Staked(o) \in {"confirm", "spec"}
      BY <2>2 DEF Staked
    <3> QED
      BY <2>2, <3>1, PlaceSets DEF Returning
  <2> QED
    BY <1>1, <2>1, <2>2
<1>5. ASSUME NEW pc \in Places(ops[o].verb), Go(o, pc), ghost' = ghost, decided' = decided
      PROVE  VerbInv'
  BY <1>1, <1>2, <1>3, <1>5, GoesOn
<1>6. CASE Unstaked(o) \/ Unlocked(o)
  <2>1. CASE Unlocked(o)
    BY <1>1, <1>2, <2>1, Fails
  <2>2. CASE Unstaked(o)
    BY <1>1, <1>2, <2>2, Fails
  <2> QED
    BY <1>6, <2>1, <2>2
<1>7. ASSUME NEW pc \in Places(ops[o].verb), NEW text,
             ops' = [ops EXCEPT ![o].pc = pc, ![o].text = text], ghost' = ghost, decided' = decided
      PROVE  VerbInv'
  <2>1. PICK d : d = ops[o] /\ Fielded(d)
    BY DEF VerbInv, CallShape
  <2>2. PICK c : c = [ops[o] EXCEPT !.pc = pc, !.text = text]
    OBVIOUS
  <2>3. c = [d EXCEPT !.pc = pc, !.text = text]
    BY <2>1, <2>2
  <2>4. Fielded(c) /\ c.pc = pc /\ c.verb = d.verb /\ c.at = d.at
    BY <2>1, <2>3 DEF Fielded
  <2>5. ops' = [ops EXCEPT ![o] = c]
    BY <1>7, <2>2
  <2>6. c.pc = pc /\ c.verb = ops[o].verb /\ c.at = ops[o].at /\ ops[o].verb \in Verbs
    BY <1>1, <2>1, <2>4 DEF Verbs
  <2> QED
    BY <1>1, <1>2, <1>3, <1>7, <2>4, <2>5, <2>6, Becomes
<1>8. CASE Stake(o)
  BY <1>4, <1>5, <1>6, <1>7, <1>8 DEF Stake, files
<1>9. CASE TakeLock(o)
  BY <1>4, <1>5, <1>6, <1>9 DEF TakeLock, files
<1>10. CASE Displace(o)
  BY <1>4, <1>5, <1>6, <1>10 DEF Displace, files
<1>11. CASE Replace(o)
  BY <1>4, <1>6, <1>7, <1>11 DEF Replace, files
<1> QED
  BY <1>8, <1>9, <1>10, <1>11

\* The checkout and finish.json are made ready for the run.
LEMMA Prepared ==
  ASSUME VerbInv, NEW o \in Ops, Confirm(o) \/ RecordUndo(o) \/ WriteSpec(o) \/ DropPid(o)
  PROVE  VerbInv'
<1>1. /\ ops[o].verb = "return"
      /\ ops[o].pc \in {"confirm", "uncommit", "spec", "drop"}
  BY VerbAt DEF VerbInv, Confirm, RecordUndo, WriteSpec, DropPid, At
<1>2. Deciding(o) /\ Holds(o)
  BY <1>1 DEF Deciding, Holds, HoldsAt, DecidesAt, Returning
<1>3. {"spec", "uncommit", "drop", "spawn"} \subseteq Places(ops[o].verb)
  BY <1>1, PlaceSets DEF Returning
<1>4. ASSUME NEW pc \in Places(ops[o].verb), Go(o, pc), ghost' = ghost, decided' = decided
      PROVE  VerbInv'
  BY <1>2, <1>4, GoesOn
<1>5. CASE Release(o)
  BY <1>2, <1>5, Fails
<1>6. CASE Confirm(o)
  BY <1>3, <1>4, <1>5, <1>6 DEF Confirm, Proceed, files
<1>7. CASE RecordUndo(o)
  BY <1>3, <1>4, <1>5, <1>7 DEF RecordUndo, files
<1>8. CASE WriteSpec(o)
  BY <1>3, <1>4, <1>5, <1>8 DEF WriteSpec, files
<1>9. CASE DropPid(o)
  BY <1>3, <1>4, <1>9 DEF DropPid, files
<1> QED
  BY <1>1, <1>6, <1>7, <1>8, <1>9

\* A decision is recorded with its row, or carried out by the call that leaves with it.
LEMMA Carries ==
  ASSUME VerbInv, NEW o \in Ops, CallShape', Alone(o), Deciding(o), ~Deciding(o)',
         Holds(o)' => ops'[o].at = ops[o].at, InPlace(o)', decided' = decided,
         GhostShape', NEW act, act.at = ops[o].at, ghost'.acts = ghost.acts \union {act},
         ghost'.unrecorded = ghost.unrecorded
  PROVE  VerbInv'
<1>4. ClaimInv'
  BY CarriedOut DEF VerbInv
<1>5. \A q \in Ops : InPlace(q)'
  BY DEF VerbInv, InPlace, Alone
<1> QED
  BY <1>4, <1>5 DEF VerbInv

\* A run is launched, or is not.
LEMMA Launched ==
  ASSUME VerbInv, NEW o \in Ops, Spawn(o) \/ SpawnFails(o)
  PROVE  VerbInv'
<1>1. InPlace(o) /\ ops[o].verb \in {"start", "return"} /\ ops[o].pc = "spawn"
  BY VerbAt DEF VerbInv, Spawn, SpawnFails, At
<1>2. ops[o].verb = "return" => Deciding(o) /\ Holds(o)
  BY <1>1 DEF Deciding, Holds, HoldsAt, DecidesAt, Returning
<1>3. CASE SpawnFails(o)
  <2>1. CASE Refuse(o)
    BY <2>1, Fails
  <2>2. CASE ops[o].verb = "return"
    <3>1. GhostShape' /\ SameActs
      BY <1>3, <2>2, FailRaces DEF VerbInv
    <3>2. Leave(o) /\ decided' = decided \ {ops[o].at}
      BY <1>3, <2>2 DEF SpawnFails, LetGo, Undecide
    <3> QED
      BY <1>2, <2>2, <3>1, <3>2, GoesAway
  <2> QED
    BY <1>1, <1>3, <2>1, <2>2 DEF SpawnFails
<1>4. CASE Spawn(o) /\ ops[o].verb = "start"
  <2>1. Leave(o) /\ decided' = decided
    BY <1>4 DEF Spawn, files
  <2>2. GhostShape' /\ SameActs
    BY <1>4, SpawnRaces DEF VerbInv, SameActs
  <2> QED
    BY <2>1, <2>2, GoesAway
<1>5. CASE Spawn(o) /\ ops[o].verb = "return"
  <2>1. PICK act, r : /\ act.at = ops[o].at
                      /\ GhostShape' /\ ghost'.acts = ghost.acts \union {act}
                      /\ ghost'.unrecorded = ghost.unrecorded
                      /\ \/ ops' = [ops EXCEPT ![o].pc = "hand", ![o].run = r]
                         \/ Leave(o)
    <3>1. PICK act : act = Act(o, "return", Len(runs) + 1)
      OBVIOUS
    <3>2. act.at = ops[o].at
      BY <3>1 DEF Act
    <3>3. GhostShape' /\ ghost'.acts = ghost.acts \union {act} /\ ghost'.unrecorded = ghost.unrecorded
      BY <1>5, <3>1, SpawnRaces DEF VerbInv
    <3>4. ops' = [ops EXCEPT ![o].pc = "hand", ![o].run = Len(runs) + 1] \/ Leave(o)
      BY <1>5 DEF Spawn
    <3> QED
      BY <3>2, <3>3, <3>4
  <2>2. decided' = decided
    BY <1>5 DEF Spawn, files
  <2>3. CASE Leave(o)
    <3>1. CallShape' /\ Alone(o) /\ ops'[o].pc = "done" /\ ops'[o].verb = "none"
      BY <2>3, GoAway DEF VerbInv, Alone
    <3>2. ~Deciding(o)' /\ ~Holds(o)' /\ InPlace(o)'
      BY <3>1, PlaceSets DEF Deciding, Holds, HoldsAt, DecidesAt, RecordsAt, InPlace, Verbs
    <3> QED
      BY <1>2, <1>5, <2>1, <2>2, <3>1, <3>2, Carries
  <2>4. CASE ops' = [ops EXCEPT ![o].pc = "hand", ![o].run = r]
    <3>1. PICK d : d = ops[o] /\ Fielded(d)
      BY DEF VerbInv, CallShape
    <3>2. PICK c : c = [ops[o] EXCEPT !.pc = "hand", !.run = r]
      OBVIOUS
    <3>3. c = [d EXCEPT !.pc = "hand", !.run = r]
      BY <3>1, <3>2
    <3>4. Fielded(c) /\ c.pc = "hand" /\ c.verb = d.verb /\ c.at = d.at
      BY <3>1, <3>3 DEF Fielded
    <3>5. ops' = [ops EXCEPT ![o] = c]
      BY <2>4, <3>2
    <3>6. CallShape' /\ ops'[o] = c /\ Alone(o)
      BY <3>4, <3>5, Replaced DEF VerbInv, Alone
    <3>7. ops'[o].pc = "hand" /\ ops'[o].verb = "return" /\ ops'[o].at = ops[o].at
      BY <1>5, <3>1, <3>4, <3>6
    <3>8. ~Deciding(o)' /\ InPlace(o)'
      BY <3>7, PlaceSets DEF Deciding, DecidesAt, InPlace, Verbs, Returning
    <3> QED
      BY <1>2, <1>5, <2>1, <2>2, <3>6, <3>7, <3>8, Carries
  <2> QED
    BY <2>1, <2>3, <2>4
<1> QED
  BY <1>1, <1>3, <1>4, <1>5

\* The claim is handed to the run, and the decision is written, or is not.
LEMMA Recorded ==
  ASSUME VerbInv, NEW o \in Ops, Hand(o) \/ Decide(o) \/ DecideFails(o)
  PROVE  VerbInv'
<1>1. CASE Hand(o)
  <2>1. ops[o].pc = "hand" /\ ops[o].verb = "return"
    BY <1>1, VerbAt DEF VerbInv, Hand, At
  <2>2. Holds(o) /\ "decide" \in Places(ops[o].verb) /\ ~DecidesAt(ops[o].verb, "decide")
    BY <2>1, PlaceSets DEF Holds, HoldsAt, RecordsAt, DecidesAt, Returning
  <2>3. Go(o, "decide") /\ ghost' = ghost /\ decided' = decided
    BY <1>1 DEF Hand
  <2> QED
    BY <2>2, <2>3, GoesOn
<1>2. ASSUME Decide(o) \/ DecideFails(o)
      PROVE  /\ ops[o].verb \in {"return", "accept", "abandon"} /\ Holds(o)
             /\ ops[o].verb = "abandon" => Deciding(o)
             /\ CallShape' /\ Alone(o) /\ ~Deciding(o)' /\ ~Holds(o)' /\ InPlace(o)'
  <2>1. ops[o].pc = "decide" /\ ops[o].verb \in {"return", "accept", "abandon"} /\ Leave(o)
    BY <1>2, VerbAt DEF VerbInv, Decide, DecideFails, At
  <2>2. Holds(o) /\ (ops[o].verb = "abandon" => Deciding(o))
    BY <2>1 DEF Holds, HoldsAt, DecidesAt, RecordsAt, Deciding
  <2>3. CallShape' /\ Alone(o) /\ ops'[o].pc = "done" /\ ops'[o].verb = "none"
    BY <2>1, GoAway DEF VerbInv, Alone
  <2>4. ~Deciding(o)' /\ ~Holds(o)' /\ InPlace(o)'
    BY <2>3, PlaceSets DEF Deciding, Holds, HoldsAt, DecidesAt, RecordsAt, InPlace, Verbs
  <2> QED
    BY <2>1, <2>2, <2>3, <2>4
<1>3. CASE Decide(o)
  <2>1. CASE ops[o].verb = "abandon"
    <3>1. PICK act : act = Act(o, "abandon", 0)
      OBVIOUS
    <3>2. act.at = ops[o].at
      BY <3>1 DEF Act
    <3>3. ghost' = [ghost EXCEPT !.acts = @ \union {act}] /\ decided' = decided
      BY <1>3, <2>1, <3>1 DEF Decide, files
    <3>4. GhostShape' /\ ghost'.acts = ghost.acts \union {act} /\ ghost'.unrecorded = ghost.unrecorded
      BY <3>3, GhostGrows DEF VerbInv
    <3> QED
      BY <1>2, <1>3, <2>1, <3>2, <3>3, <3>4, Carries
  <2>2. CASE ops[o].verb # "abandon"
    <3>1. Leave(o) /\ ghost' = ghost /\ decided' = decided
      BY <1>3, <2>2 DEF Decide, files
    <3> QED
      BY <3>1, GoesAway
  <2> QED
    BY <2>1, <2>2
<1>4. CASE DecideFails(o)
  <2>1. PICK g : g = ghost /\ g = [acts |-> g.acts, unrecorded |-> g.unrecorded, raced |-> g.raced]
    BY DEF VerbInv, GhostShape
  <2>2. ghost' = [g EXCEPT !.unrecorded = g.unrecorded \union {ops[o].at}]
    BY <1>4, <2>1 DEF DecideFails
  <2>3. /\ GhostShape'
        /\ ghost'.acts = ghost.acts /\ ghost'.unrecorded = ghost.unrecorded \union {ops[o].at}
    BY <2>1, <2>2 DEF GhostShape
  <2>4. decided' \in {decided, decided \ {ops[o].at}}
    BY <1>4 DEF DecideFails, Undecide
  <2>5. ClaimInv'
    BY <1>2, <1>4, <2>3, <2>4, NotRecorded DEF VerbInv
  <2>6. \A q \in Ops : InPlace(q)'
    BY <1>2, <1>4 DEF VerbInv, InPlace, Alone
  <2> QED
    BY <1>2, <1>4, <2>3, <2>5, <2>6 DEF VerbInv
<1> QED
  BY <1>1, <1>3, <1>4

-----------------------------------------------------------------------------
(* crew finish --accept                                                    *)

\* A publication is made and recorded, or the decision is given up.
LEMMA Accepted ==
  ASSUME VerbInv, NEW o \in Ops,
         CheckHead(o) \/ OpenPullRequest(o) \/ EditPullRequest(o) \/ RecordPublished(o)
  PROVE  VerbInv'
<1>1. ops[o].verb = "accept" /\ ops[o].pc \in Accepting
  <2>1. ops[o].pc \in Accepting
    BY DEF CheckHead, OpenPullRequest, EditPullRequest, RecordPublished, At, Accepting
  <2> QED
    BY <2>1, VerbAt DEF VerbInv
<1>2. Deciding(o) /\ Holds(o)
  BY <1>1 DEF Deciding, Holds, HoldsAt, DecidesAt
<1>3. {"open", "edit", "publish"} \subseteq Places(ops[o].verb)
  BY <1>1, PlaceSets DEF Accepting
<1>4. CASE Forfeit(o)
  BY <1>2, <1>4, Fails
<1>5. ASSUME NEW pc \in Places(ops[o].verb), Go(o, pc), ghost' = ghost, decided' = decided
      PROVE  VerbInv'
  BY <1>2, <1>5, GoesOn
<1>6. CASE CheckHead(o)
  BY <1>3, <1>4, <1>5, <1>6 DEF CheckHead, Proceed, files
<1>7. CASE OpenPullRequest(o)
  <2>1. CASE Leave(o) /\ ghost' = ghost /\ Undecide(o)
    BY <1>2, <2>1, GoesAway DEF Undecide
  <2> QED
    BY <1>3, <1>5, <1>7, <2>1 DEF OpenPullRequest, files
<1>8. CASE EditPullRequest(o)
  BY <1>3, <1>4, <1>5, <1>8 DEF EditPullRequest, Proceed, files
<1>9. CASE RecordPublished(o) /\ ~Forfeit(o)
  <2>1. PICK act : act = Act(o, "accept", 0)
    OBVIOUS
  <2>2. act.at = ops[o].at
    BY <2>1 DEF Act
  <2>3. ghost' = [ghost EXCEPT !.acts = @ \union {act}] /\ decided' = decided /\ Go(o, "decide")
    BY <1>9, <2>1 DEF RecordPublished, files
  <2>4. /\ CallShape' /\ Alone(o)
        /\ ops'[o].pc = "decide" /\ ops'[o].verb = "accept" /\ ops'[o].at = ops[o].at
    BY <1>1, <2>3, GoOn DEF VerbInv, Alone
  <2>5. ~Deciding(o)' /\ InPlace(o)'
    BY <2>4, PlaceSets DEF Deciding, DecidesAt, InPlace, Verbs, Accepting
  <2>6. GhostShape' /\ ghost'.acts = ghost.acts \union {act} /\ ghost'.unrecorded = ghost.unrecorded
    BY <2>3, GhostGrows DEF VerbInv
  <2> QED
    BY <1>2, <2>2, <2>3, <2>4, <2>5, <2>6, Carries
<1> QED
  BY <1>4, <1>6, <1>7, <1>8, <1>9

-----------------------------------------------------------------------------
(* crew closeout and crew record-pr                                        *)

\* These decide nothing.
LEMMA Undecided ==
  ASSUME VerbInv, NEW o \in Ops,
         \/ Inspect(o) \/ Reread(o) \/ ListClaims(o) \/ CheckPid(o) \/ CheckClaim(o)
         \/ View(o) \/ RemoveWorktree(o) \/ Archive(o) \/ CheckQuiet(o) \/ AppendPr(o)
  PROVE  VerbInv'
<1>1. ops[o].verb \in {"discard", "closeout", "record"}
  BY VerbAt DEF VerbInv, Inspect, Reread, ListClaims, CheckPid, CheckClaim, View, RemoveWorktree,
     Archive, CheckQuiet, AppendPr, At
<1>2. \A pc : ~HoldsAt(ops[o].verb, pc) /\ ~DecidesAt(ops[o].verb, pc)
  BY <1>1 DEF HoldsAt, DecidesAt, RecordsAt
<1>3. ASSUME NEW pc \in Places(ops[o].verb), Go(o, pc), ghost' = ghost, decided' = decided
      PROVE  VerbInv'
  BY <1>2, <1>3, GoesOn
<1>4. CASE Leave(o) /\ ghost' = ghost /\ decided' = decided
  BY <1>4, GoesAway
<1>5. CASE Refuse(o)
  BY <1>5, Fails
<1>6. CASE Release(o) /\ ops[o].verb = "discard"
  BY <1>6, Fails
<1>7. ASSUME NEW c, Fielded(c), ops' = [ops EXCEPT ![o] = c], c.verb = ops[o].verb,
             c.pc \in Places(ops[o].verb), ghost' = ghost, decided' = decided
      PROVE  VerbInv'
  <2>1. ops[o].verb \in Verbs
    BY <1>1 DEF Verbs
  <2> QED
    BY <1>2, <1>7, <2>1, Becomes
<1>8. PICK d : d = ops[o] /\ Fielded(d)
  BY DEF VerbInv, CallShape
<1>9. CASE Inspect(o) /\ ~Refuse(o)
  <2>1. PICK dead \in DeadRun(Discardable(ops[o].n)) :
          ops' = [ops EXCEPT ![o].pc = "stake",
                    ![o].stake = IF dead THEN Discardable(ops[o].n) + 1 ELSE Discardable(ops[o].n),
                    ![o].died = IF dead THEN lane.pid ELSE None]
    BY <1>9, Zenon DEF Inspect
  <2>2. PICK stake, died : ops' = [ops EXCEPT ![o].pc = "stake", ![o].stake = stake, ![o].died = died]
    BY <2>1, Zenon
  <2>3. PICK c : c = [ops[o] EXCEPT !.pc = "stake", !.stake = stake, !.died = died]
    OBVIOUS
  <2>4. c = [d EXCEPT !.pc = "stake", !.stake = stake, !.died = died]
    BY <1>8, <2>3
  <2>5. Fielded(c) /\ c.pc = "stake" /\ c.verb = d.verb
    BY <1>8, <2>4 DEF Fielded
  <2>6. ops' = [ops EXCEPT ![o] = c]
    BY <2>2, <2>3
  <2>7. ghost' = ghost /\ decided' = decided
    BY <1>9 DEF Inspect, files
  <2>8. ops[o].verb = "discard" /\ "stake" \in Places(ops[o].verb)
    BY <1>9, VerbAt, PlaceSets DEF VerbInv, Inspect, At
  <2> QED
    BY <1>7, <1>8, <2>5, <2>6, <2>7, <2>8
<1>10. CASE ListClaims(o)
  <2>1. PICK todo : ops' = [ops EXCEPT ![o].pc = "proof", ![o].todo = todo]
    BY <1>10 DEF ListClaims
  <2>2. PICK c : c = [ops[o] EXCEPT !.pc = "proof", !.todo = todo]
    OBVIOUS
  <2>3. c = [d EXCEPT !.pc = "proof", !.todo = todo]
    BY <1>8, <2>2
  <2>4. Fielded(c) /\ c.pc = "proof" /\ c.verb = d.verb
    BY <1>8, <2>3 DEF Fielded
  <2>5. ops' = [ops EXCEPT ![o] = c]
    BY <2>1, <2>2
  <2>6. ghost' = ghost /\ decided' = decided
    BY <1>10 DEF ListClaims, files
  <2>7. "proof" \in Places(ops[o].verb)
    BY <1>10, VerbAt, PlaceSets DEF VerbInv, ListClaims, At
  <2> QED
    BY <1>7, <1>8, <2>4, <2>5, <2>6, <2>7
<1>11. CASE Reread(o) \/ CheckPid(o)
  <2>1. ops[o].verb = "discard" /\ {"list", "others"} \subseteq Places(ops[o].verb)
    BY <1>11, VerbAt, PlaceSets DEF VerbInv, Reread, CheckPid, At
  <2> QED
    BY <1>3, <1>6, <1>11, <2>1 DEF Reread, CheckPid, Proceed, files
<1>12. CASE CheckClaim(o)
  <2>1. ops[o].verb = "discard" /\ {"others", "remove"} \subseteq Places(ops[o].verb)
        /\ ops[o].pc = "others"
    BY <1>12, VerbAt, PlaceSets DEF VerbInv, CheckClaim, At
  <2>2. ASSUME NEW todo, ops' = [ops EXCEPT ![o].todo = todo], ghost' = ghost, decided' = decided
        PROVE  VerbInv'
    <3>1. PICK c : c = [ops[o] EXCEPT !.todo = todo]
      OBVIOUS
    <3>2. c = [d EXCEPT !.todo = todo]
      BY <1>8, <3>1
    <3>3. Fielded(c) /\ c.pc = d.pc /\ c.verb = d.verb
      BY <1>8, <3>2 DEF Fielded
    <3>4. ops' = [ops EXCEPT ![o] = c]
      BY <2>2, <3>1
    <3> QED
      BY <1>7, <1>8, <2>1, <2>2, <3>3, <3>4
  <2>3. CASE Proceed(o, "remove")
    BY <1>3, <2>1, <2>3 DEF Proceed, files
  <2>4. CASE Release(o)
    BY <1>6, <2>1, <2>4
  <2>5. CASE \E file \in ops[o].todo :
               /\ ops' = [ops EXCEPT ![o].todo = ops[o].todo \ {file}]
               /\ UNCHANGED <<journal, lane, files, runs, ghost>>
    BY <2>2, <2>5 DEF files
  <2> QED
    BY <1>12, <2>3, <2>4, <2>5 DEF CheckClaim
<1>13. CASE View(o)
  <2>1. "remove" \in Places(ops[o].verb)
    BY <1>13, VerbAt, PlaceSets DEF VerbInv, View, At
  <2> QED
    BY <1>3, <1>5, <1>13, <2>1 DEF View, Proceed, files
<1>14. CASE RemoveWorktree(o) \/ Archive(o)
  <2>1. ops[o].verb \in {"discard", "closeout"} /\ "move" \in Places(ops[o].verb)
    BY <1>14, VerbAt, PlaceSets DEF VerbInv, RemoveWorktree, Archive, At
  <2>2. CASE GiveUp(o)
    BY <1>4, <1>6, <2>2 DEF GiveUp, files
  <2> QED
    BY <1>3, <1>14, <2>1, <2>2 DEF RemoveWorktree, Archive, files
<1>15. CASE CheckQuiet(o)
  <2>1. "append" \in Places(ops[o].verb)
    BY <1>15, VerbAt, PlaceSets DEF VerbInv, CheckQuiet, At
  <2> QED
    BY <1>3, <1>5, <1>15, <2>1 DEF CheckQuiet, Proceed, files
<1>16. CASE AppendPr(o)
  BY <1>4, <1>16 DEF AppendPr, files
<1> QED
  BY <1>5, <1>9, <1>10, <1>11, <1>12, <1>13, <1>14, <1>15, <1>16

-----------------------------------------------------------------------------
(* Every step                                                              *)

\* A verb's step keeps the invariant.
LEMMA VerbSteps ==
  ASSUME VerbInv, NEW o \in Ops, Verb(o)
  PROVE  VerbInv'
<1>1. CASE BeginStart(o) \/ AddWorktree(o) \/ RecordLane(o)
  BY <1>1, Started
<1>2. CASE \/ BeginReturn(o) \/ BeginDiscard(o) \/ BeginRecord(o) \/ BeginCloseout(o)
           \/ \E choice \in {"accept", "abandon"} : BeginReady(o, choice)
  BY <1>2, Loaded
<1>3. CASE Judge(o) \/ Recheck(o)
  BY <1>3, Judged
<1>4. CASE ClaimDecision(o)
  BY <1>4, Claimed
<1>5. CASE Stake(o) \/ TakeLock(o) \/ Displace(o) \/ Replace(o)
  BY <1>5, Takes
<1>6. CASE Confirm(o) \/ RecordUndo(o) \/ WriteSpec(o) \/ DropPid(o)
  BY <1>6, Prepared
<1>7. CASE Spawn(o) \/ SpawnFails(o)
  BY <1>7, Launched
<1>8. CASE Hand(o) \/ Decide(o) \/ DecideFails(o)
  BY <1>8, Recorded
<1>9. CASE CheckHead(o) \/ OpenPullRequest(o) \/ EditPullRequest(o) \/ RecordPublished(o)
  BY <1>9, Accepted
<1>10. CASE \/ Inspect(o) \/ Reread(o) \/ ListClaims(o) \/ CheckPid(o) \/ CheckClaim(o)
            \/ View(o) \/ RemoveWorktree(o) \/ Archive(o) \/ CheckQuiet(o) \/ AppendPr(o)
  BY <1>10, Undecided
<1>11. CASE Lost(o) \/ Crash(o)
  BY <1>11, Fails DEF Lost, Crash
<1> QED
  BY <1>1, <1>2, <1>3, <1>4, <1>5, <1>6, <1>7, <1>8, <1>9, <1>10, <1>11 DEF Verb

\* A step that leaves the calls, the decisions and what was decided alone keeps it.
LEMMA Untouched ==
  ASSUME VerbInv, UNCHANGED <<ops, decided, ghost>>
  PROVE  VerbInv'
<1>1. CallShape' /\ GhostShape' /\ (\A o \in Ops : InPlace(o)')
  BY DEF VerbInv, CallShape, GhostShape, InPlace
<1>2. \A o \in Ops : (Holds(o)' <=> Holds(o)) /\ (Deciding(o)' <=> Deciding(o))
  BY DEF Holds, Deciding
<1>3. ClaimInv'
  BY <1>2 DEF VerbInv, ClaimInv, ClaimsHeld, OneHolder, ActsClaimed, NotYet, DecidedOnce
<1> QED
  BY <1>1, <1>3 DEF VerbInv

\* The runs touch none of them.
LEMMA RunSteps ==
  ASSUME NEW r, Run(r)
  PROVE  UNCHANGED <<ops, decided, ghost>>
BY DEF Run, RunBegins, RunBuilds, RunReviews, RunRebases, RunCommits, RunRecordsCommit, RunPushes,
   RunPublishes, RunReady, RunStops, RunEnds, Write, files

\* Every call that holds a decision has its claim, no two hold one, and what was
\* decided stays claimed unless it could not be written; wherever a call dies.
THEOREM VerbInvariant == Spec => []VerbInv
<1>1. Init => VerbInv
  <2> SUFFICES ASSUME Init PROVE VerbInv
    OBVIOUS
  <2>1. PICK c : c = Fresh
    OBVIOUS
  <2>2. Fielded(c) /\ c.pc = "new" /\ c.verb = "none"
    BY <2>1 DEF Fresh, Fielded
  <2>3. ops = [o \in Ops |-> c]
    BY <2>1 DEF Init
  <2>4. CallShape /\ \A o \in Ops : ops[o].pc = "new" /\ ops[o].verb = "none"
    BY <2>2, <2>3 DEF CallShape
  <2>5. \A o \in Ops : InPlace(o) /\ ~Holds(o) /\ ~Deciding(o)
    BY <2>4, PlaceSets DEF InPlace, Verbs, Holds, Deciding, HoldsAt, DecidesAt, RecordsAt
  <2>6. PICK h \in Histories : /\ decided = {act.at : act \in h.acts}
                               /\ ghost = [acts |-> h.acts, unrecorded |-> {}, raced |-> FALSE]
    BY DEF Init
  <2>7. GhostShape /\ ghost.acts = h.acts
    BY <2>6 DEF GhostShape
  <2>9. \A act, other \in h.acts : act.at = other.at => act = other
    BY HistoriesAssumption DEF Lived
  <2>8. ClaimInv
    BY <2>5, <2>6, <2>7, <2>9 DEF ClaimInv, ClaimsHeld, OneHolder, ActsClaimed, NotYet, DecidedOnce
  <2> QED
    BY <2>4, <2>5, <2>7, <2>8 DEF VerbInv
<1>2. VerbInv /\ [Next]_vars => VerbInv'
  <2> SUFFICES ASSUME VerbInv, [Next]_vars PROVE VerbInv'
    OBVIOUS
  <2>1. CASE \E o \in Ops : Verb(o)
    BY <2>1, VerbSteps
  <2>2. CASE \E r \in DOMAIN runs : Run(r)
    BY <2>2, RunSteps, Untouched
  <2>3. CASE Settle
    BY <2>3, Untouched DEF Settle, files
  <2>4. CASE UNCHANGED vars
    BY <2>4, Untouched DEF vars, files
  <2> QED
    BY <2>1, <2>2, <2>3, <2>4 DEF Next
<1> QED
  BY <1>1, <1>2, PTL DEF Spec

\* One stop or ready row is decided once, whatever interleaves and whoever dies,
\* unless the decision could not be written.
THEOREM DecisionsOnce == Spec => []DecidedOnce
<1>1. VerbInv => DecidedOnce
  BY DEF VerbInv, ClaimInv
<1> QED
  BY <1>1, VerbInvariant, PTL

-----------------------------------------------------------------------------
(* What a launch rests on                                                  *)

\* The shapes of the journal, the lane and the runs, and which runs and rows
\* there are names for.
RowShape == (\E S : journal \in Seq(S)) /\ \A p \in 1..Len(journal) : journal[p].ev \in Kinds
Laned(l) == l = [dir |-> l.dir, tree |-> l.tree, head |-> l.head, tip |-> l.tip,
                 pr |-> l.pr, pid |-> l.pid, spec |-> l.spec]
LaneShape == Laned(lane)
Worked(r) == r = [live |-> r.live, phase |-> r.phase, finish |-> r.finish,
                  prior |-> r.prior, reviews |-> r.reviews, commit |-> r.commit, below |-> r.below]
RunShape == (\E S : runs \in Seq(S)) /\ \A r \in DOMAIN runs : Worked(runs[r])
Pids == DOMAIN runs \union {None}
Spots == 0..Len(journal)
PidsKnown == lane.pid \in Pids /\ \A o \in Ops : ops[o].died \in Pids
ActsPlaced == \A act \in Launches : act.run \in DOMAIN runs /\ EndOf(act) \in Spots

\* A return that has its decision to claim, or holds it; one that has found the
\* end it launches for.
AimsAt(verb, pc) == verb = "return" /\ pc \in {"claim"} \union Returning
ClearedAt(verb, pc) == verb = "return" /\ pc \in Returning \ {"recheck"}
Aiming(o) == AimsAt(ops[o].verb, ops[o].pc)
Cleared(o) == ClearedAt(ops[o].verb, ops[o].pc)

\* It is about an end there is: a ready row, or that of some run.
Aimed(o) ==
  /\ ops[o].n \in Spots
  /\ Aiming(o) => /\ DOMAIN runs # {}
                  /\ ops[o].way \in {"stop", "ready"}
                  /\ ops[o].way = "ready" => /\ ops[o].died = None /\ ops[o].pc # "recheck"
                                             /\ ops[o].at \in 1..Len(journal)
                                             /\ journal[ops[o].at].ev = "ready"
  /\ Cleared(o) => EndOf(ops[o]) \in Spots

\* No run is at work, and none has written after the first u rows.
NoneAtWork == \A r \in DOMAIN runs : ~AtWork(r)
AllCalls == NoRunBetween(0, Len(journal))
Quiet(u) == NoneAtWork /\ NoRunBetween(u, Len(journal))

\* A run has begun in the first n rows, and has not ended there.
Began(n) == \E p \in 1..n : /\ journal[p].ev = "start"
                            /\ \A k \in (p + 1)..n : journal[k].ev \notin {"stop", "ready"}

\* A run was launched for the ready row at p, or for an end that no run wrote a
\* row before, since that one.
Served(p) == \E act \in Launches :
               act.at = p \/ (p <= EndOf(act) /\ NoRunBetween(p, EndOf(act)))

\* A lane has no run's rows before its first run.
FirstRun == DOMAIN runs = {} => AllCalls

Shapes == /\ RowShape /\ LaneShape /\ RunShape /\ PidsKnown /\ ActsPlaced /\ FirstRun
          /\ \A o \in Ops : Aimed(o)

\* run.pid names the run at work, if it names one.
PidNames == \A r \in DOMAIN runs : AtWork(r) => lane.pid \in {r, None}

\* The journal tells that a run is at work once it has begun; before that, it
\* tells of the end it was launched for as its last row of a run, if it has one.
OpenBegan == \A r \in DOMAIN runs : AtWork(r) /\ runs[r].phase = "open" => Began(Len(journal))
BornCalled == \A r \in DOMAIN runs : AtWork(r) /\ runs[r].phase = "born" =>
                AllCalls \/ \E act \in Launches : NoRunBetween(EndOf(act), Len(journal))

\* What a run does, it does after it has begun.
WorkBegan == \A p \in 1..Len(journal) : journal[p].ev \in {"build", "review", "commit"} => Began(p)

\* A ready row is the last word of the runs until one is launched for it.
ReadyServed == \A p \in 1..Len(journal) : journal[p].ev = "ready" => Quiet(p) \/ Served(p)

\* So is the end a return has found, unless it is not the return's own.
ClearedQuiet == \A o \in Ops : Cleared(o) => Quiet(EndOf(ops[o])) \/ Retaken(o)

Races == /\ OneRun /\ PidNames /\ OpenBegan /\ BornCalled
         /\ WorkBegan /\ ReadyServed /\ ClearedQuiet
RaceInv == Shapes /\ (~ghost.raced => Races)

-----------------------------------------------------------------------------
(* Rows and positions                                                      *)

\* A set of positions that is not empty has a last one.
LEMMA LastOf ==
  ASSUME NEW n \in Nat, NEW S \in SUBSET (0..n), S # {}
  PROVE  /\ Max(S) \in S
         /\ \A p \in S : p <= Max(S)
<1> DEFINE T == {n - p : p \in S}
<1>0. \A p \in S : p \in Nat /\ n - p \in Nat
  OBVIOUS
<1>1. T \subseteq Nat /\ T # {}
  BY <1>0
<1>2. PICK x \in T : \A y \in T : ~(<<y, x>> \in OpToRel(<, Nat))
  BY <1>1, NatLessThanWellFounded, WFMin
<1>3. PICK m \in S : x = n - m
  BY <1>2
<1>4. \A p \in S : p <= m
  <2> SUFFICES ASSUME NEW p \in S PROVE p <= m
    OBVIOUS
  <2>1. n - p \in T /\ n - p \in Nat /\ n - m \in Nat /\ p \in Nat /\ m \in Nat
    BY <1>0, <1>1, <1>3
  <2>2. ~(n - p < n - m)
    BY <1>2, <1>3, <2>1 DEF OpToRel
  <2> HIDE DEF T
  <2> QED
    BY <2>1, <2>2
<1>5. \E q \in S : \A p \in S : q >= p
  BY <1>0, <1>3, <1>4
<1> QED
  BY <1>5 DEF Max

\* The newest of some of the first n rows is one of them, or there is none.
LEMMA LastRowOf ==
  ASSUME NEW n \in Nat, NEW evs
  PROVE  /\ Last(n, evs) \in Of(n, evs) \union {0}
         /\ \A p \in Of(n, evs) : p <= Last(n, evs)
<1> DEFINE S == Of(n, evs) \union {0}
<1>1. S \in SUBSET (0..n) /\ S # {}
  BY DEF Of
<1>2. Max(S) \in S /\ \A p \in S : p <= Max(S)
  BY <1>1, LastOf
<1> QED
  BY <1>2 DEF Last, Newest

\* A row that is written goes after those there are.
LEMMA RowAfter ==
  ASSUME RowShape, NEW row, row.ev \in Kinds, Put(row)
  PROVE  /\ RowShape'
         /\ Len(journal) \in Nat /\ Len(journal') = Len(journal) + 1
         /\ \A p \in 1..Len(journal) : journal'[p] = journal[p]
         /\ journal'[Len(journal) + 1] = row
<1>1. PICK S : journal \in Seq(S)
  BY DEF RowShape
<1>2. journal \in Seq(S \union {row}) /\ row \in S \union {row}
  BY <1>1, SeqMonotonic
<1>3. journal' = Append(journal, row) /\ journal' \in Seq(S \union {row})
  BY <1>2 DEF Put
<1>4. /\ Len(journal) \in Nat /\ Len(journal') = Len(journal) + 1
      /\ \A p \in 1..Len(journal) : journal'[p] = journal[p]
      /\ journal'[Len(journal) + 1] = row
  BY <1>2, <1>3, AppendProperties
<1>5. \A p \in 1..Len(journal') : journal'[p].ev \in Kinds
  BY <1>4 DEF RowShape
<1> QED
  BY <1>3, <1>4, <1>5 DEF RowShape

\* Steps that write a row or none: the rows there are stay.
RowsGrow == journal' = journal \/ \E row : row.ev \in Kinds /\ Put(row)
RowsKept == journal' = journal \/ \E row : row.ev \in CallRows /\ Put(row)
RowsStay == /\ Len(journal) \in Nat /\ Len(journal') \in Nat /\ Len(journal) <= Len(journal')
            /\ \A p \in 1..Len(journal) : journal'[p] = journal[p]

\* The rows there are stay, whatever is written.
LEMMA Grows ==
  ASSUME RowShape, RowsGrow
  PROVE  RowShape' /\ RowsStay
<1>1. CASE journal' = journal
  <2>1. Len(journal) \in Nat
    BY DEF RowShape
  <2> QED
    BY <1>1, <2>1 DEF RowShape, RowsStay
<1>2. CASE \E row : row.ev \in Kinds /\ Put(row)
  BY <1>2, RowAfter DEF RowsStay
<1> QED
  BY <1>1, <1>2 DEF RowsGrow

\* Rows of verbs leave a stretch without a run's rows as it was, at its end too.
LEMMA CallsOnly ==
  ASSUME RowShape, RowsKept
  PROVE  /\ RowShape' /\ RowsStay /\ RowsGrow
         /\ \A p \in (Len(journal) + 1)..Len(journal') : journal'[p].ev \in CallRows
<1>1. RowsGrow
  BY DEF RowsGrow, RowsKept, Kinds
<1>2. RowShape' /\ RowsStay
  BY <1>1, Grows
<1>3. CASE journal' = journal
  BY <1>1, <1>2, <1>3 DEF RowsStay
<1>4. CASE \E row : row.ev \in CallRows /\ Put(row)
  <2>1. PICK row : row.ev \in CallRows /\ Put(row)
    BY <1>4
  <2>2. Len(journal) \in Nat /\ Len(journal') = Len(journal) + 1 /\ journal'[Len(journal) + 1] = row
    BY <2>1, RowAfter DEF Kinds
  <2> QED
    BY <1>1, <1>2, <2>1, <2>2
<1> QED
  BY <1>3, <1>4 DEF RowsKept

\* A stretch of rows that are there stays as it is.
LEMMA SameRows ==
  ASSUME RowsStay, NEW p \in Nat, NEW q \in Spots
  PROVE  NoRunBetween(p, q)' <=> NoRunBetween(p, q)
BY DEF RowsStay, Spots, NoRunBetween

\* So does what began in it.
LEMMA BeganStays ==
  ASSUME RowsStay, NEW n \in Spots, Began(n)
  PROVE  Began(n)'
BY DEF RowsStay, Spots, Began

\* And, with rows of verbs after it, to the end of the journal.
LEMMA QuietRows ==
  ASSUME RowShape, RowsKept, NEW p \in Spots, NoRunBetween(p, Len(journal))
  PROVE  NoRunBetween(p, Len(journal))'
BY CallsOnly DEF RowsStay, Spots, NoRunBetween

\* A run that is open stays so: no verb writes a stop or a ready row.
LEMMA BeganOn ==
  ASSUME RowShape, RowsKept, Began(Len(journal))
  PROVE  Began(Len(journal))'
BY CallsOnly DEF RowsStay, Began, CallRows

\* A lane without a run still has rows of verbs only.
LEMMA FirstKept ==
  ASSUME RowShape, RowsKept, FirstRun, DOMAIN runs' = DOMAIN runs
  PROVE  FirstRun'
BY CallsOnly, QuietRows DEF FirstRun, AllCalls, Spots, RowsStay

\* Launches are not undone.
LEMMA ServedStays ==
  ASSUME RowsStay, ActsPlaced, Launches \subseteq Launches', NEW p \in 1..Len(journal), Served(p)
  PROVE  Served(p)'
<1>1. \A act : EndOf(act)' = EndOf(act)
  BY DEF EndOf
<1> QED
  BY <1>1, SameRows DEF Served, ActsPlaced

\* An end that is not a return's own does not become it.
LEMMA RetakenStays ==
  ASSUME RowsStay, ActsPlaced, Launches \subseteq Launches', ghost.unrecorded \subseteq ghost'.unrecorded,
         NEW o \in Ops, Cleared(o), Aimed(o), Retaken(o), ops'[o].verb = ops[o].verb,
         ops'[o].at = ops[o].at, ops'[o].stake = ops[o].stake, ops'[o].died = ops[o].died
  PROVE  Retaken(o)'
<1>1. ops[o].verb # "start"
  BY DEF Cleared, ClearedAt
<1>2. PICK act \in Launches : \/ act.at = ops[o].at /\ act.at \in ghost.unrecorded
                              \/ act.at # ops[o].at /\ act.run # ops[o].died /\ SameEnd(act, ops[o])
  BY <1>1 DEF Retaken
<1>3. EndOf(act) \in Spots /\ EndOf(ops[o]) \in Spots
  BY <1>2 DEF ActsPlaced, Aimed
<1>4. EndOf(act)' = EndOf(act) /\ EndOf(ops[o])' = EndOf(ops[o])
  BY DEF EndOf
<1>5. SameEnd(act, ops[o]) => SameEnd(act, ops[o])'
  <2>1. EndOf(act) \in Nat /\ EndOf(ops[o]) \in Nat
    BY <1>3 DEF Spots, RowsStay
  <2> QED
    BY <1>3, <1>4, <2>1, SameRows DEF SameEnd
<1> QED
  BY <1>1, <1>2, <1>5 DEF Retaken

-----------------------------------------------------------------------------
(* Steps that launch nothing                                               *)

\* Rows of verbs, and runs that go on or end without a row, change nothing in that.
LEMMA RacesKept ==
  ASSUME Shapes, Races, RowsKept, DOMAIN runs' = DOMAIN runs, PidNames', ClearedQuiet',
         Launches \subseteq Launches',
         \A r \in DOMAIN runs : AtWork(r)' => AtWork(r) /\ runs'[r].phase = runs[r].phase
  PROVE  Races'
<1>1. RowShape' /\ RowsStay /\ RowsGrow /\ Len(journal) \in Nat /\ Len(journal) \in Spots
  BY CallsOnly DEF Shapes, RowsStay, Spots
<1>2. RowShape /\ ActsPlaced
  BY DEF Shapes
<1>3. \A p \in Spots : NoRunBetween(p, Len(journal)) => NoRunBetween(p, Len(journal))'
  BY <1>2, QuietRows
<1>4. AllCalls => AllCalls'
  BY <1>1, <1>3 DEF AllCalls, Spots
<1>5. Began(Len(journal)) => Began(Len(journal))'
  BY <1>2, BeganOn
<1>6. OneRun'
  BY DEF Races, OneRun
<1>7. OpenBegan'
  BY <1>5 DEF Races, OpenBegan
<1>8. BornCalled'
  <2> SUFFICES ASSUME NEW r \in DOMAIN runs', AtWork(r)', runs'[r].phase = "born"
               PROVE  AllCalls' \/ \E act \in Launches' : NoRunBetween(EndOf(act), Len(journal))'
    BY DEF BornCalled
  <2>1. AllCalls \/ \E act \in Launches : NoRunBetween(EndOf(act), Len(journal))
    BY DEF Races, BornCalled
  <2> QED
    BY <1>2, <1>3, <1>4, <2>1 DEF ActsPlaced
<1>9. WorkBegan'
  <2> SUFFICES ASSUME NEW p \in 1..Len(journal'), journal'[p].ev \in {"build", "review", "commit"}
               PROVE  Began(p)'
    BY DEF WorkBegan
  <2>1. p \in 1..Len(journal)
    BY <1>1, <1>2, CallsOnly DEF CallRows, RowsStay
  <2> QED
    BY <1>1, <2>1, BeganStays DEF Races, WorkBegan, RowsStay, Spots
<1>10. ReadyServed'
  <2> SUFFICES ASSUME NEW p \in 1..Len(journal'), journal'[p].ev = "ready"
               PROVE  Quiet(p)' \/ Served(p)'
    BY DEF ReadyServed
  <2>1. p \in 1..Len(journal) /\ journal[p].ev = "ready"
    BY <1>1, <1>2, CallsOnly DEF CallRows, RowsStay
  <2>2. CASE Served(p)
    BY <1>1, <1>2, <2>1, <2>2, ServedStays
  <2>3. CASE Quiet(p)
    BY <1>1, <1>3, <2>1, <2>3 DEF Quiet, NoneAtWork, Spots
  <2> QED
    BY <2>1, <2>2, <2>3 DEF Races, ReadyServed
<1> QED
  BY <1>6, <1>7, <1>8, <1>9, <1>10 DEF Races

\* A return that has found its end is still alone with it.
LEMMA QuietKept ==
  ASSUME Shapes, Races, RowsKept, DOMAIN runs' = DOMAIN runs, Launches \subseteq Launches',
         ghost.unrecorded \subseteq ghost'.unrecorded,
         \A r \in DOMAIN runs : AtWork(r)' => AtWork(r),
         NEW o \in Ops, Cleared(o), ops'[o].verb = ops[o].verb,
         ops'[o].at = ops[o].at, ops'[o].stake = ops[o].stake, ops'[o].died = ops[o].died
  PROVE  Quiet(EndOf(ops[o]))' \/ Retaken(o)'
<1>1. RowShape /\ ActsPlaced /\ Aimed(o)
  BY DEF Shapes
<1>2. RowsStay
  BY <1>1, CallsOnly
<1>3. CASE Retaken(o)
  BY <1>1, <1>2, <1>3, RetakenStays
<1>4. CASE Quiet(EndOf(ops[o]))
  <2>1. EndOf(ops[o])' = EndOf(ops[o])
    BY DEF EndOf
  <2>2. EndOf(ops[o]) \in Spots
    BY <1>1 DEF Aimed
  <2> QED
    BY <1>1, <1>4, <2>1, <2>2, QuietRows DEF Quiet, NoneAtWork
<1> QED
  BY <1>3, <1>4 DEF Races, ClearedQuiet

-----------------------------------------------------------------------------
(* A run's rows                                                            *)

\* The one run at work writes a row, and goes on, or ends with it.
LEMMA RunWrites ==
  ASSUME Shapes, Races, NEW r \in DOMAIN runs, AtWork(r), NEW row, Put(row),
         DOMAIN runs' = DOMAIN runs, \A s \in DOMAIN runs \ {r} : runs'[s] = runs[s],
         lane' = lane, ops' = ops, ghost' = ghost,
         \/ /\ runs'[r].phase = "open"
            /\ row.ev = "start" \/ (runs[r].phase = "open" /\ row.ev \in {"build", "review", "commit"})
         \/ ~AtWork(r)' /\ row.ev \in {"stop", "ready", "pr"}
  PROVE  Races'
<1>0. PICK n : n = Len(journal)
  OBVIOUS
<1>1. /\ RowShape /\ ActsPlaced /\ Launches' = Launches
      /\ RowsStay /\ n \in Nat /\ Len(journal') = n + 1 /\ journal'[n + 1] = row
  <2>2. row.ev \in Kinds
    BY DEF Kinds, CallRows
  <2>1. row.ev \in Kinds /\ RowsGrow
    BY <2>2 DEF RowsGrow
  <2> QED
    BY <1>0, <2>1, RowAfter, Grows DEF Shapes, Launches, RowsStay
<1>2. \A s \in DOMAIN runs : s # r => ~AtWork(s) /\ ~AtWork(s)'
  BY DEF Races, OneRun, AtWork
<1>3. ~NoneAtWork /\ (~AtWork(r)' => NoneAtWork')
  BY <1>2 DEF NoneAtWork
<1>4. OneRun' /\ PidNames'
  BY <1>2 DEF Races, OneRun, PidNames
<1>5. AtWork(r)' => /\ runs'[r].phase = "open"
                    /\ row.ev = "start" \/ (runs[r].phase = "open" /\ row.ev \in {"build", "review", "commit"})
  OBVIOUS
<1>6. AtWork(r)' \/ row.ev \in {"build", "review", "commit"} => Began(n + 1)'
  <2>1. CASE row.ev = "start"
    BY <1>1, <2>1 DEF Began
  <2>2. CASE runs[r].phase = "open" /\ row.ev \in {"build", "review", "commit"}
    <3>1. Began(n)
      BY <1>0, <2>2 DEF Races, OpenBegan
    <3> QED
      BY <1>0, <1>1, <2>2, <3>1 DEF Began, RowsStay, CallRows
  <2> QED
    BY <1>5, <2>1, <2>2
<1>7. OpenBegan' /\ BornCalled'
  BY <1>0, <1>1, <1>2, <1>5, <1>6 DEF OpenBegan, BornCalled
<1>8. WorkBegan'
  <2> SUFFICES ASSUME NEW p \in 1..Len(journal'), journal'[p].ev \in {"build", "review", "commit"}
               PROVE  Began(p)'
    BY DEF WorkBegan
  <2>1. CASE p = n + 1
    BY <1>1, <1>6, <2>1
  <2>2. CASE p \in 1..n
    BY <1>0, <1>1, <2>2, BeganStays DEF Races, WorkBegan, RowsStay, Spots
  <2> QED
    BY <1>1, <2>1, <2>2
<1>9. ReadyServed'
  <2> SUFFICES ASSUME NEW p \in 1..Len(journal'), journal'[p].ev = "ready"
               PROVE  Quiet(p)' \/ Served(p)'
    BY DEF ReadyServed
  <2>1. CASE p = n + 1
    BY <1>0, <1>1, <1>3, <1>5, <2>1 DEF Quiet, NoRunBetween
  <2>2. CASE p \in 1..n
    <3>1. Served(p)
      BY <1>0, <1>1, <1>3, <2>2 DEF Races, ReadyServed, Quiet, RowsStay
    <3> QED
      BY <1>0, <1>1, <2>2, <3>1, ServedStays
  <2> QED
    BY <1>1, <2>1, <2>2
<1>10. ClearedQuiet'
  <2> SUFFICES ASSUME NEW o \in Ops, Cleared(o)'
               PROVE  Retaken(o)'
    BY DEF ClearedQuiet
  <2>1. Cleared(o) /\ Aimed(o)
    BY DEF Cleared, Shapes
  <2>2. Retaken(o)
    BY <1>3, <2>1 DEF Races, ClearedQuiet, Quiet
  <2> QED
    BY <1>1, <2>1, <2>2, RetakenStays
<1> QED
  BY <1>4, <1>7, <1>8, <1>9, <1>10 DEF Races

-----------------------------------------------------------------------------
(* A launch                                                                *)

\* A sequence of runs is one longer after a launch.
LEMMA RunAfter ==
  ASSUME RunShape, NEW run, Worked(run), runs' = Append(runs, run)
  PROVE  /\ RunShape'
         /\ Len(runs) \in Nat /\ DOMAIN runs = 1..Len(runs) /\ DOMAIN runs' = 1..(Len(runs) + 1)
         /\ \A s \in DOMAIN runs : runs'[s] = runs[s]
         /\ runs'[Len(runs) + 1] = run
<1>1. PICK S : runs \in Seq(S)
  BY DEF RunShape
<1>2. runs \in Seq(S \union {run}) /\ run \in S \union {run}
  BY <1>1, SeqMonotonic
<1>3. /\ runs' \in Seq(S \union {run})
      /\ Len(runs) \in Nat /\ DOMAIN runs = 1..Len(runs) /\ DOMAIN runs' = 1..(Len(runs) + 1)
      /\ \A s \in DOMAIN runs : runs'[s] = runs[s]
      /\ runs'[Len(runs) + 1] = run
  BY <1>2, AppendProperties, LenProperties
<1> QED
  BY <1>3 DEF RunShape

\* The act of a return.
LEMMA ActOf ==
  ASSUME NEW o \in Ops, NEW r
  PROVE  LET act == Act(o, "return", r) IN
         /\ act.what = "return" /\ act.run = r /\ act.at = ops[o].at
         /\ EndOf(act) = EndOf(ops[o])
BY DEF Act, EndOf

\* A run launched for an end that is the call's own is the only one at work.
LEMMA Spawned ==
  ASSUME VerbInv, Shapes, Races, NEW o \in Ops, Spawn(o), ~Retaken(o)
  PROVE  Races'
<1>0. PICK n, r : n = Len(journal) /\ r = Len(runs) + 1
  OBVIOUS
<1>1. /\ InPlace(o) /\ ops[o].verb \in {"start", "return"} /\ ops[o].pc = "spawn"
  BY VerbAt DEF VerbInv, Spawn, At
<1>2. /\ Len(runs) \in Nat /\ DOMAIN runs = 1..Len(runs) /\ DOMAIN runs' = 1..r /\ r \in DOMAIN runs'
      /\ \A s \in DOMAIN runs : s # r /\ runs'[s] = runs[s]
      /\ runs'[r].live /\ runs'[r].phase = "born"
  <2>1. PICK run : run = NewRun(o)
    OBVIOUS
  <2>2. Worked(run) /\ run.live /\ run.phase = "born"
    BY <2>1 DEF NewRun, Worked
  <2>3. runs' = Append(runs, run)
    BY <2>1 DEF Spawn
  <2> QED
    BY <1>0, <2>2, <2>3, RunAfter DEF Shapes
<1>3. journal' = journal /\ lane'.pid \in {r, None} /\ RowShape /\ ActsPlaced
  <2>1. PICK l : l = lane /\ Laned(l)
    BY DEF Shapes, LaneShape
  <2>2. PICK pid \in {r, None} : lane' = [l EXCEPT !.pid = pid]
    BY <1>0, <2>1 DEF Spawn
  <2> QED
    BY <2>1, <2>2 DEF Spawn, Shapes, Laned
<1>4. RowsStay /\ n \in Nat /\ n \in Spots
  <2>1. RowsGrow
    BY <1>3 DEF RowsGrow
  <2> QED
    BY <1>0, <1>3, <2>1, Grows DEF RowsStay, Spots
<1>5. /\ ghost'.acts = ghost.acts \union IF ops[o].verb = "start" THEN {} ELSE {Act(o, "return", r)}
      /\ ghost'.unrecorded = ghost.unrecorded
  BY <1>0, SpawnRaces DEF VerbInv
<1>6. Launches \subseteq Launches'
  BY <1>5 DEF Launches
<1>7. NoneAtWork
  <2>1. CASE ops[o].verb = "start"
    BY <1>2, <2>1 DEF Retaken, NoneAtWork
  <2>2. CASE ops[o].verb = "return"
    <3>1. Cleared(o)
      BY <1>1, <2>2 DEF Cleared, ClearedAt, Returning
    <3> QED
      BY <3>1 DEF Races, ClearedQuiet, Quiet
  <2> QED
    BY <1>1, <2>1, <2>2
<1>8. \A s \in DOMAIN runs' : AtWork(s)' => s = r
  <2> SUFFICES ASSUME NEW s \in DOMAIN runs', s # r
               PROVE  ~AtWork(s)'
    OBVIOUS
  <2>1. s \in DOMAIN runs /\ runs'[s] = runs[s]
    BY <1>0, <1>2
  <2> QED
    BY <1>7, <2>1 DEF NoneAtWork, AtWork
<1>9. OneRun' /\ PidNames' /\ OpenBegan'
  BY <1>2, <1>3, <1>8 DEF OneRun, PidNames, OpenBegan
<1>10. WorkBegan'
  <2> SUFFICES ASSUME NEW p \in 1..Len(journal'), journal'[p].ev \in {"build", "review", "commit"}
               PROVE  Began(p)'
    BY DEF WorkBegan
  <2> QED
    BY <1>3, <1>4, BeganStays DEF Races, WorkBegan, Spots, RowsStay
<1>11. CASE ops[o].verb = "start"
  <2>1. DOMAIN runs = {}
    BY <1>2, <1>11 DEF Retaken
  <2>2. AllCalls /\ AllCalls'
    BY <1>3, <2>1 DEF Shapes, FirstRun, AllCalls, NoRunBetween
  <2>3. BornCalled' /\ ReadyServed'
    BY <1>3, <1>4, <2>2 DEF BornCalled, ReadyServed, AllCalls, NoRunBetween, CallRows, RowsStay
  <2>4. ClearedQuiet'
    <3>1. \A q \in Ops \ {o} : ops'[q] = ops[q]
      BY <1>11, GoAway DEF VerbInv, Spawn
    <3>2. ~Cleared(o)'
      BY <1>11, GoAway DEF VerbInv, Spawn, Cleared, ClearedAt
    <3>3. \A q \in Ops : ~Cleared(q)
      BY <2>1 DEF Shapes, Aimed, Aiming, Cleared, AimsAt, ClearedAt
    <3>4. \A q \in Ops : ~Cleared(q)'
      BY <3>1, <3>2, <3>3 DEF Cleared
    <3> QED
      BY <3>4 DEF ClearedQuiet
  <2> QED
    BY <1>9, <1>10, <2>3, <2>4 DEF Races
<1>12. CASE ops[o].verb = "return"
  <2>1. PICK act : act = Act(o, "return", r)
    OBVIOUS
  <2>2. /\ act.what = "return" /\ act.run = r /\ act.at = ops[o].at
        /\ EndOf(act) = EndOf(ops[o])
    BY <2>1, ActOf
  <2>3. act \in Launches'
    BY <1>5, <1>12, <2>1, <2>2 DEF Launches
  <2>4. Cleared(o) /\ Holds(o)
    BY <1>1, <1>12 DEF Cleared, ClearedAt, Holds, HoldsAt, DecidesAt, Returning
  <2>5. EndOf(act) \in Spots /\ NoRunBetween(EndOf(act), n)
    BY <1>0, <2>2, <2>4 DEF Races, ClearedQuiet, Quiet, Shapes, Aimed
  <2>6. EndOf(act)' = EndOf(act)
    BY DEF EndOf
  <2>7. NoRunBetween(EndOf(act), n)' /\ Len(journal') = n
    BY <1>0, <1>3, <2>5, <2>6 DEF NoRunBetween
  <2>8. BornCalled'
    BY <2>3, <2>7 DEF BornCalled
  <2>9. ReadyServed'
    <3> SUFFICES ASSUME NEW p \in 1..n, journal[p].ev = "ready"
                 PROVE  Served(p)'
      BY <1>0, <1>3 DEF ReadyServed
    <3>1. CASE Served(p)
      BY <1>0, <1>3, <1>4, <1>6, <3>1, ServedStays
    <3>2. CASE Quiet(p)
      <4>1. p <= EndOf(act)
        BY <1>0, <1>4, <2>5, <2>6 DEF NoRunBetween, Spots, CallRows
      <4>2. NoRunBetween(p, EndOf(act))'
        BY <1>0, <1>3, <1>4, <2>5, <2>6, <3>2 DEF Quiet, NoRunBetween, Spots
      <4> QED
        BY <2>3, <2>6, <4>1, <4>2 DEF Served
    <3> QED
      BY <1>0, <3>1, <3>2 DEF Races, ReadyServed
  <2>10. ClearedQuiet'
    <3> SUFFICES ASSUME NEW q \in Ops, Cleared(q)'
                 PROVE  Retaken(q)'
      BY DEF ClearedQuiet
    <3>1. q # o /\ ops'[q] = ops[q]
      <4>1. CASE Leave(o)
        BY <4>1, GoAway DEF VerbInv, Cleared, ClearedAt
      <4>2. CASE ops' = [ops EXCEPT ![o].pc = "hand", ![o].run = Len(runs) + 1]
        <5>1. PICK d : d = ops[o] /\ Fielded(d)
          BY DEF VerbInv, CallShape
        <5>2. PICK c : c = [ops[o] EXCEPT !.pc = "hand", !.run = Len(runs) + 1]
          OBVIOUS
        <5>3. c = [d EXCEPT !.pc = "hand", !.run = Len(runs) + 1]
          BY <5>1, <5>2
        <5>4. Fielded(c) /\ c.pc = "hand"
          BY <5>1, <5>3 DEF Fielded
        <5>5. ops' = [ops EXCEPT ![o] = c]
          BY <4>2, <5>2
        <5>6. ops'[o] = c /\ (q # o => ops'[q] = ops[q])
          BY <5>4, <5>5, Replaced DEF VerbInv
        <5>7. ~Cleared(o)'
          BY <5>4, <5>6 DEF Cleared, ClearedAt, Returning
        <5> QED
          BY <5>6, <5>7
      <4> QED
        BY <1>12, <4>1, <4>2 DEF Spawn
    <3>2. Cleared(q) /\ Aimed(q)
      BY <3>1 DEF Cleared, Shapes
    <3>3. CASE Retaken(q)
      BY <1>3, <1>4, <1>5, <1>6, <3>1, <3>2, <3>3, RetakenStays
    <3>4. CASE Quiet(EndOf(ops[q]))
      <4>1. EndOf(ops[q]) \in Spots /\ EndOf(ops[q])' = EndOf(ops[q])
        BY <3>1, <3>2 DEF Aimed, EndOf
      <4>2. SameEnd(act, ops[q])
        BY <1>0, <1>4, <2>5, <3>4, <4>1 DEF SameEnd, Quiet, NoRunBetween, Spots
      <4>3. SameEnd(act, ops[q])'
        BY <1>3, <2>6, <3>1, <4>1, <4>2 DEF SameEnd, NoRunBetween
      <4>4. act.at # ops[q].at
        <5>1. Holds(q)
          BY <3>2 DEF Cleared, ClearedAt, Holds, HoldsAt, DecidesAt
        <5> QED
          BY <2>2, <2>4, <3>1, <5>1 DEF VerbInv, ClaimInv, OneHolder
      <4>5. act.run # ops[q].died
        <5>1. r \notin Pids
          BY <1>0, <1>2, VerbsAssumption DEF Pids
        <5> QED
          BY <2>2, <5>1 DEF Shapes, PidsKnown
      <4>6. ops[q].verb # "start"
        BY <3>2 DEF Cleared, ClearedAt
      <4> QED
        BY <2>3, <3>1, <4>3, <4>4, <4>5, <4>6 DEF Retaken
    <3> QED
      BY <3>2, <3>3, <3>4 DEF Races, ClearedQuiet
  <2> QED
    BY <1>9, <1>10, <2>8, <2>9, <2>10 DEF Races
<1> QED
  BY <1>1, <1>11, <1>12

-----------------------------------------------------------------------------
(* A return finds its end                                                  *)

\* A run that is found dead is the one run.pid names, and has no process.
LEMMA FoundOut ==
  ASSUME Shapes, NEW n, NEW dead \in DeadRun(n), dead
  PROVE  lane.pid # None /\ lane.pid \in DOMAIN runs /\ ~runs[lane.pid].live
<1>1. lane.pid # None /\ dead \in FoundDead(lane.pid)
  BY Zenon DEF DeadRun
<1>2. ~Alive(lane.pid)
  BY <1>1, Zenon DEF FoundDead
<1> QED
  BY <1>1, <1>2 DEF Alive, Shapes, PidsKnown, Pids

\* A run is known to be dead: it is the last one, and none is at work.
LEMMA DeadEnd ==
  ASSUME Shapes, Races, NEW n, NEW dead \in DeadRun(n), dead
  PROVE  NoneAtWork
BY FoundOut DEF Races, PidNames, NoneAtWork, AtWork

\* The last stop, with no run begun or ended since, no published run, is followed
\* by rows of verbs only; none is at work, unless it was launched since.
LEMMA StopEnd ==
  ASSUME Shapes, Races, NEW n, n = Len(journal), NEW p, p = Last(n, {"stop"}),
         p # 0, ~Reran(n, p), Of(n, {"pr"}) = {}
  PROVE  /\ p \in 1..n /\ NoRunBetween(p, n)
         /\ \/ NoneAtWork
            \/ \E act \in Launches : NoRunBetween(EndOf(act), n) /\ p <= EndOf(act)
<1>1. n \in Nat
  BY DEF Shapes, RowShape
<1>2. p \in 1..n /\ journal[p].ev = "stop" /\ \A q \in 1..n : journal[q].ev = "stop" => q <= p
  <2>1. p \in Of(n, {"stop"}) /\ \A q \in Of(n, {"stop"}) : q <= p
    BY <1>1, LastRowOf
  <2> QED
    BY <2>1 DEF Of
<1>3. \A q \in (p + 1)..n : journal[q].ev \notin {"stop", "start", "ready", "pr"}
  BY <1>1, <1>2 DEF Reran, After, Of
<1>4. \A k \in p..n : ~Began(k)
  BY <1>1, <1>2, <1>3 DEF Began
<1>5. \A q \in (p + 1)..n : journal[q].ev \notin {"build", "review", "commit"}
  BY <1>1, <1>2, <1>4 DEF Races, WorkBegan
<1>6. NoRunBetween(p, n)
  BY <1>1, <1>2, <1>3, <1>5 DEF Shapes, RowShape, Kinds, CallRows, NoRunBetween
<1>7. \A r \in DOMAIN runs : AtWork(r) => \E act \in Launches : NoRunBetween(EndOf(act), n)
  <2> SUFFICES ASSUME NEW r \in DOMAIN runs, AtWork(r)
               PROVE  \E act \in Launches : NoRunBetween(EndOf(act), n)
    OBVIOUS
  <2>1. runs[r].phase = "born"
    BY <1>1, <1>2, <1>4 DEF Races, OpenBegan, AtWork
  <2>2. ~AllCalls
    BY <1>1, <1>2 DEF AllCalls, NoRunBetween, CallRows
  <2> QED
    BY <2>1, <2>2 DEF Races, BornCalled
<1>8. \A act \in Launches : NoRunBetween(EndOf(act), n) => p <= EndOf(act)
  BY <1>1, <1>2 DEF Shapes, ActsPlaced, Spots, NoRunBetween, CallRows
<1> QED
  BY <1>2, <1>6, <1>7, <1>8 DEF NoneAtWork

\* A return that looks at the end again has found it, or gives up.
LEMMA Rechecked ==
  ASSUME VerbInv, Shapes, NEW o \in Ops, Recheck(o), ~Forfeit(o)
  PROVE  /\ UNCHANGED <<journal, lane, runs, ghost>> /\ Alone(o)
         /\ ops'[o].verb = "return" /\ ops'[o].pc = "stake"
         /\ ops'[o].way = ops[o].way /\ ops'[o].at = ops[o].at /\ ops'[o].n = ops[o].n
         /\ ops'[o].died \in Pids /\ EndOf(ops'[o]) \in Spots
         /\ Races => Quiet(EndOf(ops'[o])) \/ Retaken(o)'
         /\ Races /\ ops'[o].died # None => NoneAtWork
<1>0. PICK n : n = Len(journal)
  OBVIOUS
<1>1. PICK dead \in DeadRun(n) :
        LET stop == IF dead THEN n + 1 ELSE Last(n, {"stop"})
            rec == ops[o].rec
            sound == /\ n = ops[o].n
                     /\ lane.tree
                     /\ ops[o].died # None => dead /\ lane.pid = ops[o].died
                     /\ stop # 0 /\ ~Reran(n, stop)
                     /\ Of(n, {"pr"}) = {}
                     /\ UndoOk(n) /\ (Standing(n) # 0 => lane.tip = 0)
                     /\ Of(n, {"build"}) # {}
        IN sound /\ ops' = [ops EXCEPT ![o].pc = "stake", ![o].stake = stop,
                            ![o].died = IF dead THEN lane.pid ELSE None,
                            ![o].rec = IF ~dead THEN rec
                                       ELSE Min({stop, IF rec = 0 THEN stop ELSE rec})]
  BY <1>0 DEF Recheck
<1>2. /\ ~dead => Last(n, {"stop"}) # 0 /\ ~Reran(n, Last(n, {"stop"})) /\ Of(n, {"pr"}) = {}
      /\ \E rec, stop, died : 
           /\ ops' = [ops EXCEPT ![o].pc = "stake", ![o].stake = stop, ![o].died = died, ![o].rec = rec]
           /\ stop = IF dead THEN n + 1 ELSE Last(n, {"stop"})
           /\ died = IF dead THEN lane.pid ELSE None
  BY <1>1, Zenon
<1>3. PICK rec, stop, died :
           /\ ops' = [ops EXCEPT ![o].pc = "stake", ![o].stake = stop, ![o].died = died, ![o].rec = rec]
           /\ stop = IF dead THEN n + 1 ELSE Last(n, {"stop"})
           /\ died = IF dead THEN lane.pid ELSE None
  BY <1>2
<1>4. UNCHANGED <<journal, lane, runs, ghost>>
  BY DEF Recheck, files
<1>5. InPlace(o) /\ ops[o].verb = "return" /\ ops[o].pc = "recheck"
  BY VerbAt DEF VerbInv, Recheck, At
<1>6. /\ Alone(o) /\ ops'[o].verb = "return" /\ ops'[o].pc = "stake"
      /\ ops'[o].way = ops[o].way /\ ops'[o].at = ops[o].at /\ ops'[o].n = ops[o].n
      /\ ops'[o].died = died /\ ops'[o].stake = stop
  <2>1. PICK d : d = ops[o] /\ Fielded(d)
    BY DEF VerbInv, CallShape
  <2>2. PICK c : c = [ops[o] EXCEPT !.pc = "stake", !.stake = stop, !.died = died, !.rec = rec]
    OBVIOUS
  <2>3. c = [d EXCEPT !.pc = "stake", !.stake = stop, !.died = died, !.rec = rec]
    BY <2>1, <2>2
  <2>4. /\ Fielded(c) /\ c.verb = d.verb /\ c.pc = "stake" /\ c.way = d.way /\ c.at = d.at /\ c.n = d.n
        /\ c.died = died /\ c.stake = stop
    BY <2>1, <2>3 DEF Fielded
  <2>5. ops' = [ops EXCEPT ![o] = c]
    BY <1>3, <2>2
  <2>6. ops'[o] = c /\ Alone(o)
    BY <2>4, <2>5, Replaced DEF VerbInv, Alone
  <2> QED
    BY <1>5, <2>1, <2>4, <2>6
<1>7. n \in Nat /\ Last(n, {"stop"}) \in 0..n
  <2>1. n \in Nat
    BY <1>0 DEF Shapes, RowShape
  <2> QED
    BY <2>1, LastRowOf DEF Of
<1>8. dead => died # None /\ died \in Pids
  BY <1>3, FoundOut DEF Pids
<1>9. PICK end : /\ end = EndOf(ops'[o]) /\ end = (IF dead THEN n ELSE Last(n, {"stop"}))
  BY <1>3, <1>6, <1>7, <1>8 DEF EndOf
<1>10. died \in Pids /\ end \in Spots
  <2>1. end \in 0..n
    BY <1>7, <1>9
  <2>2. ~dead => died = None
    BY <1>3
  <2> QED
    BY <1>0, <1>8, <2>1, <2>2 DEF Pids, Spots
<1>11. ASSUME Races
       PROVE  Quiet(EndOf(ops'[o])) \/ Retaken(o)'
  <2>1. CASE dead
    <3>1. NoneAtWork
      BY <1>11, <2>1, DeadEnd
    <3>2. EndOf(ops'[o]) = n /\ NoRunBetween(n, n)
      BY <1>7, <1>9, <2>1 DEF NoRunBetween
    <3> QED
      BY <1>0, <3>1, <3>2 DEF Quiet
  <2>2. CASE ~dead
    <3>1. /\ end \in 1..n /\ NoRunBetween(end, n)
          /\ \/ NoneAtWork
             \/ \E act \in Launches : NoRunBetween(EndOf(act), n) /\ end <= EndOf(act)
      BY <1>0, <1>2, <1>9, <1>11, <2>2, StopEnd
    <3>2. CASE NoneAtWork
      BY <1>0, <1>9, <3>1, <3>2 DEF Quiet
    <3>3. CASE \E act \in Launches : NoRunBetween(EndOf(act), n) /\ end <= EndOf(act)
      <4>1. PICK act \in Launches : NoRunBetween(EndOf(act), n) /\ end <= EndOf(act)
        BY <3>3
      <4>2. EndOf(act) \in 0..n /\ act.run \in DOMAIN runs
        BY <1>0 DEF Shapes, ActsPlaced, Spots
      <4>3. NoRunBetween(end, EndOf(act)) /\ NoRunBetween(EndOf(act), end)
        BY <1>7, <3>1, <4>1, <4>2 DEF NoRunBetween
      <4>4. EndOf(act)' = EndOf(act) /\ EndOf(ops[o])' = end
        BY <1>9 DEF EndOf
      <4>5. SameEnd(act, ops[o])'
        BY <1>4, <4>3, <4>4 DEF SameEnd, NoRunBetween
      <4>6. act.run # died
        <5>1. DOMAIN runs \subseteq Nat
          BY DEF Shapes, RunShape
        <5> QED
          BY <1>3, <2>2, <4>2, <5>1, VerbsAssumption
      <4>7. act.at = ops[o].at => act.at \in ghost.unrecorded
        <5>1. Deciding(o)
          BY <1>5 DEF Deciding, DecidesAt, Returning
        <5> QED
          BY <5>1 DEF VerbInv, ClaimInv, NotYet, Launches
      <4> QED
        BY <1>4, <1>6, <4>5, <4>6, <4>7 DEF Retaken, Launches
    <3> QED
      BY <3>1, <3>2, <3>3
  <2> QED
    BY <2>1, <2>2
<1>12. Races /\ died # None => NoneAtWork
  BY <1>1, <1>3, DeadEnd
<1> QED
  BY <1>4, <1>6, <1>9, <1>10, <1>11, <1>12

\* A return on a ready row that has claimed its decision has found its end.
LEMMA ReadyEnd ==
  ASSUME VerbInv, Shapes, Races, NEW o \in Ops, ClaimDecision(o), ~Refuse(o),
         ops[o].verb = "return", ops[o].way = "ready",
         Alone(o), ops'[o].verb = "return", ops'[o].at = ops[o].at,
         ops'[o].stake = ops[o].at, ops'[o].died = ops[o].died
  PROVE  Quiet(EndOf(ops'[o])) \/ Retaken(o)'
<1>1. UNCHANGED <<journal, lane, runs, ghost>> /\ ops[o].at \notin decided /\ ops[o].pc = "claim"
  BY DEF ClaimDecision, At
<1>2. PICK p : p = ops[o].at
  OBVIOUS
<1>3. p \in 1..Len(journal) /\ journal[p].ev = "ready" /\ ops[o].died = None
  BY <1>1, <1>2 DEF Shapes, Aimed, Aiming, AimsAt
<1>4. EndOf(ops'[o]) = p
  BY <1>2, <1>3 DEF EndOf
<1>5. CASE Served(p)
  <2>1. PICK act \in Launches : act.at = p \/ (p <= EndOf(act) /\ NoRunBetween(p, EndOf(act)))
    BY <1>5 DEF Served
  <2>2. act.at = p => act.at \in ghost.unrecorded
    BY <1>1, <1>2 DEF VerbInv, ClaimInv, ActsClaimed, Launches
  <2>3. act.run # ops[o].died
    <3>1. DOMAIN runs \subseteq Nat
      BY DEF Shapes, RunShape
    <3> QED
      BY <1>3, <3>1, VerbsAssumption DEF Shapes, ActsPlaced
  <2>4. p <= EndOf(act) /\ NoRunBetween(p, EndOf(act)) => SameEnd(act, ops[o])'
    <3>1. EndOf(act)' = EndOf(act) /\ EndOf(ops[o])' = p
      BY <1>4 DEF EndOf
    <3>2. EndOf(act) \in Nat /\ p \in Nat
      BY <1>3 DEF Shapes, RowShape, ActsPlaced, Spots
    <3> QED
      BY <1>1, <3>1, <3>2 DEF SameEnd, NoRunBetween
  <2> QED
    BY <1>1, <1>2, <2>1, <2>2, <2>3, <2>4 DEF Retaken, Launches
<1>6. CASE Quiet(p)
  BY <1>4, <1>6
<1> QED
  BY <1>3, <1>5, <1>6 DEF Races, ReadyServed

-----------------------------------------------------------------------------
(* What a step does to its call and to the lane                            *)

\* A step that changes one call, or none, keeps the shapes.
LEMMA ShapesKept ==
  ASSUME Shapes, RowsGrow, RunShape', LaneShape', ActsPlaced', FirstRun',
         DOMAIN runs \subseteq DOMAIN runs', lane'.pid \in Pids',
         \A q \in Ops : ops'[q] = ops[q] \/ (ops'[q].died \in Pids' /\ Aimed(q)')
  PROVE  Shapes'
<1>1. RowShape' /\ RowsStay
  BY Grows DEF Shapes
<1>2. Pids \subseteq Pids'
  BY DEF Pids
<1>3. \A q \in Ops : ops'[q] = ops[q] => Aimed(q)'
  <2> SUFFICES ASSUME NEW q \in Ops, ops'[q] = ops[q]
               PROVE  Aimed(q)'
    OBVIOUS
  <2>1. Aimed(q)
    BY DEF Shapes
  <2>2. EndOf(ops[q])' = EndOf(ops[q])
    BY DEF EndOf
  <2> QED
    BY <1>1, <2>1, <2>2 DEF Aimed, Aiming, Cleared, RowsStay, Spots
<1> QED
  BY <1>1, <1>2, <1>3 DEF Shapes, PidsKnown

\* What was launched stays in place.
LEMMA ActsStay ==
  ASSUME RowsStay, ActsPlaced, Launches' \subseteq Launches, DOMAIN runs \subseteq DOMAIN runs'
  PROVE  ActsPlaced'
<1>1. \A act : EndOf(act)' = EndOf(act)
  BY DEF EndOf
<1> QED
  BY <1>1 DEF ActsPlaced, RowsStay, Spots

\* A call that goes on keeps its aim, if it still has one.
Moved(o) ==
  /\ ops'[o].n \in Spots /\ ops'[o].died \in Pids
  /\ Aiming(o)' => /\ Aiming(o)
                   /\ ops'[o].way = ops[o].way /\ ops'[o].at = ops[o].at /\ ops'[o].died = ops[o].died
                   /\ ops'[o].pc = "recheck" => ops[o].pc = "recheck"
  /\ Cleared(o)' => Cleared(o) /\ ops'[o].stake = ops[o].stake

\* What it is about is where it was.
LEMMA AimKept ==
  ASSUME RowsStay, NEW o \in Ops, Aimed(o), Moved(o), DOMAIN runs \subseteq DOMAIN runs'
  PROVE  Aimed(o)'
<1>1. Cleared(o)' => EndOf(ops[o])' = EndOf(ops[o])
  BY DEF EndOf, Moved, Cleared, ClearedAt, Aiming, AimsAt
<1> QED
  BY <1>1 DEF Aimed, Moved, RowsStay, Spots

\* A step that writes no run's row, and launches nothing.
Quietly ==
  /\ RowsKept /\ runs' = runs
  /\ Launches' = Launches /\ ghost.unrecorded \subseteq ghost'.unrecorded
  /\ ghost'.raced = ghost.raced
  /\ LaneShape' /\ lane'.pid \in {lane.pid, None}

\* Such a step of a call that goes on keeps the invariant.
LEMMA CallMoves ==
  ASSUME RaceInv, NEW o \in Ops, Alone(o), Quietly, Moved(o)
  PROVE  RaceInv'
<1>1. Shapes /\ RowsGrow /\ RowsStay
  BY CallsOnly DEF RaceInv, Shapes, Quietly
<1>2. Shapes'
  <2>1. RunShape'
    BY <1>1 DEF Shapes, RunShape, Quietly
  <2>2. ActsPlaced'
    BY <1>1, ActsStay DEF Shapes, Quietly
  <2>3. Pids' = Pids /\ lane'.pid \in Pids'
    BY <1>1 DEF Shapes, PidsKnown, Pids, Quietly
  <2>4. Aimed(o)'
    BY <1>1, AimKept DEF Shapes, Quietly
  <2>5. FirstRun'
    BY <1>1, FirstKept DEF Shapes, Quietly
  <2> QED
    BY <1>1, <2>1, <2>2, <2>3, <2>4, <2>5, ShapesKept DEF Alone, Moved, Quietly
<1>3. ASSUME ~ghost'.raced
      PROVE  Races'
  <2>1. Races
    BY <1>3 DEF RaceInv, Quietly
  <2>2. \A r \in DOMAIN runs : AtWork(r)' => AtWork(r) /\ runs'[r].phase = runs[r].phase
    BY DEF Quietly, AtWork
  <2>3. PidNames'
    BY <2>1 DEF Races, PidNames, Quietly, AtWork
  <2>4. ClearedQuiet'
    <3> SUFFICES ASSUME NEW q \in Ops, Cleared(q)'
                 PROVE  Quiet(EndOf(ops[q]))' \/ Retaken(q)'
      BY DEF ClearedQuiet
    <3>1. /\ Cleared(q) /\ ops'[q].verb = ops[q].verb
          /\ ops'[q].at = ops[q].at /\ ops'[q].stake = ops[q].stake /\ ops'[q].died = ops[q].died
      <4>1. CASE q # o
        BY <4>1 DEF Alone, Cleared
      <4>2. CASE q = o
        <5>1. Cleared(o)' /\ Aiming(o)'
          BY <4>2 DEF Cleared, ClearedAt, Aiming, AimsAt
        <5> QED
          BY <4>2, <5>1 DEF Moved, Cleared, ClearedAt
      <4> QED
        BY <4>1, <4>2
    <3> QED
      BY <1>1, <2>1, <2>2, <3>1, QuietKept DEF Quietly
  <2> QED
    BY <1>1, <2>1, <2>2, <2>3, <2>4, RacesKept DEF Quietly
<1> QED
  BY <1>2, <1>3 DEF RaceInv

\* A call that goes on has read what it had.
LEMMA GoRead ==
  ASSUME CallShape, NEW o \in Ops, NEW pc, Go(o, pc)
  PROVE  /\ Alone(o) /\ ops'[o].pc = pc /\ ops'[o].verb = ops[o].verb
         /\ ops'[o].n = ops[o].n /\ ops'[o].way = ops[o].way /\ ops'[o].at = ops[o].at
         /\ ops'[o].stake = ops[o].stake /\ ops'[o].died = ops[o].died
<1>1. PICK c : c = [ops[o] EXCEPT !.pc = pc]
  OBVIOUS
<1>2. PICK d : d = ops[o] /\ Fielded(d)
  BY DEF CallShape
<1>3. c = [d EXCEPT !.pc = pc]
  BY <1>1, <1>2
<1>4. /\ Fielded(c) /\ c.pc = pc /\ c.verb = d.verb /\ c.n = d.n /\ c.way = d.way /\ c.at = d.at
      /\ c.stake = d.stake /\ c.died = d.died
  BY <1>2, <1>3 DEF Fielded
<1>5. ops' = [ops EXCEPT ![o] = c]
  BY <1>1 DEF Go
<1> QED
  BY <1>2, <1>4, <1>5, Replaced DEF Alone

\* So does one that goes to a place of its verb, with no new aim.
LEMMA MovesOn ==
  ASSUME VerbInv, RaceInv, NEW o \in Ops, Quietly, NEW pc, Go(o, pc),
         \/ ops[o].verb # "return"
         \/ pc \notin {"claim"} \union Returning
         \/ Cleared(o) /\ pc # "recheck"
  PROVE  RaceInv'
<1>1. /\ Alone(o) /\ ops'[o].pc = pc /\ ops'[o].verb = ops[o].verb
      /\ ops'[o].n = ops[o].n /\ ops'[o].way = ops[o].way /\ ops'[o].at = ops[o].at
      /\ ops'[o].stake = ops[o].stake /\ ops'[o].died = ops[o].died
  BY GoRead DEF VerbInv
<1>2. ops[o].n \in Spots /\ ops[o].died \in Pids
  BY DEF RaceInv, Shapes, Aimed, PidsKnown
<1>3. Cleared(o) => Aiming(o)
  BY DEF Cleared, ClearedAt, Aiming, AimsAt
<1>4. Aiming(o)' => Cleared(o) /\ pc # "recheck"
  BY <1>1 DEF Aiming, AimsAt
<1>5. Cleared(o)' => Aiming(o)'
  BY DEF Cleared, ClearedAt, Aiming, AimsAt
<1>6. Moved(o)
  BY <1>1, <1>2, <1>3, <1>4, <1>5 DEF Moved
<1> QED
  BY <1>1, <1>6, CallMoves

\* A call that leaves has no aim.
LEMMA AwayRead ==
  ASSUME CallShape, NEW o \in Ops, Leave(o)
  PROVE  /\ Alone(o) /\ ops'[o].verb = "none" /\ ops'[o].n = 0 /\ ops'[o].died = None
         /\ ~Aiming(o)' /\ ~Cleared(o)'
<1>1. PICK c : c = Done
  OBVIOUS
<1>2. Fielded(c) /\ c.verb = "none" /\ c.n = 0 /\ c.died = None
  BY <1>1 DEF Done, Fresh, Fielded
<1>3. ops' = [ops EXCEPT ![o] = c]
  BY <1>1 DEF Leave
<1>4. Alone(o) /\ ops'[o] = c
  BY <1>2, <1>3, Replaced DEF Alone
<1> QED
  BY <1>2, <1>4 DEF Aiming, AimsAt, Cleared, ClearedAt

\* So does one that leaves.
LEMMA MovesOff ==
  ASSUME VerbInv, RaceInv, NEW o \in Ops, Quietly, Leave(o)
  PROVE  RaceInv'
<1>1. /\ Alone(o) /\ ops'[o].n = 0 /\ ops'[o].died = None
      /\ ~Aiming(o)' /\ ~Cleared(o)'
  BY AwayRead DEF VerbInv
<1>2. Len(journal) \in Nat
  BY DEF RaceInv, Shapes, RowShape
<1>3. Moved(o)
  BY <1>1, <1>2 DEF Moved, Spots, Pids
<1> QED
  BY <1>1, <1>3, CallMoves

\* A call that is replaced by one that is no return with an aim.
LEMMA MovesTo ==
  ASSUME VerbInv, RaceInv, NEW o \in Ops, Quietly, NEW c, Fielded(c), ops' = [ops EXCEPT ![o] = c],
         c.n \in Spots, c.died \in Pids, ~AimsAt(c.verb, c.pc)
  PROVE  RaceInv'
<1>1. Alone(o) /\ ops'[o] = c
  BY Replaced DEF VerbInv, Alone
<1>2. ~Aiming(o)' /\ ~Cleared(o)'
  BY <1>1 DEF Aiming, AimsAt, Cleared, ClearedAt
<1>3. Moved(o)
  BY <1>1, <1>2 DEF Moved
<1> QED
  BY <1>1, <1>3, CallMoves

\* Other fields of the lane than run.pid.
OffPid ==
  \E v, w : \/ lane' = lane
            \/ lane' = [lane EXCEPT !.dir = v]
            \/ lane' = [lane EXCEPT !.tree = v]
            \/ lane' = [lane EXCEPT !.head = v]
            \/ lane' = [lane EXCEPT !.tip = v]
            \/ lane' = [lane EXCEPT !.pr = v]
            \/ lane' = [lane EXCEPT !.spec = v]
            \/ lane' = [lane EXCEPT !.tip = v, !.pr = w]

\* They leave run.pid and the shape of the lane as they were.
LEMMA LaneStays ==
  ASSUME LaneShape, OffPid
  PROVE  LaneShape' /\ lane'.pid = lane.pid
<1>1. PICK l : l = lane /\ Laned(l)
  BY DEF LaneShape
<1>2. PICK v, w : \/ lane' = l
                  \/ lane' = [l EXCEPT !.dir = v]
                  \/ lane' = [l EXCEPT !.tree = v]
                  \/ lane' = [l EXCEPT !.head = v]
                  \/ lane' = [l EXCEPT !.tip = v]
                  \/ lane' = [l EXCEPT !.pr = v]
                  \/ lane' = [l EXCEPT !.spec = v]
                  \/ lane' = [l EXCEPT !.tip = v, !.pr = w]
  BY <1>1 DEF OffPid
<1> QED
  BY <1>1, <1>2 DEF LaneShape, Laned

\* A step that writes no row, leaves the runs and tells nothing.
LEMMA Silent ==
  ASSUME RaceInv, UNCHANGED <<journal, runs, ghost>>, OffPid
  PROVE  Quietly
<1>1. LaneShape' /\ lane'.pid = lane.pid
  BY LaneStays DEF RaceInv, Shapes
<1> QED
  BY <1>1 DEF Quietly, RowsKept, Launches

-----------------------------------------------------------------------------
(* Each action                                                             *)

\* A call that fails, or dies, leaves.
LEMMA RaceFails ==
  ASSUME VerbInv, RaceInv, NEW o \in Ops,
         \/ Refuse(o) \/ Forfeit(o) \/ Unlocked(o) \/ Unstaked(o)
         \/ Release(o) /\ OffPid
  PROVE  RaceInv'
<1>1. Leave(o) /\ UNCHANGED <<journal, runs, ghost>>
  BY DEF Refuse, Forfeit, Unlocked, Unstaked, Release, LetGo
<1>2. OffPid
  BY DEF Refuse, Forfeit, Unlocked, Unstaked, OffPid
<1> QED
  BY <1>1, <1>2, Silent, MovesOff

\* A start before it launches.
LEMMA RaceStarted ==
  ASSUME VerbInv, RaceInv, NEW o \in Ops, BeginStart(o) \/ AddWorktree(o) \/ RecordLane(o)
  PROVE  RaceInv'
<1>1. PICK d : d = ops[o] /\ Fielded(d)
  BY DEF VerbInv, CallShape
<1>2. d.n \in Spots /\ d.died \in Pids
  BY <1>1 DEF RaceInv, Shapes, Aimed, PidsKnown
<1>3. CASE BeginStart(o)
  <2>1. PICK c : c = [ops[o] EXCEPT !.pc = "add", !.verb = "start"]
    OBVIOUS
  <2>2. c = [d EXCEPT !.pc = "add", !.verb = "start"]
    BY <1>1, <2>1
  <2>3. Fielded(c) /\ c.verb = "start" /\ c.n = d.n /\ c.died = d.died
    BY <1>1, <2>2 DEF Fielded
  <2>4. ops' = [ops EXCEPT ![o] = c] /\ ~AimsAt(c.verb, c.pc)
    BY <1>3, <2>1, <2>3 DEF BeginStart, AimsAt
  <2>5. Quietly
    BY <1>3, Silent DEF BeginStart, OffPid
  <2> QED
    BY <1>2, <2>3, <2>4, <2>5, MovesTo
<1>4. CASE AddWorktree(o) \/ RecordLane(o)
  <2>1. ops[o].verb # "return"
    BY <1>4, VerbAt DEF VerbInv, AddWorktree, RecordLane, At
  <2>2. CASE Refuse(o)
    BY <2>2, RaceFails
  <2>3. CASE ~Refuse(o)
    <3>1. UNCHANGED <<journal, runs, ghost>> /\ OffPid
      BY <1>4, <2>3 DEF AddWorktree, RecordLane, OffPid
    <3>2. Go(o, "enroll") \/ Go(o, "spawn")
      BY <1>4, <2>3 DEF AddWorktree, RecordLane
    <3> QED
      BY <2>1, <3>1, <3>2, Silent, MovesOn
  <2> QED
    BY <2>2, <2>3
<1> QED
  BY <1>3, <1>4

\* A verb that reads the journal.
LEMMA RaceLoaded ==
  ASSUME VerbInv, RaceInv, NEW o \in Ops,
         \/ BeginReturn(o) \/ BeginDiscard(o) \/ BeginRecord(o) \/ BeginCloseout(o)
         \/ \E choice \in {"accept", "abandon"} : BeginReady(o, choice)
  PROVE  RaceInv'
<1>1. PICK d : d = ops[o] /\ Fielded(d)
  BY DEF VerbInv, CallShape
<1>2. d.died \in Pids /\ Len(journal) \in Spots
  BY <1>1 DEF RaceInv, Shapes, PidsKnown, RowShape, Spots
<1>3. ASSUME NEW verb, NEW pc, Load(o, verb, pc), ~AimsAt(verb, pc)
      PROVE  RaceInv'
  <2>1. PICK c : c = [ops[o] EXCEPT !.pc = pc, !.verb = verb, !.n = Len(journal)]
    OBVIOUS
  <2>2. c = [d EXCEPT !.pc = pc, !.verb = verb, !.n = Len(journal)]
    BY <1>1, <2>1
  <2>3. Fielded(c) /\ c.pc = pc /\ c.verb = verb /\ c.n = Len(journal) /\ c.died = d.died
    BY <1>1, <2>2 DEF Fielded
  <2>4. ops' = [ops EXCEPT ![o] = c]
    BY <1>3, <2>1 DEF Load
  <2>5. Quietly
    BY <1>3, Silent DEF Load, OffPid
  <2> QED
    BY <1>2, <1>3, <2>3, <2>4, <2>5, MovesTo
<1>4. ASSUME NEW choice \in {"accept", "abandon"}, BeginReady(o, choice)
      PROVE  RaceInv'
  <2>1. PICK ready : ops' = [ops EXCEPT ![o].pc = "claim", ![o].verb = choice, ![o].n = Len(journal),
                                        ![o].at = ready, ![o].way = "ready"]
    BY <1>4 DEF BeginReady
  <2>2. PICK c : c = [ops[o] EXCEPT !.pc = "claim", !.verb = choice, !.n = Len(journal), !.at = ready, !.way = "ready"]
    OBVIOUS
  <2>3. c = [d EXCEPT !.pc = "claim", !.verb = choice, !.n = Len(journal), !.at = ready, !.way = "ready"]
    BY <1>1, <2>2
  <2>4. Fielded(c) /\ c.verb = choice /\ c.n = Len(journal) /\ c.died = d.died
    BY <1>1, <2>3 DEF Fielded
  <2>5. ops' = [ops EXCEPT ![o] = c]
    BY <2>1, <2>2
  <2>6. Quietly
    BY <1>4, Silent DEF BeginReady, OffPid
  <2> QED
    BY <1>2, <1>4, <2>4, <2>5, <2>6, MovesTo DEF AimsAt
<1> QED
  BY <1>3, <1>4 DEF BeginReturn, BeginDiscard, BeginRecord, BeginCloseout, AimsAt, Returning

\* A call that is replaced by a return with an aim it has just found.
LEMMA RaceAims ==
  ASSUME VerbInv, RaceInv, NEW o \in Ops, UNCHANGED <<journal, lane, runs, ghost>>, Alone(o),
         ops'[o].died \in Pids, Aimed(o)',
         ~ghost.raced /\ Cleared(o)' => Quiet(EndOf(ops'[o])) \/ Retaken(o)'
  PROVE  RaceInv'
<1>1. Shapes /\ RowsKept /\ RowsGrow
  BY DEF RaceInv, RowsKept, RowsGrow
<1>2. Shapes'
  <2>1. RunShape' /\ LaneShape' /\ Pids' = Pids /\ lane'.pid \in Pids'
    BY <1>1 DEF Shapes, RunShape, LaneShape, Pids, PidsKnown
  <2>2. ActsPlaced' /\ FirstRun'
    BY <1>1, CallsOnly, ActsStay, FirstKept DEF Shapes, Launches
  <2> QED
    BY <1>1, <2>1, <2>2, ShapesKept DEF Alone
<1>3. ASSUME ~ghost.raced
      PROVE  Races'
  <2>1. Races
    BY <1>3 DEF RaceInv
  <2>2. PidNames' /\ Launches' = Launches
    BY <2>1 DEF Races, PidNames, AtWork, Launches
  <2>3. \A r \in DOMAIN runs : AtWork(r)' => AtWork(r) /\ runs'[r].phase = runs[r].phase
    BY DEF AtWork
  <2>4. ClearedQuiet'
    <3> SUFFICES ASSUME NEW q \in Ops, Cleared(q)'
                 PROVE  Quiet(EndOf(ops[q]))' \/ Retaken(q)'
      BY DEF ClearedQuiet
    <3>1. CASE q = o
      <4>1. PICK end : end = EndOf(ops'[o])
        OBVIOUS
      <4>2. EndOf(ops[o])' = end
        BY <4>1 DEF EndOf
      <4>3. Quiet(end) => Quiet(EndOf(ops[o]))'
        BY <4>2 DEF Quiet, NoneAtWork, AtWork, NoRunBetween
      <4> QED
        BY <1>3, <3>1, <4>1, <4>3
    <3>2. CASE q # o
      BY <1>1, <2>1, <2>2, <2>3, <3>2, QuietKept DEF Alone, Cleared
    <3> QED
      BY <3>1, <3>2
  <2> QED
    BY <1>1, <2>1, <2>2, <2>3, <2>4, RacesKept
<1> QED
  BY <1>2, <1>3 DEF RaceInv

\* A return takes aim at a ready row, or at the end of a run.
LEMMA RaceJudged ==
  ASSUME VerbInv, RaceInv, NEW o \in Ops, Judge(o)
  PROVE  RaceInv'
<1>0. PICK n : n = ops[o].n
  OBVIOUS
<1>1. n \in 0..Len(journal) /\ n \in Nat /\ Len(journal) \in Nat
  BY <1>0 DEF RaceInv, Shapes, Aimed, RowShape, Spots
<1>2. CASE Refuse(o)
  BY <1>2, RaceFails
<1>3. CASE ~Refuse(o)
  <2>1. PICK dead \in DeadRun(n) :
          LET ready == Last(n, {"ready"})
              stop == IF dead THEN n + 1 ELSE Last(n, {"stop"})
              onStop == dead \/ stop > ready
              p == IF onStop THEN stop ELSE ready
              prior == IF onStop THEN StopPrior(n, stop) ELSE ReadyPrior(ready)
          IN /\ p # 0
             /\ ops' = [ops EXCEPT ![o].pc = "claim", ![o].at = p, ![o].prior = prior,
                            ![o].way = IF onStop THEN "stop" ELSE "ready",
                            ![o].rec = IF onStop THEN lane.spec.rec ELSE ReadyRec(ready),
                            ![o].died = IF dead THEN lane.pid ELSE None]
    BY <1>0, <1>3, ZenonT(60) DEF Judge
  <2>2. PICK stop, ready, onStop, p, way, died, prior, rec :
          /\ ready = Last(n, {"ready"})
          /\ stop = IF dead THEN n + 1 ELSE Last(n, {"stop"})
          /\ onStop <=> dead \/ stop > ready
          /\ p = (IF onStop THEN stop ELSE ready) /\ p # 0
          /\ way = (IF onStop THEN "stop" ELSE "ready")
          /\ died = (IF dead THEN lane.pid ELSE None)
          /\ ops' = [ops EXCEPT ![o].pc = "claim", ![o].at = p, ![o].prior = prior,
                       ![o].way = way, ![o].rec = rec, ![o].died = died]
    BY <2>1, Zenon
  <2>5. UNCHANGED <<journal, lane, runs, ghost>>
    BY <1>3 DEF Judge
  <2>6. /\ Alone(o) /\ ops'[o].verb = "return" /\ ops'[o].pc = "claim" /\ ops'[o].n = n
        /\ ops'[o].at = p /\ ops'[o].way = way /\ ops'[o].died = died
    <3>1. PICK d : d = ops[o] /\ Fielded(d)
      BY DEF VerbInv, CallShape
    <3>2. PICK c : c = [ops[o] EXCEPT !.pc = "claim", !.at = p, !.prior = prior,
                                      !.way = way, !.rec = rec, !.died = died]
      OBVIOUS
    <3>3. c = [d EXCEPT !.pc = "claim", !.at = p, !.prior = prior,
                        !.way = way, !.rec = rec, !.died = died]
      BY <3>1, <3>2
    <3>4. /\ Fielded(c) /\ c.pc = "claim" /\ c.verb = d.verb /\ c.n = d.n
          /\ c.at = p /\ c.way = way /\ c.died = died
      BY <3>1, <3>3 DEF Fielded
    <3>5. ops' = [ops EXCEPT ![o] = c]
      BY <2>2, <3>2
    <3>6. ops'[o] = c /\ Alone(o)
      BY <3>4, <3>5, Replaced DEF VerbInv, Alone
    <3>7. ops[o].verb = "return"
      BY VerbAt DEF VerbInv, Judge, At
    <3> QED
      BY <1>0, <3>1, <3>4, <3>6, <3>7
  <2>7. /\ Last(n, {"ready"}) # 0 => /\ Last(n, {"ready"}) \in 1..Len(journal)
                                     /\ journal[Last(n, {"ready"})].ev = "ready"
        /\ Last(n, {"stop"}) # 0 => /\ Last(n, {"stop"}) \in 1..Len(journal)
                                    /\ journal[Last(n, {"stop"})].ev = "stop"
    BY <1>1, LastRowOf DEF Of
  <2>8. dead => lane.pid \in DOMAIN runs /\ lane.pid \in Pids
    BY FoundOut DEF RaceInv, Pids
  <2>9. died \in Pids
    BY <2>2, <2>8 DEF Pids
  <2>10. way \in {"stop", "ready"} /\ (way = "ready" => ~onStop)
    BY <2>2
  <2>11. way = "ready" => /\ died = None
                          /\ p \in 1..Len(journal) /\ journal[p].ev = "ready"
    BY <2>2, <2>7, <2>10
  <2>12. DOMAIN runs # {}
    <3>1. CASE dead
      BY <2>8, <3>1
    <3>2. CASE ~dead
      <4>1. PICK q \in 1..Len(journal) : journal[q].ev \in {"stop", "ready"}
        BY <2>2, <2>7, <3>2
      <4>2. ~AllCalls
        BY <4>1 DEF AllCalls, NoRunBetween, CallRows
      <4> QED
        BY <4>2 DEF RaceInv, Shapes, FirstRun
    <3> QED
      BY <3>1, <3>2
  <2>13. Aimed(o)' /\ ~Cleared(o)'
    BY <1>1, <2>5, <2>6, <2>10, <2>11, <2>12 DEF Aimed, Spots, Cleared, ClearedAt, Returning
  <2> QED
    BY <2>5, <2>6, <2>9, <2>13, RaceAims
<1> QED
  BY <1>2, <1>3

\* A return claims its decision.
LEMMA RaceClaimed ==
  ASSUME VerbInv, RaceInv, NEW o \in Ops, ClaimDecision(o)
  PROVE  RaceInv'
<1>1. InPlace(o) /\ ops[o].verb \in {"return", "accept", "abandon"} /\ ops[o].pc = "claim"
  BY VerbAt DEF VerbInv, ClaimDecision, At
<1>2. CASE Refuse(o)
  BY <1>2, RaceFails
<1>3. CASE ~Refuse(o)
  <2>1. PICK d : d = ops[o] /\ Fielded(d)
    BY DEF VerbInv, CallShape
  <2>2. PICK pc : /\ pc = CASE ops[o].verb = "accept" -> "head"
                            [] ops[o].verb = "abandon" -> "decide"
                            [] OTHER -> IF ops[o].way = "stop" THEN "recheck" ELSE "stake"
                  /\ ops' = [ops EXCEPT ![o].pc = pc, ![o].stake = ops[o].at]
    BY <1>3 DEF ClaimDecision
  <2>3. PICK c : c = [ops[o] EXCEPT !.pc = pc, !.stake = ops[o].at]
    OBVIOUS
  <2>4. c = [d EXCEPT !.pc = pc, !.stake = d.at]
    BY <2>1, <2>3
  <2>5. /\ Fielded(c) /\ c.pc = pc /\ c.verb = d.verb /\ c.at = d.at /\ c.stake = d.at
        /\ c.n = d.n /\ c.way = d.way /\ c.died = d.died
    BY <2>1, <2>4 DEF Fielded
  <2>6. ops' = [ops EXCEPT ![o] = c]
    BY <2>2, <2>3
  <2>7. ops'[o] = c /\ Alone(o)
    BY <2>5, <2>6, Replaced DEF VerbInv, Alone
  <2>8. UNCHANGED <<journal, lane, runs, ghost>>
    BY <1>3 DEF ClaimDecision
  <2>9. d.n \in Spots /\ d.died \in Pids
    BY <2>1 DEF RaceInv, Shapes, Aimed, PidsKnown
  <2>10. CASE ops[o].verb # "return"
    <3>1. Quietly /\ ~AimsAt(c.verb, c.pc)
      BY <2>1, <2>5, <2>8, <2>10, Silent DEF OffPid, AimsAt
    <3> QED
      BY <2>5, <2>6, <2>9, <3>1, MovesTo
  <2>11. CASE ops[o].verb = "return"
    <3>1. pc = IF ops[o].way = "stop" THEN "recheck" ELSE "stake"
      BY <2>2, <2>11
    <3>2. /\ DOMAIN runs # {} /\ ops[o].way \in {"stop", "ready"}
          /\ ops[o].way = "ready" => /\ ops[o].died = None
                                     /\ ops[o].at \in 1..Len(journal)
                                     /\ journal[ops[o].at].ev = "ready"
      BY <1>1, <2>11 DEF RaceInv, Shapes, Aimed, Aiming, AimsAt
    <3>3. CASE ops[o].way = "stop"
      <4>1. ~Cleared(o)'
        BY <2>5, <2>7, <3>1, <3>3 DEF Cleared, ClearedAt
      <4>2. Aimed(o)'
        BY <2>1, <2>5, <2>7, <2>8, <2>9, <3>2, <3>3, <4>1 DEF Aimed, Spots
      <4> QED
        BY <2>5, <2>7, <2>8, <2>9, <4>1, <4>2, RaceAims
    <3>4. CASE ops[o].way = "ready"
      <4>1. /\ ops'[o].verb = "return" /\ ops'[o].at = ops[o].at /\ ops'[o].pc = "stake"
            /\ ops'[o].stake = ops[o].at /\ ops'[o].died = ops[o].died /\ ops'[o].way = "ready"
            /\ ops'[o].n = d.n
        BY <2>1, <2>5, <2>7, <2>11, <3>1, <3>4
      <4>2. EndOf(ops[o])' = ops[o].at
        BY <3>2, <3>4, <4>1 DEF EndOf
      <4>3. Aimed(o)'
        BY <2>8, <2>9, <3>2, <3>4, <4>1, <4>2 DEF Aimed, Spots
      <4>4. ~ghost.raced => Quiet(EndOf(ops'[o])) \/ Retaken(o)'
        BY <1>3, <2>7, <2>11, <3>4, <4>1, ReadyEnd DEF RaceInv
      <4> QED
        BY <2>5, <2>7, <2>8, <2>9, <4>3, <4>4, RaceAims
    <3> QED
      BY <3>2, <3>3, <3>4
  <2> QED
    BY <2>10, <2>11
<1> QED
  BY <1>2, <1>3

\* A return looks again, and has found its end.
LEMMA RaceRechecked ==
  ASSUME VerbInv, RaceInv, NEW o \in Ops, Recheck(o)
  PROVE  RaceInv'
<1>1. CASE Forfeit(o)
  BY <1>1, RaceFails
<1>2. CASE ~Forfeit(o)
  <2>1. /\ UNCHANGED <<journal, lane, runs, ghost>> /\ Alone(o)
        /\ ops'[o].verb = "return" /\ ops'[o].pc = "stake"
        /\ ops'[o].way = ops[o].way /\ ops'[o].at = ops[o].at /\ ops'[o].n = ops[o].n
        /\ ops'[o].died \in Pids /\ EndOf(ops'[o]) \in Spots
        /\ Races => Quiet(EndOf(ops'[o])) \/ Retaken(o)'
    BY <1>2, Rechecked DEF RaceInv
  <2>2. ops[o].verb = "return" /\ ops[o].pc = "recheck"
    BY VerbAt DEF VerbInv, Recheck, At
  <2>3. /\ ops[o].n \in Spots /\ DOMAIN runs # {} /\ ops[o].way = "stop"
    BY <2>2 DEF RaceInv, Shapes, Aimed, Aiming, AimsAt, Returning
  <2>4. EndOf(ops[o])' \in Spots
    BY <2>1 DEF EndOf
  <2>5. Aimed(o)'
    BY <2>1, <2>3, <2>4 DEF Aimed, Spots
  <2> QED
    BY <2>1, <2>5, RaceAims DEF RaceInv
<1> QED
  BY <1>1, <1>2

\* A call that goes on without a row, and without touching run.pid.
LEMMA RaceGoes ==
  ASSUME VerbInv, RaceInv, NEW o \in Ops, NEW pc, Go(o, pc), UNCHANGED <<journal, runs, ghost>>, OffPid,
         \/ ops[o].verb # "return"
         \/ pc \notin {"claim"} \union Returning
         \/ Cleared(o) /\ pc # "recheck"
  PROVE  RaceInv'
BY Silent, MovesOn

\* The claim of an end, and the lock of a claim that is stale.
LEMMA RaceTakes ==
  ASSUME VerbInv, RaceInv, NEW o \in Ops, Stake(o) \/ TakeLock(o) \/ Displace(o) \/ Replace(o)
  PROVE  RaceInv'
<1>1. /\ ops[o].verb \in {"return", "discard"}
      /\ ops[o].pc \in {"stake", "lock", "displace", "replace"}
  BY VerbAt DEF VerbInv, Stake, TakeLock, Displace, Replace, At
<1>2. ops[o].verb = "return" => Cleared(o)
  BY <1>1 DEF Cleared, ClearedAt, Returning
<1>3. Staked(o) # "recheck"
  BY DEF Staked
<1>4. ASSUME NEW pc, pc # "recheck", Go(o, pc), UNCHANGED <<journal, lane, runs, ghost>>
      PROVE  RaceInv'
  BY <1>2, <1>4, RaceGoes DEF OffPid
<1>5. CASE Unstaked(o) \/ Unlocked(o)
  BY <1>5, RaceFails
<1>6. ASSUME NEW pc, NEW text, pc # "recheck",
             ops' = [ops EXCEPT ![o].pc = pc, ![o].text = text], UNCHANGED <<journal, lane, runs, ghost>>
      PROVE  RaceInv'
  <2>1. PICK d : d = ops[o] /\ Fielded(d)
    BY DEF VerbInv, CallShape
  <2>2. PICK c : c = [ops[o] EXCEPT !.pc = pc, !.text = text]
    OBVIOUS
  <2>3. c = [d EXCEPT !.pc = pc, !.text = text]
    BY <2>1, <2>2
  <2>4. /\ Fielded(c) /\ c.pc = pc /\ c.verb = d.verb /\ c.at = d.at /\ c.n = d.n
        /\ c.way = d.way /\ c.died = d.died /\ c.stake = d.stake
    BY <2>1, <2>3 DEF Fielded
  <2>5. ops' = [ops EXCEPT ![o] = c]
    BY <1>6, <2>2
  <2>6. ops'[o] = c /\ Alone(o)
    BY <2>4, <2>5, Replaced DEF VerbInv, Alone
  <2>7. ops[o].n \in Spots /\ ops[o].died \in Pids
    BY DEF RaceInv, Shapes, Aimed, PidsKnown
  <2>8. Moved(o)
    BY <1>1, <1>2, <1>6, <2>1, <2>4, <2>6, <2>7 DEF Moved, Aiming, AimsAt, Cleared, ClearedAt
  <2> QED
    BY <1>6, <2>6, <2>8, Silent, CallMoves DEF OffPid
<1>7. CASE Stake(o)
  BY <1>3, <1>4, <1>5, <1>6, <1>7 DEF Stake, files
<1>8. CASE TakeLock(o)
  BY <1>4, <1>5, <1>8 DEF TakeLock
<1>9. CASE Displace(o)
  BY <1>4, <1>5, <1>9 DEF Displace
<1>10. CASE Replace(o)
  BY <1>3, <1>5, <1>6, <1>10 DEF Replace
<1> QED
  BY <1>7, <1>8, <1>9, <1>10

\* What a return does before it launches.
LEMMA RacePrepared ==
  ASSUME VerbInv, RaceInv, NEW o \in Ops, Confirm(o) \/ RecordUndo(o) \/ WriteSpec(o) \/ DropPid(o)
  PROVE  RaceInv'
<1>1. /\ ops[o].verb = "return"
      /\ ops[o].pc \in {"confirm", "uncommit", "spec", "drop"}
  BY VerbAt DEF VerbInv, Confirm, RecordUndo, WriteSpec, DropPid, At
<1>2. Cleared(o)
  BY <1>1 DEF Cleared, ClearedAt, Returning
<1>3. ASSUME NEW pc, pc # "recheck", Go(o, pc), UNCHANGED <<journal, runs, ghost>>, OffPid
      PROVE  RaceInv'
  BY <1>2, <1>3, RaceGoes
<1>4. CASE UNCHANGED lane /\ Release(o)
  BY <1>4, RaceFails DEF OffPid
<1>5. CASE Confirm(o)
  BY <1>3, <1>4, <1>5 DEF Confirm, Proceed, OffPid
<1>6. CASE RecordUndo(o)
  <2>1. CASE ~(UNCHANGED lane /\ Release(o))
    <3>1. PICK row : row = Row("uncommit", 0, 0)
      OBVIOUS
    <3>2. row.ev \in CallRows /\ Put(row) /\ Go(o, "spec") /\ UNCHANGED <<lane, runs, ghost>>
      BY <1>6, <2>1, <3>1 DEF RecordUndo, Row, CallRows
    <3>3. Quietly
      BY <3>2 DEF Quietly, RowsKept, Launches, LaneShape, RaceInv, Shapes
    <3> QED
      BY <1>2, <3>2, <3>3, MovesOn
  <2> QED
    BY <1>4, <2>1
<1>7. CASE WriteSpec(o)
  BY <1>3, <1>4, <1>7 DEF WriteSpec, OffPid
<1>8. CASE DropPid(o)
  <2>1. PICK l : l = lane /\ Laned(l)
    BY DEF RaceInv, Shapes, LaneShape
  <2>2. lane' = [l EXCEPT !.pid = None]
    BY <1>8, <2>1 DEF DropPid
  <2>3. LaneShape' /\ lane'.pid = None
    BY <2>1, <2>2 DEF LaneShape, Laned
  <2>4. Quietly /\ Go(o, "spawn")
    BY <1>8, <2>3 DEF DropPid, Quietly, RowsKept, Launches, files
  <2> QED
    BY <1>2, <2>4, MovesOn
<1> QED
  BY <1>5, <1>6, <1>7, <1>8

\* A launch names the run, and leaves nothing else in the lane.
LEMMA RaceSpawned ==
  ASSUME VerbInv, RaceInv, NEW o \in Ops, Spawn(o)
  PROVE  RaceInv'
<1>0. PICK r : r = Len(runs) + 1
  OBVIOUS
<1>1. /\ InPlace(o) /\ ops[o].verb \in {"start", "return"} /\ ops[o].pc = "spawn"
  BY VerbAt DEF VerbInv, Spawn, At
<1>2. RunShape' /\ DOMAIN runs \subseteq DOMAIN runs' /\ r \in DOMAIN runs'
  <2>1. PICK run : run = NewRun(o)
    OBVIOUS
  <2>2. Worked(run)
    BY <2>1 DEF NewRun, Worked
  <2>3. runs' = Append(runs, run)
    BY <2>1 DEF Spawn
  <2> QED
    BY <1>0, <2>2, <2>3, RunAfter DEF RaceInv, Shapes
<1>3. journal' = journal /\ LaneShape' /\ lane'.pid \in {r, None}
  <2>1. PICK l : l = lane /\ Laned(l)
    BY DEF RaceInv, Shapes, LaneShape
  <2>2. PICK pid \in {r, None} : lane' = [l EXCEPT !.pid = pid]
    BY <1>0, <2>1 DEF Spawn
  <2> QED
    BY <2>1, <2>2 DEF Spawn, LaneShape, Laned
<1>4. /\ ghost'.acts = ghost.acts \union IF ops[o].verb = "start" THEN {} ELSE {Act(o, "return", r)}
      /\ ghost'.raced = (ghost.raced \/ Retaken(o))
  BY <1>0, SpawnRaces DEF VerbInv
<1>5. RowsGrow /\ RowsStay /\ Shapes
  BY <1>3, Grows DEF RaceInv, Shapes, RowsGrow
<1>6. ActsPlaced'
  <2> SUFFICES ASSUME NEW act \in Launches'
               PROVE  act.run \in DOMAIN runs' /\ EndOf(act)' \in Spots'
    BY DEF ActsPlaced
  <2>1. EndOf(act)' = EndOf(act) /\ Spots' = Spots
    BY <1>3 DEF EndOf, Spots
  <2>2. CASE act \in Launches
    BY <1>2, <1>5, <2>1, <2>2 DEF Shapes, ActsPlaced
  <2>3. CASE act \notin Launches
    <3>1. ops[o].verb = "return" /\ act = Act(o, "return", r)
      BY <1>1, <1>4, <2>3 DEF Launches
    <3>2. act.run = r /\ EndOf(act) = EndOf(ops[o])
      BY <3>1, ActOf
    <3>3. EndOf(ops[o]) \in Spots
      BY <1>1, <1>5, <3>1 DEF Shapes, Aimed, Cleared, ClearedAt, Returning
    <3> QED
      BY <1>2, <2>1, <3>2, <3>3
  <2> QED
    BY <2>2, <2>3
<1>7. Alone(o) /\ ops'[o].died \in Pids' /\ Aimed(o)'
  <2>1. ops[o].died \in Pids' /\ ops[o].n \in Spots'
    BY <1>2, <1>3, <1>5 DEF Shapes, PidsKnown, Pids, Aimed, Spots
  <2>2. CASE Leave(o)
    <3>1. /\ Alone(o) /\ ops'[o].n = 0 /\ ops'[o].died = None
          /\ ~Aiming(o)' /\ ~Cleared(o)'
      BY <2>2, AwayRead DEF VerbInv
    <3> QED
      BY <1>5, <3>1 DEF Aimed, Pids, Spots, RowsStay
  <2>3. CASE ops' = [ops EXCEPT ![o].pc = "hand", ![o].run = Len(runs) + 1]
    <3>1. PICK d : d = ops[o] /\ Fielded(d)
      BY DEF VerbInv, CallShape
    <3>2. PICK c : c = [ops[o] EXCEPT !.pc = "hand", !.run = Len(runs) + 1]
      OBVIOUS
    <3>3. c = [d EXCEPT !.pc = "hand", !.run = Len(runs) + 1]
      BY <3>1, <3>2
    <3>4. Fielded(c) /\ c.pc = "hand" /\ c.n = d.n /\ c.died = d.died
      BY <3>1, <3>3 DEF Fielded
    <3>5. ops' = [ops EXCEPT ![o] = c]
      BY <2>3, <3>2
    <3>6. ops'[o] = c /\ Alone(o)
      BY <3>4, <3>5, Replaced DEF VerbInv, Alone
    <3>7. ~Aiming(o)' /\ ~Cleared(o)'
      BY <3>4, <3>6 DEF Aiming, AimsAt, Cleared, ClearedAt, Returning
    <3> QED
      BY <2>1, <3>1, <3>4, <3>6, <3>7 DEF Aimed
  <2> QED
    BY <1>1, <2>2, <2>3 DEF Spawn
<1>8. Shapes'
  <2>1. FirstRun' /\ lane'.pid \in Pids'
    BY <1>2, <1>3 DEF FirstRun, Pids
  <2> QED
    BY <1>2, <1>3, <1>5, <1>6, <1>7, <2>1, ShapesKept DEF Alone
<1>9. ~ghost'.raced => Races'
  <2>1. ~ghost'.raced => ~ghost.raced /\ ~Retaken(o)
    BY <1>4
  <2> QED
    BY <1>5, <2>1, Spawned DEF RaceInv
<1> QED
  BY <1>8, <1>9 DEF RaceInv

\* A launch that fails names the dead run again, which is the last one.
LEMMA RaceSpawnFails ==
  ASSUME VerbInv, RaceInv, NEW o \in Ops, SpawnFails(o)
  PROVE  RaceInv'
<1>1. /\ InPlace(o) /\ ops[o].verb \in {"start", "return"} /\ ops[o].pc = "spawn"
  BY VerbAt DEF VerbInv, SpawnFails, At
<1>2. CASE ops[o].verb = "start"
  <2>1. Refuse(o)
    BY <1>2 DEF SpawnFails
  <2> QED
    BY <2>1, RaceFails
<1>3. CASE ops[o].verb = "return"
  <2>1. /\ Leave(o) /\ journal' = journal /\ runs' = runs
        /\ lane' = IF ops[o].died = None THEN lane ELSE [lane EXCEPT !.pid = ops[o].died]
    BY <1>3 DEF SpawnFails, LetGo
  <2>2. SameActs /\ ghost'.raced = (ghost.raced \/ (ops[o].died # None /\ Retaken(o)))
    BY <1>3, FailRaces DEF VerbInv
  <2>3. /\ Alone(o) /\ ops'[o].n = 0 /\ ops'[o].died = None
        /\ ~Aiming(o)' /\ ~Cleared(o)'
    BY <2>1, AwayRead DEF VerbInv
  <2>4. Shapes /\ RowsKept /\ RowsGrow /\ RowsStay /\ Launches' = Launches
    BY <2>1, <2>2, Grows DEF RaceInv, Shapes, RowsKept, RowsGrow, Launches, SameActs
  <2>5. LaneShape' /\ lane'.pid = (IF ops[o].died = None THEN lane.pid ELSE ops[o].died)
    <3>1. PICK l : l = lane /\ Laned(l)
      BY DEF RaceInv, Shapes, LaneShape
    <3>2. lane' = IF ops[o].died = None THEN l ELSE [l EXCEPT !.pid = ops[o].died]
      BY <2>1, <3>1
    <3> QED
      BY <3>1, <3>2 DEF LaneShape, Laned
  <2>6. Shapes'
    <3>1. RunShape' /\ Pids' = Pids /\ lane'.pid \in Pids'
      BY <2>1, <2>4, <2>5 DEF Shapes, RunShape, Pids, PidsKnown
    <3>2. ActsPlaced' /\ FirstRun'
      BY <2>1, <2>4, ActsStay, FirstKept DEF Shapes
    <3>3. Aimed(o)' /\ ops'[o].died \in Pids'
      BY <2>3, <2>4 DEF Aimed, Spots, RowsStay, Pids
    <3> QED
      BY <2>1, <2>3, <2>4, <2>5, <3>1, <3>2, <3>3, ShapesKept DEF Alone
  <2>7. ASSUME ~ghost'.raced
        PROVE  Races'
    <3>1. Races /\ (ops[o].died # None => ~Retaken(o))
      BY <2>2, <2>7 DEF RaceInv
    <3>2. \A r \in DOMAIN runs : AtWork(r)' => AtWork(r) /\ runs'[r].phase = runs[r].phase
      BY <2>1 DEF AtWork
    <3>3. PidNames'
      <4>1. CASE ops[o].died = None
        BY <2>1, <2>5, <3>1, <4>1 DEF Races, PidNames, AtWork
      <4>2. CASE ops[o].died # None
        <5>1. Cleared(o)
          BY <1>1, <1>3 DEF Cleared, ClearedAt, Returning
        <5>2. NoneAtWork
          BY <3>1, <4>2, <5>1 DEF Races, ClearedQuiet, Quiet
        <5> QED
          BY <2>1, <3>2, <5>2 DEF NoneAtWork, PidNames
      <4> QED
        BY <4>1, <4>2
    <3>4. ClearedQuiet'
      <4> SUFFICES ASSUME NEW q \in Ops, Cleared(q)'
                   PROVE  Quiet(EndOf(ops[q]))' \/ Retaken(q)'
        BY DEF ClearedQuiet
      <4>1. q # o /\ ops'[q] = ops[q] /\ Cleared(q)
        BY <2>3 DEF Alone, Cleared
      <4> QED
        BY <2>1, <2>2, <2>4, <3>1, <3>2, <4>1, QuietKept DEF SameActs
    <3> QED
      BY <2>1, <2>4, <3>1, <3>2, <3>3, <3>4, RacesKept
  <2> QED
    BY <2>6, <2>7 DEF RaceInv
<1> QED
  BY <1>1, <1>2, <1>3

\* A step that leaves nothing but a row of its verb, or an act that launches nothing.
LEMMA RowQuiet ==
  ASSUME RaceInv, NEW row, row.ev \in CallRows, Put(row) \/ journal' = journal,
         lane' = lane, runs' = runs, Launches' = Launches,
         ghost.unrecorded \subseteq ghost'.unrecorded, ghost'.raced = ghost.raced
  PROVE  Quietly
BY DEF Quietly, RowsKept, LaneShape, RaceInv, Shapes

\* What follows a launch: the claim names the run, and the decision is written.
LEMMA RaceRecorded ==
  ASSUME VerbInv, RaceInv, NEW o \in Ops, Hand(o) \/ Decide(o) \/ DecideFails(o)
  PROVE  RaceInv'
<1>1. PICK row : row = Row("return", 0, 0)
  OBVIOUS
<1>2. row.ev \in CallRows
  BY <1>1 DEF Row, CallRows
<1>3. CASE Hand(o)
  BY <1>3, RaceGoes DEF Hand, OffPid, Returning
<1>4. CASE Decide(o)
  <2>1. Leave(o) /\ lane' = lane /\ runs' = runs
    BY <1>4 DEF Decide
  <2>2. ops[o].verb \in {"return", "accept", "abandon"}
    BY <1>4, VerbAt DEF VerbInv, Decide, At
  <2>3. PICK num : Put(Row(ops[o].verb, num, 0))
    BY <1>4 DEF Decide
  <2>4. PICK put : put = Row(ops[o].verb, num, 0)
    OBVIOUS
  <2>5. Put(put) /\ put.ev \in CallRows
    BY <2>2, <2>3, <2>4 DEF Row, CallRows
  <2>6. Launches' = Launches /\ ghost'.unrecorded = ghost.unrecorded /\ ghost'.raced = ghost.raced
    <3>1. CASE ops[o].verb # "abandon"
      BY <1>4, <3>1 DEF Decide, Launches
    <3>2. CASE ops[o].verb = "abandon"
      <4>1. PICK act : act = Act(o, "abandon", 0)
        OBVIOUS
      <4>2. act.what # "return"
        BY <4>1 DEF Act
      <4>3. ghost' = [ghost EXCEPT !.acts = @ \union {act}]
        BY <1>4, <3>2, <4>1 DEF Decide
      <4>4. ghost'.acts = ghost.acts \union {act} /\ ghost'.unrecorded = ghost.unrecorded /\ ghost'.raced = ghost.raced
        BY <4>3, GhostGrows DEF VerbInv
      <4> QED
        BY <4>2, <4>4 DEF Launches
    <3> QED
      BY <3>1, <3>2
  <2>7. Quietly
    BY <2>1, <2>5, <2>6, RowQuiet
  <2> QED
    BY <2>1, <2>7, MovesOff
<1>5. CASE DecideFails(o)
  <2>1. Leave(o) /\ UNCHANGED <<journal, lane, runs>>
    BY <1>5 DEF DecideFails
  <2>2. /\ ghost'.acts = ghost.acts /\ ghost.unrecorded \subseteq ghost'.unrecorded
        /\ ghost'.raced = ghost.raced
    <3>1. PICK g : g = ghost /\ g = [acts |-> g.acts, unrecorded |-> g.unrecorded, raced |-> g.raced]
      BY DEF VerbInv, GhostShape
    <3>2. ghost' = [g EXCEPT !.unrecorded = g.unrecorded \union {ops[o].at}]
      BY <1>5, <3>1 DEF DecideFails
    <3> QED
      BY <3>1, <3>2
  <2>3. Quietly
    BY <1>2, <2>1, <2>2, RowQuiet DEF Launches
  <2> QED
    BY <2>1, <2>3, MovesOff
<1> QED
  BY <1>3, <1>4, <1>5

\* An accept.
LEMMA RaceAccepted ==
  ASSUME VerbInv, RaceInv, NEW o \in Ops,
         CheckHead(o) \/ OpenPullRequest(o) \/ EditPullRequest(o) \/ RecordPublished(o)
  PROVE  RaceInv'
<1>1. ops[o].verb = "accept"
  <2>1. ops[o].pc \in Accepting
    BY DEF CheckHead, OpenPullRequest, EditPullRequest, RecordPublished, At, Accepting
  <2> QED
    BY <2>1, VerbAt DEF VerbInv
<1>2. CASE Forfeit(o)
  BY <1>2, RaceFails
<1>3. ASSUME NEW pc, Go(o, pc), UNCHANGED <<journal, runs, ghost>>, OffPid
      PROVE  RaceInv'
  BY <1>1, <1>3, RaceGoes
<1>4. CASE CheckHead(o)
  BY <1>2, <1>3, <1>4 DEF CheckHead, Proceed, OffPid
<1>5. CASE OpenPullRequest(o)
  <2>1. UNCHANGED <<journal, runs, ghost>> /\ OffPid /\ (Go(o, "edit") \/ Leave(o))
    <3>1. UNCHANGED <<journal, runs, ghost>> /\ (Go(o, "edit") \/ Leave(o))
      BY <1>5 DEF OpenPullRequest
    <3>2. \/ lane' = [lane EXCEPT !.tip = lane.head, !.pr = "open"]
          \/ lane' = lane
          \/ lane' = [lane EXCEPT !.tip = lane.head]
          \/ lane' = [lane EXCEPT !.tip = lane.head, !.pr = IF @ = "none" THEN "open" ELSE @]
      BY <1>5 DEF OpenPullRequest
    <3>3. OffPid
      BY <3>2, Zenon DEF OffPid
    <3> QED
      BY <3>1, <3>3
  <2>2. CASE Leave(o)
    BY <2>1, <2>2, Silent, MovesOff
  <2> QED
    BY <1>3, <2>1, <2>2
<1>6. CASE EditPullRequest(o)
  BY <1>2, <1>3, <1>6 DEF EditPullRequest, Proceed, OffPid
<1>7. CASE RecordPublished(o) /\ ~Forfeit(o)
  <2>1. PICK act, row : act = Act(o, "accept", 0) /\ row = Row("pr", 0, 0)
    OBVIOUS
  <2>2. act.what # "return" /\ row.ev \in CallRows
    BY <2>1 DEF Act, Row, CallRows
  <2>3. /\ ghost' = [ghost EXCEPT !.acts = @ \union {act}] /\ Put(row)
        /\ Go(o, "decide") /\ UNCHANGED <<lane, runs>>
    BY <1>7, <2>1 DEF RecordPublished
  <2>4. ghost'.acts = ghost.acts \union {act} /\ ghost'.unrecorded = ghost.unrecorded /\ ghost'.raced = ghost.raced
    BY <2>3, GhostGrows DEF VerbInv
  <2>5. Quietly
    BY <2>2, <2>3, <2>4, RowQuiet DEF Launches
  <2> QED
    BY <1>1, <2>3, <2>5, MovesOn
<1> QED
  BY <1>2, <1>4, <1>5, <1>6, <1>7

\* The verbs that decide nothing about a finish.
LEMMA RaceClosed ==
  ASSUME VerbInv, RaceInv, NEW o \in Ops,
         \/ Inspect(o) \/ Reread(o) \/ ListClaims(o) \/ CheckPid(o) \/ CheckClaim(o)
         \/ View(o) \/ RemoveWorktree(o) \/ Archive(o) \/ CheckQuiet(o) \/ AppendPr(o)
  PROVE  RaceInv'
<1>1. ops[o].verb \in {"discard", "closeout", "record"}
  BY VerbAt DEF VerbInv, Inspect, Reread, ListClaims, CheckPid, CheckClaim, View, RemoveWorktree,
     Archive, CheckQuiet, AppendPr, At
<1>2. \A pc : ~AimsAt(ops[o].verb, pc)
  BY <1>1 DEF AimsAt
<1>3. ASSUME NEW pc, Go(o, pc), UNCHANGED <<journal, runs, ghost>>, OffPid
      PROVE  RaceInv'
  BY <1>1, <1>3, RaceGoes
<1>4. CASE Leave(o) /\ UNCHANGED <<journal, runs, ghost>> /\ OffPid
  BY <1>4, Silent, MovesOff
<1>5. CASE Refuse(o) \/ (Release(o) /\ OffPid)
  BY <1>5, RaceFails
<1>6. ASSUME NEW c, Fielded(c), ops' = [ops EXCEPT ![o] = c], c.verb = ops[o].verb,
             c.n = ops[o].n, c.died \in Pids, UNCHANGED <<journal, lane, runs, ghost>>
      PROVE  RaceInv'
  <2>1. ops[o].n \in Spots
    BY DEF RaceInv, Shapes, Aimed
  <2>2. Quietly
    BY <1>6, Silent DEF OffPid
  <2> QED
    BY <1>2, <1>6, <2>1, <2>2, MovesTo
<1>7. PICK d : d = ops[o] /\ Fielded(d)
  BY DEF VerbInv, CallShape
<1>8. ops[o].died \in Pids /\ lane.pid \in Pids /\ None \in Pids
  BY DEF RaceInv, Shapes, PidsKnown, Pids
<1>9. CASE Inspect(o) /\ ~Refuse(o)
  <2>1. PICK dead \in DeadRun(Discardable(ops[o].n)) :
          ops' = [ops EXCEPT ![o].pc = "stake",
                    ![o].stake = IF dead THEN Discardable(ops[o].n) + 1 ELSE Discardable(ops[o].n),
                    ![o].died = IF dead THEN lane.pid ELSE None]
    BY <1>9, Zenon DEF Inspect
  <2>2. PICK stake, died :
          /\ died = (IF dead THEN lane.pid ELSE None)
          /\ ops' = [ops EXCEPT ![o].pc = "stake", ![o].stake = stake, ![o].died = died]
    BY <2>1, Zenon
  <2>3. PICK c : c = [ops[o] EXCEPT !.pc = "stake", !.stake = stake, !.died = died]
    OBVIOUS
  <2>4. c = [d EXCEPT !.pc = "stake", !.stake = stake, !.died = died]
    BY <1>7, <2>3
  <2>5. Fielded(c) /\ c.verb = d.verb /\ c.n = d.n /\ c.died = died
    BY <1>7, <2>4 DEF Fielded
  <2>6. ops' = [ops EXCEPT ![o] = c]
    BY <2>2, <2>3
  <2>7. UNCHANGED <<journal, lane, runs, ghost>>
    BY <1>9 DEF Inspect
  <2>8. died \in Pids
    BY <1>8, <2>2
  <2> QED
    BY <1>6, <1>7, <2>5, <2>6, <2>7, <2>8
<1>10. ASSUME NEW pc, NEW todo, ops' = [ops EXCEPT ![o].pc = pc, ![o].todo = todo] \/ ops' = [ops EXCEPT ![o].todo = todo],
              UNCHANGED <<journal, lane, runs, ghost>>
       PROVE  RaceInv'
  <2>1. PICK c : /\ c = [ops[o] EXCEPT !.pc = pc, !.todo = todo] \/ c = [ops[o] EXCEPT !.todo = todo]
                 /\ ops' = [ops EXCEPT ![o] = c]
    BY <1>10
  <2>2. c = [d EXCEPT !.pc = pc, !.todo = todo] \/ c = [d EXCEPT !.todo = todo]
    BY <1>7, <2>1
  <2>3. Fielded(c) /\ c.verb = d.verb /\ c.n = d.n /\ c.died = d.died
    BY <1>7, <2>2 DEF Fielded
  <2> QED
    BY <1>6, <1>7, <1>8, <1>10, <2>1, <2>3
<1>11. CASE ListClaims(o)
  BY <1>10, <1>11 DEF ListClaims
<1>12. CASE Reread(o) \/ CheckPid(o)
  BY <1>3, <1>5, <1>12 DEF Reread, CheckPid, Proceed, OffPid
<1>13. CASE CheckClaim(o)
  <2>1. CASE Proceed(o, "remove")
    BY <1>3, <2>1 DEF Proceed, OffPid
  <2>2. CASE Release(o) /\ UNCHANGED lane
    BY <1>5, <2>2 DEF OffPid
  <2>3. CASE \E file \in ops[o].todo :
               /\ ops' = [ops EXCEPT ![o].todo = ops[o].todo \ {file}]
               /\ UNCHANGED <<journal, lane, files, runs, ghost>>
    BY <1>10, <2>3
  <2> QED
    BY <1>13, <2>1, <2>2, <2>3 DEF CheckClaim
<1>14. CASE View(o)
  BY <1>3, <1>5, <1>14 DEF View, Proceed, OffPid
<1>15. CASE RemoveWorktree(o) \/ Archive(o)
  <2>1. OffPid /\ (GiveUp(o) \/ (Go(o, "move") /\ UNCHANGED <<journal, runs, ghost>>))
    BY <1>15 DEF RemoveWorktree, Archive, OffPid
  <2>2. CASE GiveUp(o)
    BY <1>4, <1>5, <2>1, <2>2 DEF GiveUp
  <2> QED
    BY <1>3, <2>1, <2>2
<1>16. CASE CheckQuiet(o)
  BY <1>3, <1>5, <1>16 DEF CheckQuiet, Proceed, OffPid
<1>17. CASE AppendPr(o)
  <2>1. PICK row : row = Row("pr", 0, 0)
    OBVIOUS
  <2>2. row.ev \in CallRows /\ Put(row) /\ Leave(o) /\ UNCHANGED <<lane, runs, ghost>>
    BY <1>17, <2>1 DEF AppendPr, Row, CallRows
  <2>3. Quietly
    BY <2>2, RowQuiet DEF Launches
  <2> QED
    BY <2>2, <2>3, MovesOff
<1> QED
  BY <1>5, <1>9, <1>11, <1>12, <1>13, <1>14, <1>15, <1>16, <1>17

\* A verb's step keeps it.
LEMMA RaceVerbs ==
  ASSUME VerbInv, RaceInv, NEW o \in Ops, Verb(o)
  PROVE  RaceInv'
<1>1. CASE BeginStart(o) \/ AddWorktree(o) \/ RecordLane(o)
  BY <1>1, RaceStarted
<1>2. CASE \/ BeginReturn(o) \/ BeginDiscard(o) \/ BeginRecord(o) \/ BeginCloseout(o)
           \/ \E choice \in {"accept", "abandon"} : BeginReady(o, choice)
  BY <1>2, RaceLoaded
<1>3. CASE Judge(o) \/ ClaimDecision(o) \/ Recheck(o)
  BY <1>3, RaceJudged, RaceClaimed, RaceRechecked
<1>4. CASE Stake(o) \/ TakeLock(o) \/ Displace(o) \/ Replace(o)
  BY <1>4, RaceTakes
<1>5. CASE Confirm(o) \/ RecordUndo(o) \/ WriteSpec(o) \/ DropPid(o)
  BY <1>5, RacePrepared
<1>6. CASE Spawn(o) \/ SpawnFails(o)
  BY <1>6, RaceSpawned, RaceSpawnFails
<1>7. CASE Hand(o) \/ Decide(o) \/ DecideFails(o)
  BY <1>7, RaceRecorded
<1>8. CASE CheckHead(o) \/ OpenPullRequest(o) \/ EditPullRequest(o) \/ RecordPublished(o)
  BY <1>8, RaceAccepted
<1>9. CASE \/ Inspect(o) \/ Reread(o) \/ ListClaims(o) \/ CheckPid(o) \/ CheckClaim(o)
           \/ View(o) \/ RemoveWorktree(o) \/ Archive(o) \/ CheckQuiet(o) \/ AppendPr(o)
  BY <1>9, RaceClosed
<1>10. CASE Lost(o) \/ Crash(o)
  BY <1>10, RaceFails DEF Lost, Crash
<1> QED
  BY <1>1, <1>2, <1>3, <1>4, <1>5, <1>6, <1>7, <1>8, <1>9, <1>10 DEF Verb

-----------------------------------------------------------------------------
(* A step of a run                                                         *)

\* A run goes on, and the others are as they were.
RunAlone(r, live, phase) ==
  /\ RunShape' /\ DOMAIN runs' = DOMAIN runs
  /\ \A s \in DOMAIN runs \ {r} : runs'[s] = runs[s]
  /\ runs'[r].live = live /\ runs'[r].phase = phase

\* A run is replaced by another of the same shape.
LEMMA RunReplaced ==
  ASSUME RunShape, NEW r \in DOMAIN runs, NEW c, Worked(c), runs' = [runs EXCEPT ![r] = c]
  PROVE  RunAlone(r, c.live, c.phase)
<1>1. PICK S : runs \in Seq(S)
  BY DEF RunShape
<1>2. runs \in Seq(S \union {c}) /\ c \in S \union {c}
  BY <1>1, SeqMonotonic
<1>3. DOMAIN runs = 1..Len(runs)
  BY <1>2, LenProperties
<1>4. runs' \in Seq(S \union {c}) /\ DOMAIN runs' = DOMAIN runs
  BY <1>2, <1>3, ExceptSeq
<1>5. runs'[r] = c /\ \A s \in DOMAIN runs \ {r} : runs'[s] = runs[s]
  BY <1>2
<1>6. RunShape'
  BY <1>4, <1>5 DEF RunShape
<1> QED
  BY <1>4, <1>5, <1>6 DEF RunAlone

\* A run that commits on the commit w.
Based(r, v, w) == runs' = [runs EXCEPT ![r].commit = v, ![r].below = w]

\* A run that ends, one that goes to its next phase, one that goes on in its own.
LEMMA RunMoves ==
  ASSUME RunShape, NEW r \in DOMAIN runs, NEW v, NEW w
  PROVE  /\ runs' = runs => RunAlone(r, runs[r].live, runs[r].phase)
         /\ runs' = [runs EXCEPT ![r].live = v] => RunAlone(r, v, runs[r].phase)
         /\ runs' = [runs EXCEPT ![r].phase = v] => RunAlone(r, runs[r].live, v)
         /\ runs' = [runs EXCEPT ![r].reviews = v] => RunAlone(r, runs[r].live, runs[r].phase)
         /\ runs' = [runs EXCEPT ![r].commit = v] => RunAlone(r, runs[r].live, runs[r].phase)
         /\ Based(r, v, w) => RunAlone(r, runs[r].live, runs[r].phase)
<1>1. PICK d : d = runs[r] /\ Worked(d)
  BY DEF RunShape
<1>2. ASSUME runs' = [runs EXCEPT ![r].live = v]
      PROVE  RunAlone(r, v, d.phase)
  <2>1. PICK c : c = [runs[r] EXCEPT !.live = v]
    OBVIOUS
  <2>2. c = [d EXCEPT !.live = v]
    BY <1>1, <2>1
  <2>3. Worked(c) /\ c.live = v /\ c.phase = d.phase
    BY <1>1, <2>2 DEF Worked
  <2>4. runs' = [runs EXCEPT ![r] = c]
    BY <1>2, <2>1
  <2> QED
    BY <2>3, <2>4, RunReplaced
<1>3. ASSUME runs' = [runs EXCEPT ![r].phase = v]
      PROVE  RunAlone(r, d.live, v)
  <2>1. PICK c : c = [runs[r] EXCEPT !.phase = v]
    OBVIOUS
  <2>2. c = [d EXCEPT !.phase = v]
    BY <1>1, <2>1
  <2>3. Worked(c) /\ c.live = d.live /\ c.phase = v
    BY <1>1, <2>2 DEF Worked
  <2>4. runs' = [runs EXCEPT ![r] = c]
    BY <1>3, <2>1
  <2> QED
    BY <2>3, <2>4, RunReplaced
<1>4. ASSUME runs' = [runs EXCEPT ![r].reviews = v]
      PROVE  RunAlone(r, d.live, d.phase)
  <2>1. PICK c : c = [runs[r] EXCEPT !.reviews = v]
    OBVIOUS
  <2>2. c = [d EXCEPT !.reviews = v]
    BY <1>1, <2>1
  <2>3. Worked(c) /\ c.live = d.live /\ c.phase = d.phase
    BY <1>1, <2>2 DEF Worked
  <2>4. runs' = [runs EXCEPT ![r] = c]
    BY <1>4, <2>1
  <2> QED
    BY <2>3, <2>4, RunReplaced
<1>5. ASSUME runs' = [runs EXCEPT ![r].commit = v]
      PROVE  RunAlone(r, d.live, d.phase)
  <2>1. PICK c : c = [runs[r] EXCEPT !.commit = v]
    OBVIOUS
  <2>2. c = [d EXCEPT !.commit = v]
    BY <1>1, <2>1
  <2>3. Worked(c) /\ c.live = d.live /\ c.phase = d.phase
    BY <1>1, <2>2 DEF Worked
  <2>4. runs' = [runs EXCEPT ![r] = c]
    BY <1>5, <2>1
  <2> QED
    BY <2>3, <2>4, RunReplaced
<1>6. ASSUME Based(r, v, w)
      PROVE  RunAlone(r, d.live, d.phase)
  <2>1. PICK c : c = [[runs[r] EXCEPT !.commit = v] EXCEPT !.below = w]
    OBVIOUS
  <2>2. c = [[d EXCEPT !.commit = v] EXCEPT !.below = w]
    BY <1>1, <2>1
  <2>3. Worked(c) /\ c.live = d.live /\ c.phase = d.phase
    BY <1>1, <2>2 DEF Worked
  <2>4. runs' = [runs EXCEPT ![r] = c]
    BY <1>1, <1>6, <2>1 DEF RunShape, Based
  <2> QED
    BY <2>3, <2>4, RunReplaced
<1>7. runs' = runs => RunAlone(r, d.live, d.phase)
  BY <1>1 DEF RunAlone, RunShape
<1> QED
  BY <1>1, <1>2, <1>3, <1>4, <1>5, <1>6, <1>7

\* A run that rebases or commits moves the head of the branch, and writes nothing.
LEMMA HeadMoves ==
  ASSUME NEW r, RunRebases(r) \/ RunCommits(r)
  PROVE  /\ UNCHANGED <<journal, files, ops, ghost>>
         /\ \E head : lane' = [lane EXCEPT !.head = head]
         /\ \/ runs' = runs
            \/ \E below : Based(r, "made", below)
<1>1. CASE RunRebases(r)
  BY <1>1, Zenon DEF RunRebases
<1>2. CASE RunCommits(r)
  BY <1>2, Zenon DEF RunCommits, Based
<1> QED
  BY <1>1, <1>2

\* The shapes are those of the runs and the journal.
LEMMA RunShapes ==
  ASSUME Shapes, NEW r \in DOMAIN runs, RunShape', DOMAIN runs' = DOMAIN runs, RowsGrow,
         UNCHANGED <<ops, ghost>>, OffPid
  PROVE  Shapes'
<1>1. RowsStay
  BY Grows DEF Shapes
<1>2. LaneShape' /\ lane'.pid = lane.pid /\ lane.pid \in Pids
  BY LaneStays DEF Shapes, PidsKnown
<1>3. ActsPlaced'
  BY <1>1, ActsStay DEF Shapes, Launches
<1>4. FirstRun'
  BY DEF FirstRun
<1>5. lane'.pid \in Pids'
  BY <1>2 DEF Pids
<1> QED
  BY <1>2, <1>3, <1>4, <1>5, ShapesKept

\* A run that writes a row.
LEMMA RunTells ==
  ASSUME RaceInv, NEW r \in DOMAIN runs, AtWork(r), NEW row, Put(row),
         NEW live, NEW phase, RunAlone(r, live, phase), UNCHANGED <<lane, ops, ghost>>,
         \/ /\ phase = "open"
            /\ row.ev = "start" \/ (runs[r].phase = "open" /\ row.ev \in {"build", "review", "commit"})
         \/ phase \notin {"born", "open"} /\ row.ev \in {"stop", "ready", "pr"}
  PROVE  RaceInv'
<1>1. row.ev \in Kinds
  BY DEF Kinds, CallRows
<1>2. RowsGrow /\ OffPid
  BY <1>1 DEF RowsGrow, OffPid
<1>3. Shapes'
  BY <1>2, RunShapes DEF RaceInv, RunAlone
<1>4. runs'[r].phase = phase /\ (phase \notin {"born", "open"} => ~AtWork(r)')
  BY DEF RunAlone, AtWork
<1>5. ASSUME ~ghost'.raced
      PROVE  Races'
  BY <1>4, <1>5, RunWrites DEF RaceInv, RunAlone
<1> QED
  BY <1>3, <1>5 DEF RaceInv

\* A run that writes none, and the world outside.
LEMMA RunSilent ==
  ASSUME RaceInv, NEW r \in DOMAIN runs, NEW live, RunAlone(r, live, runs[r].phase),
         live => runs[r].live, UNCHANGED <<journal, ops, ghost>>, OffPid
  PROVE  RaceInv'
<1>1. RowsKept /\ RowsGrow /\ DOMAIN runs' = DOMAIN runs
  BY DEF RowsKept, RowsGrow, RunAlone
<1>2. Shapes'
  BY <1>1, RunShapes DEF RaceInv, RunAlone
<1>3. \A s \in DOMAIN runs : AtWork(s)' => AtWork(s) /\ runs'[s].phase = runs[s].phase
  BY DEF RunAlone, AtWork
<1>4. ASSUME ~ghost'.raced
      PROVE  Races'
  <2>1. Shapes /\ Races
    BY <1>4 DEF RaceInv
  <2>2. PidNames'
    <3>1. lane'.pid = lane.pid
      BY <2>1, LaneStays DEF Shapes
    <3> QED
      BY <1>1, <1>3, <2>1, <3>1 DEF Races, PidNames
  <2>3. ClearedQuiet'
    <3> SUFFICES ASSUME NEW o \in Ops, Cleared(o)'
                 PROVE  Quiet(EndOf(ops[o]))' \/ Retaken(o)'
      BY DEF ClearedQuiet
    <3>1. Cleared(o)
      BY DEF Cleared
    <3> QED
      BY <1>1, <1>3, <2>1, <3>1, QuietKept DEF Launches
  <2> QED
    BY <1>1, <1>3, <2>1, <2>2, <2>3, RacesKept DEF Launches
<1> QED
  BY <1>2, <1>4 DEF RaceInv

\* A run's step keeps it.
LEMMA RaceRuns ==
  ASSUME RaceInv, NEW r \in DOMAIN runs, Run(r)
  PROVE  RaceInv'
<1>0. RunShape /\ \A v, w :
        /\ runs' = runs => RunAlone(r, runs[r].live, runs[r].phase)
        /\ runs' = [runs EXCEPT ![r].live = v] => RunAlone(r, v, runs[r].phase)
        /\ runs' = [runs EXCEPT ![r].phase = v] => RunAlone(r, runs[r].live, v)
        /\ runs' = [runs EXCEPT ![r].reviews = v] => RunAlone(r, runs[r].live, runs[r].phase)
        /\ runs' = [runs EXCEPT ![r].commit = v] => RunAlone(r, runs[r].live, runs[r].phase)
        /\ Based(r, v, w) => RunAlone(r, runs[r].live, runs[r].phase)
  BY RunMoves DEF RaceInv, Shapes
<1> USE DEF Running, AtWork
<1>1. CASE RunBegins(r)
  <2>1. PICK row : Put(row) /\ row.ev = "start"
    BY <1>1 DEF RunBegins, Write, Row
  <2>2. RunAlone(r, runs[r].live, "open") /\ AtWork(r) /\ UNCHANGED <<lane, ops, ghost>>
    BY <1>0, <1>1 DEF RunBegins, Write
  <2> QED
    BY <2>1, <2>2, RunTells
<1>2. CASE RunBuilds(r)
  <2>1. PICK row : Put(row) /\ row.ev = "build"
    BY <1>2 DEF RunBuilds, Write, Row
  <2>2. /\ RunAlone(r, runs[r].live, "open") /\ AtWork(r) /\ runs[r].phase = "open"
        /\ UNCHANGED <<lane, ops, ghost>>
    BY <1>0, <1>2 DEF RunBuilds, Write
  <2> QED
    BY <2>1, <2>2, RunTells
<1>3. CASE RunReviews(r)
  <2>1. PICK row : Put(row) /\ row.ev = "review"
    BY <1>3 DEF RunReviews, Write, Row
  <2>2. /\ RunAlone(r, runs[r].live, "open") /\ AtWork(r) /\ runs[r].phase = "open"
        /\ UNCHANGED <<lane, ops, ghost>>
    BY <1>0, <1>3 DEF RunReviews, Write
  <2> QED
    BY <2>1, <2>2, RunTells
<1>4. CASE RunRecordsCommit(r)
  <2>1. PICK row : Put(row) /\ row.ev = "commit"
    BY <1>4 DEF RunRecordsCommit, Write, Row
  <2>2. /\ RunAlone(r, runs[r].live, "open") /\ AtWork(r) /\ runs[r].phase = "open"
        /\ UNCHANGED <<lane, ops, ghost>>
    BY <1>0, <1>4 DEF RunRecordsCommit, Write
  <2> QED
    BY <2>1, <2>2, RunTells
<1>5. CASE RunPublishes(r)
  <2>1. PICK row : Put(row) /\ row.ev = "pr"
    BY <1>5 DEF RunPublishes, Write, Row
  <2>2. RunAlone(r, runs[r].live, "published") /\ AtWork(r) /\ UNCHANGED <<lane, ops, ghost>>
    BY <1>0, <1>5 DEF RunPublishes, Write
  <2> QED
    BY <2>1, <2>2, RunTells
<1>6. CASE RunReady(r)
  <2>1. PICK row : Put(row) /\ row.ev = "ready"
    BY <1>6 DEF RunReady, Write, Row
  <2>2. RunAlone(r, runs[r].live, "ready") /\ AtWork(r) /\ UNCHANGED <<lane, ops, ghost>>
    BY <1>0, <1>6 DEF RunReady, Write
  <2> QED
    BY <2>1, <2>2, RunTells
<1>7. CASE RunStops(r)
  <2>1. PICK row : Put(row) /\ row.ev = "stop"
    BY <1>7 DEF RunStops, Write, Row
  <2>2. RunAlone(r, runs[r].live, "stopped") /\ AtWork(r) /\ UNCHANGED <<lane, ops, ghost>>
    BY <1>0, <1>7 DEF RunStops, Write
  <2> QED
    BY <2>1, <2>2, RunTells
<1>8. CASE RunRebases(r) \/ RunCommits(r)
  <2>1. RunAlone(r, runs[r].live, runs[r].phase) /\ UNCHANGED <<journal, ops, ghost>>
    BY <1>0, <1>8, HeadMoves
  <2>2. OffPid
    BY <1>8, HeadMoves DEF OffPid
  <2> QED
    BY <2>1, <2>2, RunSilent
<1>9. CASE RunPushes(r)
  <2>1. RunAlone(r, runs[r].live, runs[r].phase) /\ UNCHANGED <<journal, ops, ghost>>
    BY <1>0, <1>9 DEF RunPushes
  <2>2. OffPid
    BY <1>9 DEF RunPushes, OffPid
  <2> QED
    BY <2>1, <2>2, RunSilent
<1>10. CASE RunEnds(r)
  <2>1. RunAlone(r, FALSE, runs[r].phase) /\ UNCHANGED <<journal, ops, ghost>>
    BY <1>0, <1>10 DEF RunEnds
  <2>2. OffPid
    BY <1>10 DEF RunEnds, OffPid
  <2> QED
    BY <2>1, <2>2, RunSilent
<1> QED
  BY <1>1, <1>2, <1>3, <1>4, <1>5, <1>6, <1>7, <1>8, <1>9, <1>10 DEF Run

\* What someone does to the pull request, and a step in which nothing happens.
LEMMA RaceRests ==
  ASSUME RaceInv, UNCHANGED <<journal, runs, ops, ghost>>, OffPid
  PROVE  RaceInv'
<1>1. RowsKept /\ RowsGrow /\ DOMAIN runs' = DOMAIN runs
  BY DEF RowsKept, RowsGrow
<1>2. Shapes /\ RowShape' /\ RowsStay /\ journal' = journal
  BY <1>1, Grows DEF RaceInv, Shapes
<1>3. LaneShape' /\ lane'.pid = lane.pid
  BY <1>2, LaneStays DEF Shapes
<1>4. Shapes'
  <2>1. ActsPlaced'
    BY <1>1, <1>2, ActsStay DEF Shapes, Launches
  <2>2. FirstRun'
    BY <1>1, <1>2, FirstKept DEF Shapes
  <2>3. RunShape' /\ lane'.pid \in Pids'
    BY <1>2, <1>3 DEF Shapes, RunShape, PidsKnown, Pids
  <2> QED
    BY <1>1, <1>2, <1>3, <2>1, <2>2, <2>3, ShapesKept
<1>5. ASSUME ~ghost'.raced
      PROVE  Races'
  <2>1. Races
    BY <1>5 DEF RaceInv
  <2>2. \A s \in DOMAIN runs : AtWork(s)' => AtWork(s) /\ runs'[s].phase = runs[s].phase
    BY DEF AtWork
  <2>3. PidNames'
    BY <1>3, <2>1 DEF Races, PidNames, AtWork
  <2>4. ClearedQuiet'
    <3> SUFFICES ASSUME NEW o \in Ops, Cleared(o)'
                 PROVE  Quiet(EndOf(ops[o]))' \/ Retaken(o)'
      BY DEF ClearedQuiet
    <3>1. Cleared(o)
      BY DEF Cleared
    <3> QED
      BY <1>1, <1>2, <2>1, <2>2, <3>1, QuietKept DEF Launches
  <2> QED
    BY <1>1, <1>2, <2>1, <2>2, <2>3, <2>4, RacesKept DEF Launches
<1> QED
  BY <1>4, <1>5 DEF RaceInv

\* What a lane has been through keeps it.
LEMMA RaceInit ==
  ASSUME Init
  PROVE  RaceInv
<1>1. PICK h \in Histories :
        /\ journal = h.journal /\ lane = h.lane /\ runs = h.runs
        /\ ghost = [acts |-> h.acts, unrecorded |-> {}, raced |-> FALSE]
  BY DEF Init
<1>2. PICK n : n = Len(journal)
  OBVIOUS
<1>3. Lived(h)
  BY HistoriesAssumption
<1>4. /\ journal \in Seq([ev : Kinds, num : Nat, head : Nat])
      /\ runs \in Seq([live : BOOLEAN, phase : STRING, finish : BOOLEAN,
                       prior : Nat, reviews : Nat, commit : STRING, below : Nat])
      /\ lane \in [dir : STRING, tree : BOOLEAN, head : Nat, tip : Nat, pr : STRING,
                   pid : Nat \union {None}, spec : [rec : Nat, died : BOOLEAN]]
      /\ h.acts \subseteq Launch
      /\ lane.pid \in DOMAIN runs \union {None}
      /\ runs = <<>> => journal = <<>>
      /\ \A act \in h.acts : act.run \in 2..Len(runs) /\ act.stake \in 1..n
  BY <1>1, <1>2, <1>3 DEF Lived
<1>5. /\ \A p \in 1..n : journal[p].ev \in {"build", "review", "commit"} => Began(p)
      /\ \A r \in DOMAIN runs : AtWork(r) =>
           /\ runs[r].phase = "open" /\ Began(n)
           /\ lane.pid \in {r, None}
           /\ r = Len(runs)
      /\ \A p \in 1..n : journal[p].ev = "ready" =>
           \/ (\A r \in DOMAIN runs : ~AtWork(r)) /\ \A q \in (p + 1)..n : journal[q].ev \in CallRows
           \/ \E act \in h.acts : act.at = p
  <2>1. \A p \in 1..n : journal[p].ev = "ready" =>
           \/ /\ \A r \in DOMAIN runs : ~AtWork(r)
              /\ \A q \in (p + 1)..n : journal[q].ev \in CallRows \ {"uncommit"}
           \/ \E act \in h.acts : act.at = p
    <3>1. \A p \in 1..Len(h.journal) : h.journal[p].ev = "ready" =>
             \/ /\ \A r \in DOMAIN h.runs : ~(h.runs[r].live /\ h.runs[r].phase \in {"born", "open"})
                /\ \A q \in (p + 1)..Len(h.journal) : h.journal[q].ev \in CallRows \ {"uncommit"}
                /\ h.lane.head = h.journal[p].head
             \/ \E act \in h.acts : act.at = p
      BY <1>3, ZenonT(60) DEF Lived
    <3> QED
      BY <1>1, <1>2, <3>1 DEF AtWork
  <2>2. /\ \A p \in 1..n : journal[p].ev \in {"build", "review", "commit"} => Began(p)
        /\ \A r \in DOMAIN runs : AtWork(r) =>
             /\ runs[r].phase = "open" /\ Began(n)
             /\ lane.pid \in {r, None}
             /\ r = Len(runs)
    BY <1>1, <1>2, <1>3 DEF Lived, Began, AtWork
  <2> QED
    BY <2>1, <2>2
<1>6. n \in Nat /\ RowShape
  <2>1. \A p \in 1..n : journal[p] \in [ev : Kinds, num : Nat, head : Nat]
    BY <1>2, <1>4, ElementOfSeq
  <2> QED
    BY <1>2, <1>4, <2>1, LenProperties DEF RowShape
<1>7. RunShape
  <2>1. PICK S : /\ S = [live : BOOLEAN, phase : STRING, finish : BOOLEAN,
                         prior : Nat, reviews : Nat, commit : STRING, below : Nat]
                 /\ runs \in Seq(S)
    BY <1>4
  <2>2. \A r \in DOMAIN runs : runs[r] \in S
    BY <2>1, ElementOfSeq, LenProperties
  <2>3. \A run \in S : Worked(run)
    BY <2>1 DEF Worked
  <2> QED
    BY <2>1, <2>2, <2>3 DEF RunShape
<1>8. LaneShape
  BY <1>4 DEF LaneShape, Laned
<1>9. Launches = h.acts /\ ghost.acts = h.acts /\ ~ghost.raced
  BY <1>1, <1>4 DEF Launches, Launch
<1>10. \A o \in Ops : ops[o].n = 0 /\ ops[o].died = None /\ ~Aiming(o) /\ ~Cleared(o)
  BY DEF Init, Fresh, Aiming, Cleared, AimsAt, ClearedAt
<1>11. ActsPlaced
  <2> SUFFICES ASSUME NEW act \in h.acts
               PROVE  act.run \in DOMAIN runs /\ EndOf(act) \in Spots
    BY <1>9 DEF ActsPlaced
  <2>1. act.died = None
    BY <1>4 DEF Launch
  <2>2. act.run \in DOMAIN runs
    BY <1>4, LenProperties
  <2>3. act.stake \in 1..n /\ EndOf(act) = act.stake
    BY <1>4, <2>1 DEF EndOf
  <2> QED
    BY <1>2, <1>6, <2>2, <2>3 DEF Spots
<1>12. Shapes
  <2>1. PidsKnown
    BY <1>4, <1>10 DEF PidsKnown, Pids
  <2>2. \A o \in Ops : Aimed(o)
    BY <1>2, <1>6, <1>10 DEF Aimed, Spots
  <2>3. FirstRun
    <3>1. DOMAIN runs = {} => runs = <<>>
      BY <1>4
    <3>2. journal = <<>> => AllCalls
      BY DEF AllCalls, NoRunBetween
    <3> QED
      BY <1>4, <3>1, <3>2 DEF FirstRun
  <2> QED
    BY <1>6, <1>7, <1>8, <1>11, <2>1, <2>2, <2>3 DEF Shapes
<1>13. Races
  <2>1. OneRun /\ PidNames /\ OpenBegan /\ WorkBegan
    BY <1>2, <1>5 DEF OneRun, PidNames, OpenBegan, WorkBegan
  <2>2. BornCalled
    BY <1>5 DEF BornCalled
  <2>3. ReadyServed
    BY <1>2, <1>5, <1>9 DEF ReadyServed, Quiet, NoneAtWork, NoRunBetween, Served
  <2>4. ClearedQuiet
    BY <1>10 DEF ClearedQuiet
  <2> QED
    BY <2>1, <2>2, <2>3, <2>4 DEF Races
<1> QED
  BY <1>12, <1>13 DEF RaceInv

\* Until a launch is for an end that is not the call's own, run.pid and the
\* journal tell of the one run at work, and every return that has found its end
\* is alone with it, however its steps fall between those of other calls and runs.
THEOREM RaceInvariant == Spec => []RaceInv
<1>1. Init => RaceInv
  BY RaceInit
<1>2. VerbInv /\ RaceInv /\ [Next]_vars => RaceInv'
  <2> SUFFICES ASSUME VerbInv, RaceInv, [Next]_vars PROVE RaceInv'
    OBVIOUS
  <2>1. CASE \E o \in Ops : Verb(o)
    BY <2>1, RaceVerbs
  <2>2. CASE \E r \in DOMAIN runs : Run(r)
    BY <2>2, RaceRuns
  <2>3. CASE Settle
    <3>1. OffPid
      BY <2>3 DEF Settle, OffPid
    <3> QED
      BY <2>3, <3>1, RaceRests DEF Settle
  <2>4. CASE UNCHANGED vars
    BY <2>4, RaceRests DEF vars, OffPid
  <2> QED
    BY <2>1, <2>2, <2>3, <2>4 DEF Next
<1> QED
  BY <1>1, <1>2, VerbInvariant, PTL DEF Spec

\* Two runs are at work on one lane only after a launch for an end that was not
\* the call's own: it had another name by then, or its decision was given back.
THEOREM OneRunAtWork == Spec => []OneRunButRetaken
<1>1. RaceInv => OneRunButRetaken
  BY DEF RaceInv, Races, OneRunButRetaken
<1> QED
  BY <1>1, RaceInvariant, PTL

-----------------------------------------------------------------------------
(* What a commit taken back rests on                                       *)

\* No run has begun or ended in the rows after p, as far as the n-th.
Settled(p, n) == \A q \in (p + 1)..n : journal[q].ev \notin {"start", "stop", "ready"}
Answered(n) == \E act \in Launches : Settled(EndOf(act), n)

\* A return's row is of a return that launched a run, for the end it had read of.
Told(t) == journal[t].ev = "return" => journal[t].num \in 1..t /\ Answered(journal[t].num - 1)
ReturnsTold == \A t \in 1..Len(journal) : Told(t)

\* A return on a stop, from looking at it again to having it confirmed.
WaitsAt(c) == /\ c.verb = "return" /\ c.way = "stop"
              /\ c.pc \in {"stake", "lock", "displace", "replace", "confirm"}

\* What a call knows of the rows it has read: the end it is about was the last
\* one, and is a stop row or the open row of a run; an accept's is a ready row.
DueAt(c) ==
  /\ c.verb = "return" /\ c.pc = "claim" /\ c.way = "ready" => Settled(c.at, c.n)
  /\ ClearedAt(c.verb, c.pc) => Settled(EndOf(c), c.n)
  /\ c.verb = "return" /\ c.pc \in {"hand", "decide"} => Answered(c.n)
  /\ c.pc \in {"confirm", "uncommit"} => c.way = "stop"
  /\ c.verb = "accept" => c.at \in 1..Len(journal) /\ journal[c.at].ev = "ready"
  /\ WaitsAt(c) /\ c.died = None => c.stake \in 1..Len(journal) /\ journal[c.stake].ev = "stop"
  /\ WaitsAt(c) /\ c.died # None => OpenTail(c.n)
Due(o) == DueAt(ops[o])
Waiting(o) == WaitsAt(ops[o])

\* Until a row is written after those it has read, nothing is pushed.
Parked(o) == Waiting(o) /\ ops[o].n = Len(journal) =>
  /\ \A r \in DOMAIN runs : ~(AtWork(r) /\ runs[r].phase = "open")
  /\ Standing(Len(journal)) = 0 \/ lane.tip = 0 \/ \E p \in 1..Len(journal) : Strayed(p)

\* Once confirmed, no commit stands.
BacksAt(c) == c.verb = "return" /\ c.way = "stop" /\ c.pc \in {"spec", "drop", "spawn"}
TakenBack(o) == BacksAt(ops[o]) => Standing(Len(journal)) = 0 \/ Retaken(o)

Dues == ReturnsTold /\ \A o \in Ops : Due(o)
Lays == \A o \in Ops : Parked(o) /\ TakenBack(o)
DueInv == Dues /\ (~ghost.raced => Lays)

-----------------------------------------------------------------------------
(* Rows that are read                                                      *)

\* What has been read of the rows there are stays so.
LEMMA SettledStays ==
  ASSUME RowsStay, NEW p \in Nat, NEW n \in Spots, Settled(p, n)
  PROVE  Settled(p, n)'
BY DEF RowsStay, Spots, Settled

\* So does the answer to an end.
LEMMA AnsweredStays ==
  ASSUME RowsStay, ActsPlaced, Launches \subseteq Launches', NEW n \in Spots, Answered(n)
  PROVE  Answered(n)'
<1>1. PICK act \in Launches : Settled(EndOf(act), n)
  BY DEF Answered
<1>2. EndOf(act) \in Nat /\ EndOf(act)' = EndOf(act)
  BY DEF ActsPlaced, EndOf, Spots, RowsStay
<1>3. \A p \in Nat : Settled(p, n) => Settled(p, n)'
  BY SettledStays
<1>4. Settled(EndOf(act), n)'
  BY <1>1, <1>2, <1>3 DEF Settled
<1> QED
  BY <1>4 DEF Answered

\* The rows of returns tell what they told, if a new one does.
LEMMA ToldStays ==
  ASSUME RowsStay, ActsPlaced, Launches \subseteq Launches', ReturnsTold,
         \A t \in (Len(journal) + 1)..Len(journal') : Told(t)'
  PROVE  ReturnsTold'
<1> SUFFICES ASSUME NEW t \in 1..Len(journal')
             PROVE  Told(t)'
  BY DEF ReturnsTold
<1>1. CASE t \in 1..Len(journal) /\ journal[t].ev = "return"
  <2>1. PICK n : n = journal[t].num - 1
    OBVIOUS
  <2>2. journal'[t] = journal[t] /\ journal[t].num \in 1..t /\ Answered(n)
    BY <1>1, <2>1 DEF RowsStay, ReturnsTold, Told
  <2>3. n \in Spots
    BY <1>1, <2>1, <2>2 DEF RowsStay, Spots
  <2>4. Answered(n)'
    BY <2>2, <2>3, AnsweredStays
  <2>5. journal'[t].num \in 1..t /\ n = journal'[t].num - 1
    BY <2>1, <2>2
  <2> QED
    BY <2>4, <2>5 DEF Told, Answered, Settled
<1>2. CASE t \in 1..Len(journal) /\ journal[t].ev # "return"
  BY <1>2 DEF RowsStay, Told
<1>3. CASE t \notin 1..Len(journal)
  BY <1>3 DEF RowsStay
<1> QED
  BY <1>1, <1>2, <1>3

\* Which returns' rows are late stays as it was.
LEMMA LateStays ==
  ASSUME RowsStay, ReturnsTold, NEW p \in 1..Len(journal)
  PROVE  SupersededReturn(p)' <=> SupersededReturn(p)
<1>1. journal'[p] = journal[p]
  BY DEF RowsStay
<1>2. CASE journal[p].ev # "return"
  BY <1>1, <1>2 DEF SupersededReturn
<1>3. CASE journal[p].ev = "return"
  <2>1. PICK num : num = journal[p].num
    OBVIOUS
  <2>2. num \in 1..p
    BY <1>3, <2>1 DEF ReturnsTold, Told
  <2>3. \A q \in num..(p - 1) : journal'[q] = journal[q]
    BY <2>2 DEF RowsStay
  <2> QED
    BY <1>1, <2>1, <2>3 DEF SupersededReturn
<1> QED
  BY <1>2, <1>3

\* The last row that is not late, where the run is open.
LEMMA TailRow ==
  ASSUME NEW n \in Nat, OpenTail(n)
  PROVE  /\ LastRow(n) \in 1..n /\ ~SupersededReturn(LastRow(n))
         /\ \A p \in 1..n : ~SupersededReturn(p) => p <= LastRow(n)
         /\ journal[LastRow(n)].ev \notin {"stop", "pr", "ready", "accept", "abandon"}
<1> DEFINE S == {p \in 1..n : ~SupersededReturn(p)} \union {0}
<1>1. S \in SUBSET (0..n) /\ S # {}
  OBVIOUS
<1>2. Max(S) \in S /\ \A p \in S : p <= Max(S)
  BY <1>1, LastOf
<1>3. LastRow(n) = Max(S) /\ LastRow(n) # 0
  BY DEF LastRow, Newest, OpenTail
<1>4. LastRow(n) \in S \ {0} /\ \A p \in S : p <= LastRow(n)
  BY <1>2, <1>3
<1> QED
  BY <1>4 DEF OpenTail

\* So does the last row that is not late, and whether the run is open there.
LEMMA TailStays ==
  ASSUME RowsStay, ReturnsTold, NEW n \in Spots, OpenTail(n)
  PROVE  OpenTail(n)'
<1>1. n \in Nat /\ Len(journal) \in Nat /\ n <= Len(journal)
  BY DEF Spots, RowsStay
<1>2. \A p \in 1..n : p \in 1..Len(journal)
  BY <1>1
<1>3. \A p \in 1..n : SupersededReturn(p)' <=> SupersededReturn(p)
  BY <1>2, LateStays
<1>4. {p \in 1..n : ~SupersededReturn(p)'} = {p \in 1..n : ~SupersededReturn(p)}
  BY <1>3
<1>5. LastRow(n)' = LastRow(n)
  BY <1>4 DEF LastRow, Newest
<1>6. LastRow(n) \in 1..n
  BY <1>1, TailRow
<1>7. journal'[LastRow(n)] = journal[LastRow(n)]
  BY <1>2, <1>6 DEF RowsStay
<1> QED
  BY <1>5, <1>7 DEF OpenTail

\* No commit stands after a row that is none, if none did.
LEMMA NoneStands ==
  ASSUME RowShape, NEW row, row.ev \in Kinds \ {"commit"}, Put(row),
         Standing(Len(journal)) = 0 \/ row.ev = "uncommit"
  PROVE  Standing(Len(journal))' = 0
<1>0. PICK n : n = Len(journal)
  OBVIOUS
<1>1. /\ n \in Nat /\ Len(journal') = n + 1 /\ journal'[n + 1] = row
      /\ \A p \in 1..n : journal'[p] = journal[p]
  BY <1>0, RowAfter
<1>2. Of(n + 1, {"commit"})' = Of(n, {"commit"})
  <2>1. \A p \in 1..(n + 1) : journal'[p].ev \in {"commit"} <=> p \in 1..n /\ journal[p].ev \in {"commit"}
    BY <1>1
  <2> QED
    BY <1>1, <2>1 DEF Of
<1>3. PICK c : c = Last(n, {"commit"})
  OBVIOUS
<1>4. c \in 0..n /\ Last(n + 1, {"commit"})' = c
  <2>1. c \in 0..n
    BY <1>1, <1>3, LastRowOf DEF Of
  <2>2. Last(n + 1, {"commit"})' = c
    BY <1>2, <1>3 DEF Last, Newest
  <2> QED
    BY <2>1, <2>2
<1>5. Standing(n) = (IF After(n, c, {"uncommit"}) = {} THEN c ELSE 0)
  BY <1>3 DEF Standing
<1>6. Standing(n + 1)' = (IF After(n + 1, c, {"uncommit"})' = {} THEN c ELSE 0)
  BY <1>4 DEF Standing, After, Of
<1>7. Standing(n + 1)' = 0 => Standing(Len(journal))' = 0
  BY <1>1 DEF Standing, Last, Newest, After, Of
<1>8. CASE row.ev = "uncommit"
  <2>1. n + 1 \in After(n + 1, c, {"uncommit"})'
    BY <1>1, <1>4, <1>8 DEF After, Of
  <2> QED
    BY <1>6, <1>7, <2>1
<1>9. CASE Standing(n) = 0
  <2>1. CASE c = 0
    BY <1>6, <1>7, <2>1
  <2>2. CASE c # 0
    <3>1. PICK q \in After(n, c, {"uncommit"}) : TRUE
      BY <1>5, <1>9, <2>2
    <3>2. q \in After(n + 1, c, {"uncommit"})'
      BY <1>1, <1>4, <3>1 DEF After, Of
    <3> QED
      BY <1>6, <1>7, <3>2
  <2> QED
    BY <2>1, <2>2
<1> QED
  BY <1>0, <1>8, <1>9

\* None stands where no run wrote a row.
LEMMA CallsStand ==
  ASSUME RowShape, AllCalls
  PROVE  Standing(Len(journal)) = 0
<1>1. PICK n : n = Len(journal) /\ n \in Nat
  BY DEF RowShape
<1>2. Of(n, {"commit"}) = {}
  BY <1>1 DEF AllCalls, NoRunBetween, Of, CallRows
<1>3. Last(n, {"commit"}) = 0
  BY <1>1, <1>2, LastRowOf
<1> QED
  BY <1>1, <1>3 DEF Standing

\* A ready row that was returned on as well stays so.
LEMMA StrayedStays ==
  ASSUME RowsStay, ActsPlaced, Launches \subseteq Launches', ghost.unrecorded \subseteq ghost'.unrecorded,
         NEW p \in 1..Len(journal), Strayed(p)
  PROVE  Strayed(p)'
<1>1. PICK act \in Launches : /\ act.at = p => p \in ghost.unrecorded
                              /\ act.at # p => p <= EndOf(act) /\ NoRunBetween(p, EndOf(act))
  BY Zenon DEF Strayed
<1>2. EndOf(act)' = EndOf(act) /\ EndOf(act) \in Spots /\ p \in Nat
  BY DEF EndOf, ActsPlaced
<1>3. act.at # p => p <= EndOf(act) /\ NoRunBetween(p, EndOf(act))'
  BY <1>1, <1>2, SameRows DEF NoRunBetween
<1>4. journal'[p].ev = "ready"
  BY DEF Strayed, RowsStay
<1>5. act \in Launches' /\ (act.at = p => p \in ghost'.unrecorded)
  BY <1>1
<1>6. CASE act.at = p
  BY <1>4, <1>5, <1>6 DEF Strayed
<1>7. CASE act.at # p
  BY <1>2, <1>3, <1>4, <1>5, <1>7 DEF Strayed
<1> QED
  BY <1>6, <1>7

-----------------------------------------------------------------------------
(* What a call knows                                                       *)

\* Rows are there for what a call is about.
Placed(c) ==
  /\ c.n \in Spots
  /\ ClearedAt(c.verb, c.pc) => EndOf(c) \in Spots
  /\ c.verb = "return" /\ c.pc = "claim" /\ c.way = "ready" => c.at \in 1..Len(journal)

\* What a call knows stays true of the rows.
LEMMA DueStays ==
  ASSUME RowsStay, ActsPlaced, Launches \subseteq Launches', ReturnsTold,
         NEW c, Placed(c), DueAt(c)
  PROVE  DueAt(c)'
<1>1. EndOf(c)' = EndOf(c)
  BY DEF EndOf
<1>2. c.verb = "return" /\ c.pc = "claim" /\ c.way = "ready" => Settled(c.at, c.n)'
  <2> SUFFICES ASSUME c.verb = "return", c.pc = "claim", c.way = "ready" PROVE Settled(c.at, c.n)'
    OBVIOUS
  <2>1. c.at \in Nat /\ c.n \in Spots /\ Settled(c.at, c.n)
    BY DEF Placed, DueAt
  <2> QED
    BY <2>1, SettledStays
<1>3. ClearedAt(c.verb, c.pc) => Settled(EndOf(c), c.n)'
  <2> SUFFICES ASSUME ClearedAt(c.verb, c.pc) PROVE Settled(EndOf(c), c.n)'
    OBVIOUS
  <2>1. PICK end : end = EndOf(c)
    OBVIOUS
  <2>2. end \in Nat /\ c.n \in Spots /\ Settled(end, c.n)
    BY <2>1 DEF Placed, DueAt, Spots, RowsStay
  <2>3. Settled(end, c.n)'
    BY <2>2, SettledStays
  <2> QED
    BY <1>1, <2>1, <2>3 DEF Settled
<1>4. c.verb = "return" /\ c.pc \in {"hand", "decide"} => Answered(c.n)'
  BY AnsweredStays DEF Placed, DueAt
<1>5. c.verb = "accept" => c.at \in 1..Len(journal') /\ journal'[c.at].ev = "ready"
  BY DEF DueAt, RowsStay
<1>6. WaitsAt(c) /\ c.died = None => c.stake \in 1..Len(journal') /\ journal'[c.stake].ev = "stop"
  BY DEF DueAt, RowsStay
<1>7. WaitsAt(c) /\ c.died # None => OpenTail(c.n)'
  BY TailStays DEF Placed, DueAt
<1>8. c.pc \in {"confirm", "uncommit"} => c.way = "stop"
  BY DEF DueAt
<1> QED
  BY <1>2, <1>3, <1>4, <1>5, <1>6, <1>7, <1>8, ZenonT(60) DEF DueAt, WaitsAt

\* A call that knows it keeps it.
LEMMA DueOf ==
  ASSUME NEW o \in Ops, NEW c, c = ops'[o], DueAt(c)'
  PROVE  Due(o)'
BY DEF Due, DueAt, WaitsAt, ClearedAt, EndOf, Settled, Answered, OpenTail

\* What is there for the calls.
LEMMA CallsPlaced ==
  ASSUME Shapes, NEW o \in Ops
  PROVE  Placed(ops[o])
<1>1. Aimed(o)
  BY DEF Shapes
<1>2. ops[o].verb = "return" /\ ops[o].pc = "claim" => Aiming(o)
  BY DEF Aiming, AimsAt
<1> QED
  BY <1>1, <1>2 DEF Aimed, Placed, Cleared

\* A call that takes no step knows what it did.
LEMMA DueKept ==
  ASSUME Shapes, RowsStay, Launches \subseteq Launches', Dues, NEW o \in Ops, ops'[o] = ops[o]
  PROVE  Due(o)'
<1>1. PICK c : c = ops[o]
  OBVIOUS
<1>2. Placed(c) /\ DueAt(c) /\ ActsPlaced /\ ReturnsTold
  BY <1>1, CallsPlaced DEF Dues, Due, Shapes
<1>3. DueAt(c)'
  BY <1>2, DueStays
<1> QED
  BY <1>1, <1>3, DueOf

\* One that takes a step knows what it finds.
LEMMA DueFound ==
  ASSUME Shapes, RowsStay, Launches \subseteq Launches', ReturnsTold,
         NEW o \in Ops, NEW c, c = ops'[o], Placed(c), DueAt(c)
  PROVE  Due(o)'
<1>1. ActsPlaced
  BY DEF Shapes
<1>2. DueAt(c)'
  BY <1>1, DueStays
<1> QED
  BY <1>2, DueOf

-----------------------------------------------------------------------------
(* What a step leaves as it was                                            *)

\* A step that writes no row opens no run.
OldRuns == journal' = journal =>
  \A r \in DOMAIN runs' : AtWork(r)' /\ runs'[r].phase = "open" =>
    r \in DOMAIN runs /\ AtWork(r) /\ runs[r].phase = "open"

\* It may push what no return waits for.
Spared(o) == Waiting(o) /\ ops[o].n = Len(journal) =>
  Standing(Len(journal)) = 0 \/ \E p \in 1..Len(journal) : Strayed(p)

\* What is launched is not forgotten.
GhostStays == /\ Launches \subseteq Launches' /\ ghost.unrecorded \subseteq ghost'.unrecorded
              /\ ghost.raced => ghost'.raced

\* A return that waits goes on waiting with nothing pushed.
LEMMA ParkedKept ==
  ASSUME Shapes, RowsGrow, GhostStays, OldRuns, NEW o \in Ops, Parked(o),
         Waiting(o)' => Waiting(o) /\ ops'[o].n = ops[o].n,
         lane'.tip = lane.tip \/ Spared(o)
  PROVE  Parked(o)'
<1>1. RowShape' /\ RowsStay /\ ops[o].n \in Spots /\ ActsPlaced
  BY Grows DEF Shapes, Aimed
<1> SUFFICES ASSUME Waiting(o)', ops'[o].n = Len(journal')
             PROVE  /\ \A r \in DOMAIN runs' : ~(AtWork(r)' /\ runs'[r].phase = "open")
                    /\ \/ Standing(Len(journal))' = 0
                       \/ lane'.tip = 0
                       \/ \E p \in 1..Len(journal') : Strayed(p)'
  BY DEF Parked
<1>2. journal' = journal
  <2>1. ASSUME NEW row, row.ev \in Kinds, Put(row)
        PROVE  FALSE
    <3>1. Len(journal') = Len(journal) + 1 /\ Len(journal) \in Nat
      BY <2>1, RowAfter DEF Shapes
    <3> QED
      BY <1>1, <3>1 DEF Spots
  <2> QED
    BY <2>1 DEF RowsGrow
<1>3. Waiting(o) /\ ops[o].n = Len(journal)
  BY <1>2
<1>4. \A r \in DOMAIN runs : ~(AtWork(r) /\ runs[r].phase = "open")
  BY <1>3 DEF Parked
<1>5. \A r \in DOMAIN runs' : ~(AtWork(r)' /\ runs'[r].phase = "open")
  BY <1>2, <1>4 DEF OldRuns
<1>6. Standing(Len(journal))' = Standing(Len(journal))
  BY <1>2 DEF Standing, Last, Newest, After, Of
<1>7. \A p \in 1..Len(journal) : Strayed(p) => Strayed(p)'
  BY <1>1, StrayedStays DEF GhostStays
<1>8. \/ Standing(Len(journal)) = 0 \/ \E p \in 1..Len(journal) : Strayed(p)
      \/ lane'.tip = lane.tip /\ lane.tip = 0
  BY <1>3 DEF Parked, Spared
<1> QED
  BY <1>2, <1>5, <1>6, <1>7, <1>8

\* One that has its end confirmed goes on with no commit standing.
LEMMA TakenKept ==
  ASSUME Shapes, RowsGrow, GhostStays, NEW o \in Ops, TakenBack(o), BacksAt(ops[o]),
         ops'[o].verb = ops[o].verb, ops'[o].at = ops[o].at,
         ops'[o].stake = ops[o].stake, ops'[o].died = ops[o].died,
         journal' = journal \/ (\E row : row.ev \in Kinds \ {"commit"} /\ Put(row)) \/ Retaken(o)
  PROVE  TakenBack(o)'
<1>1. RowsStay /\ RowShape /\ ActsPlaced /\ Aimed(o)
  BY Grows DEF Shapes
<1>2. CASE Retaken(o)
  <2>1. Cleared(o)
    BY DEF Cleared, ClearedAt, BacksAt, Returning
  <2>2. Retaken(o)'
    BY <1>1, <1>2, <2>1, RetakenStays DEF GhostStays
  <2> QED
    BY <2>2 DEF TakenBack
<1>3. CASE ~Retaken(o)
  <2>1. Standing(Len(journal)) = 0
    BY <1>3 DEF TakenBack
  <2>2. CASE journal' = journal
    <3>1. Standing(Len(journal))' = Standing(Len(journal))
      BY <2>2 DEF Standing, Last, Newest, After, Of
    <3> QED
      BY <2>1, <3>1 DEF TakenBack
  <2>3. CASE \E row : row.ev \in Kinds \ {"commit"} /\ Put(row)
    <3>1. Standing(Len(journal))' = 0
      BY <1>1, <2>1, <2>3, NoneStands
    <3> QED
      BY <3>1 DEF TakenBack
  <2> QED
    BY <1>3, <2>2, <2>3
<1> QED
  BY <1>2, <1>3

\* A verb's step, as far as the other calls are concerned.
LEMMA DueStep ==
  ASSUME RaceInv, DueInv, NEW o \in Ops, Alone(o), RowsKept, GhostStays, OldRuns, ReturnsTold', Due(o)',
         ~ghost'.raced => Parked(o)' /\ TakenBack(o)',
         lane'.tip = lane.tip \/ (~ghost.raced => \A q \in Ops : Spared(q))
  PROVE  DueInv'
<1>1. Shapes /\ RowsGrow /\ RowsStay
  BY CallsOnly DEF RaceInv, Shapes
<1>2. Dues'
  <2>1. \A q \in Ops \ {o} : Due(q)'
    BY <1>1, DueKept DEF DueInv, GhostStays, Alone
  <2> QED
    BY <2>1 DEF Dues
<1>3. ASSUME ~ghost'.raced
      PROVE  Lays'
  <2>1. Lays /\ ~ghost.raced
    BY <1>3 DEF DueInv, GhostStays
  <2>2. journal' = journal \/ (\E row : row.ev \in Kinds \ {"commit"} /\ Put(row))
    BY DEF RowsKept, Kinds, CallRows
  <2>3. ASSUME NEW q \in Ops \ {o}
        PROVE  Parked(q)' /\ TakenBack(q)'
    <3>1. ops'[q] = ops[q] /\ Parked(q) /\ TakenBack(q)
      BY <2>1 DEF Alone, Lays
    <3>2. Parked(q)'
      BY <1>1, <2>1, <3>1, ParkedKept DEF Waiting, WaitsAt
    <3>3. CASE BacksAt(ops[q])
      BY <1>1, <2>2, <3>1, <3>2, <3>3, TakenKept
    <3>4. CASE ~BacksAt(ops[q])
      BY <3>1, <3>2, <3>4 DEF TakenBack, BacksAt
    <3> QED
      BY <3>2, <3>3, <3>4
  <2> QED
    BY <1>3, <2>3 DEF Lays
<1> QED
  BY <1>2, <1>3 DEF DueInv

\* A step of a run, and of the world outside.
LEMMA DueRests ==
  ASSUME RaceInv, DueInv, RowsGrow, UNCHANGED <<ops, ghost>>, OldRuns,
         journal' = journal \/ (\E row : row.ev \in Kinds \ {"return"} /\ Put(row)),
         ~ghost.raced => /\ \A q \in Ops : lane'.tip = lane.tip \/ Spared(q)
                         /\ \A q \in Ops : \/ journal' = journal
                                           \/ \E row : row.ev \in Kinds \ {"commit"} /\ Put(row)
                                           \/ Cleared(q) => Retaken(q)
  PROVE  DueInv'
<1>1. Shapes /\ RowsStay /\ RowShape
  BY Grows DEF RaceInv, Shapes
<1>2. GhostStays
  BY DEF GhostStays, Launches
<1>3. Dues'
  <2>1. \A q \in Ops : Due(q)'
    BY <1>1, <1>2, DueKept DEF DueInv, GhostStays
  <2>2. \A t \in (Len(journal) + 1)..Len(journal') : journal'[t].ev # "return"
    <3>1. CASE journal' = journal
      BY <1>1, <3>1 DEF RowsStay
    <3>2. CASE \E row : row.ev \in Kinds \ {"return"} /\ Put(row)
      <4>1. PICK row : row.ev \in Kinds \ {"return"} /\ Put(row)
        BY <3>2
      <4>2. Len(journal) \in Nat /\ Len(journal') = Len(journal) + 1 /\ journal'[Len(journal) + 1] = row
        BY <1>1, <4>1, RowAfter
      <4> QED
        BY <4>1, <4>2
    <3> QED
      BY <3>1, <3>2
  <2>3. ReturnsTold'
    <3>1. \A t \in (Len(journal) + 1)..Len(journal') : Told(t)'
      BY <2>2 DEF Told
    <3> QED
      BY <1>1, <1>2, <3>1, ToldStays DEF DueInv, Dues, GhostStays, Shapes
  <2> QED
    BY <2>1, <2>3 DEF Dues
<1>4. ASSUME ~ghost'.raced
      PROVE  Lays'
  <2>1. Lays /\ ~ghost.raced
    BY <1>4 DEF DueInv
  <2>2. ASSUME NEW q \in Ops
        PROVE  Parked(q)' /\ TakenBack(q)'
    <3>1. ops'[q] = ops[q] /\ Parked(q) /\ TakenBack(q)
      BY <2>1 DEF Lays
    <3>2. Parked(q)'
      BY <1>1, <1>2, <2>1, <3>1, ParkedKept DEF Waiting, WaitsAt
    <3>3. CASE BacksAt(ops[q])
      <4>1. Cleared(q)
        BY <3>3 DEF Cleared, ClearedAt, BacksAt, Returning
      <4> QED
        BY <1>1, <1>2, <2>1, <3>1, <3>2, <3>3, <4>1, TakenKept
    <3>4. CASE ~BacksAt(ops[q])
      BY <3>1, <3>2, <3>4 DEF TakenBack, BacksAt
    <3> QED
      BY <3>2, <3>3, <3>4
  <2> QED
    BY <2>2 DEF Lays
<1> QED
  BY <1>3, <1>4 DEF DueInv

-----------------------------------------------------------------------------
(* What a verb's step leaves as it was                                     *)

\* Other fields of the lane than the tip that was pushed.
OffTip ==
  \E v : \/ lane' = lane
         \/ lane' = [lane EXCEPT !.dir = v]
         \/ lane' = [lane EXCEPT !.tree = v]
         \/ lane' = [lane EXCEPT !.head = v]
         \/ lane' = [lane EXCEPT !.pr = v]
         \/ lane' = [lane EXCEPT !.pid = v]
         \/ lane' = [lane EXCEPT !.spec = v]

\* They leave it alone.
LEMMA TipStays ==
  ASSUME LaneShape, OffTip
  PROVE  lane'.tip = lane.tip
<1>1. PICK l : l = lane /\ Laned(l)
  BY DEF LaneShape
<1>2. PICK v : \/ lane' = l
               \/ lane' = [l EXCEPT !.dir = v]
               \/ lane' = [l EXCEPT !.tree = v]
               \/ lane' = [l EXCEPT !.head = v]
               \/ lane' = [l EXCEPT !.pr = v]
               \/ lane' = [l EXCEPT !.pid = v]
               \/ lane' = [l EXCEPT !.spec = v]
  BY <1>1 DEF OffTip
<1> QED
  BY <1>1, <1>2 DEF Laned

\* A step that writes a row of a verb at most, and pushes nothing a return waits for.
Mild ==
  /\ RowsKept /\ OldRuns /\ GhostStays /\ ReturnsTold'
  /\ lane'.tip = lane.tip \/ (~ghost.raced => \A q \in Ops : Spared(q))

\* One that writes none, opens no run, and forgets nothing.
LEMMA MildStill ==
  ASSUME RaceInv, DueInv, journal' = journal, OldRuns, GhostStays, OffTip
  PROVE  Mild
<1>1. lane'.tip = lane.tip
  BY TipStays DEF RaceInv, Shapes
<1>2. RowsKept
  BY DEF RowsKept
<1>3. ReturnsTold'
  <2>1. RowsStay /\ ActsPlaced
    BY <1>2, CallsOnly DEF RaceInv, Shapes
  <2> QED
    BY <1>2, <2>1, ToldStays DEF DueInv, Dues, GhostStays, RowsStay
<1> QED
  BY <1>1, <1>2, <1>3 DEF Mild

\* One of a call that writes nothing.
LEMMA MildRead ==
  ASSUME RaceInv, DueInv, UNCHANGED <<journal, runs, ghost>>, OffTip
  PROVE  Mild
<1>1. GhostStays /\ OldRuns
  BY DEF GhostStays, Launches, OldRuns, AtWork
<1> QED
  BY <1>1, MildStill

\* One that writes a row of a verb.
LEMMA MildRow ==
  ASSUME RaceInv, DueInv, NEW row, row.ev \in CallRows, Put(row),
         row.ev = "return" => row.num \in 1..(Len(journal) + 1) /\ Answered(row.num - 1),
         UNCHANGED <<lane, runs>>, GhostStays
  PROVE  Mild
<1>1. RowsKept /\ OldRuns /\ Shapes
  BY DEF RowsKept, OldRuns, AtWork, RaceInv
<1>2. RowsStay /\ ActsPlaced
  BY <1>1, CallsOnly DEF Shapes
<1>3. Len(journal) \in Nat /\ Len(journal') = Len(journal) + 1 /\ journal'[Len(journal) + 1] = row
  BY <1>1, RowAfter DEF Shapes, Kinds
<1>4. PICK t, n : t = Len(journal) + 1 /\ n = row.num - 1
  OBVIOUS
<1>5. Told(t)'
  <2>1. CASE row.ev = "return"
    <3>1. n \in Spots /\ Answered(n) /\ row.num \in 1..t
      BY <1>3, <1>4, <2>1 DEF Spots
    <3>2. Answered(n)'
      BY <1>2, <3>1, AnsweredStays DEF GhostStays
    <3>3. n = journal'[t].num - 1
      BY <1>3, <1>4
    <3> QED
      BY <1>3, <1>4, <3>1, <3>2, <3>3 DEF Told, Answered, Settled
  <2>2. CASE row.ev # "return"
    BY <1>3, <1>4, <2>2 DEF Told
  <2> QED
    BY <2>1, <2>2
<1>6. ReturnsTold'
  <2>1. \A k \in (Len(journal) + 1)..Len(journal') : k = t
    BY <1>3, <1>4
  <2>2. \A k \in (Len(journal) + 1)..Len(journal') : Told(k)'
    BY <1>5, <2>1 DEF Told
  <2> QED
    BY <1>2, <2>2, ToldStays DEF DueInv, Dues, GhostStays
<1> QED
  BY <1>1, <1>6 DEF Mild

\* A call that is no return and no accept knows nothing.
LEMMA DueFrees ==
  ASSUME RaceInv, DueInv, NEW o \in Ops, Alone(o), Mild, InPlace(o)', ops'[o].verb \notin {"return", "accept"}
  PROVE  DueInv'
<1>1. ops'[o].pc \notin {"confirm", "uncommit"}
  BY PlaceSets DEF InPlace, Verbs, Accepting
<1>2. Due(o)'
  BY <1>1 DEF Due, DueAt, ClearedAt, WaitsAt
<1>3. Parked(o)' /\ TakenBack(o)'
  BY DEF Parked, Waiting, WaitsAt, TakenBack, BacksAt
<1> QED
  BY <1>2, <1>3, DueStep DEF Mild

\* So does one that leaves.
LEMMA DueLeaves ==
  ASSUME VerbInv, RaceInv, DueInv, NEW o \in Ops, Leave(o), Mild
  PROVE  DueInv'
<1>1. Alone(o) /\ ops'[o].pc = "done" /\ ops'[o].verb = "none"
  BY GoAway DEF VerbInv, Alone
<1>2. InPlace(o)'
  BY <1>1, PlaceSets DEF InPlace, Verbs
<1> QED
  BY <1>1, <1>2, DueFrees

\* A call that goes on with what it has read, to a place that asks no more of it.
Onward(o) ==
  /\ ops'[o].verb = ops[o].verb /\ ops'[o].n = ops[o].n /\ ops'[o].way = ops[o].way
  /\ ops'[o].at = ops[o].at /\ ops'[o].stake = ops[o].stake /\ ops'[o].died = ops[o].died
  /\ ops'[o].verb = "return" =>
       /\ ops'[o].pc # "claim"
       /\ Cleared(o)' => Cleared(o)
       /\ ops'[o].pc \in {"hand", "decide"} => ops[o].pc \in {"hand", "decide"}
       /\ Waiting(o)' => Waiting(o)
  /\ ops'[o].pc \in {"confirm", "uncommit"} => ops[o].way = "stop"

\* It knows what it did.
LEMMA DueGoes ==
  ASSUME RaceInv, DueInv, NEW o \in Ops, Alone(o), Mild, Onward(o),
         ~ghost'.raced => TakenBack(o)' \/ (BacksAt(ops'[o]) => BacksAt(ops[o]))
  PROVE  DueInv'
<1>1. Shapes /\ RowsStay /\ RowsGrow
  BY CallsOnly DEF RaceInv, Shapes, Mild
<1>2. PICK c, d : c = ops'[o] /\ d = ops[o]
  OBVIOUS
<1>3. Placed(d) /\ DueAt(d)
  BY <1>1, <1>2, CallsPlaced DEF DueInv, Dues, Due
<1>4. EndOf(c) = EndOf(d)
  BY <1>2 DEF Onward, EndOf
<1>5. ClearedAt(c.verb, c.pc) => ClearedAt(d.verb, d.pc)
  BY <1>2 DEF Onward, Cleared, ClearedAt
<1>6. WaitsAt(c) => WaitsAt(d)
  BY <1>2 DEF Onward, Waiting, WaitsAt
<1>7. /\ c.verb = d.verb /\ c.n = d.n /\ c.way = d.way /\ c.at = d.at /\ c.stake = d.stake /\ c.died = d.died
      /\ c.verb = "return" => c.pc # "claim"
      /\ c.verb = "return" /\ c.pc \in {"hand", "decide"} => d.pc \in {"hand", "decide"}
      /\ c.pc \in {"confirm", "uncommit"} => c.way = "stop"
  BY <1>2 DEF Onward
<1>8. Placed(c)
  BY <1>3, <1>4, <1>5, <1>7 DEF Placed
<1>9. DueAt(c)
  <2>1. ClearedAt(c.verb, c.pc) => Settled(EndOf(c), c.n)
    BY <1>3, <1>4, <1>5, <1>7 DEF DueAt
  <2>2. WaitsAt(c) /\ c.died = None => c.stake \in 1..Len(journal) /\ journal[c.stake].ev = "stop"
    BY <1>3, <1>6, <1>7 DEF DueAt
  <2>3. WaitsAt(c) /\ c.died # None => OpenTail(c.n)
    BY <1>3, <1>6, <1>7 DEF DueAt
  <2>4. c.verb = "accept" => c.at \in 1..Len(journal) /\ journal[c.at].ev = "ready"
    BY <1>3, <1>7 DEF DueAt
  <2>5. c.verb = "return" /\ c.pc \in {"hand", "decide"} => Answered(c.n)
    BY <1>3, <1>7 DEF DueAt
  <2> QED
    BY <1>7, <2>1, <2>2, <2>3, <2>4, <2>5 DEF DueAt
<1>10. Due(o)'
  BY <1>1, <1>2, <1>8, <1>9, DueFound DEF DueInv, Dues, Mild, GhostStays
<1>11. ASSUME ~ghost'.raced
       PROVE  Parked(o)' /\ TakenBack(o)'
  <2>1. Lays /\ ~ghost.raced
    BY <1>11 DEF DueInv, Mild, GhostStays
  <2>2. Parked(o)'
    <3>1. Waiting(o)' => Waiting(o) /\ ops'[o].n = ops[o].n
      BY DEF Onward, Waiting, WaitsAt
    <3> QED
      BY <1>1, <2>1, <3>1, ParkedKept DEF Lays, Mild
  <2>3. TakenBack(o)'
    <3>1. CASE TakenBack(o)'
      BY <3>1
    <3>2. CASE ~BacksAt(ops'[o])
      BY <3>2 DEF TakenBack, BacksAt
    <3>3. CASE BacksAt(ops[o])
      <4>1. journal' = journal \/ (\E row : row.ev \in Kinds \ {"commit"} /\ Put(row))
        BY DEF Mild, RowsKept, Kinds, CallRows
      <4> QED
        BY <1>1, <2>1, <3>3, <4>1, TakenKept DEF Lays, Mild, Onward
    <3> QED
      BY <1>11, <3>1, <3>2, <3>3
  <2> QED
    BY <2>2, <2>3
<1> QED
  BY <1>10, <1>11, DueStep DEF Mild

\* A call that is replaced by one that waits for nothing.
LEMMA DueNew ==
  ASSUME RaceInv, DueInv, NEW o \in Ops, Alone(o), Mild, NEW c, c = ops'[o],
         Placed(c), DueAt(c), ~WaitsAt(c), ~BacksAt(c)
  PROVE  DueInv'
<1>1. RowsStay /\ Shapes
  BY CallsOnly DEF RaceInv, Shapes, Mild
<1>2. Due(o)'
  BY <1>1, DueFound DEF DueInv, Dues, Mild, GhostStays
<1>3. Parked(o)' /\ TakenBack(o)'
  BY DEF Parked, Waiting, WaitsAt, TakenBack, BacksAt
<1> QED
  BY <1>2, <1>3, DueStep DEF Mild

-----------------------------------------------------------------------------
(* Each action                                                             *)

\* Every call is at a place of its verb.
InPlaceAll == \A o \in Ops : InPlace(o)

\* A call that fails, or dies, leaves.
LEMMA DueFails ==
  ASSUME VerbInv, RaceInv, DueInv, NEW o \in Ops,
         \/ Refuse(o) \/ Forfeit(o) \/ Unlocked(o) \/ Unstaked(o)
         \/ Release(o) /\ OffTip
  PROVE  DueInv'
<1>1. Leave(o) /\ UNCHANGED <<journal, runs, ghost>>
  BY DEF Refuse, Forfeit, Unlocked, Unstaked, Release, LetGo
<1>2. OffTip
  BY DEF Refuse, Forfeit, Unlocked, Unstaked, OffTip
<1> QED
  BY <1>1, <1>2, MildRead, DueLeaves

\* A verb that is no return and no accept goes on without a row.
LEMMA DueProceeds ==
  ASSUME VerbInv, RaceInv, DueInv, NEW o \in Ops, InPlace(o)', NEW pc, Go(o, pc),
         UNCHANGED <<journal, runs, ghost>>, OffTip, ops[o].verb \notin {"return", "accept"}
  PROVE  DueInv'
<1>1. Alone(o) /\ ops'[o].verb = ops[o].verb
  BY GoRead DEF VerbInv
<1> QED
  BY <1>1, MildRead, DueFrees

\* A start before it launches.
LEMMA DueStarted ==
  ASSUME VerbInv, InPlaceAll', RaceInv, DueInv, NEW o \in Ops, BeginStart(o) \/ AddWorktree(o) \/ RecordLane(o)
  PROVE  DueInv'
<1>1. InPlace(o)'
  BY DEF InPlaceAll
<1>2. CASE BeginStart(o)
  <2>1. PICK d : d = ops[o] /\ Fielded(d)
    BY DEF VerbInv, CallShape
  <2>2. PICK c : c = [ops[o] EXCEPT !.pc = "add", !.verb = "start"]
    OBVIOUS
  <2>3. c = [d EXCEPT !.pc = "add", !.verb = "start"]
    BY <2>1, <2>2
  <2>4. Fielded(c) /\ c.verb = "start"
    BY <2>1, <2>3 DEF Fielded
  <2>5. ops' = [ops EXCEPT ![o] = c] /\ UNCHANGED <<journal, lane, runs, ghost>>
    BY <1>2, <2>2 DEF BeginStart
  <2>6. Alone(o) /\ ops'[o] = c
    BY <2>4, <2>5, Replaced DEF VerbInv, Alone
  <2> QED
    BY <1>1, <2>4, <2>5, <2>6, MildRead, DueFrees DEF OffTip
<1>3. CASE AddWorktree(o) \/ RecordLane(o)
  <2>1. ops[o].verb = "start"
    BY <1>3, VerbAt DEF VerbInv, AddWorktree, RecordLane, At
  <2>2. CASE Refuse(o)
    BY <2>2, DueFails
  <2>3. CASE ~Refuse(o)
    <3>1. UNCHANGED <<journal, runs, ghost>> /\ OffTip
      BY <1>3, <2>3 DEF AddWorktree, RecordLane, OffTip
    <3>2. Go(o, "enroll") \/ Go(o, "spawn")
      BY <1>3, <2>3 DEF AddWorktree, RecordLane
    <3> QED
      BY <1>1, <2>1, <3>1, <3>2, DueProceeds
  <2> QED
    BY <2>2, <2>3
<1> QED
  BY <1>2, <1>3

\* A verb that reads the journal.
LEMMA DueLoaded ==
  ASSUME VerbInv, InPlaceAll', RaceInv, DueInv, NEW o \in Ops,
         \/ BeginReturn(o) \/ BeginDiscard(o) \/ BeginRecord(o) \/ BeginCloseout(o)
         \/ \E choice \in {"accept", "abandon"} : BeginReady(o, choice)
  PROVE  DueInv'
<1>1. PICK d : d = ops[o] /\ Fielded(d)
  BY DEF VerbInv, CallShape
<1>2. InPlace(o)' /\ Len(journal) \in Nat /\ Len(journal) \in Spots
  BY DEF InPlaceAll, RaceInv, Shapes, RowShape, Spots
<1>3. ASSUME NEW verb, NEW pc, Load(o, verb, pc), verb # "accept", pc \in {"judge", "inspect", "quiet", "view"}
      PROVE  DueInv'
  <2>1. PICK c : c = [ops[o] EXCEPT !.pc = pc, !.verb = verb, !.n = Len(journal)]
    OBVIOUS
  <2>2. c = [d EXCEPT !.pc = pc, !.verb = verb, !.n = Len(journal)]
    BY <1>1, <2>1
  <2>3. Fielded(c) /\ c.pc = pc /\ c.verb = verb /\ c.n = Len(journal)
    BY <1>1, <2>2 DEF Fielded
  <2>4. ops' = [ops EXCEPT ![o] = c] /\ UNCHANGED <<journal, lane, runs, ghost>>
    BY <1>3, <2>1 DEF Load
  <2>5. Alone(o) /\ ops'[o] = c
    BY <2>3, <2>4, Replaced DEF VerbInv, Alone
  <2>6. Placed(c) /\ DueAt(c) /\ ~WaitsAt(c) /\ ~BacksAt(c)
    BY <1>2, <1>3, <2>3 DEF Placed, DueAt, WaitsAt, BacksAt, ClearedAt, Returning
  <2> QED
    BY <2>4, <2>5, <2>6, MildRead, DueNew DEF OffTip
<1>4. ASSUME NEW choice \in {"accept", "abandon"}, BeginReady(o, choice)
      PROVE  DueInv'
  <2>1. PICK n, ready : /\ n = Len(journal) /\ ready = Last(n, {"ready"}) /\ ready # 0
                        /\ ops' = [ops EXCEPT ![o].pc = "claim", ![o].verb = choice, ![o].n = n,
                                        ![o].at = ready, ![o].way = "ready"]
    BY <1>4 DEF BeginReady
  <2>2. PICK c : c = [ops[o] EXCEPT !.pc = "claim", !.verb = choice, !.n = n, !.at = ready, !.way = "ready"]
    OBVIOUS
  <2>3. c = [d EXCEPT !.pc = "claim", !.verb = choice, !.n = n, !.at = ready, !.way = "ready"]
    BY <1>1, <2>2
  <2>4. Fielded(c) /\ c.verb = choice /\ c.n = n /\ c.at = ready /\ c.pc = "claim"
    BY <1>1, <2>3 DEF Fielded
  <2>5. ops' = [ops EXCEPT ![o] = c]
    BY <2>1, <2>2
  <2>6. Alone(o) /\ ops'[o] = c
    BY <2>4, <2>5, Replaced DEF VerbInv, Alone
  <2>9. UNCHANGED <<journal, lane, runs, ghost>>
    BY <1>4 DEF BeginReady
  <2>7. ready \in 1..Len(journal) /\ journal[ready].ev = "ready"
    BY <1>2, <2>1, LastRowOf DEF Of
  <2>8. Placed(c) /\ DueAt(c) /\ ~WaitsAt(c) /\ ~BacksAt(c)
    BY <1>2, <2>1, <2>4, <2>7 DEF Placed, DueAt, WaitsAt, BacksAt, ClearedAt
  <2> QED
    BY <2>6, <2>8, <2>9, MildRead, DueNew DEF OffTip
<1> QED
  BY <1>3, <1>4 DEF BeginReturn, BeginDiscard, BeginRecord, BeginCloseout

\* A return takes aim.
LEMMA DueJudged ==
  ASSUME VerbInv, RaceInv, DueInv, NEW o \in Ops, Judge(o)
  PROVE  DueInv'
<1>0. PICK n : n = ops[o].n
  OBVIOUS
<1>1. n \in Spots /\ n \in Nat /\ Len(journal) \in Nat
  BY <1>0 DEF RaceInv, Shapes, Aimed, RowShape, Spots
<1>2. CASE Refuse(o)
  BY <1>2, DueFails
<1>3. CASE ~Refuse(o)
  <2>1. PICK dead \in DeadRun(n) :
          LET ready == Last(n, {"ready"})
              stop == IF dead THEN n + 1 ELSE Last(n, {"stop"})
              onStop == dead \/ stop > ready
              p == IF onStop THEN stop ELSE ready
              prior == IF onStop THEN StopPrior(n, stop) ELSE ReadyPrior(ready)
          IN /\ p # 0
             /\ ~onStop => After(n, ready, {"start", "stop"}) = {}
             /\ ops' = [ops EXCEPT ![o].pc = "claim", ![o].at = p, ![o].prior = prior,
                            ![o].way = IF onStop THEN "stop" ELSE "ready",
                            ![o].rec = IF onStop THEN lane.spec.rec ELSE ReadyRec(ready),
                            ![o].died = IF dead THEN lane.pid ELSE None]
    BY <1>0, <1>3, ZenonT(60) DEF Judge
  <2>2. PICK stop, ready, onStop, p, way, died, prior, rec :
          /\ ready = Last(n, {"ready"})
          /\ onStop <=> dead \/ stop > ready
          /\ p = (IF onStop THEN stop ELSE ready) /\ p # 0
          /\ way = (IF onStop THEN "stop" ELSE "ready")
          /\ ~onStop => After(n, ready, {"start", "stop"}) = {}
          /\ ops' = [ops EXCEPT ![o].pc = "claim", ![o].at = p, ![o].prior = prior,
                       ![o].way = way, ![o].rec = rec, ![o].died = died]
    BY <2>1, Zenon
  <2>3. UNCHANGED <<journal, lane, runs, ghost>>
    BY <1>3 DEF Judge
  <2>4. PICK d : d = ops[o] /\ Fielded(d)
    BY DEF VerbInv, CallShape
  <2>5. PICK c : c = [ops[o] EXCEPT !.pc = "claim", !.at = p, !.prior = prior,
                                    !.way = way, !.rec = rec, !.died = died]
    OBVIOUS
  <2>6. c = [d EXCEPT !.pc = "claim", !.at = p, !.prior = prior,
                      !.way = way, !.rec = rec, !.died = died]
    BY <2>4, <2>5
  <2>7. Fielded(c) /\ c.pc = "claim" /\ c.verb = d.verb /\ c.n = n /\ c.at = p /\ c.way = way
    BY <1>0, <2>4, <2>6 DEF Fielded
  <2>8. ops' = [ops EXCEPT ![o] = c]
    BY <2>2, <2>5
  <2>9. ops'[o] = c /\ Alone(o) /\ c.verb = "return"
    <3>1. ops[o].verb = "return"
      BY VerbAt DEF VerbInv, Judge, At
    <3> QED
      BY <2>4, <2>7, <2>8, <3>1, Replaced DEF VerbInv, Alone
  <2>10. way = "ready" => /\ p = Last(n, {"ready"}) /\ p # 0
                          /\ After(n, p, {"start", "stop"}) = {}
    BY <2>2
  <2>11. way = "ready" => p \in 1..Len(journal) /\ Settled(p, n)
    <3> SUFFICES ASSUME way = "ready" PROVE p \in 1..Len(journal) /\ Settled(p, n)
      OBVIOUS
    <3>1. p \in 1..n /\ \A q \in 1..n : journal[q].ev = "ready" => q <= p
      <4>1. p \in Of(n, {"ready"}) /\ \A q \in Of(n, {"ready"}) : q <= p
        BY <1>1, <2>10, LastRowOf
      <4> QED
        BY <4>1 DEF Of
    <3>2. \A q \in (p + 1)..n : journal[q].ev \notin {"start", "stop", "ready"}
      BY <1>1, <2>10, <3>1 DEF After, Of
    <3> QED
      BY <1>1, <3>1, <3>2 DEF Settled, Spots
  <2>12. Placed(c) /\ DueAt(c) /\ ~WaitsAt(c) /\ ~BacksAt(c)
    BY <1>1, <2>7, <2>9, <2>11 DEF Placed, DueAt, WaitsAt, BacksAt, ClearedAt, Returning
  <2> QED
    BY <2>3, <2>9, <2>12, MildRead, DueNew DEF OffTip
<1> QED
  BY <1>2, <1>3

\* A call that has its decision claimed knows what it has read of its end.
LEMMA DueClaimed ==
  ASSUME VerbInv, InPlaceAll', RaceInv, DueInv, NEW o \in Ops, ClaimDecision(o)
  PROVE  DueInv'
<1>1. ops[o].verb \in {"return", "accept", "abandon"} /\ ops[o].pc = "claim"
  BY VerbAt DEF VerbInv, ClaimDecision, At
<1>2. CASE Refuse(o)
  BY <1>2, DueFails
<1>3. CASE ~Refuse(o)
  <2>1. PICK d : d = ops[o] /\ Fielded(d)
    BY DEF VerbInv, CallShape
  <2>2. PICK pc : /\ pc = CASE ops[o].verb = "accept" -> "head"
                            [] ops[o].verb = "abandon" -> "decide"
                            [] OTHER -> IF ops[o].way = "stop" THEN "recheck" ELSE "stake"
                  /\ ops' = [ops EXCEPT ![o].pc = pc, ![o].stake = ops[o].at]
    BY <1>3 DEF ClaimDecision
  <2>3. PICK c : c = [ops[o] EXCEPT !.pc = pc, !.stake = ops[o].at]
    OBVIOUS
  <2>4. c = [d EXCEPT !.pc = pc, !.stake = d.at]
    BY <2>1, <2>3
  <2>5. /\ Fielded(c) /\ c.pc = pc /\ c.verb = d.verb /\ c.at = d.at /\ c.stake = d.at
        /\ c.n = d.n /\ c.way = d.way /\ c.died = d.died
    BY <2>1, <2>4 DEF Fielded
  <2>6. ops' = [ops EXCEPT ![o] = c]
    BY <2>2, <2>3
  <2>7. ops'[o] = c /\ Alone(o)
    BY <2>5, <2>6, Replaced DEF VerbInv, Alone
  <2>8. UNCHANGED <<journal, lane, runs, ghost>>
    BY <1>3 DEF ClaimDecision
  <2>9. Mild
    BY <2>8, MildRead DEF OffTip
  <2>10. Placed(d) /\ DueAt(d)
    BY <2>1, CallsPlaced DEF RaceInv, DueInv, Dues, Due
  <2>11. CASE ops[o].verb = "abandon"
    <3>1. InPlace(o)' /\ ops'[o].verb \notin {"return", "accept"}
      BY <2>1, <2>5, <2>7, <2>11 DEF InPlaceAll
    <3> QED
      BY <2>7, <2>9, <3>1, DueFrees
  <2>12. CASE ops[o].verb = "accept"
    <3>1. pc = "head"
      BY <2>2, <2>12
    <3>2. Placed(c) /\ DueAt(c) /\ ~WaitsAt(c) /\ ~BacksAt(c)
      BY <2>1, <2>5, <2>10, <2>12, <3>1 DEF Placed, DueAt, WaitsAt, BacksAt, ClearedAt
    <3> QED
      BY <2>7, <2>9, <3>2, DueNew
  <2>13. CASE ops[o].verb = "return"
    <3>1. pc = IF d.way = "stop" THEN "recheck" ELSE "stake"
      BY <2>1, <2>2, <2>13
    <3>2. d.verb = "return" /\ d.pc = "claim" /\ d.way \in {"stop", "ready"} /\ (d.way = "ready" => d.died = None)
      BY <1>1, <2>1, <2>13 DEF RaceInv, Shapes, Aimed, Aiming, AimsAt
    <3>3. CASE d.way = "stop"
      <4>1. Placed(c) /\ DueAt(c) /\ ~WaitsAt(c) /\ ~BacksAt(c)
        BY <2>5, <2>10, <3>1, <3>3 DEF Placed, DueAt, WaitsAt, BacksAt, ClearedAt
      <4> QED
        BY <2>7, <2>9, <4>1, DueNew
    <3>4. CASE d.way = "ready"
      <4>1. EndOf(c) = d.at /\ d.at \in 1..Len(journal) /\ Settled(d.at, d.n)
        BY <2>5, <2>10, <3>2, <3>4 DEF EndOf, Placed, DueAt
      <4>2. Len(journal) \in Nat /\ d.at \in Spots
        BY <4>1 DEF RaceInv, Shapes, RowShape, Spots
      <4>3. Placed(c) /\ DueAt(c) /\ ~WaitsAt(c) /\ ~BacksAt(c)
        BY <2>5, <2>10, <3>1, <3>2, <3>4, <4>1, <4>2 DEF Placed, DueAt, WaitsAt, BacksAt, ClearedAt
      <4> QED
        BY <2>7, <2>9, <4>3, DueNew
    <3> QED
      BY <3>2, <3>3, <3>4
  <2> QED
    BY <1>1, <2>11, <2>12, <2>13
<1> QED
  BY <1>2, <1>3

\* A return that looks at its end again finds nothing pushed.
LEMMA DueRechecked ==
  ASSUME VerbInv, RaceInv, DueInv, NEW o \in Ops, Recheck(o)
  PROVE  DueInv'
<1>1. CASE Forfeit(o)
  BY <1>1, DueFails
<1>2. CASE ~Forfeit(o)
  <2>0. PICK n : n = Len(journal)
    OBVIOUS
  <2>1. PICK dead \in DeadRun(n) :
          LET stop == IF dead THEN n + 1 ELSE Last(n, {"stop"})
              rec == ops[o].rec
              sound == /\ n = ops[o].n
                       /\ lane.tree
                       /\ ops[o].died # None => dead /\ lane.pid = ops[o].died
                       /\ stop # 0 /\ ~Reran(n, stop)
                       /\ Of(n, {"pr"}) = {}
                       /\ UndoOk(n) /\ (Standing(n) # 0 => lane.tip = 0)
                       /\ Of(n, {"build"}) # {}
          IN sound /\ ops' = [ops EXCEPT ![o].pc = "stake", ![o].stake = stop,
                              ![o].died = IF dead THEN lane.pid ELSE None,
                              ![o].rec = IF ~dead THEN rec
                                         ELSE Min({stop, IF rec = 0 THEN stop ELSE rec})]
    BY <1>2, <2>0 DEF Recheck
  <2>2. /\ n = ops[o].n /\ (Standing(n) # 0 => lane.tip = 0)
        /\ ~dead => Last(n, {"stop"}) # 0 /\ ~Reran(n, Last(n, {"stop"}))
        /\ \E rec, stop, died :
             /\ ops' = [ops EXCEPT ![o].pc = "stake", ![o].stake = stop, ![o].died = died, ![o].rec = rec]
             /\ stop = IF dead THEN n + 1 ELSE Last(n, {"stop"})
             /\ died = IF dead THEN lane.pid ELSE None
    BY <2>1, Zenon
  <2>3. PICK rec, stop, died :
             /\ ops' = [ops EXCEPT ![o].pc = "stake", ![o].stake = stop, ![o].died = died, ![o].rec = rec]
             /\ stop = IF dead THEN n + 1 ELSE Last(n, {"stop"})
             /\ died = IF dead THEN lane.pid ELSE None
    BY <2>2
  <2>4. UNCHANGED <<journal, lane, runs, ghost>>
    BY <1>2 DEF Recheck, files
  <2>5. ops[o].verb = "return" /\ ops[o].pc = "recheck" /\ ops[o].way = "stop"
    <3>1. ops[o].verb = "return" /\ ops[o].pc = "recheck"
      BY VerbAt DEF VerbInv, Recheck, At
    <3> QED
      BY <3>1 DEF RaceInv, Shapes, Aimed, Aiming, AimsAt, Returning
  <2>6. PICK d : d = ops[o] /\ Fielded(d)
    BY DEF VerbInv, CallShape
  <2>7. PICK c : c = [ops[o] EXCEPT !.pc = "stake", !.stake = stop, !.died = died, !.rec = rec]
    OBVIOUS
  <2>8. c = [d EXCEPT !.pc = "stake", !.stake = stop, !.died = died, !.rec = rec]
    BY <2>6, <2>7
  <2>9. /\ Fielded(c) /\ c.verb = "return" /\ c.pc = "stake" /\ c.way = "stop" /\ c.at = d.at /\ c.n = n
        /\ c.died = died /\ c.stake = stop
    BY <2>2, <2>5, <2>6, <2>8 DEF Fielded
  <2>10. ops' = [ops EXCEPT ![o] = c]
    BY <2>3, <2>7
  <2>11. ops'[o] = c /\ Alone(o)
    BY <2>9, <2>10, Replaced DEF VerbInv, Alone
  <2>12. n \in Nat /\ n \in Spots /\ Last(n, {"stop"}) \in 0..n
    <3>1. n \in Nat
      BY <2>0 DEF RaceInv, Shapes, RowShape
    <3> QED
      BY <2>0, <3>1, LastRowOf DEF Of, Spots
  <2>13. (dead => died # None /\ OpenTail(n)) /\ (~dead => died = None)
    <3>1. dead => OpenTail(n)
      BY <2>1, Zenon DEF DeadRun
    <3> QED
      BY <2>1, <2>3, <3>1, FoundOut DEF RaceInv
  <2>14. ASSUME ~dead
         PROVE  /\ stop \in 1..n /\ journal[stop].ev = "stop" /\ Settled(stop, n) /\ EndOf(c) = stop
                /\ \A k \in stop..n : ~Began(k)
    <3>1. stop = Last(n, {"stop"}) /\ stop # 0
      BY <2>2, <2>3, <2>14
    <3>2. stop \in 1..n /\ journal[stop].ev = "stop" /\ \A q \in 1..n : journal[q].ev = "stop" => q <= stop
      <4>1. stop \in Of(n, {"stop"}) /\ \A q \in Of(n, {"stop"}) : q <= stop
        BY <2>12, <3>1, LastRowOf
      <4> QED
        BY <4>1 DEF Of
    <3>3. \A q \in (stop + 1)..n : journal[q].ev \notin {"start", "stop", "ready"}
      BY <2>2, <2>12, <2>14, <3>1, <3>2 DEF Reran, After, Of
    <3>4. \A k \in stop..n : ~Began(k)
      BY <2>12, <3>2, <3>3 DEF Began
    <3>5. EndOf(c) = stop
      BY <2>9, <2>13, <2>14 DEF EndOf
    <3> QED
      BY <3>2, <3>3, <3>4, <3>5 DEF Settled
  <2>15. ASSUME dead
         PROVE  EndOf(c) = n /\ Settled(n, n)
    <3>1. EndOf(c) = n
      BY <2>3, <2>9, <2>12, <2>13, <2>15 DEF EndOf
    <3> QED
      BY <2>12, <3>1 DEF Settled
  <2>16. EndOf(c) \in Spots /\ Settled(EndOf(c), n)
    BY <2>0, <2>12, <2>14, <2>15 DEF Spots
  <2>17. Placed(c) /\ DueAt(c)
    <3>1. died = None => stop \in 1..Len(journal) /\ journal[stop].ev = "stop"
      BY <2>0, <2>13, <2>14
    <3>2. died # None => OpenTail(n)
      BY <2>13
    <3> QED
      BY <2>9, <2>12, <2>16, <3>1, <3>2 DEF Placed, DueAt, WaitsAt
  <2>18. Mild
    BY <2>4, MildRead DEF OffTip
  <2>19. RowsStay
    BY <2>18, CallsOnly DEF Mild, RaceInv, Shapes
  <2>20. Due(o)'
    BY <2>11, <2>17, <2>18, <2>19, DueFound DEF Mild, GhostStays, RaceInv, DueInv, Dues
  <2>21. TakenBack(o)'
    BY <2>9, <2>11 DEF TakenBack, BacksAt
  <2>22. ~ghost'.raced => Parked(o)'
    <3> SUFFICES ASSUME ~ghost'.raced
                 PROVE  /\ \A r \in DOMAIN runs' : ~(AtWork(r)' /\ runs'[r].phase = "open")
                        /\ Standing(Len(journal))' = 0 \/ lane'.tip = 0
      BY DEF Parked
    <3>1. Shapes /\ Races
      BY <2>4 DEF RaceInv
    <3>2. \A r \in DOMAIN runs : ~(AtWork(r) /\ runs[r].phase = "open")
      <4>1. CASE dead
        BY <2>1, <3>1, <4>1, DeadEnd DEF NoneAtWork
      <4>2. CASE ~dead
        <5>1. ~Began(n)
          BY <2>12, <2>14, <4>2
        <5> QED
          BY <2>0, <3>1, <5>1 DEF Races, OpenBegan
      <4> QED
        BY <4>1, <4>2
    <3>3. Standing(Len(journal))' = Standing(n)
      BY <2>0, <2>4 DEF Standing, Last, Newest, After, Of
    <3> QED
      BY <2>2, <2>4, <3>2, <3>3 DEF AtWork
  <2> QED
    BY <2>11, <2>18, <2>20, <2>21, <2>22, DueStep DEF Mild
<1> QED
  BY <1>1, <1>2

\* One that claims it, or takes its claim over, waits on.
LEMMA DueTakes ==
  ASSUME VerbInv, InPlaceAll', RaceInv, DueInv, NEW o \in Ops, Stake(o) \/ TakeLock(o) \/ Displace(o) \/ Replace(o)
  PROVE  DueInv'
<1>1. /\ ops[o].verb \in {"return", "discard"}
      /\ ops[o].pc \in {"stake", "lock", "displace", "replace"}
  BY VerbAt DEF VerbInv, Stake, TakeLock, Displace, Replace, At
<1>2. CASE Unstaked(o) \/ Unlocked(o)
  BY <1>2, DueFails
<1>3. ASSUME NEW c, Fielded(c), ops' = [ops EXCEPT ![o] = c], c.verb = ops[o].verb, c.n = ops[o].n,
             c.way = ops[o].way, c.at = ops[o].at, c.stake = ops[o].stake, c.died = ops[o].died,
             c.pc \in {"lock", "displace", "replace"} \/ c.pc = Staked(o),
             UNCHANGED <<journal, lane, runs, ghost>>
      PROVE  DueInv'
  <2>1. ops'[o] = c /\ Alone(o)
    BY <1>3, Replaced DEF VerbInv, Alone
  <2>2. Mild
    BY <1>3, MildRead DEF OffTip
  <2>3. CASE ops[o].verb = "discard"
    <3>1. InPlace(o)' /\ ops'[o].verb \notin {"return", "accept"}
      BY <1>3, <2>1, <2>3 DEF InPlaceAll
    <3> QED
      BY <2>1, <2>2, <3>1, DueFrees
  <2>4. CASE ops[o].verb = "return"
    <3>1. Cleared(o) /\ Aiming(o)
      BY <1>1, <2>4 DEF Cleared, ClearedAt, Aiming, AimsAt, Returning
    <3>2. ops[o].way \in {"stop", "ready"}
      BY <3>1 DEF RaceInv, Shapes, Aimed
    <3>3. c.pc \in {"lock", "displace", "replace"} \/ c.pc = (IF ops[o].way = "stop" THEN "confirm" ELSE "spec")
      BY <1>3, <2>4 DEF Staked
    <3>4. CASE ops[o].way = "stop"
      <4>1. Waiting(o)
        BY <1>1, <2>4, <3>4 DEF Waiting, WaitsAt
      <4>2. c.pc \in {"lock", "displace", "replace", "confirm"}
        BY <3>3, <3>4
      <4>3. Onward(o) /\ ~BacksAt(ops'[o])
        BY <1>3, <2>1, <3>1, <3>4, <4>1, <4>2 DEF Onward, BacksAt
      <4> QED
        BY <2>1, <2>2, <4>3, DueGoes
    <3>5. CASE ops[o].way = "ready"
      <4>1. c.pc \in {"lock", "displace", "replace", "spec"}
        BY <3>3, <3>5
      <4>2. Onward(o) /\ ~BacksAt(ops'[o])
        BY <1>3, <2>1, <3>1, <3>5, <4>1 DEF Onward, BacksAt, Waiting, WaitsAt
      <4> QED
        BY <2>1, <2>2, <4>2, DueGoes
    <3> QED
      BY <3>2, <3>4, <3>5
  <2> QED
    BY <1>1, <2>3, <2>4
<1>4. PICK d : d = ops[o] /\ Fielded(d)
  BY DEF VerbInv, CallShape
<1>5. ASSUME NEW pc, Go(o, pc), pc \in {"lock", "displace", "replace"} \/ pc = Staked(o),
             UNCHANGED <<journal, lane, runs, ghost>>
      PROVE  DueInv'
  <2>1. PICK c : c = [ops[o] EXCEPT !.pc = pc]
    OBVIOUS
  <2>2. c = [d EXCEPT !.pc = pc]
    BY <1>4, <2>1
  <2>3. /\ Fielded(c) /\ c.pc = pc /\ c.verb = d.verb /\ c.at = d.at /\ c.n = d.n
        /\ c.way = d.way /\ c.died = d.died /\ c.stake = d.stake
    BY <1>4, <2>2 DEF Fielded
  <2>4. ops' = [ops EXCEPT ![o] = c]
    BY <1>5, <2>1 DEF Go
  <2> QED
    BY <1>3, <1>4, <1>5, <2>3, <2>4
<1>6. ASSUME NEW pc, NEW text, pc \in {"lock", "displace", "replace"} \/ pc = Staked(o),
             ops' = [ops EXCEPT ![o].pc = pc, ![o].text = text], UNCHANGED <<journal, lane, runs, ghost>>
      PROVE  DueInv'
  <2>1. PICK c : c = [ops[o] EXCEPT !.pc = pc, !.text = text]
    OBVIOUS
  <2>2. c = [d EXCEPT !.pc = pc, !.text = text]
    BY <1>4, <2>1
  <2>3. /\ Fielded(c) /\ c.pc = pc /\ c.verb = d.verb /\ c.at = d.at /\ c.n = d.n
        /\ c.way = d.way /\ c.died = d.died /\ c.stake = d.stake
    BY <1>4, <2>2 DEF Fielded
  <2>4. ops' = [ops EXCEPT ![o] = c]
    BY <1>6, <2>1
  <2> QED
    BY <1>3, <1>4, <1>6, <2>3, <2>4
<1>7. CASE Stake(o)
  BY <1>2, <1>5, <1>6, <1>7 DEF Stake, files
<1>8. CASE TakeLock(o)
  BY <1>2, <1>5, <1>8 DEF TakeLock
<1>9. CASE Displace(o)
  BY <1>2, <1>5, <1>9 DEF Displace
<1>10. CASE Replace(o)
  BY <1>2, <1>6, <1>10 DEF Replace
<1> QED
  BY <1>7, <1>8, <1>9, <1>10

\* What it does before it launches: it has a standing commit taken back first.
LEMMA DuePrepared ==
  ASSUME VerbInv, RaceInv, DueInv, NEW o \in Ops, Confirm(o) \/ RecordUndo(o) \/ WriteSpec(o) \/ DropPid(o)
  PROVE  DueInv'
<1>1. /\ ops[o].verb = "return"
      /\ ops[o].pc \in {"confirm", "uncommit", "spec", "drop"}
  BY VerbAt DEF VerbInv, Confirm, RecordUndo, WriteSpec, DropPid, At
<1>2. Cleared(o)
  BY <1>1 DEF Cleared, ClearedAt, Returning
<1>3. ops[o].pc \in {"confirm", "uncommit"} => ops[o].way = "stop"
  BY DEF DueInv, Dues, Due, DueAt
<1>4. ASSUME NEW pc \in {"uncommit", "spec", "drop", "spawn"}, Go(o, pc), Mild,
             pc = "uncommit" => ops[o].way = "stop",
             ~ghost'.raced => TakenBack(o)' \/ pc = "uncommit" \/ ops[o].pc \in {"spec", "drop"}
      PROVE  DueInv'
  <2>1. /\ Alone(o) /\ ops'[o].pc = pc /\ ops'[o].verb = ops[o].verb
        /\ ops'[o].n = ops[o].n /\ ops'[o].way = ops[o].way /\ ops'[o].at = ops[o].at
        /\ ops'[o].stake = ops[o].stake /\ ops'[o].died = ops[o].died
    BY <1>4, GoRead DEF VerbInv
  <2>2. Onward(o)
    BY <1>2, <1>4, <2>1 DEF Onward, Waiting, WaitsAt
  <2>3. ~ghost'.raced => TakenBack(o)' \/ (BacksAt(ops'[o]) => BacksAt(ops[o]))
    BY <1>1, <1>4, <2>1 DEF BacksAt
  <2> QED
    BY <1>4, <2>1, <2>2, <2>3, DueGoes
<1>5. CASE UNCHANGED lane /\ Release(o)
  BY <1>5, DueFails DEF OffTip
<1>6. CASE Confirm(o) /\ ~(UNCHANGED lane /\ Release(o))
  <2>1. Len(journal) = ops[o].n
    BY <1>6 DEF Confirm
  <2>2. CASE Standing(ops[o].n) = 0
    <3>1. Proceed(o, "spec")
      BY <1>6, <2>2 DEF Confirm
    <3>2. Go(o, "spec") /\ UNCHANGED <<journal, lane, runs, ghost>>
      BY <3>1 DEF Proceed
    <3>3. Mild
      BY <3>2, MildRead DEF OffTip
    <3>4. Standing(Len(journal))' = 0
      BY <2>1, <2>2, <3>2 DEF Standing, Last, Newest, After, Of
    <3> QED
      BY <1>4, <3>2, <3>3, <3>4 DEF TakenBack
  <2>3. CASE Standing(ops[o].n) # 0
    <3>1. Go(o, "uncommit") /\ UNCHANGED <<journal, runs, ghost>> /\ OffTip
      BY <1>6, <2>3 DEF Confirm, OffTip
    <3>2. Mild
      BY <3>1, MildRead
    <3>3. ops[o].way = "stop"
      BY <1>3, <1>6 DEF Confirm, At
    <3> QED
      BY <1>4, <3>1, <3>2, <3>3
  <2> QED
    BY <2>2, <2>3
<1>7. CASE RecordUndo(o) /\ ~(UNCHANGED lane /\ Release(o))
  <2>1. PICK row : row = Row("uncommit", 0, 0)
    OBVIOUS
  <2>2. row.ev = "uncommit" /\ Put(row) /\ Go(o, "spec") /\ UNCHANGED <<lane, runs, ghost>>
    BY <1>7, <2>1 DEF RecordUndo, Row
  <2>3. row.ev \in CallRows /\ row.ev \in Kinds \ {"commit"}
    BY <2>2 DEF CallRows, Kinds
  <2>4. GhostStays
    BY <2>2 DEF GhostStays, Launches
  <2>5. Mild
    BY <2>2, <2>3, <2>4, MildRow
  <2>6. Standing(Len(journal))' = 0
    BY <2>2, <2>3, NoneStands DEF RaceInv, Shapes
  <2> QED
    BY <1>4, <2>2, <2>5, <2>6 DEF TakenBack
<1>8. CASE WriteSpec(o) /\ ~(UNCHANGED lane /\ Release(o))
  <2>1. Go(o, "drop") /\ UNCHANGED <<journal, runs, ghost>> /\ OffTip /\ ops[o].pc = "spec"
    BY <1>8 DEF WriteSpec, OffTip, At
  <2> QED
    BY <1>4, <2>1, MildRead
<1>9. CASE DropPid(o)
  <2>1. Go(o, "spawn") /\ UNCHANGED <<journal, runs, ghost>> /\ OffTip /\ ops[o].pc = "drop"
    BY <1>9 DEF DropPid, OffTip, At, files
  <2> QED
    BY <1>4, <2>1, MildRead
<1> QED
  BY <1>5, <1>6, <1>7, <1>8, <1>9

\* A launch is its answer to the end it had read of.
LEMMA DueSpawned ==
  ASSUME VerbInv, RaceInv, DueInv, NEW o \in Ops, Spawn(o)
  PROVE  DueInv'
<1>0. PICK r : r = Len(runs) + 1
  OBVIOUS
<1>1. ops[o].verb \in {"start", "return"} /\ ops[o].pc = "spawn"
  BY VerbAt DEF VerbInv, Spawn, At
<1>2. /\ ghost'.acts = ghost.acts \union IF ops[o].verb = "start" THEN {} ELSE {Act(o, "return", r)}
      /\ ghost'.unrecorded = ghost.unrecorded
      /\ ghost'.raced = (ghost.raced \/ Retaken(o))
  BY <1>0, SpawnRaces DEF VerbInv
<1>3. journal' = journal /\ OffTip
  BY DEF Spawn, OffTip
<1>4. GhostStays
  BY <1>2 DEF GhostStays, Launches
<1>5. OldRuns
  <2>1. PICK run : run = NewRun(o)
    OBVIOUS
  <2>2. Worked(run) /\ run.phase = "born"
    BY <2>1 DEF NewRun, Worked
  <2>3. runs' = Append(runs, run)
    BY <2>1 DEF Spawn
  <2>4. /\ DOMAIN runs = 1..Len(runs) /\ DOMAIN runs' = 1..(Len(runs) + 1) /\ Len(runs) \in Nat
        /\ \A s \in DOMAIN runs : runs'[s] = runs[s]
        /\ runs'[Len(runs) + 1] = run
    BY <2>2, <2>3, RunAfter DEF RaceInv, Shapes
  <2> QED
    BY <2>2, <2>4 DEF OldRuns, AtWork
<1>6. Mild
  BY <1>3, <1>4, <1>5, MildStill
<1>7. CASE Leave(o)
  BY <1>6, <1>7, DueLeaves
<1>8. CASE ops[o].verb = "return" /\ ops' = [ops EXCEPT ![o].pc = "hand", ![o].run = Len(runs) + 1]
  <2>1. PICK d : d = ops[o] /\ Fielded(d)
    BY DEF VerbInv, CallShape
  <2>2. PICK c : c = [ops[o] EXCEPT !.pc = "hand", !.run = Len(runs) + 1]
    OBVIOUS
  <2>3. c = [d EXCEPT !.pc = "hand", !.run = Len(runs) + 1]
    BY <2>1, <2>2
  <2>4. Fielded(c) /\ c.pc = "hand" /\ c.verb = d.verb /\ c.n = d.n
    BY <2>1, <2>3 DEF Fielded
  <2>5. ops' = [ops EXCEPT ![o] = c]
    BY <1>8, <2>2
  <2>6. ops'[o] = c /\ Alone(o)
    BY <2>4, <2>5, Replaced DEF VerbInv, Alone
  <2>7. Settled(EndOf(d), d.n)
    BY <1>1, <1>8, <2>1 DEF DueInv, Dues, Due, DueAt, ClearedAt, Returning
  <2>8. PICK act : act = Act(o, "return", r)
    OBVIOUS
  <2>9. act \in Launches' /\ EndOf(act) = EndOf(d) /\ EndOf(act)' = EndOf(act)
    <3>1. act.what = "return" /\ EndOf(act) = EndOf(d)
      BY <2>1, <2>8, ActOf
    <3>2. act \in ghost'.acts
      BY <1>2, <1>8, <2>8
    <3> QED
      BY <3>1, <3>2 DEF Launches, EndOf
  <2>10. Answered(c.n)'
    BY <1>3, <2>4, <2>7, <2>9 DEF Answered, Settled
  <2>11. DueAt(c)'
    BY <1>8, <2>1, <2>4, <2>10 DEF DueAt, ClearedAt, Returning, WaitsAt
  <2>12. Due(o)'
    BY <2>6, <2>11, DueOf
  <2>13. Parked(o)' /\ TakenBack(o)'
    BY <2>4, <2>6 DEF Parked, Waiting, WaitsAt, TakenBack, BacksAt
  <2> QED
    BY <1>6, <2>6, <2>12, <2>13, DueStep DEF Mild
<1> QED
  BY <1>7, <1>8 DEF Spawn

\* One that fails leaves no answer.
LEMMA DueSpawnFails ==
  ASSUME VerbInv, RaceInv, DueInv, NEW o \in Ops, SpawnFails(o)
  PROVE  DueInv'
<1>1. CASE ops[o].verb = "start"
  BY <1>1, DueFails DEF SpawnFails
<1>2. CASE ops[o].verb # "start"
  <2>1. Leave(o) /\ journal' = journal /\ runs' = runs /\ OffTip
    BY <1>2 DEF SpawnFails, LetGo, OffTip
  <2>2. SameActs /\ ghost'.raced = (ghost.raced \/ (ops[o].died # None /\ Retaken(o)))
    BY <1>2, FailRaces DEF VerbInv
  <2>3. GhostStays /\ OldRuns
    BY <2>1, <2>2 DEF GhostStays, OldRuns, AtWork, SameActs, Launches
  <2> QED
    BY <2>1, <2>3, MildStill, DueLeaves
<1> QED
  BY <1>1, <1>2

\* The row of a return names the end that its run is the answer to.
LEMMA DueRecorded ==
  ASSUME VerbInv, RaceInv, DueInv, NEW o \in Ops, Hand(o) \/ Decide(o) \/ DecideFails(o)
  PROVE  DueInv'
<1>1. CASE Hand(o)
  <2>1. ops[o].verb = "return" /\ ops[o].pc = "hand"
    BY <1>1, VerbAt DEF VerbInv, Hand, At
  <2>2. Go(o, "decide") /\ UNCHANGED <<journal, lane, runs, ghost>>
    BY <1>1 DEF Hand
  <2>3. /\ Alone(o) /\ ops'[o].pc = "decide" /\ ops'[o].verb = ops[o].verb
        /\ ops'[o].n = ops[o].n /\ ops'[o].way = ops[o].way /\ ops'[o].at = ops[o].at
        /\ ops'[o].stake = ops[o].stake /\ ops'[o].died = ops[o].died
    BY <2>2, GoRead DEF VerbInv
  <2>4. Onward(o) /\ ~BacksAt(ops'[o])
    BY <2>1, <2>3 DEF Onward, BacksAt, Cleared, ClearedAt, Returning, Waiting, WaitsAt
  <2> QED
    BY <2>2, <2>3, <2>4, MildRead, DueGoes DEF OffTip
<1>2. CASE Decide(o)
  <2>1. Leave(o) /\ UNCHANGED <<lane, runs>> /\ ops[o].pc = "decide"
    BY <1>2 DEF Decide, At
  <2>2. ops[o].verb \in {"return", "accept", "abandon"}
    BY <1>2, VerbAt DEF VerbInv, Decide, At
  <2>3. PICK num : /\ Put(Row(ops[o].verb, num, 0))
                   /\ ops[o].verb = "return" => num = ops[o].n + 1
    BY <1>2 DEF Decide
  <2>4. PICK put : put = Row(ops[o].verb, num, 0)
    OBVIOUS
  <2>5. Put(put) /\ put.ev = ops[o].verb /\ put.num = num /\ put.ev \in CallRows
    BY <2>2, <2>3, <2>4 DEF Row, CallRows
  <2>6. GhostStays
    <3>1. CASE ops[o].verb # "abandon"
      BY <1>2, <3>1 DEF Decide, GhostStays, Launches
    <3>2. CASE ops[o].verb = "abandon"
      <4>1. PICK A : A = {Act(o, "abandon", 0)}
        OBVIOUS
      <4>2. ghost' = [ghost EXCEPT !.acts = @ \union A]
        BY <1>2, <3>2, <4>1 DEF Decide
      <4>3. ghost'.acts = ghost.acts \union A /\ ghost'.unrecorded = ghost.unrecorded /\ ghost'.raced = ghost.raced
        BY <4>2, GhostGrows DEF VerbInv
      <4> QED
        BY <4>3 DEF GhostStays, Launches
    <3> QED
      BY <3>1, <3>2
  <2>7. put.ev = "return" => put.num \in 1..(Len(journal) + 1) /\ Answered(put.num - 1)
    <3> SUFFICES ASSUME put.ev = "return" PROVE put.num \in 1..(Len(journal) + 1) /\ Answered(put.num - 1)
      OBVIOUS
    <3>1. PICK n : n = ops[o].n
      OBVIOUS
    <3>2. n \in 0..Len(journal) /\ Len(journal) \in Nat
      BY <3>1 DEF RaceInv, Shapes, Aimed, Spots, RowShape
    <3>3. Answered(n)
      BY <2>1, <2>5, <3>1 DEF DueInv, Dues, Due, DueAt
    <3>4. put.num = n + 1 /\ put.num - 1 = n
      BY <2>3, <2>5, <3>1, <3>2
    <3> QED
      BY <3>2, <3>3, <3>4
  <2>8. Mild
    BY <2>1, <2>5, <2>6, <2>7, MildRow
  <2> QED
    BY <2>1, <2>8, DueLeaves
<1>3. CASE DecideFails(o)
  <2>1. Leave(o) /\ UNCHANGED <<journal, lane, runs>>
    BY <1>3 DEF DecideFails
  <2>2. /\ ghost'.acts = ghost.acts /\ ghost.unrecorded \subseteq ghost'.unrecorded
        /\ ghost'.raced = ghost.raced
    <3>1. PICK g : g = ghost /\ g = [acts |-> g.acts, unrecorded |-> g.unrecorded, raced |-> g.raced]
      BY DEF VerbInv, GhostShape
    <3>2. ghost' = [g EXCEPT !.unrecorded = g.unrecorded \union {ops[o].at}]
      BY <1>3, <3>1 DEF DecideFails
    <3> QED
      BY <3>1, <3>2
  <2>3. GhostStays /\ OldRuns /\ OffTip
    BY <2>1, <2>2 DEF GhostStays, OldRuns, OffTip, AtWork, Launches
  <2> QED
    BY <2>1, <2>3, MildStill, DueLeaves
<1> QED
  BY <1>1, <1>2, <1>3

\* A ready row an accept can push, where a return waits with a commit standing,
\* was returned on as well.
LEMMA AcceptStrays ==
  ASSUME VerbInv, RaceInv, DueInv, ~ghost.raced, NEW o \in Ops, ops[o].verb = "accept", Deciding(o),
         NEW q \in Ops, Waiting(q), ops[q].n = Len(journal), Standing(Len(journal)) # 0
  PROVE  Strayed(ops[o].at)
<1>0. PICK n, p, w : n = Len(journal) /\ p = ops[o].at /\ w = ops[q]
  OBVIOUS
<1>1. Shapes /\ Races /\ n \in Nat
  BY <1>0 DEF RaceInv, Shapes, RowShape
<1>2. p \in 1..n /\ journal[p].ev = "ready"
  BY <1>0 DEF DueInv, Dues, Due, DueAt
<1>3. ASSUME Served(p)
      PROVE  Strayed(p)
  <2>1. PICK act \in Launches : act.at = p \/ (p <= EndOf(act) /\ NoRunBetween(p, EndOf(act)))
    BY <1>3 DEF Served
  <2>2. act.at = p => p \in ghost.unrecorded
    BY <1>0 DEF VerbInv, ClaimInv, NotYet, Launches
  <2> QED
    BY <1>2, <2>1, <2>2 DEF Strayed
<1>4. ASSUME Quiet(p)
      PROVE  Served(p)
  <2>1. \A k \in (p + 1)..n : journal[k].ev \in CallRows
    BY <1>0, <1>4 DEF Quiet, NoRunBetween
  <2>2. DueAt(w) /\ WaitsAt(w) /\ w.n = n
    BY <1>0 DEF DueInv, Dues, Due, Waiting
  <2>3. w.died # None
    <3> SUFFICES ASSUME w.died = None PROVE FALSE
      OBVIOUS
    <3>1. w.stake \in 1..n /\ journal[w.stake].ev = "stop"
      BY <1>0, <2>2 DEF DueAt
    <3>2. Settled(w.stake, n)
      <4>1. ClearedAt(w.verb, w.pc) /\ EndOf(w) = w.stake
        BY <2>2 DEF WaitsAt, ClearedAt, Returning, EndOf
      <4> QED
        BY <2>2, <4>1 DEF DueAt
    <3>3. w.stake <= p
      BY <1>1, <1>2, <2>1, <3>1 DEF CallRows
    <3> QED
      BY <1>1, <1>2, <3>1, <3>2, <3>3 DEF Settled
  <2>4. PICK l : l = LastRow(n)
    OBVIOUS
  <2>5. /\ l \in 1..n /\ ~SupersededReturn(l)
        /\ \A k \in 1..n : ~SupersededReturn(k) => k <= l
        /\ journal[l].ev \notin {"stop", "pr", "ready", "accept", "abandon"}
    BY <1>1, <2>2, <2>3, <2>4, TailRow DEF DueAt
  <2>6. l \in (p + 1)..n
    <3>1. ~SupersededReturn(p)
      BY <1>2 DEF SupersededReturn
    <3> QED
      BY <1>1, <1>2, <2>5, <3>1
  <2>7. journal[l].ev \in {"uncommit", "return"}
    BY <2>1, <2>5, <2>6 DEF CallRows
  <2>8. journal[l].ev # "uncommit"
    <3> SUFFICES ASSUME journal[l].ev = "uncommit" PROVE FALSE
      OBVIOUS
    <3>1. PICK c : c = Last(n, {"commit"})
      OBVIOUS
    <3>2. c # 0 /\ After(n, c, {"uncommit"}) = {}
      BY <1>0, <3>1 DEF Standing
    <3>3. c \in 1..n /\ journal[c].ev = "commit"
      BY <1>1, <3>1, <3>2, LastRowOf DEF Of
    <3>4. c <= p
      BY <1>1, <1>2, <2>1, <3>3 DEF CallRows
    <3>5. l \in After(n, c, {"uncommit"})
      BY <1>1, <1>2, <2>5, <2>6, <3>3, <3>4 DEF After, Of
    <3> QED
      BY <3>2, <3>5
  <2>9. journal[l].ev = "return"
    BY <2>7, <2>8
  <2>10. PICK num : num = journal[l].num
    OBVIOUS
  <2>11. num \in 1..l /\ Answered(num - 1)
    BY <1>0, <2>5, <2>9, <2>10 DEF DueInv, Dues, ReturnsTold, Told
  <2>12. \A k \in num..(l - 1) : journal[k].ev \notin {"start", "ready", "stop"}
    BY <2>5, <2>9, <2>10 DEF SupersededReturn
  <2>13. p <= num - 1
    BY <1>1, <1>2, <2>6, <2>11, <2>12
  <2>14. PICK act \in Launches : Settled(EndOf(act), num - 1)
    BY <2>11 DEF Answered
  <2>15. EndOf(act) \in 0..n
    BY <1>0, <1>1 DEF Shapes, ActsPlaced, Spots
  <2>16. p <= EndOf(act)
    BY <1>1, <1>2, <2>11, <2>13, <2>14, <2>15 DEF Settled
  <2>17. NoRunBetween(p, EndOf(act))
    BY <1>1, <1>2, <2>1, <2>15 DEF NoRunBetween
  <2> QED
    BY <2>16, <2>17 DEF Served
<1>5. Quiet(p) \/ Served(p)
  BY <1>0, <1>1, <1>2 DEF Races, ReadyServed
<1> QED
  BY <1>0, <1>3, <1>4, <1>5

\* An accept pushes nothing a return waits for, but for a ready row that strayed.
LEMMA DueAccepted ==
  ASSUME VerbInv, RaceInv, DueInv, NEW o \in Ops,
         CheckHead(o) \/ OpenPullRequest(o) \/ EditPullRequest(o) \/ RecordPublished(o)
  PROVE  DueInv'
<1>1. ops[o].pc \in Accepting /\ ops[o].verb = "accept" /\ Deciding(o)
  <2>1. ops[o].pc \in Accepting
    BY DEF CheckHead, OpenPullRequest, EditPullRequest, RecordPublished, At, Accepting
  <2>2. ops[o].verb = "accept"
    BY <2>1, VerbAt DEF VerbInv
  <2> QED
    BY <2>1, <2>2 DEF Deciding, DecidesAt
<1>2. CASE Forfeit(o)
  BY <1>2, DueFails
<1>3. ASSUME NEW pc, pc \notin {"confirm", "uncommit"}, Go(o, pc), Mild
      PROVE  DueInv'
  <2>1. /\ Alone(o) /\ ops'[o].pc = pc /\ ops'[o].verb = ops[o].verb
        /\ ops'[o].n = ops[o].n /\ ops'[o].way = ops[o].way /\ ops'[o].at = ops[o].at
        /\ ops'[o].stake = ops[o].stake /\ ops'[o].died = ops[o].died
    BY <1>3, GoRead DEF VerbInv
  <2>2. Onward(o) /\ ~BacksAt(ops'[o])
    BY <1>1, <1>3, <2>1 DEF Onward, BacksAt
  <2> QED
    BY <1>3, <2>1, <2>2, DueGoes
<1>4. CASE (CheckHead(o) \/ EditPullRequest(o)) /\ ~Forfeit(o)
  <2>1. Proceed(o, "open") \/ Proceed(o, "publish")
    BY <1>4 DEF CheckHead, EditPullRequest
  <2>2. UNCHANGED <<journal, lane, runs, ghost>> /\ (Go(o, "open") \/ Go(o, "publish"))
    BY <2>1 DEF Proceed
  <2> QED
    BY <1>3, <2>2, MildRead DEF OffTip
<1>5. CASE OpenPullRequest(o)
  <2>1. UNCHANGED <<journal, runs, ghost>> /\ (Go(o, "edit") \/ Leave(o))
    BY <1>5 DEF OpenPullRequest
  <2>2. RowsKept /\ OldRuns /\ GhostStays
    BY <2>1 DEF RowsKept, OldRuns, AtWork, GhostStays, Launches
  <2>3. ReturnsTold'
    <3>1. RowsStay /\ ActsPlaced
      BY <2>2, CallsOnly DEF RaceInv, Shapes
    <3> QED
      BY <2>1, <2>2, <3>1, ToldStays DEF DueInv, Dues, GhostStays, RowsStay
  <2>4. ~ghost.raced => \A q \in Ops : Spared(q)
    <3> SUFFICES ASSUME ~ghost.raced, NEW q \in Ops, Waiting(q), ops[q].n = Len(journal),
                        Standing(Len(journal)) # 0
                 PROVE  \E p \in 1..Len(journal) : Strayed(p)
      BY DEF Spared
    <3>1. Strayed(ops[o].at)
      BY <1>1, AcceptStrays
    <3>2. ops[o].at \in 1..Len(journal)
      BY <1>1 DEF DueInv, Dues, Due, DueAt
    <3> QED
      BY <3>1, <3>2
  <2>5. Mild
    BY <2>2, <2>3, <2>4 DEF Mild
  <2> QED
    BY <1>3, <2>1, <2>5, DueLeaves
<1>6. CASE RecordPublished(o) /\ ~Forfeit(o)
  <2>1. PICK A, row : A = {Act(o, "accept", 0)} /\ row = Row("pr", 0, 0)
    OBVIOUS
  <2>2. row.ev = "pr"
    BY <2>1 DEF Row
  <2>3. /\ ghost' = [ghost EXCEPT !.acts = @ \union A] /\ Put(row)
        /\ Go(o, "decide") /\ UNCHANGED <<lane, runs>>
    BY <1>6, <2>1 DEF RecordPublished
  <2>4. ghost'.acts = ghost.acts \union A /\ ghost'.unrecorded = ghost.unrecorded /\ ghost'.raced = ghost.raced
    BY <2>3, GhostGrows DEF VerbInv
  <2>5. GhostStays
    BY <2>4 DEF GhostStays, Launches
  <2>6. Mild
    BY <2>2, <2>3, <2>5, MildRow DEF CallRows
  <2> QED
    BY <1>3, <2>3, <2>6
<1> QED
  BY <1>2, <1>4, <1>5, <1>6

\* The verbs that decide nothing about a finish know nothing of it.
LEMMA DueClosed ==
  ASSUME VerbInv, InPlaceAll', RaceInv, DueInv, NEW o \in Ops,
         \/ Inspect(o) \/ Reread(o) \/ ListClaims(o) \/ CheckPid(o) \/ CheckClaim(o)
         \/ View(o) \/ RemoveWorktree(o) \/ Archive(o) \/ CheckQuiet(o) \/ AppendPr(o)
  PROVE  DueInv'
<1>0. InPlace(o)'
  BY DEF InPlaceAll
<1>1. ops[o].verb \in {"discard", "closeout", "record"}
  BY VerbAt DEF VerbInv, Inspect, Reread, ListClaims, CheckPid, CheckClaim, View, RemoveWorktree,
     Archive, CheckQuiet, AppendPr, At
<1>2. ASSUME NEW pc, Go(o, pc), UNCHANGED <<journal, runs, ghost>>, OffTip
      PROVE  DueInv'
  BY <1>0, <1>1, <1>2, DueProceeds
<1>3. CASE Leave(o) /\ UNCHANGED <<journal, runs, ghost>> /\ OffTip
  BY <1>3, MildRead, DueLeaves
<1>4. CASE Refuse(o) \/ (Release(o) /\ OffTip)
  BY <1>4, DueFails
<1>5. ASSUME NEW c, Fielded(c), ops' = [ops EXCEPT ![o] = c], c.verb = ops[o].verb,
             UNCHANGED <<journal, lane, runs, ghost>>
      PROVE  DueInv'
  <2>1. ops'[o] = c /\ Alone(o)
    BY <1>5, Replaced DEF VerbInv, Alone
  <2>2. Mild
    BY <1>5, MildRead DEF OffTip
  <2> QED
    BY <1>0, <1>1, <1>5, <2>1, <2>2, DueFrees
<1>6. PICK d : d = ops[o] /\ Fielded(d)
  BY DEF VerbInv, CallShape
<1>7. CASE Inspect(o) /\ ~Refuse(o)
  <2>1. PICK dead \in DeadRun(Discardable(ops[o].n)) :
          ops' = [ops EXCEPT ![o].pc = "stake",
                    ![o].stake = IF dead THEN Discardable(ops[o].n) + 1 ELSE Discardable(ops[o].n),
                    ![o].died = IF dead THEN lane.pid ELSE None]
    BY <1>7, Zenon DEF Inspect
  <2>2. PICK stake, died :
          ops' = [ops EXCEPT ![o].pc = "stake", ![o].stake = stake, ![o].died = died]
    BY <2>1, Zenon
  <2>3. PICK c : c = [ops[o] EXCEPT !.pc = "stake", !.stake = stake, !.died = died]
    OBVIOUS
  <2>4. c = [d EXCEPT !.pc = "stake", !.stake = stake, !.died = died]
    BY <1>6, <2>3
  <2>5. Fielded(c) /\ c.verb = d.verb
    BY <1>6, <2>4 DEF Fielded
  <2>6. ops' = [ops EXCEPT ![o] = c]
    BY <2>2, <2>3
  <2>7. UNCHANGED <<journal, lane, runs, ghost>>
    BY <1>7 DEF Inspect
  <2> QED
    BY <1>5, <1>6, <2>5, <2>6, <2>7
<1>8. ASSUME NEW pc, NEW todo, ops' = [ops EXCEPT ![o].pc = pc, ![o].todo = todo] \/ ops' = [ops EXCEPT ![o].todo = todo],
             UNCHANGED <<journal, lane, runs, ghost>>
      PROVE  DueInv'
  <2>1. PICK c : /\ c = [ops[o] EXCEPT !.pc = pc, !.todo = todo] \/ c = [ops[o] EXCEPT !.todo = todo]
                 /\ ops' = [ops EXCEPT ![o] = c]
    BY <1>8
  <2>2. c = [d EXCEPT !.pc = pc, !.todo = todo] \/ c = [d EXCEPT !.todo = todo]
    BY <1>6, <2>1
  <2>3. Fielded(c) /\ c.verb = d.verb
    BY <1>6, <2>2 DEF Fielded
  <2> QED
    BY <1>5, <1>6, <1>8, <2>1, <2>3
<1>9. CASE ListClaims(o)
  BY <1>8, <1>9 DEF ListClaims
<1>10. CASE Reread(o) \/ CheckPid(o)
  BY <1>2, <1>4, <1>10 DEF Reread, CheckPid, Proceed, OffTip
<1>11. CASE CheckClaim(o)
  <2>1. CASE Proceed(o, "remove")
    BY <1>2, <2>1 DEF Proceed, OffTip
  <2>2. CASE Release(o) /\ UNCHANGED lane
    BY <1>4, <2>2 DEF OffTip
  <2>3. CASE \E file \in ops[o].todo :
               /\ ops' = [ops EXCEPT ![o].todo = ops[o].todo \ {file}]
               /\ UNCHANGED <<journal, lane, files, runs, ghost>>
    BY <1>8, <2>3
  <2> QED
    BY <1>11, <2>1, <2>2, <2>3 DEF CheckClaim
<1>12. CASE View(o)
  BY <1>2, <1>4, <1>12 DEF View, Proceed, OffTip
<1>13. CASE RemoveWorktree(o) \/ Archive(o)
  <2>1. OffTip /\ (GiveUp(o) \/ (Go(o, "move") /\ UNCHANGED <<journal, runs, ghost>>))
    BY <1>13 DEF RemoveWorktree, Archive, OffTip
  <2>2. CASE GiveUp(o)
    BY <1>3, <1>4, <2>1, <2>2 DEF GiveUp
  <2> QED
    BY <1>2, <2>1, <2>2
<1>14. CASE CheckQuiet(o)
  BY <1>2, <1>4, <1>14 DEF CheckQuiet, Proceed, OffTip
<1>15. CASE AppendPr(o)
  <2>1. PICK row : row = Row("pr", 0, 0)
    OBVIOUS
  <2>2. row.ev = "pr" /\ Put(row) /\ Leave(o) /\ UNCHANGED <<lane, runs, ghost>>
    BY <1>15, <2>1 DEF AppendPr, Row
  <2>3. GhostStays
    BY <2>2 DEF GhostStays, Launches
  <2>4. Mild
    BY <2>2, <2>3, MildRow DEF CallRows
  <2> QED
    BY <2>2, <2>4, DueLeaves
<1> QED
  BY <1>4, <1>7, <1>9, <1>10, <1>11, <1>12, <1>13, <1>14, <1>15

\* A verb's step keeps it.
LEMMA DueVerbs ==
  ASSUME VerbInv, InPlaceAll', RaceInv, DueInv, NEW o \in Ops, Verb(o)
  PROVE  DueInv'
<1>1. CASE BeginStart(o) \/ AddWorktree(o) \/ RecordLane(o)
  BY <1>1, DueStarted
<1>2. CASE \/ BeginReturn(o) \/ BeginDiscard(o) \/ BeginRecord(o) \/ BeginCloseout(o)
           \/ \E choice \in {"accept", "abandon"} : BeginReady(o, choice)
  BY <1>2, DueLoaded
<1>3. CASE Judge(o) \/ ClaimDecision(o) \/ Recheck(o)
  BY <1>3, DueJudged, DueClaimed, DueRechecked
<1>4. CASE Stake(o) \/ TakeLock(o) \/ Displace(o) \/ Replace(o)
  BY <1>4, DueTakes
<1>5. CASE Confirm(o) \/ RecordUndo(o) \/ WriteSpec(o) \/ DropPid(o)
  BY <1>5, DuePrepared
<1>6. CASE Spawn(o) \/ SpawnFails(o)
  BY <1>6, DueSpawned, DueSpawnFails
<1>7. CASE Hand(o) \/ Decide(o) \/ DecideFails(o)
  BY <1>7, DueRecorded
<1>8. CASE CheckHead(o) \/ OpenPullRequest(o) \/ EditPullRequest(o) \/ RecordPublished(o)
  BY <1>8, DueAccepted
<1>9. CASE \/ Inspect(o) \/ Reread(o) \/ ListClaims(o) \/ CheckPid(o) \/ CheckClaim(o)
           \/ View(o) \/ RemoveWorktree(o) \/ Archive(o) \/ CheckQuiet(o) \/ AppendPr(o)
  BY <1>9, DueClosed
<1>10. CASE Lost(o) \/ Crash(o)
  BY <1>10, DueFails DEF Lost, Crash
<1> QED
  BY <1>1, <1>2, <1>3, <1>4, <1>5, <1>6, <1>7, <1>8, <1>9, <1>10 DEF Verb

-----------------------------------------------------------------------------
(* A step of a run, and the invariant                                      *)

\* A row makes the journal another one.
LEMMA RowsChange ==
  ASSUME RowShape, NEW row, row.ev \in Kinds, Put(row)
  PROVE  journal' # journal
<1>1. Len(journal) \in Nat /\ Len(journal') = Len(journal) + 1
  BY RowAfter
<1> QED
  BY <1>1

\* A run pushes, or records a commit, only where no return is ready for its end.
LEMMA DueRuns ==
  ASSUME RaceInv, DueInv, NEW r \in DOMAIN runs, Run(r)
  PROVE  DueInv'
<1>0. RunShape /\ \A v, w :
        /\ runs' = runs => RunAlone(r, runs[r].live, runs[r].phase)
        /\ runs' = [runs EXCEPT ![r].live = v] => RunAlone(r, v, runs[r].phase)
        /\ runs' = [runs EXCEPT ![r].phase = v] => RunAlone(r, runs[r].live, v)
        /\ runs' = [runs EXCEPT ![r].reviews = v] => RunAlone(r, runs[r].live, runs[r].phase)
        /\ runs' = [runs EXCEPT ![r].commit = v] => RunAlone(r, runs[r].live, runs[r].phase)
        /\ Based(r, v, w) => RunAlone(r, runs[r].live, runs[r].phase)
  BY RunMoves DEF RaceInv, Shapes
<1>1. ASSUME NEW row, row.ev \in Kinds \ {"return", "commit"}, Put(row), UNCHANGED <<lane, ops, ghost>>
      PROVE  DueInv'
  <2>1. RowsGrow /\ OldRuns
    BY <1>1, RowsChange DEF RowsGrow, OldRuns, RaceInv, Shapes
  <2> QED
    BY <1>1, <2>1, DueRests
<1>2. ASSUME NEW live, RunAlone(r, live, runs[r].phase), live => runs[r].live,
             journal' = journal, UNCHANGED <<ops, ghost>>,
             lane'.tip = lane.tip \/ (~ghost.raced => \A q \in Ops : Spared(q))
      PROVE  DueInv'
  <2>1. RowsGrow
    BY <1>2 DEF RowsGrow
  <2>2. OldRuns
    BY <1>2 DEF RunAlone, OldRuns, AtWork
  <2> QED
    BY <1>2, <2>1, <2>2, DueRests
<1>3. CASE RunBegins(r) \/ RunBuilds(r) \/ RunReviews(r) \/ RunPublishes(r) \/ RunReady(r) \/ RunStops(r)
  <2>1. PICK row : /\ row.ev \in {"start", "build", "review", "pr", "ready", "stop"}
                   /\ Put(row) /\ UNCHANGED <<lane, ops, ghost>>
    BY <1>3 DEF RunBegins, RunBuilds, RunReviews, RunPublishes, RunReady, RunStops, Write, Row
  <2>2. row.ev \in Kinds \ {"return", "commit"}
    BY <2>1 DEF Kinds, CallRows
  <2> QED
    BY <1>1, <2>1, <2>2
<1>4. CASE RunRecordsCommit(r)
  <2>1. PICK row : row = Row("commit", 0, r)
    OBVIOUS
  <2>2. row.ev = "commit" /\ Put(row) /\ UNCHANGED <<lane, ops, ghost>> /\ AtWork(r)
    BY <1>4, <2>1 DEF RunRecordsCommit, Running, Write, Row, AtWork
  <2>3. RowsGrow /\ OldRuns /\ row.ev \in Kinds \ {"return"}
    BY <2>2, RowsChange DEF RowsGrow, OldRuns, Kinds, RaceInv, Shapes
  <2>4. ~ghost.raced => \A q \in Ops : Cleared(q) => Retaken(q)
    BY <2>2 DEF RaceInv, Races, ClearedQuiet, Quiet, NoneAtWork
  <2> QED
    BY <2>2, <2>3, <2>4, DueRests
<1>5. CASE RunRebases(r) \/ RunCommits(r)
  <2>1. RunAlone(r, runs[r].live, runs[r].phase) /\ UNCHANGED <<journal, ops, ghost>>
    BY <1>0, <1>5, HeadMoves
  <2>2. OffTip
    BY <1>5, HeadMoves DEF OffTip
  <2>3. lane'.tip = lane.tip
    BY <2>2, TipStays DEF RaceInv, Shapes
  <2> QED
    BY <1>2, <2>1, <2>3
<1>6. CASE RunPushes(r)
  <2>1. RunAlone(r, runs[r].live, runs[r].phase) /\ UNCHANGED <<journal, ops, ghost>>
    BY <1>0, <1>6 DEF RunPushes
  <2>2. AtWork(r) /\ runs[r].phase = "open"
    BY <1>6 DEF RunPushes, Running, AtWork
  <2>3. ~ghost.raced => \A q \in Ops : Spared(q)
    BY <2>2 DEF DueInv, Lays, Parked, Spared
  <2> QED
    BY <1>2, <2>1, <2>3
<1>7. CASE RunEnds(r)
  <2>1. RunAlone(r, FALSE, runs[r].phase) /\ UNCHANGED <<journal, lane, ops, ghost>>
    BY <1>0, <1>7 DEF RunEnds
  <2> QED
    BY <1>2, <2>1
<1> QED
  BY <1>3, <1>4, <1>5, <1>6, <1>7 DEF Run

\* What a lane has been through leaves returns that told.
LEMMA DueInit ==
  ASSUME Init
  PROVE  DueInv
<1>1. PICK h \in Histories :
        /\ journal = h.journal
        /\ ghost = [acts |-> h.acts, unrecorded |-> {}, raced |-> FALSE]
  BY DEF Init
<1>2. Lived(h)
  BY HistoriesAssumption
<1>3. /\ \A p \in 1..Len(journal) : journal[p].ev = "return" =>
           /\ journal[p].num \in 1..p
           /\ \E act \in h.acts : \A q \in (act.stake + 1)..(journal[p].num - 1) :
                journal[q].ev \notin {"start", "stop", "ready"}
      /\ h.acts \subseteq Launch
  BY <1>1, <1>2 DEF Lived
<1>4. Launches = h.acts
  BY <1>1, <1>3 DEF Launches, Launch
<1>5. \A act \in h.acts : EndOf(act) = act.stake
  BY <1>3 DEF Launch, EndOf
<1>6. ReturnsTold
  BY <1>3, <1>4, <1>5 DEF ReturnsTold, Told, Answered, Settled
<1>7. \A o \in Ops : ops[o].verb = "none" /\ ops[o].pc = "new"
  BY DEF Init, Fresh
<1>8. \A o \in Ops : Due(o)
  BY <1>7 DEF Due, DueAt, ClearedAt, WaitsAt
<1>9. Lays
  BY <1>7 DEF Lays, Parked, Waiting, WaitsAt, TakenBack, BacksAt
<1> QED
  BY <1>6, <1>8, <1>9 DEF DueInv, Dues

\* What every call knows of the rows it has read goes on to be true of them, and
\* while no launch is for an end that is not the call's own, a return that waits
\* finds nothing pushed that it takes back, and launches on no standing commit.
THEOREM DueInvariant == Spec => []DueInv
<1>1. Init => DueInv
  BY DueInit
<1>2. VerbInv /\ VerbInv' /\ RaceInv /\ DueInv /\ [Next]_vars => DueInv'
  <2> SUFFICES ASSUME VerbInv, VerbInv', RaceInv, DueInv, [Next]_vars PROVE DueInv'
    OBVIOUS
  <2>1. CASE \E o \in Ops : Verb(o)
    <3>1. InPlaceAll'
      BY DEF VerbInv, InPlaceAll
    <3> QED
      BY <2>1, <3>1, DueVerbs
  <2>2. CASE \E r \in DOMAIN runs : Run(r)
    BY <2>2, DueRuns
  <2>3. CASE Settle
    <3>1. OffTip /\ UNCHANGED <<journal, runs, ops, ghost>>
      BY <2>3 DEF Settle, OffTip
    <3>2. lane'.tip = lane.tip
      BY <3>1, TipStays DEF RaceInv, Shapes
    <3>3. RowsGrow /\ OldRuns
      BY <3>1 DEF RowsGrow, OldRuns, AtWork
    <3> QED
      BY <3>1, <3>2, <3>3, DueRests
  <2>4. CASE UNCHANGED vars
    <3>1. UNCHANGED <<journal, lane, runs, ops, ghost>>
      BY <2>4 DEF vars
    <3>2. RowsGrow /\ OldRuns
      BY <3>1 DEF RowsGrow, OldRuns, AtWork
    <3> QED
      BY <3>1, <3>2, DueRests
  <2> QED
    BY <2>1, <2>2, <2>3, <2>4 DEF Next
<1> QED
  BY <1>1, <1>2, VerbInvariant, RaceInvariant, PTL DEF Spec

-----------------------------------------------------------------------------
(* Who moves the head of the branch, and who adds a run                    *)

\* Other fields of the lane than the head of its branch.
OffHead ==
  \E v, w : \/ lane' = lane
            \/ lane' = [lane EXCEPT !.dir = v]
            \/ lane' = [lane EXCEPT !.tree = v]
            \/ lane' = [lane EXCEPT !.tip = v]
            \/ lane' = [lane EXCEPT !.tip = v, !.pr = w]
            \/ lane' = [lane EXCEPT !.pr = v]
            \/ lane' = [lane EXCEPT !.pid = v]
            \/ lane' = [lane EXCEPT !.spec = v]

\* They leave it alone.
LEMMA HeadStays ==
  ASSUME LaneShape, OffHead
  PROVE  lane'.head = lane.head
<1>1. PICK l : l = lane /\ Laned(l)
  BY DEF LaneShape
<1>2. PICK v, w : \/ lane' = l
                  \/ lane' = [l EXCEPT !.dir = v]
                  \/ lane' = [l EXCEPT !.tree = v]
                  \/ lane' = [l EXCEPT !.tip = v]
                  \/ lane' = [l EXCEPT !.tip = v, !.pr = w]
                  \/ lane' = [l EXCEPT !.pr = v]
                  \/ lane' = [l EXCEPT !.pid = v]
                  \/ lane' = [l EXCEPT !.spec = v]
  BY <1>1 DEF OffHead
<1> QED
  BY <1>1, <1>2 DEF Laned

\* Only a call that confirms its end resets the branch, and only one that
\* launches adds a run.
LEMMA VerbsKeep ==
  ASSUME NEW o \in Ops, Verb(o)
  PROVE  (OffHead \/ Confirm(o)) /\ (runs' = runs \/ Spawn(o))
<1> USE DEF OffHead, Refuse, Forfeit, Release, LetGo, Unlocked, Unstaked, Proceed, files
<1>1. CASE BeginStart(o) \/ AddWorktree(o) \/ RecordLane(o)
  BY <1>1 DEF BeginStart, AddWorktree, RecordLane
<1>2. CASE BeginReturn(o) \/ BeginDiscard(o) \/ BeginRecord(o) \/ BeginCloseout(o)
  BY <1>2 DEF BeginReturn, BeginDiscard, BeginRecord, BeginCloseout, Load
<1>3. CASE \E choice \in {"accept", "abandon"} : BeginReady(o, choice)
  BY <1>3 DEF BeginReady
<1>4. CASE Judge(o)
  <2>1. lane' = lane /\ runs' = runs
    BY <1>4, ZenonT(60) DEF Judge
  <2> QED
    BY <2>1
<1>5. CASE ClaimDecision(o) \/ Recheck(o)
  <2>1. lane' = lane /\ runs' = runs
    BY <1>5 DEF ClaimDecision, Recheck
  <2> QED
    BY <2>1
<1>6. CASE Stake(o) \/ TakeLock(o) \/ Displace(o) \/ Replace(o)
  BY <1>6 DEF Stake, TakeLock, Displace, Replace
<1>7. CASE Confirm(o)
  BY <1>7 DEF Confirm
<1>8. CASE RecordUndo(o) \/ WriteSpec(o) \/ DropPid(o)
  BY <1>8 DEF RecordUndo, WriteSpec, DropPid
<1>9. CASE Spawn(o)
  BY <1>9 DEF Spawn
<1>10. CASE SpawnFails(o)
  BY <1>10 DEF SpawnFails
<1>11. CASE Hand(o) \/ Decide(o) \/ DecideFails(o)
  BY <1>11 DEF Hand, Decide, DecideFails
<1>12. CASE CheckHead(o) \/ EditPullRequest(o) \/ RecordPublished(o)
  BY <1>12 DEF CheckHead, EditPullRequest, RecordPublished
<1>13. CASE OpenPullRequest(o)
  <2>1. \/ lane' = [lane EXCEPT !.tip = lane.head, !.pr = "open"]
        \/ lane' = lane
        \/ lane' = [lane EXCEPT !.tip = lane.head]
        \/ lane' = [lane EXCEPT !.tip = lane.head, !.pr = IF @ = "none" THEN "open" ELSE @]
    BY <1>13 DEF OpenPullRequest
  <2>2. OffHead
    BY <2>1, Zenon
  <2> QED
    BY <1>13, <2>2 DEF OpenPullRequest
<1>14. CASE Inspect(o) \/ Reread(o) \/ ListClaims(o) \/ CheckPid(o) \/ CheckClaim(o)
  <2>1. lane' = lane /\ runs' = runs
    BY <1>14 DEF Inspect, Reread, ListClaims, CheckPid, CheckClaim
  <2> QED
    BY <2>1
<1>15. CASE View(o) \/ RemoveWorktree(o) \/ Archive(o)
  BY <1>15 DEF View, RemoveWorktree, Archive, GiveUp
<1>16. CASE CheckQuiet(o) \/ AppendPr(o) \/ Lost(o) \/ Crash(o)
  BY <1>16 DEF CheckQuiet, AppendPr, Lost, Crash
<1> QED
  BY <1>1, <1>2, <1>3, <1>4, <1>5, <1>6, <1>7, <1>8, <1>9, <1>10, <1>11, <1>12, <1>13, <1>14, <1>15, <1>16 DEF Verb

-----------------------------------------------------------------------------
(* A lane thrown away                                                      *)

\* Where a discard has inspected the lane; where a call has a stop to claim, and
\* where its claim is its own.
ThrowsAt(c) == c.verb = "discard" /\ c.pc \in Places("discard") \ {"inspect"}
StakesAt(c) == \/ c.verb = "return" /\ c.pc \in {"hand"} \union (Returning \ {"recheck"})
               \/ ThrowsAt(c)
OwnsAt(c) == StakesAt(c) /\ c.pc \notin {"stake", "lock", "displace", "replace"}
Throws(o) == ThrowsAt(ops[o])
Stakes(o) == StakesAt(ops[o])
Owns(o) == OwnsAt(ops[o])

\* The claims a run is named in, or is about to be.
Names(p, r) == \/ claims[p] = r
               \/ \E q \in Ops : claims[p] = q /\ ops[q].pc = "hand" /\ ops[q].run = r

\* What a discard has yet to ask after, for every run that has a process.
Excepted(o) == Renamed(o) \/ ~NoRunBetween(EndOf(ops[o]), Len(journal))
Listed(o, r) ==
  /\ ops[o].pc \in {"proof", "others", "remove"} =>
       \A p \in Positions : Names(p, r) => <<"claim", p>> \in ops[o].todo
  /\ ops[o].pc \in {"others", "remove"} => lane.pid # r
  /\ ops[o].pc = "remove" => ops[o].todo = {}
AllListed(o) == \A r \in DOMAIN runs : runs[r].live => Listed(o, r)

ClaimShape == claims = [p \in Positions |-> claims[p]]
Gone(pid) == pid \in DOMAIN runs => ~runs[pid].live
Kept(o) == /\ Gone(ops[o].died)
           /\ ops[o].pc = "hand" => ops[o].run \in DOMAIN runs
           /\ Stakes(o) => ops[o].stake \in Positions
           /\ Throws(o) => DOMAIN runs # {} /\ EndOf(ops[o]) \in Spots
Own(o) == Owns(o) => claims[ops[o].stake] = o
Safe(o) == Throws(o) => Excepted(o) \/ AllListed(o)
KeptInv == /\ ClaimShape /\ Len(journal) <= MaxRows
           /\ \A o \in Ops : Kept(o) /\ Own(o)
ThrowInv == KeptInv /\ (~ghost.raced => \A o \in Ops : Safe(o))

\* The bound on rows is a number.
LEMMA RowBound == MaxRows \in Nat
<1>1. Cardinality(Ops) \in Nat
  BY VerbsAssumption, FS_CardinalityType
<1> QED
  BY <1>1, VerbsAssumption DEF MaxRows

\* A call that goes on keeps what it has listed and launched.
LEMMA GoKeeps ==
  ASSUME CallShape, NEW o \in Ops, NEW pc, Go(o, pc)
  PROVE  ops'[o].todo = ops[o].todo /\ ops'[o].run = ops[o].run
<1>1. PICK d : d = ops[o] /\ Fielded(d)
  BY DEF CallShape
<1>2. PICK c : c = [d EXCEPT !.pc = pc] /\ ops' = [ops EXCEPT ![o] = c]
  BY <1>1 DEF Go
<1>3. Fielded(c) /\ c.todo = d.todo /\ c.run = d.run
  BY <1>1, <1>2 DEF Fielded
<1> QED
  BY <1>1, <1>2, <1>3, Replaced

\* No step but a launch gives a run a process, and none names one anew.
NoNewName ==
  \A r \in DOMAIN runs' : runs'[r].live =>
    /\ r \in DOMAIN runs /\ runs[r].live
    /\ lane'.pid = r => lane.pid = r
    /\ \A p \in Positions : Names(p, r)' => Names(p, r)

\* What a discard found excepted stays so.
LEMMA ExceptedStays ==
  ASSUME Shapes, RowsStay, Launches \subseteq Launches', NEW o \in Ops,
         ops'[o].stake = ops[o].stake, ops'[o].died = ops[o].died,
         EndOf(ops[o]) \in Spots, Excepted(o)
  PROVE  Excepted(o)'
<1>1. EndOf(ops[o])' = EndOf(ops[o])
  BY DEF EndOf
<1>2. Spots \subseteq Nat /\ Len(journal) \in Spots /\ Len(journal) <= Len(journal')
  BY DEF RowsStay, Spots
<1>3. CASE Renamed(o)
  <2>1. PICK act \in Launches : act.stake # ops[o].stake /\ SameEnd(act, ops[o])
    BY <1>3 DEF Renamed
  <2>2. EndOf(act) \in Spots /\ act \in Launches'
    BY <2>1 DEF Shapes, ActsPlaced
  <2>3. SameEnd(act, ops[o])'
    <3>1. /\ NoRunBetween(EndOf(act), EndOf(ops[o]))' <=> NoRunBetween(EndOf(act), EndOf(ops[o]))
          /\ NoRunBetween(EndOf(ops[o]), EndOf(act))' <=> NoRunBetween(EndOf(ops[o]), EndOf(act))
      BY <1>1, <1>2, <2>2, SameRows
    <3> QED
      BY <1>1, <2>1, <3>1 DEF SameEnd
  <2> QED
    BY <2>1, <2>2, <2>3 DEF Excepted, Renamed
<1>4. CASE ~NoRunBetween(EndOf(ops[o]), Len(journal))
  <2>1. PICK k \in (EndOf(ops[o]) + 1)..Len(journal) : journal[k].ev \notin CallRows
    BY <1>4 DEF NoRunBetween
  <2>2. k \in (EndOf(ops[o]) + 1)..Len(journal') /\ journal'[k] = journal[k]
    <3>1. EndOf(ops[o]) \in Nat
      BY <1>2
    <3>2. k \in 1..Len(journal) /\ Len(journal) \in Nat /\ Len(journal') \in Nat
      BY <2>1, <3>1 DEF RowsStay
    <3> QED
      BY <1>2, <2>1, <3>1, <3>2 DEF RowsStay
  <2> QED
    BY <1>1, <2>1, <2>2 DEF Excepted, NoRunBetween
<1> QED
  BY <1>3, <1>4 DEF Excepted

\* A discard stays safe while others move and name no run anew.
LEMMA SafeStays ==
  ASSUME Shapes, RowsGrow, GhostStays, NoNewName, NEW o \in Ops, ops'[o] = ops[o], Kept(o), Safe(o)
  PROVE  Safe(o)'
<1>1. RowsStay
  BY Grows DEF Shapes
<1>2. SUFFICES ASSUME Throws(o) PROVE Excepted(o)' \/ AllListed(o)'
  BY DEF Safe, Throws
<1>3. CASE Excepted(o)
  BY <1>1, <1>2, <1>3, ExceptedStays DEF Kept, GhostStays
<1>4. CASE AllListed(o)
  <2> SUFFICES ASSUME NEW r \in DOMAIN runs', runs'[r].live PROVE Listed(o, r)'
    BY DEF AllListed
  <2>1. Listed(o, r) /\ (lane'.pid = r => lane.pid = r) /\ \A p \in Positions : Names(p, r)' => Names(p, r)
    BY <1>4 DEF AllListed, NoNewName
  <2> QED
    BY <2>1 DEF Listed
<1> QED
  BY <1>2, <1>3, <1>4 DEF Safe

\* How a call changes a claim: it takes it, lets go of it, or names its run there.
ClaimMoves(q) ==
  \/ claims' = claims
  \/ \E p, v : /\ claims' = [claims EXCEPT ![p] = v]
               /\ \A o \in Ops \ {q} : Owns(o) => ops[o].stake # p
               /\ \/ v \in {None, q}
                  \/ v = ops[q].run /\ claims[p] = q /\ ops[q].pc = "hand"

\* Such a change keeps the claims a function of their positions, leaves what
\* others own, and names no run anew.
LEMMA ClaimsMove ==
  ASSUME KeptInv, RunShape, NEW q \in Ops, Alone(q), ClaimMoves(q), ops'[q].pc # "hand",
         runs' = runs, lane'.pid = lane.pid \/ Gone(lane'.pid)
  PROVE  /\ ClaimShape' /\ NoNewName
         /\ \A o \in Ops \ {q} : Owns(o) => claims'[ops[o].stake] = claims[ops[o].stake]
<1>1. /\ DOMAIN runs \subseteq Nat /\ None \notin Ops \union Nat /\ Ops \intersect Nat = {}
  BY VerbsAssumption DEF RunShape
<1>2. DOMAIN claims = Positions /\ claims = [p \in Positions |-> claims[p]]
  BY DEF KeptInv, ClaimShape
<1>3. CASE claims' = claims
  <2>1. \A r \in DOMAIN runs, p \in Positions : Names(p, r)' => Names(p, r)
    BY <1>3 DEF Names, Alone
  <2> QED
    BY <1>2, <1>3, <2>1 DEF ClaimShape, NoNewName, Gone
<1>4. CASE claims' # claims
  <2>1. PICK p, v : /\ claims' = [claims EXCEPT ![p] = v]
                    /\ \A o \in Ops \ {q} : Owns(o) => ops[o].stake # p
                    /\ \/ v \in {None, q}
                       \/ v = ops[q].run /\ claims[p] = q /\ ops[q].pc = "hand"
    BY <1>4 DEF ClaimMoves
  <2>2. p \in Positions
    BY <1>2, <1>4, <2>1
  <2>3. claims'[p] = v /\ \A k \in Positions \ {p} : claims'[k] = claims[k]
    BY <1>2, <2>1, <2>2
  <2>4. ClaimShape'
    BY <1>2, <2>1 DEF ClaimShape
  <2>5. \A o \in Ops \ {q} : Owns(o) => claims'[ops[o].stake] = claims[ops[o].stake]
    BY <2>1, <2>3 DEF KeptInv, Kept, Owns, OwnsAt, Stakes
  <2>6. ASSUME NEW r \in DOMAIN runs, NEW k \in Positions, Names(k, r)' PROVE Names(k, r)
    <3>1. CASE k # p
      BY <2>3, <2>6, <3>1 DEF Names, Alone
    <3>2. CASE k = p
      <4>1. CASE v \in {None, q}
        BY <1>1, <2>3, <2>6, <3>2, <4>1 DEF Names, Alone
      <4>2. CASE v = ops[q].run /\ claims[p] = q /\ ops[q].pc = "hand"
        <5>1. v \in Nat
          BY <1>1, <4>2 DEF KeptInv, Kept
        <5>2. v = r
          BY <1>1, <2>3, <2>6, <3>2, <5>1 DEF Names
        <5> QED
          BY <3>2, <4>2, <5>2 DEF Names
      <4> QED
        BY <2>1, <4>1, <4>2
    <3> QED
      BY <3>1, <3>2
  <2> QED
    BY <2>4, <2>5, <2>6 DEF NoNewName, Gone
<1> QED
  BY <1>3, <1>4

\* The invariant survives a step of one call, when it holds of that call.
LEMMA ThrowStep ==
  ASSUME RaceInv, RunShape', ThrowInv, NEW q \in Ops, Alone(q), RowsGrow, GhostStays, ClaimShape',
         DOMAIN runs \subseteq DOMAIN runs', \A r \in DOMAIN runs : runs'[r].live => runs[r].live,
         \A o \in Ops \ {q} : Owns(o) => claims'[ops[o].stake] = claims[ops[o].stake],
         Kept(q)', Own(q)', ~ghost'.raced => \A o \in Ops : Safe(o)'
  PROVE  ThrowInv'
<1>1. Shapes /\ RowShape /\ RowsStay /\ Len(journal) <= MaxRows
  BY Grows DEF RaceInv, Shapes, ThrowInv, KeptInv
<1>2. Len(journal') <= MaxRows
  <2>1. CASE journal' = journal
    BY <1>1, <2>1
  <2>2. CASE \E row : row.ev \in Kinds /\ Put(row)
    <3>1. PICK row : row.ev \in Kinds /\ Put(row)
      BY <2>2
    <3>2. Len(journal) < MaxRows
      BY <3>1 DEF Put
    <3>3. Len(journal) \in Nat /\ Len(journal') = Len(journal) + 1
      BY <1>1, <3>1, RowAfter
    <3> QED
      BY <3>2, <3>3, RowBound
  <2> QED
    BY <2>1, <2>2 DEF RowsGrow
<1>3. None \notin DOMAIN runs'
  BY VerbsAssumption DEF RunShape
<1>4. ASSUME NEW o \in Ops \ {q} PROVE Kept(o)' /\ Own(o)'
  <2>1. Kept(o) /\ Own(o) /\ ops'[o] = ops[o] /\ ops[o].died \in Pids
    BY <1>1 DEF ThrowInv, KeptInv, Alone, Shapes, PidsKnown
  <2>2. Gone(ops[o].died)'
    BY <1>3, <2>1 DEF Gone, Kept, Pids
  <2>3. Spots \subseteq Spots'
    BY <1>1 DEF Spots, RowsStay
  <2>4. EndOf(ops[o])' = EndOf(ops[o])
    BY <2>1 DEF EndOf
  <2>5. Kept(o)'
    BY <2>1, <2>2, <2>3, <2>4 DEF Kept, Stakes, Throws, Gone
  <2> QED
    BY <2>1, <2>5 DEF Own, Owns
<1> QED
  BY <1>2, <1>4 DEF ThrowInv, KeptInv

\* Most steps of a call launch nothing and change at most a claim of its own.
LEMMA ThrowMoves ==
  ASSUME RaceInv, ThrowInv, NEW q \in Ops, Alone(q), RowsGrow, GhostStays, ClaimMoves(q), runs' = runs,
         lane'.pid = lane.pid \/ Gone(lane'.pid), ops'[q].pc # "hand",
         Kept(q)', Own(q)', ~ghost'.raced => Safe(q)'
  PROVE  ThrowInv'
<1>1. Shapes /\ RunShape /\ RunShape' /\ KeptInv
  BY DEF RaceInv, Shapes, RunShape, ThrowInv, Worked
<1>2. /\ ClaimShape' /\ NoNewName
      /\ \A o \in Ops \ {q} : Owns(o) => claims'[ops[o].stake] = claims[ops[o].stake]
  BY <1>1, ClaimsMove
<1>3. ~ghost'.raced => \A o \in Ops \ {q} : Safe(o)'
  BY <1>1, <1>2, SafeStays DEF ThrowInv, KeptInv, GhostStays, Alone
<1> QED
  BY <1>1, <1>2, <1>3, ThrowStep

\* A call that claims nothing afterwards.
LEMMA ThrowFrees ==
  ASSUME RaceInv, ThrowInv, NEW q \in Ops, Alone(q), RowsGrow, GhostStays, ClaimMoves(q), runs' = runs,
         lane'.pid = lane.pid \/ Gone(lane'.pid), ops'[q].pc # "hand", ~Stakes(q)', Gone(ops'[q].died)
  PROVE  ThrowInv'
<1>1. Kept(q)' /\ Own(q)' /\ Safe(q)'
  BY DEF Kept, Own, Safe, Owns, OwnsAt, Stakes, StakesAt, Throws, Gone
<1> QED
  BY <1>1, ThrowMoves

\* What a ghost that stays keeps.
LEMMA GhostStill ==
  ASSUME ghost' = ghost
  PROVE  GhostStays
BY DEF GhostStays, Launches

\* A call reads, and stands somewhere else by what it has read.
LEMMA ThrowTo ==
  ASSUME VerbInv, RaceInv, ThrowInv, NEW q \in Ops, NEW c, Fielded(c), ops' = [ops EXCEPT ![q] = c],
         UNCHANGED <<journal, lane, claims, runs, ghost>>, Gone(c.died), c.pc # "hand",
         StakesAt(c) => c.stake \in Positions,
         ThrowsAt(c) => /\ DOMAIN runs # {} /\ EndOf(c) \in Spots
                        /\ c.pc \notin {"proof", "others", "remove"},
         OwnsAt(c) => claims[c.stake] = q
  PROVE  ThrowInv'
<1>1. Alone(q) /\ ops'[q] = c
  BY Replaced DEF VerbInv, Alone
<1>2. GhostStays
  BY GhostStill
<1>3. ClaimMoves(q) /\ RowsGrow /\ Spots' = Spots
  BY DEF ClaimMoves, RowsGrow, Spots
<1>4. Kept(q)' /\ Own(q)'
  BY <1>1, <1>3 DEF Kept, Own, Owns, Stakes, Throws, Gone, EndOf
<1>5. Safe(q)'
  BY <1>1 DEF Safe, AllListed, Listed, Throws
<1> QED
  BY <1>1, <1>2, <1>3, <1>4, <1>5, ThrowMoves

\* A call goes on, a claim of its own or none changed on the way.
LEMMA ThrowGoes ==
  ASSUME VerbInv, RaceInv, ThrowInv, NEW q \in Ops, NEW pc, Go(q, pc), ClaimMoves(q), runs' = runs,
         RowsGrow, GhostStays, lane'.pid = lane.pid \/ Gone(lane'.pid), pc # "hand",
         Stakes(q)' => Stakes(q),
         Owns(q)' => claims'[ops[q].stake] = q,
         ops[q].verb = "discard" => pc \notin {"proof", "others", "remove"}
  PROVE  ThrowInv'
<1>1. /\ Alone(q) /\ ops'[q].pc = pc /\ ops'[q].verb = ops[q].verb
      /\ ops'[q].stake = ops[q].stake /\ ops'[q].died = ops[q].died
  BY GoRead DEF VerbInv
<1>2. Kept(q) /\ Spots \subseteq Spots'
  <2>1. RowsStay
    BY Grows DEF RaceInv, Shapes
  <2> QED
    BY <2>1 DEF ThrowInv, KeptInv, RowsStay, Spots
<1>3. EndOf(ops[q])' = EndOf(ops[q]) /\ (Throws(q)' => Throws(q))
  BY <1>1 DEF EndOf, Throws, ThrowsAt, Stakes, StakesAt
<1>4. Kept(q)' /\ Own(q)'
  BY <1>1, <1>2, <1>3 DEF Kept, Own, Gone
<1>5. Safe(q)'
  BY <1>1 DEF Safe, AllListed, Listed, Throws, ThrowsAt
<1> QED
  BY <1>1, <1>4, <1>5, ThrowMoves

\* A call leaves, with what it owns or without.
LEMMA ThrowLeaves ==
  ASSUME VerbInv, RaceInv, ThrowInv, NEW q \in Ops, Leave(q), ClaimMoves(q), runs' = runs,
         RowsGrow, GhostStays, lane'.pid = lane.pid \/ Gone(lane'.pid)
  PROVE  ThrowInv'
<1>1. Alone(q) /\ ops'[q].pc = "done" /\ ops'[q].verb = "none" /\ ops'[q].died = None
  BY GoAway, AwayRead DEF VerbInv
<1>2. Gone(None)
  BY VerbsAssumption DEF Gone, RaceInv, Shapes, RunShape
<1> QED
  BY <1>1, <1>2, ThrowFrees DEF Stakes, StakesAt, ThrowsAt

\* Whoever owns a claim lets go of no other's.
LEMMA OwnAlone ==
  ASSUME KeptInv, NEW q \in Ops, Owns(q)
  PROVE  \A o \in Ops \ {q} : Owns(o) => ops[o].stake # ops[q].stake
BY DEF KeptInv, Own

\* A call that fails lets go of no claim but its own.
LEMMA ThrowFails ==
  ASSUME VerbInv, RaceInv, ThrowInv, NEW q \in Ops,
         \/ Refuse(q) \/ Forfeit(q) \/ Unlocked(q) \/ Unstaked(q)
         \/ Release(q) /\ OffPid /\ Owns(q)
  PROVE  ThrowInv'
<1>1. Leave(q) /\ runs' = runs /\ ghost' = ghost /\ journal' = journal
  BY DEF Refuse, Forfeit, Unlocked, Unstaked, Release, LetGo
<1>2. GhostStays /\ RowsGrow
  BY <1>1, GhostStill DEF RowsGrow
<1>3. lane'.pid = lane.pid
  <2>1. OffPid
    BY DEF Refuse, Forfeit, Unlocked, Unstaked, OffPid
  <2> QED
    BY <2>1, LaneStays DEF RaceInv, Shapes
<1>4. ClaimMoves(q)
  <2>1. CASE Refuse(q) \/ Forfeit(q) \/ Unlocked(q) \/ Unstaked(q)
    BY <2>1 DEF Refuse, Forfeit, Unlocked, Unstaked, ClaimMoves, files
  <2>2. CASE Release(q) /\ Owns(q)
    <3>1. claims' = [claims EXCEPT ![ops[q].stake] = None]
      BY <2>2 DEF Release, LetGo, Unclaim
    <3>2. \A o \in Ops \ {q} : Owns(o) => ops[o].stake # ops[q].stake
      BY <2>2, OwnAlone DEF ThrowInv
    <3> QED
      BY <3>1, <3>2 DEF ClaimMoves
  <2> QED
    BY <2>1, <2>2
<1> QED
  BY <1>1, <1>2, <1>3, <1>4, ThrowLeaves

-----------------------------------------------------------------------------
(* The steps of the calls, for the claims                                  *)

\* crew start claims nothing.
LEMMA ThrowStarted ==
  ASSUME VerbInv, RaceInv, ThrowInv, NEW o \in Ops, BeginStart(o) \/ AddWorktree(o) \/ RecordLane(o)
  PROVE  ThrowInv'
<1>1. PICK d : d = ops[o] /\ Fielded(d)
  BY DEF VerbInv, CallShape
<1>2. CASE BeginStart(o)
  <2>1. PICK c : c = [ops[o] EXCEPT !.pc = "add", !.verb = "start"]
    OBVIOUS
  <2>2. c = [d EXCEPT !.pc = "add", !.verb = "start"]
    BY <1>1, <2>1
  <2>3. Fielded(c) /\ c.verb = "start" /\ c.pc = "add" /\ c.died = d.died
    BY <1>1, <2>2 DEF Fielded
  <2>4. ops' = [ops EXCEPT ![o] = c] /\ ~StakesAt(c) /\ ~OwnsAt(c) /\ ~ThrowsAt(c)
    BY <1>2, <2>1, <2>3 DEF BeginStart, StakesAt, OwnsAt, ThrowsAt
  <2>5. Gone(c.died)
    BY <1>1, <2>3 DEF ThrowInv, KeptInv, Kept
  <2> QED
    BY <1>2, <2>3, <2>4, <2>5, ThrowTo DEF BeginStart, files
<1>3. CASE AddWorktree(o) \/ RecordLane(o)
  <2>1. ops[o].verb = "start"
    BY <1>3, VerbAt DEF VerbInv, AddWorktree, RecordLane, At
  <2>2. CASE Refuse(o)
    BY <2>2, ThrowFails
  <2>3. CASE ~Refuse(o)
    <3>1. UNCHANGED <<journal, claims, runs, ghost>> /\ OffPid
      BY <1>3, <2>3 DEF AddWorktree, RecordLane, OffPid, files
    <3>2. Go(o, "enroll") \/ Go(o, "spawn")
      BY <1>3, <2>3 DEF AddWorktree, RecordLane
    <3>3. ops'[o].verb = "start"
      BY <2>1, <3>2, GoRead DEF VerbInv
    <3>4. ~Stakes(o)' /\ ~Owns(o)'
      BY <3>3 DEF Stakes, Owns, StakesAt, OwnsAt, ThrowsAt
    <3>5. lane'.pid = lane.pid
      BY <3>1, LaneStays DEF RaceInv, Shapes
    <3> QED
      BY <2>1, <3>1, <3>2, <3>4, <3>5, GhostStill, ThrowGoes DEF ClaimMoves, RowsGrow
  <2> QED
    BY <2>2, <2>3
<1> QED
  BY <1>2, <1>3

\* A verb that reads the journal has claimed nothing.
LEMMA ThrowLoaded ==
  ASSUME VerbInv, RaceInv, ThrowInv, NEW o \in Ops,
         \/ BeginReturn(o) \/ BeginDiscard(o) \/ BeginRecord(o) \/ BeginCloseout(o)
         \/ \E choice \in {"accept", "abandon"} : BeginReady(o, choice)
  PROVE  ThrowInv'
<1>1. PICK d : d = ops[o] /\ Fielded(d)
  BY DEF VerbInv, CallShape
<1>2. Gone(d.died)
  BY <1>1 DEF ThrowInv, KeptInv, Kept
<1>3. ASSUME NEW verb, NEW pc \in {"judge", "inspect", "quiet", "view"}, Load(o, verb, pc)
      PROVE  ThrowInv'
  <2>1. PICK c : c = [ops[o] EXCEPT !.pc = pc, !.verb = verb, !.n = Len(journal)]
    OBVIOUS
  <2>2. c = [d EXCEPT !.pc = pc, !.verb = verb, !.n = Len(journal)]
    BY <1>1, <2>1
  <2>3. Fielded(c) /\ c.pc = pc /\ c.verb = verb /\ c.died = d.died
    BY <1>1, <2>2 DEF Fielded
  <2>4. ops' = [ops EXCEPT ![o] = c]
    BY <1>3, <2>1 DEF Load
  <2>5. ~StakesAt(c) /\ ~OwnsAt(c) /\ ~ThrowsAt(c) /\ c.pc # "hand"
    BY <2>3, PlaceSets DEF StakesAt, OwnsAt, ThrowsAt, Returning
  <2> QED
    BY <1>2, <1>3, <2>3, <2>4, <2>5, ThrowTo DEF Load, files
<1>4. ASSUME NEW choice \in {"accept", "abandon"}, BeginReady(o, choice)
      PROVE  ThrowInv'
  <2>1. PICK ready : ops' = [ops EXCEPT ![o].pc = "claim", ![o].verb = choice, ![o].n = Len(journal),
                                        ![o].at = ready, ![o].way = "ready"]
    BY <1>4 DEF BeginReady
  <2>2. PICK c : c = [ops[o] EXCEPT !.pc = "claim", !.verb = choice, !.n = Len(journal), !.at = ready, !.way = "ready"]
    OBVIOUS
  <2>3. c = [d EXCEPT !.pc = "claim", !.verb = choice, !.n = Len(journal), !.at = ready, !.way = "ready"]
    BY <1>1, <2>2
  <2>4. Fielded(c) /\ c.verb = choice /\ c.pc = "claim" /\ c.died = d.died
    BY <1>1, <2>3 DEF Fielded
  <2>5. ops' = [ops EXCEPT ![o] = c]
    BY <2>1, <2>2
  <2>6. ~StakesAt(c) /\ ~OwnsAt(c) /\ ~ThrowsAt(c)
    BY <1>4, <2>4 DEF StakesAt, OwnsAt, ThrowsAt
  <2> QED
    BY <1>2, <1>4, <2>4, <2>5, <2>6, ThrowTo DEF BeginReady, files
<1> QED
  BY <1>3, <1>4 DEF BeginReturn, BeginDiscard, BeginRecord, BeginCloseout

\* Whatever is found dead has no process.
LEMMA FoundGone ==
  ASSUME NEW n, NEW dead \in DeadRun(n), dead
  PROVE  Gone(lane.pid)
BY DEF DeadRun, FoundDead, Alive, Gone

\* A return has found its run dead, or none.
LEMMA ThrowJudged ==
  ASSUME VerbInv, RaceInv, ThrowInv, NEW o \in Ops, Judge(o)
  PROVE  ThrowInv'
<1>1. CASE Refuse(o)
  BY <1>1, ThrowFails
<1>2. CASE ~Refuse(o)
  <2>1. PICK dead \in DeadRun(ops[o].n) :
          LET n == ops[o].n
              ready == Last(n, {"ready"})
              stop == IF dead THEN n + 1 ELSE Last(n, {"stop"})
              onStop == dead \/ stop > ready
              p == IF onStop THEN stop ELSE ready
              prior == IF onStop THEN StopPrior(n, stop) ELSE ReadyPrior(ready)
          IN ops' = [ops EXCEPT ![o].pc = "claim", ![o].at = p, ![o].prior = prior,
                            ![o].way = IF onStop THEN "stop" ELSE "ready",
                            ![o].rec = IF onStop THEN lane.spec.rec ELSE ReadyRec(ready),
                            ![o].died = IF dead THEN lane.pid ELSE None]
    BY <1>2, ZenonT(60) DEF Judge
  <2>2. PICK died, at, prior, way, rec :
          /\ died = IF dead THEN lane.pid ELSE None
          /\ ops' = [ops EXCEPT ![o].pc = "claim", ![o].at = at, ![o].prior = prior,
                                ![o].way = way, ![o].rec = rec, ![o].died = died]
    BY <2>1, Zenon
  <2>3. PICK d : d = ops[o] /\ Fielded(d)
    BY DEF VerbInv, CallShape
  <2>4. PICK c : c = [ops[o] EXCEPT !.pc = "claim", !.at = at, !.prior = prior,
                                    !.way = way, !.rec = rec, !.died = died]
    OBVIOUS
  <2>5. c = [d EXCEPT !.pc = "claim", !.at = at, !.prior = prior, !.way = way, !.rec = rec, !.died = died]
    BY <2>3, <2>4
  <2>6. Fielded(c) /\ c.pc = "claim" /\ c.verb = d.verb /\ c.died = died
    BY <2>3, <2>5 DEF Fielded
  <2>7. ops' = [ops EXCEPT ![o] = c]
    BY <2>2, <2>4
  <2>8. ops[o].verb = "return"
    BY VerbAt DEF VerbInv, Judge, At
  <2>9. ~StakesAt(c) /\ ~OwnsAt(c) /\ ~ThrowsAt(c)
    BY <2>3, <2>6, <2>8 DEF StakesAt, OwnsAt, ThrowsAt, Returning
  <2>10. Gone(None)
    BY VerbsAssumption DEF Gone, RaceInv, Shapes, RunShape
  <2>11. Gone(died)
    BY <2>2, <2>10, FoundGone
  <2> QED
    BY <1>2, <2>6, <2>7, <2>9, <2>11, ThrowTo DEF Judge, files
<1> QED
  BY <1>1, <1>2

\* A row there is, or the one after it, has a place among the claims.
LEMMA InPositions ==
  ASSUME RowShape, Len(journal) <= MaxRows
  PROVE  \A p \in 1..(Len(journal) + 1) : p \in Positions
<1>1. Len(journal) \in Nat
  BY DEF RowShape
<1> QED
  BY <1>1, RowBound DEF Positions

\* A return that has claimed its decision on a ready row claims that row.
LEMMA ThrowClaimed ==
  ASSUME VerbInv, RaceInv, ThrowInv, NEW o \in Ops, ClaimDecision(o)
  PROVE  ThrowInv'
<1>1. InPlace(o) /\ ops[o].verb \in {"return", "accept", "abandon"} /\ ops[o].pc = "claim"
  BY VerbAt DEF VerbInv, ClaimDecision, At
<1>2. CASE Refuse(o)
  BY <1>2, ThrowFails
<1>3. CASE ~Refuse(o)
  <2>1. PICK d : d = ops[o] /\ Fielded(d)
    BY DEF VerbInv, CallShape
  <2>2. PICK pc : /\ pc = CASE ops[o].verb = "accept" -> "head"
                            [] ops[o].verb = "abandon" -> "decide"
                            [] OTHER -> IF ops[o].way = "stop" THEN "recheck" ELSE "stake"
                  /\ ops' = [ops EXCEPT ![o].pc = pc, ![o].stake = ops[o].at]
    BY <1>3 DEF ClaimDecision
  <2>3. PICK c : c = [ops[o] EXCEPT !.pc = pc, !.stake = ops[o].at]
    OBVIOUS
  <2>4. c = [d EXCEPT !.pc = pc, !.stake = d.at]
    BY <2>1, <2>3
  <2>5. /\ Fielded(c) /\ c.pc = pc /\ c.verb = d.verb /\ c.stake = d.at /\ c.died = d.died
    BY <2>1, <2>4 DEF Fielded
  <2>6. ops' = [ops EXCEPT ![o] = c]
    BY <2>2, <2>3
  <2>7. UNCHANGED <<journal, lane, claims, runs, ghost>>
    BY <1>3 DEF ClaimDecision
  <2>8. Gone(c.died) /\ ~ThrowsAt(c) /\ c.pc # "hand" /\ ~OwnsAt(c)
    <3>1. Gone(c.died)
      BY <2>1, <2>5 DEF ThrowInv, KeptInv, Kept
    <3>2. c.verb \in {"return", "accept", "abandon"} /\ c.pc \in {"head", "decide", "recheck", "stake"}
      BY <1>1, <2>1, <2>2, <2>5
    <3> QED
      BY <3>1, <3>2 DEF ThrowsAt, OwnsAt, StakesAt, Returning
  <2>9. StakesAt(c) => c.stake \in Positions
    <3> SUFFICES ASSUME StakesAt(c) PROVE d.at \in Positions
      BY <2>5
    <3>1. ops[o].verb = "return" /\ pc \in {"hand"} \union (Returning \ {"recheck"})
      BY <2>1, <2>5, <2>8 DEF StakesAt
    <3>2. pc = IF ops[o].way = "stop" THEN "recheck" ELSE "stake"
      BY <2>2, <3>1
    <3>3. ops[o].way = "ready"
      BY <1>1, <3>1, <3>2 DEF RaceInv, Shapes, Aimed, Aiming, AimsAt
    <3>4. ops[o].at \in 1..Len(journal) /\ RowShape
      BY <1>1, <3>1, <3>3 DEF RaceInv, Shapes, Aimed, Aiming, AimsAt
    <3>5. ops[o].at \in 1..(Len(journal) + 1)
      BY <3>4 DEF RowShape
    <3> QED
      BY <2>1, <3>4, <3>5, InPositions DEF ThrowInv, KeptInv
  <2> QED
    BY <2>5, <2>6, <2>7, <2>8, <2>9, ThrowTo
<1> QED
  BY <1>2, <1>3

\* A return looks again, and has found the stop it claims.
LEMMA ThrowRechecked ==
  ASSUME VerbInv, RaceInv, ThrowInv, NEW o \in Ops, Recheck(o)
  PROVE  ThrowInv'
<1>1. CASE Forfeit(o)
  BY <1>1, ThrowFails
<1>2. CASE ~Forfeit(o)
  <2>0. PICK n : n = Len(journal)
    OBVIOUS
  <2>1. PICK dead \in DeadRun(n) :
          LET stop == IF dead THEN n + 1 ELSE Last(n, {"stop"})
              rec == ops[o].rec
          IN /\ stop # 0
             /\ ops' = [ops EXCEPT ![o].pc = "stake", ![o].stake = stop,
                            ![o].died = IF dead THEN lane.pid ELSE None,
                            ![o].rec = IF ~dead THEN rec
                                       ELSE Min({stop, IF rec = 0 THEN stop ELSE rec})]
    BY <1>2, <2>0, ZenonT(60) DEF Recheck
  <2>2. PICK stop, died, rec :
          /\ stop = (IF dead THEN n + 1 ELSE Last(n, {"stop"})) /\ stop # 0
          /\ died = IF dead THEN lane.pid ELSE None
          /\ ops' = [ops EXCEPT ![o].pc = "stake", ![o].stake = stop, ![o].died = died, ![o].rec = rec]
    BY <2>1, Zenon
  <2>3. PICK d : d = ops[o] /\ Fielded(d)
    BY DEF VerbInv, CallShape
  <2>4. PICK c : c = [ops[o] EXCEPT !.pc = "stake", !.stake = stop, !.died = died, !.rec = rec]
    OBVIOUS
  <2>5. c = [d EXCEPT !.pc = "stake", !.stake = stop, !.died = died, !.rec = rec]
    BY <2>3, <2>4
  <2>6. Fielded(c) /\ c.pc = "stake" /\ c.verb = d.verb /\ c.died = died /\ c.stake = stop
    BY <2>3, <2>5 DEF Fielded
  <2>7. ops' = [ops EXCEPT ![o] = c]
    BY <2>2, <2>4
  <2>8. ops[o].verb = "return"
    BY VerbAt DEF VerbInv, Recheck, At
  <2>9. ~ThrowsAt(c) /\ ~OwnsAt(c)
    BY <2>3, <2>6, <2>8 DEF OwnsAt, ThrowsAt
  <2>10. Gone(None)
    BY VerbsAssumption DEF Gone, RaceInv, Shapes, RunShape
  <2>11. Gone(died)
    BY <2>2, <2>10, FoundGone
  <2>12. stop \in Positions
    <3>1. RowShape /\ n \in Nat
      BY <2>0 DEF RaceInv, Shapes, RowShape
    <3>2. Last(n, {"stop"}) \in 0..n
      BY <3>1, LastRowOf DEF Of
    <3>3. stop \in 1..(n + 1)
      BY <2>2, <3>1, <3>2
    <3> QED
      BY <2>0, <3>1, <3>3, InPositions DEF ThrowInv, KeptInv
  <2>13. UNCHANGED <<journal, lane, claims, runs, ghost>>
    BY <1>2 DEF Recheck, files
  <2> QED
    BY <2>6, <2>7, <2>9, <2>11, <2>12, <2>13, ThrowTo
<1> QED
  BY <1>1, <1>2

\* A claim is taken where there is none, or from a process that is dead.
LEMMA ThrowTakes ==
  ASSUME VerbInv, RaceInv, ThrowInv, NEW o \in Ops, Stake(o) \/ TakeLock(o) \/ Displace(o) \/ Replace(o)
  PROVE  ThrowInv'
<1>1. /\ ops[o].verb \in {"return", "discard"}
      /\ ops[o].pc \in {"stake", "lock", "displace", "replace"}
  BY VerbAt DEF VerbInv, Stake, TakeLock, Displace, Replace, At
<1>2. Stakes(o) /\ ops[o].stake \in Positions
  <2>1. Stakes(o)
    BY <1>1, PlaceSets DEF Stakes, StakesAt, ThrowsAt, Returning
  <2> QED
    BY <2>1 DEF ThrowInv, KeptInv, Kept
<1>3. CASE Unstaked(o) \/ Unlocked(o)
  BY <1>3, ThrowFails
<1>4. PICK d : d = ops[o] /\ Fielded(d)
  BY DEF VerbInv, CallShape
<1>5. ASSUME NEW pc, NEW text, ops' = [ops EXCEPT ![o].pc = pc, ![o].text = text] \/ Go(o, pc)
      PROVE  \E c : /\ Fielded(c) /\ ops' = [ops EXCEPT ![o] = c] /\ c.pc = pc /\ c.verb = d.verb
                    /\ c.stake = d.stake /\ c.died = d.died
  <2>1. PICK c : /\ c = [ops[o] EXCEPT !.pc = pc, !.text = text] \/ c = [ops[o] EXCEPT !.pc = pc]
                 /\ ops' = [ops EXCEPT ![o] = c]
    BY <1>5 DEF Go
  <2>2. c = [d EXCEPT !.pc = pc, !.text = text] \/ c = [d EXCEPT !.pc = pc]
    BY <1>4, <2>1
  <2>3. Fielded(c) /\ c.pc = pc /\ c.verb = d.verb /\ c.stake = d.stake /\ c.died = d.died
    BY <1>4, <2>2 DEF Fielded
  <2> QED
    BY <2>1, <2>3
<1>6. ASSUME NEW c, Fielded(c), ops' = [ops EXCEPT ![o] = c], c.verb = d.verb, c.stake = d.stake,
             c.died = d.died, c.pc \in {"lock", "displace", "replace"} \/ (c.pc = Staked(o) /\ claims'[d.stake] = o),
             UNCHANGED <<journal, lane, runs, ghost>>, ClaimMoves(o)
      PROVE  ThrowInv'
  <2>1. ops'[o] = c /\ Alone(o)
    BY <1>6, Replaced DEF VerbInv, Alone
  <2>2. /\ c.pc \notin {"hand", "proof", "others", "remove"}
        /\ c.pc = "reread" => d.verb = "discard"
    BY <1>4, <1>6 DEF Staked
  <2>3. Kept(o)
    BY DEF ThrowInv, KeptInv
  <2>4. EndOf(c)' = EndOf(d) /\ Spots' = Spots /\ (Throws(o)' => Throws(o))
    <3>1. Throws(o)' => Throws(o)
      BY <1>1, <1>4, <1>6, <2>1, PlaceSets DEF Throws, ThrowsAt
    <3> QED
      BY <1>6, <3>1 DEF EndOf, Spots
  <2>5. Kept(o)'
    BY <1>2, <1>4, <1>6, <2>1, <2>2, <2>3, <2>4 DEF Kept, Gone, EndOf
  <2>6. Own(o)'
    BY <1>4, <1>6, <2>1 DEF Own, Owns, OwnsAt
  <2>7. Safe(o)'
    BY <2>1, <2>2 DEF Safe, AllListed, Listed
  <2>8. GhostStays /\ RowsGrow
    BY <1>6, GhostStill DEF RowsGrow
  <2> QED
    BY <1>6, <2>1, <2>2, <2>5, <2>6, <2>7, <2>8, ThrowMoves
<1>7. ASSUME NEW v \in {None, o}, claims' = [claims EXCEPT ![ops[o].stake] = v],
             \/ claims[ops[o].stake] = None
             \/ claims[ops[o].stake] \notin Ops
             \/ claims[ops[o].stake] \in Ops /\ ops[claims[ops[o].stake]].pc \in {"new", "done"}
      PROVE  ClaimMoves(o) /\ (v = o => claims'[ops[o].stake] = o)
  <2>1. ASSUME NEW q \in Ops \ {o}, Owns(q) PROVE ops[q].stake # ops[o].stake
    <3>1. claims[ops[q].stake] = q
      BY <2>1 DEF ThrowInv, KeptInv, Own
    <3>2. ops[q].pc \notin {"new", "done"}
      BY <2>1, PlaceSets DEF Owns, OwnsAt, StakesAt, ThrowsAt, Returning
    <3> QED
      BY <1>7, <3>1, <3>2, VerbsAssumption
  <2>2. ClaimMoves(o)
    BY <1>7, <2>1 DEF ClaimMoves
  <2> QED
    BY <1>2, <1>7, <2>2 DEF ThrowInv, KeptInv, ClaimShape
<1>8. \A dead \in FoundDead(claims[ops[o].stake]) : dead =>
        \/ claims[ops[o].stake] \notin Ops
        \/ claims[ops[o].stake] \in Ops /\ ops[claims[ops[o].stake]].pc \in {"new", "done"}
  BY DEF FoundDead, Alive
<1>9. CASE Stake(o) /\ ~Unstaked(o)
  <2>1. CASE claims[ops[o].stake] = None
    <3>1. /\ claims' = [claims EXCEPT ![ops[o].stake] = o] /\ Go(o, Staked(o))
          /\ UNCHANGED <<journal, lane, runs, ghost>>
      BY <1>9, <2>1 DEF Stake
    <3>2. ClaimMoves(o) /\ claims'[ops[o].stake] = o
      BY <1>7, <2>1, <3>1
    <3> QED
      BY <1>4, <1>5, <1>6, <3>1, <3>2
  <2>2. CASE claims[ops[o].stake] # None
    <3>1. /\ ops' = [ops EXCEPT ![o].pc = "lock", ![o].text = claims[ops[o].stake]]
          /\ UNCHANGED <<journal, lane, claims, runs, ghost>>
      BY <1>9, <2>2 DEF Stake, files
    <3> QED
      BY <1>5, <1>6, <3>1 DEF ClaimMoves
  <2> QED
    BY <2>1, <2>2
<1>10. CASE TakeLock(o) /\ ~Unstaked(o)
  <2>1. Go(o, "displace") /\ UNCHANGED <<journal, lane, claims, runs, ghost>>
    BY <1>10 DEF TakeLock
  <2> QED
    BY <1>5, <1>6, <2>1 DEF ClaimMoves
<1>11. CASE Displace(o) /\ ~Unlocked(o)
  <2>1. PICK dead \in FoundDead(claims[ops[o].stake]) :
          /\ dead /\ claims' = [claims EXCEPT ![ops[o].stake] = None] /\ Go(o, "replace")
          /\ UNCHANGED <<journal, lane, runs, ghost>>
    BY <1>11, Zenon DEF Displace
  <2>2. ClaimMoves(o)
    BY <1>7, <1>8, <2>1
  <2> QED
    BY <1>5, <1>6, <2>1, <2>2
<1>12. CASE Replace(o) /\ ~Unlocked(o)
  <2>1. /\ claims[ops[o].stake] = None /\ claims' = [claims EXCEPT ![ops[o].stake] = o]
        /\ ops' = [ops EXCEPT ![o].pc = Staked(o), ![o].text = None]
        /\ UNCHANGED <<journal, lane, runs, ghost>>
    BY <1>12 DEF Replace
  <2>2. ClaimMoves(o) /\ claims'[ops[o].stake] = o
    BY <1>7, <2>1
  <2>3. PICK c : /\ Fielded(c) /\ ops' = [ops EXCEPT ![o] = c] /\ c.pc = Staked(o) /\ c.verb = d.verb
                 /\ c.stake = d.stake /\ c.died = d.died
    <3>1. PICK pc, text : pc = Staked(o) /\ ops' = [ops EXCEPT ![o].pc = pc, ![o].text = text]
      BY <2>1
    <3> QED
      BY <1>5, <3>1, Zenon
  <2> QED
    BY <1>4, <1>6, <2>1, <2>2, <2>3
<1> QED
  BY <1>3, <1>9, <1>10, <1>11, <1>12

\* What a return does before it launches, it does with the claim its own.
LEMMA ThrowPrepared ==
  ASSUME VerbInv, RaceInv, ThrowInv, NEW o \in Ops, Confirm(o) \/ RecordUndo(o) \/ WriteSpec(o) \/ DropPid(o)
  PROVE  ThrowInv'
<1>1. ops[o].verb = "return" /\ ops[o].pc \in {"confirm", "uncommit", "spec", "drop"}
  BY VerbAt DEF VerbInv, Confirm, RecordUndo, WriteSpec, DropPid, At
<1>2. Stakes(o) /\ Owns(o) /\ claims[ops[o].stake] = o
  <2>1. Stakes(o) /\ Owns(o)
    BY <1>1 DEF Stakes, Owns, OwnsAt, StakesAt, Returning
  <2> QED
    BY <2>1 DEF ThrowInv, KeptInv, Own
<1>3. CASE Release(o) /\ UNCHANGED lane
  BY <1>2, <1>3, ThrowFails DEF OffPid
<1>4. CASE ~(Release(o) /\ UNCHANGED lane)
  <2>1. \/ Go(o, "uncommit") \/ Go(o, "spec") \/ Go(o, "drop") \/ Go(o, "spawn")
    BY <1>4 DEF Confirm, RecordUndo, WriteSpec, DropPid, Proceed
  <2>2. runs' = runs /\ claims' = claims /\ ghost' = ghost
    BY <1>4 DEF Confirm, RecordUndo, WriteSpec, DropPid, Proceed, files
  <2>3. RowsGrow
    BY <1>4 DEF Confirm, RecordUndo, WriteSpec, DropPid, Proceed, RowsGrow, Row, Kinds, CallRows
  <2>4. lane'.pid = lane.pid \/ Gone(lane'.pid)
    <3>1. CASE DropPid(o)
      <4>1. lane' = [lane EXCEPT !.pid = None]
        BY <3>1 DEF DropPid
      <4>2. lane'.pid = None
        BY <4>1 DEF RaceInv, Shapes, LaneShape, Laned
      <4> QED
        BY <4>2, VerbsAssumption DEF Gone, RaceInv, Shapes, RunShape
    <3>2. CASE ~DropPid(o)
      <4>1. OffPid
        BY <1>4, <3>2 DEF Confirm, RecordUndo, WriteSpec, Proceed, OffPid
      <4> QED
        BY <4>1, LaneStays DEF RaceInv, Shapes
    <3> QED
      BY <3>1, <3>2
  <2> QED
    BY <1>1, <1>2, <2>1, <2>2, <2>3, <2>4, GhostStill, ThrowGoes DEF ClaimMoves
<1> QED
  BY <1>3, <1>4

\* What a launch does to the calls.
LEMMA SpawnCalls ==
  ASSUME CallShape, NEW o \in Ops, Spawn(o)
  PROVE  /\ Alone(o)
         /\ \/ Leave(o)
            \/ /\ ops[o].verb = "return"
               /\ ops'[o].pc = "hand" /\ ops'[o].run = Len(runs) + 1
               /\ ops'[o].verb = ops[o].verb /\ ops'[o].n = ops[o].n
               /\ ops'[o].way = ops[o].way /\ ops'[o].at = ops[o].at
               /\ ops'[o].stake = ops[o].stake /\ ops'[o].died = ops[o].died
<1>1. CASE Leave(o)
  BY <1>1, AwayRead
<1>2. CASE ~Leave(o)
  <2>1. ops[o].verb = "return" /\ ops' = [ops EXCEPT ![o].pc = "hand", ![o].run = Len(runs) + 1]
    BY <1>2 DEF Spawn
  <2>2. PICK d : d = ops[o] /\ Fielded(d)
    BY DEF CallShape
  <2>3. PICK c : c = [ops[o] EXCEPT !.pc = "hand", !.run = Len(runs) + 1]
    OBVIOUS
  <2>4. c = [d EXCEPT !.pc = "hand", !.run = Len(runs) + 1]
    BY <2>2, <2>3
  <2>5. /\ Fielded(c) /\ c.pc = "hand" /\ c.run = Len(runs) + 1 /\ c.verb = d.verb /\ c.n = d.n
        /\ c.way = d.way /\ c.at = d.at /\ c.stake = d.stake /\ c.died = d.died
    BY <2>2, <2>4 DEF Fielded
  <2>6. ops' = [ops EXCEPT ![o] = c]
    BY <2>1, <2>3
  <2> QED
    BY <2>1, <2>2, <2>5, <2>6, Replaced DEF Alone
<1> QED
  BY <1>1, <1>2

\* A launch gives its run no name but run.pid and the claim its call owns; and a
\* discard that has inspected an end by another name is excepted by then.
LEMMA ThrowSpawned ==
  ASSUME VerbInv, RaceInv, RaceInv', ThrowInv, NEW o \in Ops, Spawn(o)
  PROVE  ThrowInv'
<1>0. PICK r : r = Len(runs) + 1
  OBVIOUS
<1>1. /\ InPlace(o) /\ ops[o].verb \in {"start", "return"} /\ ops[o].pc = "spawn"
  BY VerbAt DEF VerbInv, Spawn, At
<1>2. PICK run : run = NewRun(o)
  OBVIOUS
<1>3. /\ RunShape' /\ DOMAIN runs = 1..Len(runs) /\ DOMAIN runs' = 1..r /\ Len(runs) \in Nat
      /\ \A s \in DOMAIN runs : runs'[s] = runs[s]
  <2>1. Worked(run) /\ runs' = Append(runs, run)
    BY <1>2 DEF NewRun, Worked, Spawn
  <2> QED
    BY <1>0, <2>1, RunAfter DEF RaceInv, Shapes
<1>4. /\ journal' = journal /\ claims' = claims
  BY DEF Spawn, files
<1>5. /\ ghost'.acts = ghost.acts \union IF ops[o].verb = "start" THEN {} ELSE {Act(o, "return", r)}
      /\ ghost'.unrecorded = ghost.unrecorded
      /\ ghost'.raced = (ghost.raced \/ Retaken(o))
  BY <1>0, SpawnRaces DEF VerbInv
<1>6. GhostStays /\ RowsGrow /\ Shapes /\ RowsStay
  BY <1>4, <1>5, Grows DEF GhostStays, RowsGrow, Launches, RaceInv, Shapes
<1>7. /\ Alone(o)
      /\ \/ Leave(o)
         \/ /\ ops[o].verb = "return"
            /\ ops'[o].pc = "hand" /\ ops'[o].run = r
            /\ ops'[o].verb = ops[o].verb
            /\ ops'[o].stake = ops[o].stake /\ ops'[o].died = ops[o].died
  BY <1>0, SpawnCalls DEF VerbInv
<1>8. ops[o].verb = "return" => Owns(o) /\ claims[ops[o].stake] = o /\ ops[o].stake \in Positions
  <2>1. ops[o].verb = "return" => Owns(o) /\ Stakes(o)
    BY <1>1 DEF Owns, OwnsAt, Stakes, StakesAt, Returning
  <2> QED
    BY <2>1 DEF ThrowInv, KeptInv, Own, Kept
<1>9. Kept(o)' /\ Own(o)' /\ ~Throws(o)'
  <2>1. CASE Leave(o)
    <3>1. ops'[o].verb = "none" /\ ops'[o].pc = "done" /\ ops'[o].died = None
      BY <2>1, AwayRead, GoAway DEF VerbInv
    <3>2. ~Gone(None)' => FALSE
      BY <1>3, VerbsAssumption DEF Gone
    <3> QED
      BY <3>1, <3>2 DEF Kept, Own, Owns, OwnsAt, Stakes, StakesAt, Throws, ThrowsAt, Gone
  <2>2. CASE ~Leave(o)
    <3>1. Gone(ops[o].died)'
      <4>1. Gone(ops[o].died) /\ ops[o].died \in Pids
        BY <1>6 DEF ThrowInv, KeptInv, Kept, Shapes, PidsKnown
      <4> QED
        BY <1>3, <1>7, <2>2, <4>1, VerbsAssumption DEF Gone, Pids
    <3>2. r \in DOMAIN runs'
      BY <1>0, <1>3
    <3> QED
      BY <1>4, <1>7, <1>8, <2>2, <3>1, <3>2 DEF Kept, Own, Throws, ThrowsAt, Gone
  <2> QED
    BY <2>1, <2>2
<1>10. ASSUME ~ghost'.raced, NEW q \in Ops \ {o} PROVE Safe(q)'
  <2>1. Kept(q) /\ Own(q) /\ ops'[q] = ops[q]
    BY <1>7 DEF ThrowInv, KeptInv, Alone
  <2>2. SUFFICES ASSUME Throws(q), ops[q].pc \in {"proof", "others", "remove"} PROVE Excepted(q)'
    BY <2>1 DEF Safe, AllListed, Listed, Throws
  <2>3. DOMAIN runs # {} /\ EndOf(ops[q]) \in Spots /\ claims[ops[q].stake] = q
    BY <2>1, <2>2, PlaceSets DEF Kept, Own, Owns, OwnsAt, StakesAt, Throws
  <2>4. ops[o].verb = "return" /\ ~Retaken(o) /\ ~ghost.raced
    <3>1. ~Retaken(o) /\ ~ghost.raced
      BY <1>5, <1>10
    <3>2. runs # <<>>
      BY <2>3
    <3> QED
      BY <1>1, <3>1, <3>2 DEF Retaken
  <2>5. CASE Excepted(q)
    BY <1>6, <2>1, <2>3, <2>5, ExceptedStays DEF GhostStays
  <2>6. CASE ~Excepted(q)
    <3>1. NoRunBetween(EndOf(ops[o]), Len(journal)) /\ NoRunBetween(EndOf(ops[q]), Len(journal))
      <4>1. Cleared(o)
        BY <1>1, <2>4 DEF Cleared, ClearedAt, Returning
      <4> QED
        BY <2>4, <2>6, <4>1 DEF RaceInv, Races, ClearedQuiet, Quiet, Excepted
    <3>2. EndOf(ops[o]) \in 0..Len(journal) /\ EndOf(ops[q]) \in 0..Len(journal) /\ Len(journal) \in Nat
      BY <1>1, <1>6, <2>3, <2>4 DEF Shapes, Aimed, Cleared, ClearedAt, Returning, Spots, RowShape
    <3>3. ops[q].stake # ops[o].stake
      BY <1>8, <2>3, <2>4
    <3>4. PICK act : act = Act(o, "return", r)
      OBVIOUS
    <3>5. /\ act \in Launches' /\ act.stake = ops[o].stake /\ EndOf(act) = EndOf(ops[o])
      <4>1. act.what = "return" /\ EndOf(act) = EndOf(ops[o]) /\ act.stake = ops[o].stake
        BY <3>4, ActOf DEF Act
      <4> QED
        BY <1>5, <2>4, <3>4, <4>1 DEF Launches
    <3>6. SameEnd(act, ops[q])'
      <4>1. NoRunBetween(EndOf(act), EndOf(ops[q])) /\ NoRunBetween(EndOf(ops[q]), EndOf(act))
        BY <3>1, <3>2, <3>5 DEF NoRunBetween
      <4>2. EndOf(act)' = EndOf(act) /\ EndOf(ops[q])' = EndOf(ops[q])
        BY <2>1 DEF EndOf
      <4> QED
        BY <1>4, <4>1, <4>2 DEF SameEnd, NoRunBetween
    <3> QED
      BY <2>1, <3>3, <3>5, <3>6 DEF Excepted, Renamed
  <2> QED
    BY <2>5, <2>6
<1>11. ~ghost'.raced => \A q \in Ops : Safe(q)'
  BY <1>9, <1>10 DEF Safe
<1>12. ClaimShape' /\ DOMAIN runs \subseteq DOMAIN runs'
  BY <1>0, <1>3, <1>4 DEF ThrowInv, KeptInv, ClaimShape
<1> QED
  BY <1>3, <1>4, <1>6, <1>7, <1>9, <1>11, <1>12, ThrowStep

\* A launch that fails names a run that is dead again, and lets go.
LEMMA ThrowSpawnFails ==
  ASSUME VerbInv, RaceInv, ThrowInv, NEW o \in Ops, SpawnFails(o)
  PROVE  ThrowInv'
<1>1. /\ InPlace(o) /\ ops[o].verb \in {"start", "return"} /\ ops[o].pc = "spawn"
  BY VerbAt DEF VerbInv, SpawnFails, At
<1>2. CASE ops[o].verb = "start"
  <2>1. Refuse(o)
    BY <1>2 DEF SpawnFails
  <2> QED
    BY <2>1, ThrowFails
<1>3. CASE ops[o].verb = "return"
  <2>1. Stakes(o) /\ Owns(o) /\ Kept(o)
    BY <1>1, <1>3 DEF Stakes, Owns, OwnsAt, StakesAt, Returning, ThrowInv, KeptInv
  <2>2. LetGo(o) /\ lane' = IF ops[o].died = None THEN lane ELSE [lane EXCEPT !.pid = ops[o].died]
    BY <1>3 DEF SpawnFails
  <2>3. Leave(o) /\ runs' = runs /\ journal' = journal /\ claims' = [claims EXCEPT ![ops[o].stake] = None]
    BY <2>2 DEF LetGo, Unclaim
  <2>4. lane'.pid = lane.pid \/ Gone(lane'.pid)
    <3>1. CASE ops[o].died = None
      BY <2>2, <3>1
    <3>2. CASE ops[o].died # None
      <4>1. lane' = [lane EXCEPT !.pid = ops[o].died]
        BY <2>2, <3>2
      <4>2. lane'.pid = ops[o].died
        BY <4>1 DEF RaceInv, Shapes, LaneShape, Laned
      <4> QED
        BY <2>1, <4>2 DEF Kept
    <3> QED
      BY <3>1, <3>2
  <2>5. GhostStays
    <3>1. SameActs /\ (ghost.raced => ghost'.raced)
      BY <1>3, FailRaces DEF VerbInv
    <3> QED
      BY <3>1 DEF SameActs, GhostStays, Launches
  <2>6. ClaimMoves(o)
    <3>1. \A q \in Ops \ {o} : Owns(q) => ops[q].stake # ops[o].stake
      BY <2>1, OwnAlone DEF ThrowInv
    <3> QED
      BY <2>3, <3>1 DEF ClaimMoves
  <2> QED
    BY <2>3, <2>4, <2>5, <2>6, ThrowLeaves DEF RowsGrow
<1> QED
  BY <1>1, <1>2, <1>3

\* A claim names the run it launched, and a decision is recorded or is not.
LEMMA ThrowRecorded ==
  ASSUME VerbInv, RaceInv, ThrowInv, NEW o \in Ops, Hand(o) \/ Decide(o) \/ DecideFails(o)
  PROVE  ThrowInv'
<1>1. CASE Hand(o)
  <2>1. ops[o].verb = "return" /\ ops[o].pc = "hand"
    BY <1>1, VerbAt DEF VerbInv, Hand, At
  <2>2. Owns(o) /\ claims[ops[o].stake] = o
    BY <2>1 DEF Owns, OwnsAt, StakesAt, ThrowInv, KeptInv, Own
  <2>3. PICK pid \in {ops[o].run, o} : claims' = [claims EXCEPT ![ops[o].stake] = pid]
    BY <1>1, <2>2 DEF Hand
  <2>4. ClaimMoves(o)
    <3>1. \A q \in Ops \ {o} : Owns(q) => ops[q].stake # ops[o].stake
      BY <2>2, OwnAlone DEF ThrowInv
    <3> QED
      BY <2>1, <2>2, <2>3, <3>1 DEF ClaimMoves
  <2>5. Go(o, "decide") /\ UNCHANGED <<journal, lane, runs, ghost>>
    BY <1>1 DEF Hand
  <2>6. ~Stakes(o)' /\ ~Owns(o)'
    <3>1. ops'[o].pc = "decide" /\ ops'[o].verb = "return"
      BY <2>1, <2>5, GoRead DEF VerbInv
    <3> QED
      BY <3>1 DEF Stakes, Owns, StakesAt, OwnsAt, ThrowsAt, Returning
  <2> QED
    BY <2>1, <2>4, <2>5, <2>6, GhostStill, ThrowGoes DEF RowsGrow
<1>2. CASE Decide(o) \/ DecideFails(o)
  <2>1. Leave(o) /\ claims' = claims /\ UNCHANGED <<lane, runs>>
    BY <1>2 DEF Decide, DecideFails, files
  <2>2. GhostStays
    <3>1. CASE Decide(o)
      <4>1. CASE ghost' = ghost
        BY <4>1, GhostStill
      <4>2. CASE ghost' # ghost
        <5>1. PICK act : ghost' = [ghost EXCEPT !.acts = @ \union {act}]
          BY <3>1, <4>2 DEF Decide
        <5>2. /\ ghost'.acts = ghost.acts \union {act} /\ ghost'.unrecorded = ghost.unrecorded
              /\ ghost'.raced = ghost.raced
          BY <5>1, GhostGrows DEF VerbInv
        <5> QED
          BY <5>2 DEF GhostStays, Launches
      <4> QED
        BY <4>1, <4>2
    <3>2. CASE DecideFails(o)
      <4>1. ghost' = [ghost EXCEPT !.unrecorded = @ \union {ops[o].at}]
        BY <3>2 DEF DecideFails
      <4>2. PICK g : g = ghost /\ g = [acts |-> g.acts, unrecorded |-> g.unrecorded, raced |-> g.raced]
        BY DEF VerbInv, GhostShape
      <4>3. ghost' = [g EXCEPT !.unrecorded = @ \union {ops[o].at}]
        BY <4>1, <4>2
      <4>4. ghost'.acts = g.acts /\ ghost'.raced = g.raced /\ g.unrecorded \subseteq ghost'.unrecorded
        BY <4>2, <4>3
      <4> QED
        BY <4>2, <4>4 DEF GhostStays, Launches
    <3> QED
      BY <1>2, <3>1, <3>2
  <2>3. RowsGrow
    <3>1. CASE Decide(o)
      <4>1. ops[o].verb \in {"return", "accept", "abandon"}
        BY <3>1, VerbAt DEF VerbInv, Decide, At
      <4>2. PICK row : row.ev = ops[o].verb /\ Put(row)
        BY <3>1 DEF Decide, Row
      <4> QED
        BY <4>1, <4>2 DEF RowsGrow, Kinds, CallRows
    <3>2. CASE DecideFails(o)
      BY <3>2 DEF DecideFails, RowsGrow
    <3> QED
      BY <1>2, <3>1, <3>2
  <2> QED
    BY <2>1, <2>2, <2>3, ThrowLeaves DEF ClaimMoves
<1> QED
  BY <1>1, <1>2

\* An accept claims no stop.
LEMMA ThrowAccepted ==
  ASSUME VerbInv, RaceInv, ThrowInv, NEW o \in Ops,
         CheckHead(o) \/ OpenPullRequest(o) \/ EditPullRequest(o) \/ RecordPublished(o)
  PROVE  ThrowInv'
<1>1. ops[o].verb = "accept"
  BY VerbAt DEF VerbInv, CheckHead, OpenPullRequest, EditPullRequest, RecordPublished, At, Accepting
<1>2. CASE Forfeit(o)
  BY <1>2, ThrowFails
<1>3. CASE ~Forfeit(o)
  <2>1. runs' = runs /\ claims' = claims /\ lane'.pid = lane.pid
    <3>1. runs' = runs /\ claims' = claims
      BY <1>3 DEF CheckHead, OpenPullRequest, EditPullRequest, RecordPublished, Proceed, files
    <3>2. OffPid
      <4>1. \/ lane' = [lane EXCEPT !.tip = lane.head, !.pr = "open"]
            \/ lane' = lane
            \/ lane' = [lane EXCEPT !.tip = lane.head]
            \/ lane' = [lane EXCEPT !.tip = lane.head, !.pr = IF @ = "none" THEN "open" ELSE @]
        BY <1>3 DEF CheckHead, OpenPullRequest, EditPullRequest, RecordPublished, Proceed
      <4> QED
        BY <4>1, Zenon DEF OffPid
    <3> QED
      BY <3>1, <3>2, LaneStays DEF RaceInv, Shapes
  <2>2. RowsGrow
    BY <1>3 DEF CheckHead, OpenPullRequest, EditPullRequest, RecordPublished, Proceed, RowsGrow, Row, Kinds, CallRows
  <2>3. GhostStays
    <3>1. CASE ghost' = ghost
      BY <3>1, GhostStill
    <3>2. CASE ghost' # ghost
      <4>1. PICK act : ghost' = [ghost EXCEPT !.acts = @ \union {act}]
        BY <1>3, <3>2 DEF CheckHead, OpenPullRequest, EditPullRequest, RecordPublished, Proceed
      <4>2. /\ ghost'.acts = ghost.acts \union {act} /\ ghost'.unrecorded = ghost.unrecorded
            /\ ghost'.raced = ghost.raced
        BY <4>1, GhostGrows DEF VerbInv
      <4> QED
        BY <4>2 DEF GhostStays, Launches
    <3> QED
      BY <3>1, <3>2
  <2>4. Leave(o) \/ Go(o, "open") \/ Go(o, "edit") \/ Go(o, "publish") \/ Go(o, "decide")
    BY <1>3 DEF CheckHead, OpenPullRequest, EditPullRequest, RecordPublished, Proceed
  <2>5. CASE Leave(o)
    BY <2>1, <2>2, <2>3, <2>5, ThrowLeaves DEF ClaimMoves
  <2>6. CASE ~Leave(o)
    <3>1. ops'[o].verb = "accept"
      BY <1>1, <2>4, <2>6, GoRead DEF VerbInv
    <3>2. ~Stakes(o)' /\ ~Owns(o)'
      BY <3>1 DEF Stakes, Owns, StakesAt, OwnsAt, ThrowsAt
    <3> QED
      BY <1>1, <2>1, <2>2, <2>3, <2>4, <2>6, <3>2, ThrowGoes DEF ClaimMoves
  <2> QED
    BY <2>5, <2>6
<1> QED
  BY <1>2, <1>3

\* A discard knows where the end it inspected is.
LEMMA ThrowInspected ==
  ASSUME VerbInv, RaceInv, ThrowInv, NEW o \in Ops, Inspect(o)
  PROVE  ThrowInv'
<1>1. CASE Refuse(o)
  BY <1>1, ThrowFails
<1>2. CASE ~Refuse(o)
  <2>0. PICK m : m = Discardable(ops[o].n)
    OBVIOUS
  <2>1. PICK dead \in DeadRun(m) :
          /\ dead \/ (m # 0 /\ journal[m].ev = "stop")
          /\ ops' = [ops EXCEPT ![o].pc = "stake", ![o].stake = IF dead THEN m + 1 ELSE m,
                                ![o].died = IF dead THEN lane.pid ELSE None]
    BY <1>2, <2>0, ZenonT(60) DEF Inspect
  <2>2. PICK died, stake :
          /\ died = (IF dead THEN lane.pid ELSE None)
          /\ stake = (IF dead THEN m + 1 ELSE m)
          /\ ops' = [ops EXCEPT ![o].pc = "stake", ![o].stake = stake, ![o].died = died]
    BY <2>1, Zenon
  <2>3. PICK d : d = ops[o] /\ Fielded(d)
    BY DEF VerbInv, CallShape
  <2>4. PICK c : c = [ops[o] EXCEPT !.pc = "stake", !.stake = stake, !.died = died]
    OBVIOUS
  <2>5. c = [d EXCEPT !.pc = "stake", !.stake = stake, !.died = died]
    BY <2>3, <2>4
  <2>6. Fielded(c) /\ c.pc = "stake" /\ c.died = died /\ c.stake = stake
    BY <2>3, <2>5 DEF Fielded
  <2>7. ops' = [ops EXCEPT ![o] = c] /\ UNCHANGED <<journal, lane, claims, runs, ghost>>
    BY <1>2, <2>2, <2>4 DEF Inspect, files
  <2>8. m \in 0..Len(journal) /\ Len(journal) \in Nat /\ RowShape
    <3>1. ops[o].n \in 0..Len(journal) /\ Len(journal) \in Nat /\ RowShape
      BY DEF RaceInv, Shapes, Aimed, Spots, RowShape
    <3> QED
      BY <2>0, <3>1 DEF Discardable
  <2>9. CASE dead
    <3>1. died = lane.pid /\ stake = m + 1
      BY <2>2, <2>9
    <3>2. Gone(died) /\ died # None /\ DOMAIN runs # {}
      BY <2>1, <2>9, <3>1, FoundGone, FoundOut DEF RaceInv
    <3>3. stake \in Positions
      BY <2>8, <3>1, InPositions DEF ThrowInv, KeptInv
    <3>4. EndOf(c) \in Spots
      BY <2>6, <2>8, <3>1, <3>2 DEF EndOf, Spots
    <3> QED
      BY <2>6, <2>7, <3>2, <3>3, <3>4, ThrowTo DEF OwnsAt
  <2>10. CASE ~dead
    <3>1. died = None /\ stake = m /\ m # 0 /\ journal[m].ev = "stop"
      BY <2>1, <2>2, <2>10
    <3>2. Gone(died)
      BY <3>1, VerbsAssumption DEF Gone, RaceInv, Shapes, RunShape
    <3>3. DOMAIN runs # {}
      <4>1. ~AllCalls
        BY <2>8, <3>1 DEF AllCalls, NoRunBetween, CallRows
      <4> QED
        BY <4>1 DEF RaceInv, Shapes, FirstRun
    <3>4. stake \in Positions
      BY <2>8, <3>1, InPositions DEF ThrowInv, KeptInv
    <3>5. EndOf(c) \in Spots
      BY <2>6, <2>8, <3>1 DEF EndOf, Spots
    <3> QED
      BY <2>6, <2>7, <3>2, <3>3, <3>4, <3>5, ThrowTo DEF OwnsAt
  <2> QED
    BY <2>9, <2>10
<1> QED
  BY <1>1, <1>2

\* A discard that owns its stop goes on, when it knows of every run what it has to.
LEMMA ThrowThrows ==
  ASSUME VerbInv, RaceInv, ThrowInv, NEW o \in Ops, Throws(o), Owns(o), NEW c, Fielded(c),
         ops' = [ops EXCEPT ![o] = c], UNCHANGED <<journal, claims, runs, ghost>>, lane'.pid = lane.pid,
         c.verb = "discard", c.pc \in Places("discard") \ {"inspect"}, c.pc # "hand",
         c.stake = ops[o].stake, c.died = ops[o].died,
         AllListed(o) => AllListed(o)'
  PROVE  ThrowInv'
<1>1. ops'[o] = c /\ Alone(o)
  BY Replaced DEF VerbInv, Alone
<1>2. Kept(o) /\ Own(o) /\ claims[ops[o].stake] = o
  BY DEF ThrowInv, KeptInv, Own
<1>3. Stakes(o) /\ Throws(o)'
  BY <1>1 DEF Owns, OwnsAt, Stakes, Throws, ThrowsAt
<1>4. Kept(o)' /\ Own(o)'
  <2>1. EndOf(ops[o])' = EndOf(ops[o]) /\ Spots' = Spots
    BY <1>1 DEF EndOf, Spots
  <2> QED
    BY <1>1, <1>2, <1>3, <2>1 DEF Kept, Own, Gone
<1>5. GhostStays /\ RowsGrow /\ RowsStay /\ Shapes /\ ClaimMoves(o)
  BY GhostStill, Grows DEF RowsGrow, RaceInv, Shapes, ClaimMoves
<1>6. ~ghost'.raced => Safe(o)'
  <2>1. ~ghost'.raced => Excepted(o) \/ AllListed(o)
    BY DEF ThrowInv, Safe
  <2>2. Excepted(o) => Excepted(o)'
    BY <1>1, <1>2, <1>5, ExceptedStays DEF Kept, GhostStays
  <2> QED
    BY <2>1, <2>2 DEF Safe
<1> QED
  BY <1>1, <1>4, <1>5, <1>6, ThrowMoves

\* A discard lists the claims, asks after run.pid and after each claim, and
\* removes the worktree when no run with a process was in one of them.
LEMMA ThrowLists ==
  ASSUME VerbInv, RaceInv, ThrowInv, NEW o \in Ops, Reread(o) \/ ListClaims(o) \/ CheckPid(o) \/ CheckClaim(o)
  PROVE  ThrowInv'
<1>1. ops[o].verb = "discard" /\ ops[o].pc \in {"reread", "list", "proof", "others"}
  BY VerbAt DEF VerbInv, Reread, ListClaims, CheckPid, CheckClaim, At
<1>2. Throws(o) /\ Owns(o) /\ claims[ops[o].stake] = o
  <2>1. Throws(o) /\ Owns(o)
    BY <1>1, PlaceSets DEF Throws, Owns, OwnsAt, StakesAt, ThrowsAt
  <2> QED
    BY <2>1 DEF ThrowInv, KeptInv, Own
<1>3. CASE Release(o) /\ UNCHANGED lane
  BY <1>2, <1>3, ThrowFails DEF OffPid
<1>4. PICK d : d = ops[o] /\ Fielded(d)
  BY DEF VerbInv, CallShape
<1>5. DOMAIN runs \subseteq Nat /\ None \notin Ops \union Nat /\ Ops \intersect Nat = {}
  BY VerbsAssumption DEF RaceInv, Shapes, RunShape
<1>6. ASSUME NEW c, Fielded(c), ops' = [ops EXCEPT ![o] = c], UNCHANGED <<journal, lane, claims, runs, ghost>>,
             c.verb = d.verb, c.stake = d.stake, c.died = d.died,
             c.pc \in {"list", "proof", "others", "remove"},
             ASSUME NEW r \in DOMAIN runs, runs[r].live, AllListed(o) => Listed(o, r)
             PROVE  /\ c.pc \in {"proof", "others", "remove"} /\ AllListed(o) =>
                         \A p \in Positions : Names(p, r) => <<"claim", p>> \in c.todo
                    /\ c.pc \in {"others", "remove"} /\ AllListed(o) => lane.pid # r
                    /\ c.pc = "remove" /\ AllListed(o) => c.todo = {}
      PROVE  ThrowInv'
  <2>1. ops'[o] = c /\ Alone(o)
    BY <1>6, Replaced DEF VerbInv, Alone
  <2>2. ASSUME AllListed(o), NEW r \in DOMAIN runs', runs'[r].live PROVE Listed(o, r)'
    <3>1. Listed(o, r) /\ r \in DOMAIN runs /\ runs[r].live
      BY <1>6, <2>2 DEF AllListed
    <3>2. \A p \in Positions : Names(p, r)' => Names(p, r)
      BY <1>6, <2>1 DEF Names, Alone
    <3> QED
      BY <1>6, <2>1, <2>2, <3>1, <3>2 DEF Listed
  <2>3. AllListed(o) => AllListed(o)'
    BY <2>2 DEF AllListed
  <2> QED
    BY <1>1, <1>2, <1>4, <1>6, <2>3, ThrowThrows, PlaceSets
<1>7. CASE Reread(o) /\ ~(Release(o) /\ UNCHANGED lane)
  <2>1. Go(o, "list") /\ UNCHANGED <<journal, lane, claims, runs, ghost>>
    BY <1>7 DEF Reread, Proceed, files
  <2>2. PICK c : c = [d EXCEPT !.pc = "list"] /\ ops' = [ops EXCEPT ![o] = c]
    BY <1>4, <2>1 DEF Go
  <2>3. Fielded(c) /\ c.verb = d.verb /\ c.stake = d.stake /\ c.died = d.died /\ c.pc = "list"
    BY <1>4, <2>2 DEF Fielded
  <2> QED
    BY <1>6, <2>1, <2>2, <2>3
<1>8. CASE ListClaims(o)
  <2>1. PICK todo : /\ todo = {<<"claim", p>> : p \in {q \in Positions \ {ops[o].stake} : claims[q] # None}}
                              \union {<<"lock", p>> : p \in {q \in Positions : locks[q] # None}}
                    /\ ops' = [ops EXCEPT ![o].pc = "proof", ![o].todo = todo]
    BY <1>8 DEF ListClaims
  <2>2. PICK c : c = [d EXCEPT !.pc = "proof", !.todo = todo] /\ ops' = [ops EXCEPT ![o] = c]
    BY <1>4, <2>1
  <2>3. /\ Fielded(c) /\ c.verb = d.verb /\ c.stake = d.stake /\ c.died = d.died /\ c.pc = "proof" /\ c.todo = todo
    BY <1>4, <2>2 DEF Fielded
  <2>4. ASSUME NEW r \in DOMAIN runs, NEW p \in Positions, Names(p, r) PROVE <<"claim", p>> \in todo
    <3>1. claims[p] # None
      BY <1>5, <2>4 DEF Names
    <3>2. p # ops[o].stake
      BY <1>1, <1>2, <1>5, <2>4 DEF Names
    <3> QED
      BY <2>1, <3>1, <3>2
  <2>5. UNCHANGED <<journal, lane, claims, runs, ghost>>
    BY <1>8 DEF ListClaims, files
  <2> QED
    BY <1>6, <2>2, <2>3, <2>4, <2>5
<1>9. CASE CheckPid(o) /\ ~(Release(o) /\ UNCHANGED lane)
  <2>1. /\ \E dead \in IF lane.pid = None THEN {TRUE} ELSE FoundDead(lane.pid) : dead
        /\ Go(o, "others") /\ UNCHANGED <<journal, lane, claims, runs, ghost>>
    BY <1>9, ZenonT(60) DEF CheckPid, Proceed, files
  <2>2. PICK c : c = [d EXCEPT !.pc = "others"] /\ ops' = [ops EXCEPT ![o] = c]
    BY <1>4, <2>1 DEF Go
  <2>3. /\ Fielded(c) /\ c.verb = d.verb /\ c.stake = d.stake /\ c.died = d.died /\ c.pc = "others"
        /\ c.todo = d.todo
    BY <1>4, <2>2 DEF Fielded
  <2>4. \A r \in DOMAIN runs : runs[r].live => lane.pid # r
    <3>1. CASE lane.pid = None
      BY <1>5, <3>1
    <3>2. CASE lane.pid # None
      BY <2>1, <3>2 DEF FoundDead, Alive
    <3> QED
      BY <3>1, <3>2
  <2>5. ops[o].pc = "proof"
    BY <1>9 DEF CheckPid, At
  <2> QED
    BY <1>4, <1>6, <2>1, <2>2, <2>3, <2>4, <2>5 DEF Listed
<1>10. CASE CheckClaim(o) /\ ~(Release(o) /\ UNCHANGED lane)
  <2>1. ops[o].pc = "others"
    BY <1>10 DEF CheckClaim, At
  <2>2. CASE ops[o].todo = {} /\ Proceed(o, "remove")
    <3>1. Go(o, "remove") /\ UNCHANGED <<journal, lane, claims, runs, ghost>>
      BY <2>2 DEF Proceed, files
    <3>2. PICK c : c = [d EXCEPT !.pc = "remove"] /\ ops' = [ops EXCEPT ![o] = c]
      BY <1>4, <3>1 DEF Go
    <3>3. /\ Fielded(c) /\ c.verb = d.verb /\ c.stake = d.stake /\ c.died = d.died /\ c.pc = "remove"
          /\ c.todo = d.todo
      BY <1>4, <3>2 DEF Fielded
    <3> QED
      BY <1>4, <1>6, <2>1, <2>2, <3>1, <3>2, <3>3 DEF Listed
  <2>3. CASE ~(ops[o].todo = {} /\ Proceed(o, "remove"))
    <3>1. PICK file \in ops[o].todo :
            /\ \E dead \in IF Written(file) = None THEN {FALSE} ELSE FoundDead(Written(file)) : dead
            /\ ops' = [ops EXCEPT ![o].todo = ops[o].todo \ {file}]
            /\ UNCHANGED <<journal, lane, claims, runs, ghost>>
      BY <1>10, <2>3, ZenonT(60) DEF CheckClaim, files
    <3>2. PICK todo : todo = ops[o].todo \ {file} /\ ops' = [ops EXCEPT ![o].todo = todo]
      BY <3>1
    <3>3. PICK c : c = [d EXCEPT !.todo = todo] /\ ops' = [ops EXCEPT ![o] = c]
      BY <1>4, <3>2
    <3>4. /\ Fielded(c) /\ c.verb = d.verb /\ c.stake = d.stake /\ c.died = d.died /\ c.pc = "others"
          /\ c.todo = todo
      BY <1>4, <2>1, <3>3 DEF Fielded
    <3>5. ASSUME NEW r \in DOMAIN runs, runs[r].live, NEW p \in Positions, Names(p, r)
          PROVE  file # <<"claim", p>>
      <4> SUFFICES ASSUME file = <<"claim", p>> PROVE FALSE
        OBVIOUS
      <4>1. Written(file) = claims[p]
        BY DEF Written
      <4>2. Alive(claims[p])
        BY <3>5 DEF Names, Alive
      <4> QED
        BY <3>1, <4>1, <4>2 DEF FoundDead
    <3>6. ASSUME NEW r \in DOMAIN runs, runs[r].live, Listed(o, r)
          PROVE  lane.pid # r /\ \A p \in Positions : Names(p, r) => <<"claim", p>> \in c.todo
      BY <2>1, <3>2, <3>4, <3>5, <3>6 DEF Listed
    <3> QED
      BY <1>6, <3>1, <3>3, <3>4, <3>6
  <2> QED
    BY <2>2, <2>3
<1> QED
  BY <1>3, <1>7, <1>8, <1>9, <1>10

\* The rest of what a closeout and a record-pr do.
LEMMA ThrowClosed ==
  ASSUME VerbInv, RaceInv, ThrowInv, NEW o \in Ops,
         View(o) \/ RemoveWorktree(o) \/ Archive(o) \/ CheckQuiet(o) \/ AppendPr(o)
  PROVE  ThrowInv'
<1>1. ops[o].verb \in {"discard", "closeout", "record"}
  BY VerbAt DEF VerbInv, View, RemoveWorktree, Archive, CheckQuiet, AppendPr, At
<1>2. CASE Refuse(o)
  BY <1>2, ThrowFails
<1>3. CASE View(o) \/ CheckQuiet(o)
  <2>1. ops[o].verb \in {"closeout", "record"}
    BY <1>3, VerbAt DEF VerbInv, View, CheckQuiet, At
  <2>2. CASE ~Refuse(o)
    <3>1. Proceed(o, "remove") \/ Proceed(o, "append")
      BY <1>3, <2>2 DEF View, CheckQuiet
    <3>2. ops'[o].verb \in {"closeout", "record"}
      BY <2>1, <3>1, GoRead DEF VerbInv, Proceed
    <3>3. ~Stakes(o)' /\ ~Owns(o)'
      BY <3>2 DEF Stakes, Owns, StakesAt, OwnsAt, ThrowsAt
    <3> QED
      BY <2>1, <3>1, <3>3, GhostStill, ThrowGoes DEF ClaimMoves, RowsGrow, Proceed, files
  <2> QED
    BY <1>2, <2>2
<1>4. CASE RemoveWorktree(o) \/ Archive(o)
  <2>1. ops[o].verb \in {"discard", "closeout"} /\ ops[o].pc \in {"remove", "move"}
    BY <1>4, VerbAt DEF VerbInv, RemoveWorktree, Archive, At
  <2>2. OffPid /\ lane'.pid = lane.pid
    <3>1. OffPid
      BY <1>4 DEF RemoveWorktree, Archive, OffPid
    <3> QED
      BY <3>1, LaneStays DEF RaceInv, Shapes
  <2>3. ops[o].verb = "discard" => Owns(o) /\ claims[ops[o].stake] = o
    <3>1. ops[o].verb = "discard" => Owns(o)
      BY <2>1, PlaceSets DEF Owns, OwnsAt, StakesAt, ThrowsAt
    <3> QED
      BY <3>1 DEF ThrowInv, KeptInv, Own
  <2>4. CASE GiveUp(o)
    <3>1. CASE Release(o) /\ ops[o].verb = "discard"
      BY <2>2, <2>3, <3>1, ThrowFails
    <3>2. CASE Leave(o) /\ UNCHANGED <<journal, files, runs, ghost>>
      BY <2>2, <3>2, GhostStill, ThrowLeaves DEF ClaimMoves, RowsGrow, files
    <3> QED
      BY <2>4, <3>1, <3>2 DEF GiveUp
  <2>5. CASE ~GiveUp(o)
    <3>1. Go(o, "move") /\ UNCHANGED <<journal, claims, runs, ghost>>
      BY <1>4, <2>5 DEF RemoveWorktree, Archive, files
    <3>2. ops'[o].verb = ops[o].verb /\ ops'[o].pc = "move"
      BY <3>1, GoRead DEF VerbInv
    <3>3. Stakes(o)' => Stakes(o)
      BY <2>1, <3>2, PlaceSets DEF Stakes, StakesAt, ThrowsAt, Returning
    <3>4. Owns(o)' => claims'[ops[o].stake] = o
      BY <2>1, <2>3, <3>1, <3>2 DEF Owns, OwnsAt, StakesAt, ThrowsAt
    <3> QED
      BY <2>2, <3>1, <3>3, <3>4, GhostStill, ThrowGoes DEF ClaimMoves, RowsGrow
  <2> QED
    BY <2>4, <2>5
<1>5. CASE AppendPr(o)
  <2>1. Leave(o) /\ UNCHANGED <<lane, claims, runs, ghost>>
    BY <1>5 DEF AppendPr, files
  <2>2. RowsGrow
    BY <1>5 DEF AppendPr, RowsGrow, Row, Kinds, CallRows
  <2> QED
    BY <2>1, <2>2, GhostStill, ThrowLeaves DEF ClaimMoves
<1> QED
  BY <1>3, <1>4, <1>5

\* A verb's step keeps it.
LEMMA ThrowVerbs ==
  ASSUME VerbInv, RaceInv, RaceInv', ThrowInv, NEW o \in Ops, Verb(o)
  PROVE  ThrowInv'
<1>1. CASE BeginStart(o) \/ AddWorktree(o) \/ RecordLane(o)
  BY <1>1, ThrowStarted
<1>2. CASE \/ BeginReturn(o) \/ BeginDiscard(o) \/ BeginRecord(o) \/ BeginCloseout(o)
           \/ \E choice \in {"accept", "abandon"} : BeginReady(o, choice)
  BY <1>2, ThrowLoaded
<1>3. CASE Judge(o) \/ ClaimDecision(o) \/ Recheck(o)
  BY <1>3, ThrowJudged, ThrowClaimed, ThrowRechecked
<1>4. CASE Stake(o) \/ TakeLock(o) \/ Displace(o) \/ Replace(o)
  BY <1>4, ThrowTakes
<1>5. CASE Confirm(o) \/ RecordUndo(o) \/ WriteSpec(o) \/ DropPid(o)
  BY <1>5, ThrowPrepared
<1>6. CASE Spawn(o) \/ SpawnFails(o)
  BY <1>6, ThrowSpawned, ThrowSpawnFails
<1>7. CASE Hand(o) \/ Decide(o) \/ DecideFails(o)
  BY <1>7, ThrowRecorded
<1>8. CASE CheckHead(o) \/ OpenPullRequest(o) \/ EditPullRequest(o) \/ RecordPublished(o)
  BY <1>8, ThrowAccepted
<1>9. CASE Inspect(o) \/ Reread(o) \/ ListClaims(o) \/ CheckPid(o) \/ CheckClaim(o)
  BY <1>9, ThrowInspected, ThrowLists
<1>10. CASE View(o) \/ RemoveWorktree(o) \/ Archive(o) \/ CheckQuiet(o) \/ AppendPr(o)
  BY <1>10, ThrowClosed
<1>11. CASE Lost(o) \/ Crash(o)
  BY <1>11, ThrowFails DEF Lost, Crash
<1> QED
  BY <1>1, <1>2, <1>3, <1>4, <1>5, <1>6, <1>7, <1>8, <1>9, <1>10, <1>11 DEF Verb

\* Steps that are no call's start no process and change no claim.
LEMMA ThrowRests ==
  ASSUME RaceInv, RaceInv', ThrowInv, RowsGrow, UNCHANGED <<claims, ops, ghost>>, lane'.pid = lane.pid,
         DOMAIN runs' = DOMAIN runs, \A r \in DOMAIN runs : runs'[r].live => runs[r].live
  PROVE  ThrowInv'
<1>1. /\ Shapes /\ RunShape' /\ GhostStays /\ ClaimShape' /\ KeptInv
  BY GhostStill DEF RaceInv, Shapes, ThrowInv, KeptInv, ClaimShape
<1>2. \A r \in DOMAIN runs, p \in Positions : Names(p, r)' => Names(p, r)
  BY DEF Names
<1>3. NoNewName
  BY <1>2 DEF NoNewName
<1>4. ~ghost'.raced => \A o \in Ops : Safe(o)'
  BY <1>1, <1>3, SafeStays DEF ThrowInv, KeptInv
<1>5. CASE Ops = {}
  <2>1. RowsGrow => Len(journal') <= MaxRows
    <3>1. CASE journal' = journal
      BY <1>1, <3>1 DEF KeptInv
    <3>2. CASE \E row : row.ev \in Kinds /\ Put(row)
      <4>1. PICK row : row.ev \in Kinds /\ Put(row)
        BY <3>2
      <4>2. Len(journal) < MaxRows
        BY <4>1 DEF Put
      <4>3. Len(journal) \in Nat /\ Len(journal') = Len(journal) + 1
        BY <1>1, <4>1, RowAfter DEF Shapes
      <4> QED
        BY <4>2, <4>3, RowBound
    <3> QED
      BY <3>1, <3>2 DEF RowsGrow
  <2> QED
    BY <1>1, <1>5, <2>1 DEF ThrowInv, KeptInv
<1>6. CASE Ops # {}
  <2>1. PICK q \in Ops : Kept(q) /\ Own(q)
    BY <1>1, <1>6 DEF KeptInv
  <2>2. RowsStay
    BY <1>1, Grows DEF Shapes
  <2>3. Kept(q)' /\ Own(q)'
    <3>1. EndOf(ops[q])' = EndOf(ops[q]) /\ Spots \subseteq Spots'
      BY <2>2 DEF EndOf, Spots, RowsStay
    <3> QED
      BY <2>1, <3>1 DEF Kept, Own, Owns, Stakes, Throws, Gone
  <2> QED
    BY <1>1, <1>4, <2>3, ThrowStep DEF Alone
<1> QED
  BY <1>5, <1>6

\* A run starts no process but its own, and names nothing.
LEMMA ThrowRuns ==
  ASSUME RaceInv, RaceInv', ThrowInv, NEW r \in DOMAIN runs, Run(r)
  PROVE  ThrowInv'
<1>1. UNCHANGED <<ops, claims, ghost>>
  BY DEF Run, RunBegins, RunBuilds, RunReviews, RunRebases, RunCommits, RunRecordsCommit, RunPushes, RunPublishes, RunReady,
     RunStops, RunEnds, Write, files
<1>2. RowsGrow
  BY DEF Run, RunBegins, RunBuilds, RunReviews, RunRebases, RunCommits, RunRecordsCommit, RunPushes, RunPublishes, RunReady,
     RunStops, RunEnds, Write, RowsGrow, Row, Kinds, CallRows
<1>3. OffPid
  <2>1. CASE RunRebases(r) \/ RunCommits(r)
    BY <2>1 DEF RunRebases, RunCommits, OffPid
  <2>2. CASE RunPushes(r)
    <3>1. lane' = [lane EXCEPT !.tip = lane.head, !.pr = "open"]
      BY <2>2 DEF RunPushes
    <3> QED
      BY <3>1, Zenon DEF OffPid
  <2>3. CASE ~RunRebases(r) /\ ~RunCommits(r) /\ ~RunPushes(r)
    <3>1. lane' = lane
      BY <2>3 DEF Run, RunBegins, RunBuilds, RunReviews, RunRecordsCommit, RunPublishes, RunReady, RunStops,
         RunEnds, Write
    <3> QED
      BY <3>1 DEF OffPid
  <2> QED
    BY <2>1, <2>2, <2>3
<1>4. lane'.pid = lane.pid
  BY <1>3, LaneStays DEF RaceInv, Shapes
<1>5. DOMAIN runs' = DOMAIN runs /\ \A s \in DOMAIN runs : runs'[s].live => runs[s].live
  <2>1. PICK v, w :
                 \/ runs' = runs
                 \/ Based(r, "made", w)
                 \/ runs' = [runs EXCEPT ![r].live = FALSE]
                 \/ runs' = [runs EXCEPT ![r].phase = v]
                 \/ runs' = [runs EXCEPT ![r].reviews = v]
                 \/ runs' = [runs EXCEPT ![r].commit = v]
    BY HeadMoves DEF Run, RunBegins, RunBuilds, RunReviews, RunRecordsCommit, RunPushes, RunPublishes, RunReady,
       RunStops, RunEnds, Write
  <2>2. RunAlone(r, FALSE, runs[r].phase) \/ RunAlone(r, runs[r].live, v) \/ RunAlone(r, runs[r].live, runs[r].phase)
    BY <2>1, RunMoves DEF RaceInv, Shapes
  <2> QED
    BY <2>2 DEF RunAlone
<1> QED
  BY <1>1, <1>2, <1>4, <1>5, ThrowRests

\* It holds of every history.
LEMMA ThrowInit ==
  ASSUME Init
  PROVE  ThrowInv
<1>1. PICK h \in Histories :
        /\ journal = h.journal /\ runs = h.runs
        /\ claims = [p \in Positions |-> IF p \in h.stale THEN 0 ELSE None]
  BY DEF Init
<1>2. Len(journal) <= MaxRows
  BY <1>1, HistoriesAssumption DEF Lived
<1>3. ClaimShape
  BY <1>1 DEF ClaimShape
<1>4. \A o \in Ops : ops[o].died = None /\ ops[o].verb = "none" /\ ops[o].pc = "new"
  BY DEF Init, Fresh
<1>5. Gone(None)
  BY RaceInit, VerbsAssumption DEF RaceInv, Shapes, RunShape, Gone
<1> QED
  BY <1>2, <1>3, <1>4, <1>5 DEF ThrowInv, KeptInv, Kept, Own, Safe, Stakes, StakesAt, Owns, OwnsAt, Throws, ThrowsAt

\* Whoever takes over or throws away a lane's end holds the one claim of it, and
\* until a launch is for an end that is not the call's own, a discard has left no
\* run with a process unasked for that run.pid or a claim names, unless that run
\* was launched for the end by another name or has written a row since.
THEOREM ThrowInvariant == Spec => []ThrowInv
<1>1. Init => ThrowInv
  BY ThrowInit
<1>2. VerbInv /\ RaceInv /\ RaceInv' /\ ThrowInv /\ [Next]_vars => ThrowInv'
  <2> SUFFICES ASSUME VerbInv, RaceInv, RaceInv', ThrowInv, [Next]_vars PROVE ThrowInv'
    OBVIOUS
  <2>1. CASE \E o \in Ops : Verb(o)
    BY <2>1, ThrowVerbs
  <2>2. CASE \E r \in DOMAIN runs : Run(r)
    BY <2>2, ThrowRuns
  <2>3. CASE Settle \/ UNCHANGED vars
    <3>1. OffPid /\ UNCHANGED <<journal, claims, runs, ops, ghost>>
      BY <2>3 DEF Settle, OffPid, vars, files
    <3>2. lane'.pid = lane.pid /\ RowsGrow
      BY <3>1, LaneStays DEF RaceInv, Shapes, RowsGrow
    <3> QED
      BY <3>1, <3>2, ThrowRests
  <2> QED
    BY <2>1, <2>2, <2>3 DEF Next
<1> QED
  BY <1>1, <1>2, VerbInvariant, RaceInvariant, PTL DEF Spec

\* A lane is thrown away only when every run that has a process is one that
\* neither run.pid nor a claim names, or that a return launched for the same end
\* under another name, or whose row came after that end.
THEOREM DiscardsQuietly == Spec => DiscardQuiet
<1>1. ThrowInv /\ [Next]_vars =>
        [\A o \in Ops : /\ ops[o].verb = "discard" /\ ops[o].pc = "remove"
                        /\ lane.tree /\ ~lane'.tree
                        /\ ~Renamed(o) /\ NoRunBetween(EndOf(ops[o]), Len(journal))
                        /\ ~ghost.raced
           => \A r \in DOMAIN runs : runs[r].live => Unnamed(r)]_vars
  <2> SUFFICES ASSUME ThrowInv, NEW o \in Ops, ops[o].verb = "discard", ops[o].pc = "remove",
                      ~Renamed(o), NoRunBetween(EndOf(ops[o]), Len(journal)), ~ghost.raced,
                      NEW r \in DOMAIN runs, runs[r].live
               PROVE  Unnamed(r)
    OBVIOUS
  <2>1. Throws(o) /\ ~Excepted(o)
    BY PlaceSets DEF Throws, ThrowsAt, Excepted
  <2>2. Listed(o, r)
    BY <2>1 DEF ThrowInv, Safe, AllListed
  <2>3. \A p \in Positions : ~Names(p, r)
    BY <2>2 DEF Listed
  <2> QED
    BY <2>2, <2>3 DEF Unnamed, Listed, Names
<1> QED
  BY <1>1, ThrowInvariant, PTL DEF Spec, DiscardQuiet

-----------------------------------------------------------------------------
(* The end a lane tells                                                    *)
\* Only the last run is at work, only the first one is no finish, and no finish
\* publishes.
Lone == \A r \in DOMAIN runs : AtWork(r) => r = Len(runs)
Finishing == \A r \in DOMAIN runs :
  /\ ~runs[r].finish => r = 1
  /\ runs[r].commit = "pushed" \/ runs[r].phase = "published" => ~runs[r].finish
Relaunched == \A act \in Launches : act.run \in 2..Len(runs)

\* The last run, once it has begun, has written the last row of a run there is,
\* and no launch was for an end as late as that.
LastSays(s) ==
  /\ Says(runs[Len(runs)].phase, journal[s].ev)
  /\ NoRunBetween(s, Len(journal))
  /\ \A act \in Launches : EndOf(act) < s
LastTold == DOMAIN runs # {} /\ runs[Len(runs)].phase # "born" => \E s \in 1..Len(journal) : LastSays(s)
EndInv == ~ghost.raced => Lone /\ Finishing /\ Relaunched /\ LastTold

\* A verb writes rows of verbs only, and only the one that launches adds to the
\* launches; a launch for an end that was not the call's own is not forgotten.
LEMMA VerbsTell ==
  ASSUME VerbInv, NEW o \in Ops, Verb(o)
  PROVE  /\ RowsKept /\ (ghost.raced => ghost'.raced) /\ ghost.unrecorded \subseteq ghost'.unrecorded
         /\ Spawn(o) \/ Launches' = Launches
         /\ RecordUndo(o) \/ journal' = journal \/ \E row : row.ev \in CallRows \ {"uncommit"} /\ Put(row)
<1> USE DEF Refuse, Forfeit, Release, LetGo, Unlocked, Unstaked, Proceed, files
<1>1. CASE journal' = journal /\ ghost' = ghost
  BY <1>1 DEF RowsKept, Launches
<1>2. CASE BeginStart(o) \/ AddWorktree(o) \/ RecordLane(o)
  BY <1>1, <1>2 DEF BeginStart, AddWorktree, RecordLane
<1>3. CASE BeginReturn(o) \/ BeginDiscard(o) \/ BeginRecord(o) \/ BeginCloseout(o)
  BY <1>1, <1>3 DEF BeginReturn, BeginDiscard, BeginRecord, BeginCloseout, Load
<1>4. CASE \E choice \in {"accept", "abandon"} : BeginReady(o, choice)
  BY <1>1, <1>4 DEF BeginReady
<1>5. CASE Judge(o)
  <2>1. journal' = journal /\ ghost' = ghost
    BY <1>5, ZenonT(60) DEF Judge
  <2> QED
    BY <1>1, <2>1
<1>6. CASE ClaimDecision(o) \/ Recheck(o)
  BY <1>1, <1>6 DEF ClaimDecision, Recheck
<1>7. CASE Stake(o) \/ TakeLock(o) \/ Displace(o) \/ Replace(o)
  BY <1>1, <1>7 DEF Stake, TakeLock, Displace, Replace
<1>8. CASE Confirm(o) \/ WriteSpec(o) \/ DropPid(o)
  BY <1>1, <1>8 DEF Confirm, WriteSpec, DropPid
<1>9. CASE RecordUndo(o)
  <2>1. \/ journal' = journal
        \/ \E row : row.ev = "uncommit" /\ Put(row)
    BY <1>9 DEF RecordUndo, Row
  <2>2. ghost' = ghost
    BY <1>9 DEF RecordUndo
  <2> QED
    BY <1>9, <2>1, <2>2 DEF RowsKept, CallRows, Launches
<1>10. CASE Spawn(o)
  <2>1. journal' = journal /\ (ghost.raced => ghost'.raced) /\ ghost'.unrecorded = ghost.unrecorded
    BY <1>10, SpawnRaces DEF VerbInv, Spawn
  <2> QED
    BY <1>10, <2>1 DEF RowsKept
<1>11. CASE SpawnFails(o)
  <2>1. CASE ops[o].verb = "start"
    BY <1>1, <1>11, <2>1 DEF SpawnFails
  <2>2. CASE ops[o].verb # "start"
    BY <1>11, <2>2, FailRaces DEF VerbInv, SpawnFails, SameActs, Launches, RowsKept
  <2> QED
    BY <2>1, <2>2
<1>12. CASE Hand(o) \/ DecideFails(o)
  <2>1. CASE Hand(o)
    BY <1>1, <2>1 DEF Hand
  <2>2. CASE DecideFails(o)
    <3>1. PICK g : g = ghost /\ g = [acts |-> g.acts, unrecorded |-> g.unrecorded, raced |-> g.raced]
      BY DEF VerbInv, GhostShape
    <3>2. ghost' = [g EXCEPT !.unrecorded = g.unrecorded \union {ops[o].at}] /\ journal' = journal
      BY <2>2, <3>1 DEF DecideFails
    <3> QED
      BY <3>1, <3>2 DEF RowsKept, Launches
  <2> QED
    BY <1>12, <2>1, <2>2
<1>13. CASE Decide(o) \/ RecordPublished(o)
  <2>1. CASE Forfeit(o)
    BY <1>1, <2>1
  <2>2. CASE ~Forfeit(o)
    <3>1. ops[o].pc = "decide" => ops[o].verb \in {"return", "accept", "abandon"}
      BY VerbAt DEF VerbInv
    <3>2. \E row : row.ev \in CallRows \ {"uncommit"} /\ Put(row)
      BY <1>13, <2>2, <3>1 DEF Decide, RecordPublished, At, Row, CallRows
    <3>3. ghost' = ghost \/ \E what \in {"accept", "abandon"} :
                              ghost' = [ghost EXCEPT !.acts = @ \union {Act(o, what, 0)}]
      BY <1>13, <2>2 DEF Decide, RecordPublished
    <3>4. \A what \in {"accept", "abandon"} : Act(o, what, 0).what # "return"
      BY DEF Act
    <3>5. Launches' = Launches /\ (ghost.raced => ghost'.raced) /\ ghost'.unrecorded = ghost.unrecorded
      BY <3>3, <3>4, GhostGrows DEF VerbInv, Launches
    <3> QED
      BY <3>2, <3>5 DEF RowsKept
  <2> QED
    BY <2>1, <2>2
<1>14. CASE CheckHead(o) \/ OpenPullRequest(o) \/ EditPullRequest(o)
  BY <1>1, <1>14 DEF CheckHead, OpenPullRequest, EditPullRequest
<1>15. CASE Inspect(o) \/ Reread(o) \/ ListClaims(o) \/ CheckPid(o) \/ CheckClaim(o)
  BY <1>1, <1>15 DEF Inspect, Reread, ListClaims, CheckPid, CheckClaim
<1>16. CASE View(o) \/ RemoveWorktree(o) \/ Archive(o)
  BY <1>1, <1>16 DEF View, RemoveWorktree, Archive, GiveUp
<1>17. CASE CheckQuiet(o) \/ Lost(o) \/ Crash(o)
  BY <1>1, <1>17 DEF CheckQuiet, Lost, Crash
<1>18. CASE AppendPr(o)
  <2>1. ghost' = ghost /\ \E row : row.ev = "pr" /\ Put(row)
    BY <1>18 DEF AppendPr, Row
  <2> QED
    BY <2>1 DEF RowsKept, CallRows, Launches
<1> QED
  BY <1>2, <1>3, <1>4, <1>5, <1>6, <1>7, <1>8, <1>9, <1>10, <1>11, <1>12, <1>13, <1>14, <1>15, <1>16,
     <1>17, <1>18 DEF Verb

-----------------------------------------------------------------------------
(* A step of a run, with what it leaves as it was                          *)

\* What a run never changes, and what it changes one at a time.
Steady(r) ==
  /\ RunShape' /\ DOMAIN runs' = DOMAIN runs /\ Len(runs') = Len(runs)
  /\ \A s \in DOMAIN runs \ {r} : runs'[s] = runs[s]
  /\ (runs'[r].finish <=> runs[r].finish) /\ runs'[r].prior = runs[r].prior
  /\ runs'[r].live => runs[r].live

\* Only one field of a run is another after its step.
LEMMA RunSteady ==
  ASSUME RunShape, NEW r \in DOMAIN runs, NEW v, NEW w
  PROVE  /\ runs' = [runs EXCEPT ![r].live = v] /\ ~v =>
              /\ Steady(r) /\ runs'[r].phase = runs[r].phase
              /\ runs'[r].commit = runs[r].commit /\ runs'[r].reviews = runs[r].reviews
              /\ runs'[r].below = runs[r].below
         /\ runs' = [runs EXCEPT ![r].phase = v] =>
              /\ Steady(r) /\ runs'[r].phase = v
              /\ runs'[r].commit = runs[r].commit /\ runs'[r].reviews = runs[r].reviews
              /\ runs'[r].below = runs[r].below
         /\ runs' = [runs EXCEPT ![r].reviews = v] =>
              /\ Steady(r) /\ runs'[r].phase = runs[r].phase
              /\ runs'[r].commit = runs[r].commit /\ runs'[r].reviews = v
              /\ runs'[r].below = runs[r].below
         /\ runs' = [runs EXCEPT ![r].commit = v] =>
              /\ Steady(r) /\ runs'[r].phase = runs[r].phase
              /\ runs'[r].commit = v /\ runs'[r].reviews = runs[r].reviews
              /\ runs'[r].below = runs[r].below
         /\ Based(r, v, w) =>
              /\ Steady(r) /\ runs'[r].phase = runs[r].phase
              /\ runs'[r].commit = v /\ runs'[r].reviews = runs[r].reviews
              /\ runs'[r].below = w
         /\ runs' = runs => Steady(r)
<1>1. PICK d : d = runs[r] /\ Worked(d)
  BY DEF RunShape
<1>2. ASSUME NEW c, Worked(c), runs' = [runs EXCEPT ![r] = c],
             c.finish <=> d.finish, c.prior = d.prior, c.live => d.live
      PROVE  Steady(r) /\ runs'[r] = c
  <2>1. RunAlone(r, c.live, c.phase)
    BY <1>2, RunReplaced
  <2>2. PICK S : runs \in Seq(S)
    BY DEF RunShape
  <2>3. PICK T : runs' \in Seq(T)
    BY <2>1 DEF RunAlone, RunShape
  <2>4. /\ Len(runs) \in Nat /\ DOMAIN runs = 1..Len(runs)
        /\ Len(runs') \in Nat /\ DOMAIN runs' = 1..Len(runs')
    BY <2>2, <2>3, LenProperties
  <2>5. Len(runs') = Len(runs)
    <3>1. 1..Len(runs') = 1..Len(runs)
      BY <2>1, <2>4 DEF RunAlone
    <3>2. ASSUME NEW a \in Nat, NEW b \in Nat, 1..a = 1..b PROVE a = b
      <4>1. a > b => a \in 1..a /\ a \notin 1..b
        OBVIOUS
      <4>2. b > a => b \in 1..b /\ b \notin 1..a
        OBVIOUS
      <4>3. ~(a > b) /\ ~(b > a)
        BY <3>2, <4>1, <4>2
      <4> QED
        BY <4>3
    <3>3. PICK a \in Nat, b \in Nat : a = Len(runs) /\ b = Len(runs') /\ 1..a = 1..b
      BY <2>4, <3>1
    <3>4. a = b
      BY <3>2, <3>3
    <3> QED
      BY <3>3, <3>4
  <2>6. runs'[r] = c
    BY <1>2
  <2> QED
    BY <1>1, <1>2, <2>1, <2>5, <2>6 DEF RunAlone, Steady
<1>3. ASSUME runs' = [runs EXCEPT ![r].live = v], ~v
      PROVE  /\ Steady(r) /\ runs'[r].phase = runs[r].phase
             /\ runs'[r].commit = runs[r].commit /\ runs'[r].reviews = runs[r].reviews
             /\ runs'[r].below = runs[r].below
  <2>1. PICK c : c = [runs[r] EXCEPT !.live = v]
    OBVIOUS
  <2>2. c = [d EXCEPT !.live = v]
    BY <1>1, <2>1
  <2>3. /\ Worked(c) /\ c.finish = d.finish /\ c.prior = d.prior /\ c.phase = d.phase
        /\ c.commit = d.commit /\ c.reviews = d.reviews /\ c.live = v /\ c.below = d.below
    BY <1>1, <2>2 DEF Worked
  <2>4. runs' = [runs EXCEPT ![r] = c]
    BY <1>3, <2>1
  <2> QED
    BY <1>1, <1>2, <1>3, <2>3, <2>4
<1>4. ASSUME runs' = [runs EXCEPT ![r].phase = v]
      PROVE  /\ Steady(r) /\ runs'[r].phase = v
             /\ runs'[r].commit = runs[r].commit /\ runs'[r].reviews = runs[r].reviews
             /\ runs'[r].below = runs[r].below
  <2>1. PICK c : c = [runs[r] EXCEPT !.phase = v]
    OBVIOUS
  <2>2. c = [d EXCEPT !.phase = v]
    BY <1>1, <2>1
  <2>3. /\ Worked(c) /\ c.finish = d.finish /\ c.prior = d.prior /\ c.phase = v
        /\ c.commit = d.commit /\ c.reviews = d.reviews /\ c.live = d.live /\ c.below = d.below
    BY <1>1, <2>2 DEF Worked
  <2>4. runs' = [runs EXCEPT ![r] = c]
    BY <1>4, <2>1
  <2> QED
    BY <1>1, <1>2, <2>3, <2>4
<1>5. ASSUME runs' = [runs EXCEPT ![r].reviews = v]
      PROVE  /\ Steady(r) /\ runs'[r].phase = runs[r].phase
             /\ runs'[r].commit = runs[r].commit /\ runs'[r].reviews = v
             /\ runs'[r].below = runs[r].below
  <2>1. PICK c : c = [runs[r] EXCEPT !.reviews = v]
    OBVIOUS
  <2>2. c = [d EXCEPT !.reviews = v]
    BY <1>1, <2>1
  <2>3. /\ Worked(c) /\ c.finish = d.finish /\ c.prior = d.prior /\ c.phase = d.phase
        /\ c.commit = d.commit /\ c.reviews = v /\ c.live = d.live /\ c.below = d.below
    BY <1>1, <2>2 DEF Worked
  <2>4. runs' = [runs EXCEPT ![r] = c]
    BY <1>5, <2>1
  <2> QED
    BY <1>1, <1>2, <2>3, <2>4
<1>6. ASSUME runs' = [runs EXCEPT ![r].commit = v]
      PROVE  /\ Steady(r) /\ runs'[r].phase = runs[r].phase
             /\ runs'[r].commit = v /\ runs'[r].reviews = runs[r].reviews
             /\ runs'[r].below = runs[r].below
  <2>1. PICK c : c = [runs[r] EXCEPT !.commit = v]
    OBVIOUS
  <2>2. c = [d EXCEPT !.commit = v]
    BY <1>1, <2>1
  <2>3. /\ Worked(c) /\ c.finish = d.finish /\ c.prior = d.prior /\ c.phase = d.phase
        /\ c.commit = v /\ c.reviews = d.reviews /\ c.live = d.live /\ c.below = d.below
    BY <1>1, <2>2 DEF Worked
  <2>4. runs' = [runs EXCEPT ![r] = c]
    BY <1>6, <2>1
  <2> QED
    BY <1>1, <1>2, <2>3, <2>4
<1>7. ASSUME Based(r, v, w)
      PROVE  /\ Steady(r) /\ runs'[r].phase = runs[r].phase
             /\ runs'[r].commit = v /\ runs'[r].reviews = runs[r].reviews
             /\ runs'[r].below = w
  <2>1. PICK c : c = [[runs[r] EXCEPT !.commit = v] EXCEPT !.below = w]
    OBVIOUS
  <2>2. c = [[d EXCEPT !.commit = v] EXCEPT !.below = w]
    BY <1>1, <2>1
  <2>3. /\ Worked(c) /\ c.finish = d.finish /\ c.prior = d.prior /\ c.phase = d.phase
        /\ c.commit = v /\ c.reviews = d.reviews /\ c.live = d.live /\ c.below = w
    BY <1>1, <2>2 DEF Worked
  <2>4. runs' = [runs EXCEPT ![r] = c]
    BY <1>7, <2>1 DEF RunShape, Based
  <2> QED
    BY <1>1, <1>2, <2>3, <2>4
<1>8. runs' = runs => Steady(r)
  BY DEF Steady, RunShape
<1> QED
  BY <1>3, <1>4, <1>5, <1>6, <1>7, <1>8

\* A run at work writes the row that its phase is told by, or it writes none.
Speaks(r, row) ==
  /\ AtWork(r) /\ Put(row) /\ Says(runs'[r].phase, row.ev) /\ lane' = lane
  /\ \/ row.ev # "review" /\ runs'[r].reviews = runs[r].reviews
     \/ /\ row.ev = "review" /\ runs'[r].reviews = runs[r].reviews + 1
        /\ runs[r].finish => runs[r].reviews < Rounds - runs[r].prior
        /\ runs[r].phase = "open" /\ runs'[r].phase = "open"
  /\ row.ev = "ready" => runs[r].finish /\ row.num = runs[r].prior + runs[r].reviews
Mute(r) ==
  /\ journal' = journal /\ lane'.spec = lane.spec
  /\ runs'[r].phase = runs[r].phase /\ runs'[r].reviews = runs[r].reviews

\* A commit is pushed, and published, by a run that is no finish.
Publishes(run) == run.commit = "pushed" \/ run.phase = "published"

\* What a run does.
LEMMA RunBecomes ==
  ASSUME RunShape, LaneShape, NEW r \in DOMAIN runs, Run(r)
  PROVE  /\ Steady(r) /\ UNCHANGED <<files, ops, ghost>>
         /\ Mute(r) \/ \E row : Speaks(r, row)
         /\ Publishes(runs'[r]) => Publishes(runs[r]) \/ ~runs[r].finish
<1>1. \A v, w :
        /\ runs' = [runs EXCEPT ![r].live = v] /\ ~v =>
             /\ Steady(r) /\ runs'[r].phase = runs[r].phase
             /\ runs'[r].commit = runs[r].commit /\ runs'[r].reviews = runs[r].reviews
        /\ runs' = [runs EXCEPT ![r].phase = v] =>
             /\ Steady(r) /\ runs'[r].phase = v
             /\ runs'[r].commit = runs[r].commit /\ runs'[r].reviews = runs[r].reviews
        /\ runs' = [runs EXCEPT ![r].reviews = v] =>
             /\ Steady(r) /\ runs'[r].phase = runs[r].phase
             /\ runs'[r].commit = runs[r].commit /\ runs'[r].reviews = v
        /\ runs' = [runs EXCEPT ![r].commit = v] =>
             /\ Steady(r) /\ runs'[r].phase = runs[r].phase
             /\ runs'[r].commit = v /\ runs'[r].reviews = runs[r].reviews
        /\ Based(r, v, w) =>
             /\ Steady(r) /\ runs'[r].phase = runs[r].phase
             /\ runs'[r].commit = v /\ runs'[r].reviews = runs[r].reviews
        /\ runs' = runs => Steady(r)
  BY RunSteady
<1>2. lane' = lane => lane'.spec = lane.spec
  OBVIOUS
<1> USE DEF Running, AtWork, Publishes
<1>3. CASE RunBegins(r) \/ RunStops(r) \/ RunPublishes(r)
  <2>1. PICK row, phase : /\ Put(row) /\ runs' = [runs EXCEPT ![r].phase = phase]
                          /\ row.ev # "review" /\ row.ev # "ready" /\ Says(phase, row.ev)
                          /\ phase = "published" => Publishes(runs[r])
    BY <1>3 DEF RunBegins, RunStops, RunPublishes, Write, Row, Says
  <2>2. UNCHANGED <<lane, files, ops, ghost>> /\ AtWork(r)
    BY <1>3 DEF RunBegins, RunStops, RunPublishes, Write
  <2> QED
    BY <1>1, <2>1, <2>2 DEF Speaks
<1>4. CASE RunBuilds(r)
  <2>1. PICK row : /\ Put(row) /\ runs' = [runs EXCEPT ![r].phase = "open"] /\ row.ev = "build"
    <3>1. Put(Row("build", 0, 0)) /\ runs' = [runs EXCEPT ![r].phase = "open"]
      BY <1>4, Zenon DEF RunBuilds, Write
    <3>2. Row("build", 0, 0).ev = "build"
      BY DEF Row
    <3> QED
      BY <3>1, <3>2
  <2>2. UNCHANGED <<lane, files, ops, ghost>> /\ AtWork(r)
    BY <1>4 DEF RunBuilds, Write
  <2> QED
    BY <1>1, <2>1, <2>2 DEF Speaks, Says
<1>5. CASE RunReviews(r)
  <2>1. PICK row : /\ Put(row) /\ row.ev = "review"
                   /\ runs' = [runs EXCEPT ![r].reviews = runs[r].reviews + 1]
    BY <1>5 DEF RunReviews, Write, Row
  <2>2. /\ UNCHANGED <<lane, files, ops, ghost>> /\ AtWork(r) /\ runs[r].phase = "open"
        /\ runs[r].finish => runs[r].reviews < Rounds - runs[r].prior
    BY <1>5 DEF RunReviews, Write
  <2> QED
    BY <1>1, <2>1, <2>2 DEF Speaks, Says
<1>6. CASE RunRecordsCommit(r)
  <2>1. PICK row : /\ Put(row) /\ row.ev = "commit"
                   /\ runs' = [runs EXCEPT ![r].commit = "told"]
    BY <1>6 DEF RunRecordsCommit, Write, Row
  <2>2. UNCHANGED <<lane, files, ops, ghost>> /\ AtWork(r) /\ runs[r].phase = "open"
    BY <1>6 DEF RunRecordsCommit, Write
  <2> QED
    BY <1>1, <2>1, <2>2 DEF Speaks, Says
<1>7. CASE RunReady(r)
  <2>1. PICK row : /\ Put(row) /\ row.ev = "ready" /\ row.num = runs[r].prior + runs[r].reviews
                   /\ runs' = [runs EXCEPT ![r].phase = "ready"]
    BY <1>7 DEF RunReady, Write, Row
  <2>2. UNCHANGED <<lane, files, ops, ghost>> /\ AtWork(r) /\ runs[r].finish
    BY <1>7 DEF RunReady, Write
  <2> QED
    BY <1>1, <2>1, <2>2 DEF Speaks, Says
<1>8. CASE RunRebases(r) \/ RunCommits(r) \/ RunPushes(r)
  <2>1. PICK l : l = lane /\ Laned(l)
    BY DEF LaneShape
  <2>2. PICK head : lane' = [l EXCEPT !.head = head] \/ lane' = [l EXCEPT !.tip = l.head, !.pr = "open"]
    BY <1>8, <2>1 DEF RunRebases, RunCommits, RunPushes
  <2>3. lane'.spec = lane.spec
    BY <2>1, <2>2 DEF Laned
  <2>4. PICK commit, below :
          \/ runs' = runs
          \/ /\ \/ runs' = [runs EXCEPT ![r].commit = commit]
                \/ Based(r, commit, below)
             /\ commit = "pushed" => ~runs[r].finish
    <3>1. CASE RunPushes(r)
      BY <3>1 DEF RunPushes
    <3>2. CASE RunRebases(r) \/ RunCommits(r)
      BY <3>2, HeadMoves
    <3> QED
      BY <1>8, <3>1, <3>2
  <2>5. UNCHANGED <<journal, files, ops, ghost>>
    BY <1>8, HeadMoves DEF RunPushes
  <2> QED
    <3>1. CASE runs' = runs
      BY <1>1, <2>3, <2>5, <3>1 DEF Mute
    <3>2. CASE runs' # runs
      BY <1>1, <2>3, <2>4, <2>5, <3>2 DEF Mute
    <3> QED
      BY <3>1, <3>2
<1>9. CASE RunEnds(r)
  <2>1. runs' = [runs EXCEPT ![r].live = FALSE] /\ UNCHANGED <<journal, lane, files, ops, ghost>>
    BY <1>9 DEF RunEnds
  <2> QED
    BY <1>1, <1>2, <2>1 DEF Mute
<1> QED
  BY <1>3, <1>4, <1>5, <1>6, <1>7, <1>8, <1>9 DEF Run

-----------------------------------------------------------------------------
(* The end that is told                                                    *)

Ended == Lone /\ Finishing /\ Relaunched /\ LastTold

\* Rows of verbs leave the last run's word the last one of a run.
LEMMA EndKept ==
  ASSUME Shapes, Ended, RowsKept, Launches' = Launches, Len(runs') = Len(runs), DOMAIN runs' = DOMAIN runs,
         \A r \in DOMAIN runs : /\ AtWork(r)' => AtWork(r)
                                /\ runs'[r].phase = runs[r].phase,
         Finishing'
  PROVE  Ended'
<1>1. Lone' /\ Relaunched'
  BY DEF Ended, Lone, Relaunched
<1>2. RowShape /\ ActsPlaced
  BY DEF Shapes
<1>3. RowShape' /\ RowsStay
  BY <1>2, CallsOnly
<1>4. LastTold'
  <2> SUFFICES ASSUME DOMAIN runs' # {}, runs'[Len(runs')].phase # "born"
               PROVE  \E s \in 1..Len(journal') : LastSays(s)'
    BY DEF LastTold
  <2>1. PICK l : l = Len(runs) /\ l = Len(runs') /\ l \in DOMAIN runs
    <3>1. DOMAIN runs = 1..Len(runs) /\ Len(runs) \in Nat
      BY DEF Shapes, RunShape
    <3> QED
      BY <3>1
  <2>2. runs[l].phase # "born" /\ DOMAIN runs # {}
    BY <2>1
  <2>3. PICK s \in 1..Len(journal) : LastSays(s)
    BY <2>1, <2>2 DEF Ended, LastTold
  <2>4. s \in Spots /\ s \in 1..Len(journal') /\ journal'[s] = journal[s]
    BY <1>3 DEF Spots, RowsStay
  <2>5. NoRunBetween(s, Len(journal))'
    BY <1>2, <2>3, <2>4, QuietRows DEF LastSays
  <2>6. \A act \in Launches' : EndOf(act)' < s
    BY <2>3 DEF LastSays, EndOf
  <2>7. Says(runs'[Len(runs')].phase, journal'[s].ev)
    BY <2>1, <2>3, <2>4 DEF LastSays
  <2> QED
    BY <2>4, <2>5, <2>6, <2>7 DEF LastSays, Says
<1> QED
  BY <1>1, <1>4 DEF Ended

\* The row the last run writes is its word.
LEMMA EndSpoken ==
  ASSUME Shapes, Ended, NEW r \in DOMAIN runs, Steady(r), NEW row, Speaks(r, row), row.ev \in Kinds,
         ghost' = ghost, Finishing'
  PROVE  Ended'
<1>1. RowShape /\ ActsPlaced /\ Launches' = Launches
  BY DEF Shapes, Launches
<1>2. /\ Len(journal) \in Nat /\ Len(journal') = Len(journal) + 1
      /\ journal'[Len(journal) + 1] = row
  BY <1>1, RowAfter DEF Speaks
<1>3. r = Len(runs) /\ r = Len(runs')
  BY DEF Ended, Lone, Speaks, Steady
<1>4. Lone'
  BY <1>3 DEF Ended, Lone, Steady, AtWork
<1>5. Relaunched'
  BY <1>1 DEF Ended, Relaunched, Steady
<1>6. LastTold'
  <2>1. PICK s : s = Len(journal) + 1
    OBVIOUS
  <2>2. s \in 1..Len(journal') /\ NoRunBetween(s, Len(journal))'
    BY <1>2, <2>1 DEF NoRunBetween
  <2>3. \A act \in Launches' : EndOf(act)' < s
    <3> SUFFICES ASSUME NEW act \in Launches PROVE EndOf(act)' < s
      BY <1>1
    <3>1. EndOf(act) \in Spots /\ EndOf(act)' = EndOf(act)
      BY <1>1 DEF ActsPlaced, EndOf
    <3> QED
      BY <1>2, <2>1, <3>1 DEF Spots
  <2>4. Says(runs'[Len(runs')].phase, journal'[s].ev)
    BY <1>2, <1>3, <2>1 DEF Speaks
  <2>5. LastSays(s)'
    BY <2>2, <2>3, <2>4 DEF LastSays, Says
  <2> QED
    BY <2>2, <2>5 DEF LastTold
<1> QED
  BY <1>4, <1>5, <1>6 DEF Ended

\* A launch is of a finish, but the first, and the run has yet to say a word.
LEMMA EndLaunched ==
  ASSUME VerbInv, Shapes, Shapes', Races', Ended, NEW o \in Ops, Spawn(o), ~Retaken(o)
  PROVE  Ended'
<1>0. PICK r, run : r = Len(runs) + 1 /\ run = NewRun(o)
  OBVIOUS
<1>1. /\ InPlace(o) /\ ops[o].verb \in {"start", "return"} /\ ops[o].pc = "spawn"
  BY VerbAt DEF VerbInv, Spawn, At
<1>2. /\ Len(runs) \in Nat /\ DOMAIN runs = 1..Len(runs) /\ DOMAIN runs' = 1..r /\ r \in DOMAIN runs'
      /\ \A s \in DOMAIN runs : runs'[s] = runs[s]
      /\ runs'[r] = run /\ Len(runs') = r
  <2>1. Worked(run) /\ runs' = Append(runs, run)
    BY <1>0 DEF NewRun, Worked, Spawn
  <2>2. /\ RunShape' /\ Len(runs) \in Nat /\ DOMAIN runs = 1..Len(runs) /\ DOMAIN runs' = 1..(Len(runs) + 1)
        /\ \A s \in DOMAIN runs : runs'[s] = runs[s]
        /\ runs'[Len(runs) + 1] = run
    BY <2>1, RunAfter DEF Shapes
  <2>3. Len(runs') = Len(runs) + 1
    <3>1. PICK S : runs \in Seq(S)
      BY DEF Shapes, RunShape
    <3>2. runs \in Seq(S \union {run}) /\ run \in S \union {run}
      BY <3>1, SeqMonotonic
    <3> QED
      BY <2>1, <3>2, AppendProperties
  <2> QED
    BY <1>0, <2>2, <2>3
<1>3. run.live /\ run.phase = "born" /\ run.commit = "no" /\ (run.finish <=> ops[o].verb # "start")
  BY <1>0 DEF NewRun
<1>4. ghost'.acts = ghost.acts \union IF ops[o].verb = "start" THEN {} ELSE {Act(o, "return", r)}
  BY <1>0, SpawnRaces DEF VerbInv
<1>5. Lone'
  <2>1. AtWork(r)'
    BY <1>2, <1>3 DEF AtWork
  <2> QED
    BY <1>2, <2>1 DEF Races, OneRun, Lone
<1>6. ops[o].verb = "start" => r = 1
  BY <1>0, <1>2 DEF Retaken
<1>7. ops[o].verb = "return" => r \in 2..r
  <2>1. ops[o].verb = "return" => Aiming(o)
    BY <1>1 DEF Aiming, AimsAt, Returning
  <2>2. ops[o].verb = "return" => DOMAIN runs # {}
    BY <2>1 DEF Shapes, Aimed
  <2> QED
    BY <1>0, <1>2, <2>2
<1>8. Finishing'
  <2> SUFFICES ASSUME NEW s \in DOMAIN runs'
               PROVE  /\ ~runs'[s].finish => s = 1
                      /\ runs'[s].commit = "pushed" \/ runs'[s].phase = "published" => ~runs'[s].finish
    BY DEF Finishing
  <2>1. CASE s = r
    BY <1>1, <1>2, <1>3, <1>6, <2>1
  <2>2. CASE s # r
    BY <1>0, <1>2, <2>2 DEF Ended, Finishing
  <2> QED
    BY <2>1, <2>2
<1>9. Relaunched'
  <2>1. \A act \in Launches : act.run \in 2..Len(runs')
    BY <1>0, <1>2 DEF Ended, Relaunched
  <2>2. \A act \in Launches' : act \in Launches \/ (ops[o].verb = "return" /\ act.run = r)
    <3>1. Act(o, "return", r).run = r
      BY DEF Act
    <3> QED
      BY <1>1, <1>4, <3>1 DEF Launches
  <2> QED
    BY <1>2, <1>7, <2>1, <2>2 DEF Relaunched
<1>10. LastTold'
  BY <1>2, <1>3 DEF LastTold
<1> QED
  BY <1>5, <1>8, <1>9, <1>10 DEF Ended

\* What a lane has been through ended with its last run's word.
LEMMA EndInit ==
  ASSUME Init, RaceInv
  PROVE  EndInv
<1>1. PICK h \in Histories :
        /\ journal = h.journal /\ runs = h.runs
        /\ ghost = [acts |-> h.acts, unrecorded |-> {}, raced |-> FALSE]
  BY DEF Init
<1>2. PICK n : n = Len(journal)
  OBVIOUS
<1>3. Lived(h)
  BY HistoriesAssumption
<1>4. h.acts \subseteq Launch
  BY <1>3 DEF Lived
<1>5. /\ \A r \in DOMAIN runs : AtWork(r) => r = Len(runs)
      /\ \A r \in DOMAIN runs :
           /\ ~runs[r].finish => r = 1
           /\ runs[r].commit = "pushed" \/ runs[r].phase = "published" => ~runs[r].finish
      /\ runs # <<>> /\ runs[Len(runs)].phase # "born" =>
           \E s \in 1..n : /\ Says(runs[Len(runs)].phase, journal[s].ev)
                           /\ \A q \in (s + 1)..n : journal[q].ev \in CallRows
                           /\ \A act \in h.acts : act.stake < s
      /\ \A act \in h.acts : act.run \in 2..Len(runs)
  BY <1>1, <1>2, <1>3 DEF Lived, AtWork
<1>6. Launches = h.acts /\ \A act \in h.acts : EndOf(act) = act.stake
  BY <1>1, <1>4 DEF Launches, Launch, EndOf
<1>7. Lone /\ Finishing /\ Relaunched
  BY <1>5, <1>6 DEF Lone, Finishing, Relaunched
<1>8. LastTold
  <2> SUFFICES ASSUME DOMAIN runs # {}, runs[Len(runs)].phase # "born"
               PROVE  \E s \in 1..Len(journal) : LastSays(s)
    BY DEF LastTold
  <2>1. PICK s \in 1..n : /\ Says(runs[Len(runs)].phase, journal[s].ev)
                          /\ \A q \in (s + 1)..n : journal[q].ev \in CallRows
                          /\ \A act \in h.acts : act.stake < s
    BY <1>5
  <2>2. NoRunBetween(s, n)
    BY <2>1 DEF NoRunBetween
  <2>3. \A act \in Launches : EndOf(act) < s
    BY <1>6, <2>1
  <2> QED
    BY <1>2, <2>1, <2>2, <2>3 DEF LastSays
<1> QED
  BY <1>7, <1>8 DEF EndInv

\* Until a launch is for an end that is not the call's own, only the last run is
\* at work, and its word is the last of any run, later than every end a run was
\* launched for.
THEOREM EndInvariant == Spec => []EndInv
<1>1. Init => EndInv
  BY RaceInit, EndInit
<1>2. VerbInv /\ RaceInv /\ RaceInv' /\ EndInv /\ [Next]_vars => EndInv'
  <2> SUFFICES ASSUME VerbInv, RaceInv, RaceInv', EndInv, [Next]_vars, ~ghost'.raced PROVE Ended'
    BY DEF EndInv, Ended
  <2>1. CASE \E o \in Ops : Verb(o)
    <3>1. PICK o \in Ops : Verb(o)
      BY <2>1
    <3>2. RowsKept /\ (Spawn(o) \/ Launches' = Launches) /\ ~ghost.raced
      BY <3>1, VerbsTell
    <3>3. Shapes /\ Ended
      BY <3>2 DEF RaceInv, EndInv, Ended
    <3>4. CASE Spawn(o)
      <4>1. ~Retaken(o)
        BY <3>4, SpawnRaces DEF VerbInv
      <4>2. Shapes' /\ Races'
        BY DEF RaceInv
      <4> QED
        BY <3>3, <3>4, <4>1, <4>2, EndLaunched
    <3>5. CASE ~Spawn(o)
      <4>1. runs' = runs
        BY <3>1, <3>5, VerbsKeep
      <4>2. Finishing' /\ \A r \in DOMAIN runs : AtWork(r)' => AtWork(r)
        BY <3>3, <4>1 DEF Ended, Finishing, AtWork
      <4> QED
        BY <3>2, <3>3, <3>5, <4>1, <4>2, EndKept
    <3> QED
      BY <3>4, <3>5
  <2>2. CASE \E r \in DOMAIN runs : Run(r)
    <3>1. PICK r \in DOMAIN runs : Run(r)
      BY <2>2
    <3>2. Shapes /\ RunShape /\ LaneShape
      BY DEF RaceInv, Shapes
    <3>3. /\ Steady(r) /\ UNCHANGED <<files, ops, ghost>>
          /\ Mute(r) \/ \E row : Speaks(r, row)
          /\ Publishes(runs'[r]) => Publishes(runs[r]) \/ ~runs[r].finish
      BY <3>1, <3>2, RunBecomes
    <3>4. Ended
      BY <3>3 DEF EndInv, Ended
    <3>5. Finishing'
      BY <3>3, <3>4 DEF Ended, Finishing, Steady, Publishes
    <3>6. CASE Mute(r)
      <4>1. RowsKept /\ Launches' = Launches
        BY <3>3, <3>6 DEF Mute, RowsKept, Launches
      <4>2. \A s \in DOMAIN runs : /\ AtWork(s)' => AtWork(s)
                                   /\ runs'[s].phase = runs[s].phase
        BY <3>3, <3>6 DEF Mute, Steady, AtWork
      <4> QED
        BY <3>2, <3>3, <3>4, <3>5, <4>1, <4>2, EndKept DEF Steady
    <3>7. CASE \E row : Speaks(r, row)
      <4>1. PICK row : Speaks(r, row)
        BY <3>7
      <4>2. row.ev \in Kinds
        BY <4>1 DEF Speaks, Says, Kinds, CallRows
      <4> QED
        BY <3>2, <3>3, <3>4, <3>5, <4>1, <4>2, EndSpoken
    <3> QED
      BY <3>3, <3>6, <3>7
  <2>3. CASE Settle \/ UNCHANGED vars
    <3>1. UNCHANGED <<journal, runs, ghost>>
      BY <2>3 DEF Settle, vars
    <3>2. Shapes /\ Ended
      BY <3>1 DEF RaceInv, EndInv, Ended
    <3>3. RowsKept /\ Launches' = Launches
      BY <3>1 DEF RowsKept, Launches
    <3>4. Finishing' /\ \A r \in DOMAIN runs : AtWork(r)' => AtWork(r)
      BY <3>1, <3>2 DEF Ended, Finishing, AtWork
    <3> QED
      BY <3>1, <3>2, <3>3, <3>4, EndKept
  <2> QED
    BY <2>1, <2>2, <2>3 DEF Next
<1> QED
  BY <1>1, <1>2, VerbInvariant, RaceInvariant, PTL DEF Spec

\* What follows the last run's word, when it is not taken back: late rows of
\* returns, if it has ended, and rows of a publication.
LEMMA Afterwords ==
  ASSUME RaceInv, DueInv, LastWordIsRuns, NEW s \in 1..Len(journal), LastSays(s),
         NEW q \in (s + 1)..Len(journal)
  PROVE  /\ journal[q].ev \in {"return", "pr"}
         /\ journal[q].ev = "return" =>
              /\ Launches # {}
              /\ journal[s].ev \in {"stop", "ready", "start"} =>
                   SupersededReturn(q) /\ journal[q].num \in 1..s
<1>1. PICK n : n = Len(journal) /\ n \in Nat
  BY DEF RaceInv, Shapes, RowShape
<1>2. q \in 1..n /\ q \in (s + 1)..n /\ s \in 1..n
  BY <1>1
<1>3. \A t \in (s + 1)..n : journal[t].ev \in CallRows
  BY <1>1 DEF LastSays, NoRunBetween
<1>4. journal[q].ev # "uncommit"
  <2> SUFFICES ASSUME journal[q].ev = "uncommit" PROVE FALSE
    OBVIOUS
  <2>1. q \in Of(n, {"uncommit"})
    BY <1>2 DEF Of
  <2>2. PICK t \in After(n, q, {"start", "stop"}) : TRUE
    BY <1>1, <2>1 DEF LastWordIsRuns
  <2>3. t \in (s + 1)..n /\ journal[t].ev \in {"start", "stop"}
    BY <1>1, <1>2, <2>2 DEF After, Of
  <2> QED
    BY <1>3, <2>3 DEF CallRows
<1>5. journal[q].ev \notin {"accept", "abandon"}
  BY <1>1, <1>2 DEF LastWordIsRuns, Of
<1>6. journal[q].ev \in {"return", "pr"}
  BY <1>2, <1>3, <1>4, <1>5 DEF CallRows
<1>7. ASSUME journal[q].ev = "return"
      PROVE  /\ Launches # {}
             /\ journal[s].ev \in {"stop", "ready", "start"} =>
                  SupersededReturn(q) /\ journal[q].num \in 1..s
  <2>1. PICK num : num = journal[q].num
    OBVIOUS
  <2>2. num \in 1..q /\ Answered(num - 1)
    BY <1>1, <1>2, <1>7, <2>1 DEF DueInv, Dues, ReturnsTold, Told
  <2>3. PICK act \in Launches : Settled(EndOf(act), num - 1)
    BY <2>2 DEF Answered
  <2>4. EndOf(act) < s /\ EndOf(act) \in 0..n
    BY <1>1, <2>3 DEF LastSays, RaceInv, Shapes, ActsPlaced, Spots
  <2>5. ASSUME journal[s].ev \in {"stop", "ready", "start"}
        PROVE  SupersededReturn(q) /\ num \in 1..s
    <3>1. ~(s \in (EndOf(act) + 1)..(num - 1))
      BY <2>3, <2>5 DEF Settled
    <3>2. num <= s
      <4>1. PICK end : end = EndOf(act) /\ end \in 0..n /\ end < s
        BY <2>4
      <4> QED
        BY <1>2, <2>2, <3>1, <4>1
    <3>3. s \in num..(q - 1)
      BY <1>2, <2>2, <3>2
    <3> QED
      BY <1>2, <1>7, <2>1, <2>2, <2>5, <3>2, <3>3 DEF SupersededReturn
  <2> QED
    BY <2>1, <2>3, <2>5
<1> QED
  BY <1>6, <1>7

\* One of some positions is their newest, or none is.
LEMMA NewestOf ==
  ASSUME NEW n \in Nat, NEW S \in SUBSET (1..n)
  PROVE  Newest(S) \in S \union {0} /\ \A q \in S : q <= Newest(S)
<1>1. S \union {0} \in SUBSET (0..n) /\ S \union {0} # {}
  OBVIOUS
<1>2. Max(S \union {0}) \in S \union {0} /\ \A q \in S \union {0} : q <= Max(S \union {0})
  BY <1>1, LastOf
<1> QED
  BY <1>2 DEF Newest

\* The last row that is not late is the last run's word, or comes after it.
LEMMA LastRowSaid ==
  ASSUME RaceInv, DueInv, LastWordIsRuns, NEW s \in 1..Len(journal), LastSays(s)
  PROVE  LET p == LastRow(Len(journal)) IN
         /\ p = s \/ (p \in (s + 1)..Len(journal) /\ ~SupersededReturn(p))
         /\ \A q \in (s + 1)..Len(journal) : q <= p \/ SupersededReturn(q)
<1>1. PICK n : n = Len(journal) /\ n \in Nat
  BY DEF RaceInv, Shapes, RowShape
<1>2. PICK S : S = {p \in 1..n : ~SupersededReturn(p)}
  OBVIOUS
<1>3. S \in SUBSET (1..n)
  BY <1>2
<1>4. PICK p : p = Newest(S) /\ p \in S \union {0} /\ \A q \in S : q <= p
  BY <1>1, <1>3, NewestOf
<1>5. s \in S
  <2>1. journal[s].ev # "return"
    BY DEF LastSays, Says
  <2> QED
    BY <1>1, <1>2, <2>1 DEF SupersededReturn
<1>6. LastRow(n) = p
  BY <1>2, <1>4 DEF LastRow
<1>7. p \in S /\ s <= p /\ p \in 1..n
  BY <1>1, <1>2, <1>4, <1>5
<1>8. p = s \/ p \in (s + 1)..n
  BY <1>1, <1>7
<1> QED
  BY <1>1, <1>2, <1>4, <1>6, <1>7, <1>8

\* With no row of a publication, the journal says how the last run ended.
LEMMA StatusSaid ==
  ASSUME RaceInv, DueInv, LastWordIsRuns, NEW s \in 1..Len(journal), LastSays(s),
         journal[s].ev \in {"stop", "ready"}, Of(Len(journal), {"pr"}) = {}
  PROVE  Status(Len(journal)) = IF journal[s].ev = "stop" THEN "stopped" ELSE "ready"
<1>1. PICK n : n = Len(journal) /\ n \in Nat /\ n # 0
  BY DEF RaceInv, Shapes, RowShape
<1>2. \A q \in (s + 1)..n :
        /\ journal[q].ev = "return" /\ SupersededReturn(q) /\ journal[q].num \in 1..s
        /\ journal[q].ev \notin {"stop", "ready", "start"}
  <2> SUFFICES ASSUME NEW q \in (s + 1)..n
               PROVE  journal[q].ev = "return" /\ SupersededReturn(q) /\ journal[q].num \in 1..s
    OBVIOUS
  <2>1. q \in 1..n
    BY <1>1
  <2>2. journal[q].ev # "pr"
    BY <1>1, <2>1 DEF Of
  <2> QED
    BY <1>1, <2>2, Afterwords
<1>3. LastRow(n) = s
  BY <1>1, <1>2, LastRowSaid
<1>4. \A p \in 1..n : journal[p].ev \notin {"accept", "abandon"}
  BY <1>1 DEF LastWordIsRuns, Of
<1>5. PICK ready, tail, terminal :
        /\ ready = Last(n, {"ready"})
        /\ tail = Last(n, {e \in {journal[p].ev : p \in 1..n} : e \notin Decisions})
        /\ terminal = Newest({p \in Of(n, Decisions \union {"ready"}) : ~SupersededReturn(p)})
  OBVIOUS
<1>6. PICK moved : moved = (/\ journal[s].ev \in Decisions
                            /\ tail > ready
                            /\ \/ journal[tail].ev = "pr"
                               \/ journal[s].ev = "return" /\ ready # 0)
  OBVIOUS
<1>7. ~moved
  BY <1>6 DEF Decisions
<1>8. PICK last : last = (IF moved THEN tail ELSE s) /\ last = s
  BY <1>7
<1>9. Status(n) =
        CASE n = 0 -> "unknown"
          [] /\ n # 0 /\ (terminal # 0 /\ journal[terminal].ev = "ready")
             /\ ~(journal[last].ev = "stop" /\ last > terminal)
             /\ ~\E p \in Of(n, {"return"}) : journal[p].num > terminal /\ SupersededReturn(p) -> "ready"
          [] n # 0 /\ (terminal # 0 /\ journal[terminal].ev = "abandon") -> "abandoned"
          [] /\ n # 0 /\ (terminal # 0 /\ journal[terminal].ev = "return")
             /\ After(n, IF ready # 0 THEN ready ELSE terminal, {"start", "stop"}) = {} -> "returned"
          [] OTHER -> CASE journal[last].ev = "stop" -> "stopped"
                        [] journal[last].ev = "pr" -> "done"
                        [] OTHER -> "running"
  <2>1. PICK newest : newest = (IF LastRow(n) = 0 THEN n ELSE LastRow(n)) /\ newest = s
    BY <1>1, <1>3
  <2> QED
    BY <1>5, <1>6, <1>8, <2>1, Zenon DEF Status
<1>10. PICK S : S = {p \in Of(n, Decisions \union {"ready"}) : ~SupersededReturn(p)}
  OBVIOUS
<1>11. S \in SUBSET (1..n)
  BY <1>10 DEF Of
<1>12. terminal \in S \union {0} /\ \A q \in S : q <= terminal
  BY <1>1, <1>5, <1>10, <1>11, NewestOf
<1>13. \A q \in S : q <= s
  <2> SUFFICES ASSUME NEW q \in S PROVE q <= s
    OBVIOUS
  <2>1. q \in 1..n /\ ~SupersededReturn(q)
    BY <1>10, <1>11
  <2>2. q \notin (s + 1)..n
    BY <1>2, <2>1
  <2> QED
    BY <1>1, <2>1, <2>2
<1>14. ready \in 0..s /\ (ready # 0 => journal[ready].ev = "ready")
  <2>1. ready \in Of(n, {"ready"}) \union {0}
    BY <1>1, <1>5, LastRowOf
  <2>2. (ready \in 1..n /\ journal[ready].ev = "ready") \/ ready = 0
    BY <2>1 DEF Of
  <2> QED
    BY <1>1, <1>2, <2>2
<1>15. CASE journal[s].ev = "ready"
  <2>1. s \in S
    BY <1>1, <1>10, <1>15 DEF Of, SupersededReturn
  <2>2. terminal = s
    <3>1. PICK m : m = terminal /\ m \in S \union {0} /\ s <= m
      BY <1>12, <2>1
    <3>2. m \in 1..n /\ m <= s
      BY <1>1, <1>11, <1>13, <3>1
    <3> QED
      BY <1>1, <3>1, <3>2
  <2>3. ~\E p \in Of(n, {"return"}) : journal[p].num > terminal /\ SupersededReturn(p)
    <3> SUFFICES ASSUME NEW p \in 1..n, journal[p].ev = "return" PROVE ~(journal[p].num > s)
      BY <2>2 DEF Of
    <3>1. CASE p \in (s + 1)..n
      BY <1>1, <1>2, <3>1
    <3>2. CASE p <= s
      BY <1>1, <3>2 DEF DueInv, Dues, ReturnsTold, Told
    <3> QED
      BY <1>1, <3>1, <3>2
  <2>4. ~(last > terminal)
    BY <1>1, <1>8, <2>2
  <2>5. terminal # 0 /\ journal[terminal].ev = "ready"
    BY <1>1, <1>15, <2>2
  <2>6. Status(n) = "ready"
    BY <1>1, <1>9, <2>3, <2>4, <2>5
  <2> QED
    BY <1>1, <1>15, <2>6
<1>16. CASE journal[s].ev = "stop"
  <2>1. s \notin S
    BY <1>10, <1>16 DEF Of, Decisions
  <2>2. terminal \in 0..n /\ terminal < s
    BY <1>1, <1>11, <1>12, <1>13, <2>1
  <2>3. journal[last].ev = "stop" /\ last > terminal
    BY <1>1, <1>8, <1>16, <2>2
  <2>4. ~(terminal # 0 /\ journal[terminal].ev = "abandon")
    BY <1>4, <2>2
  <2>5. After(n, IF ready # 0 THEN ready ELSE terminal, {"start", "stop"}) # {}
    <3>1. ready # s
      BY <1>14, <1>16
    <3>2. \A p \in 0..n : p < s => s \in After(n, p, {"start", "stop"})
      BY <1>1, <1>16 DEF After, Of
    <3> QED
      BY <1>1, <1>14, <2>2, <3>1, <3>2
  <2>6. Status(n) = "stopped"
    BY <1>1, <1>9, <2>3, <2>4, <2>5
  <2> QED
    BY <1>1, <1>16, <2>6
<1> QED
  BY <1>15, <1>16

\* When all calls are over and no run has a process, the journal and the viewer
\* tell how the last run ended, however late the row of the return that launched
\* it was written.
THEOREM EndsTold == Spec => []EndTold
<1>1. RaceInv /\ DueInv /\ EndInv => EndTold
  <2> SUFFICES ASSUME RaceInv, DueInv, EndInv, Idle, LastWordIsRuns
               PROVE  LET n == Len(journal)
                          last == runs[Len(runs)].phase
                      IN /\ last \in {"stopped", "ready", "published"} => ~OpenTail(n)
                         /\ last = "open" => OpenTail(n) \/ Of(n, {"pr"}) # {}
                         /\ last \in {"stopped", "ready"} => Status(n) = last \/ Of(n, {"pr"}) # {}
    BY DEF EndTold
  <2>1. PICK n, last : n = Len(journal) /\ n \in Nat /\ last = runs[Len(runs)].phase
    BY DEF RaceInv, Shapes, RowShape
  <2>2. Ended /\ DOMAIN runs # {}
    <3>1. PICK S : runs \in Seq(S)
      BY DEF RaceInv, Shapes, RunShape
    <3>2. DOMAIN runs # {}
      BY <3>1, EmptySeq DEF Idle
    <3> QED
      BY <3>2 DEF LastWordIsRuns, EndInv, Ended
  <2>3. ASSUME last \in {"stopped", "ready", "published", "open"}
        PROVE  /\ last \in {"stopped", "ready", "published"} => ~OpenTail(n)
               /\ last = "open" => OpenTail(n) \/ Of(n, {"pr"}) # {}
               /\ last \in {"stopped", "ready"} => Status(n) = last \/ Of(n, {"pr"}) # {}
    <3>1. PICK s \in 1..n : LastSays(s)
      BY <2>1, <2>2, <2>3 DEF Ended, LastTold
    <3>2. PICK p : /\ p = LastRow(n)
                   /\ p = s \/ (p \in (s + 1)..n /\ ~SupersededReturn(p))
      BY <2>1, <3>1, LastRowSaid
    <3>3. p \in 1..n /\ p \in Nat \ {0}
      BY <2>1, <3>2
    <3>4. Says(last, journal[s].ev)
      BY <2>1, <3>1 DEF LastSays
    <3>5. p # s => /\ journal[p].ev \in {"return", "pr"}
                   /\ journal[p].ev = "return" => /\ Launches # {}
                                                  /\ journal[s].ev \notin {"stop", "ready"}
      BY <2>1, <3>1, <3>2, Afterwords
    <3>6. last \in {"stopped", "ready"} => journal[p].ev \in {"stop", "ready", "pr"}
      BY <3>4, <3>5 DEF Says
    <3>7. last = "published" => journal[p].ev = "pr"
      <4> SUFFICES ASSUME last = "published", p # s PROVE journal[p].ev = "pr"
        BY <3>4 DEF Says
      <4>1. Len(runs) \in DOMAIN runs
        <5>1. DOMAIN runs = 1..Len(runs) /\ Len(runs) \in Nat
          BY DEF RaceInv, Shapes, RunShape
        <5> QED
          BY <2>2, <5>1
      <4>2. Len(runs) = 1
        BY <2>1, <2>2, <4>1 DEF Ended, Finishing
      <4>3. Launches = {}
        BY <2>2, <4>2 DEF Ended, Relaunched
      <4> QED
        BY <3>5, <4>3
    <3>8. last \in {"stopped", "ready", "published"} => ~OpenTail(n)
      BY <3>2, <3>6, <3>7 DEF OpenTail
    <3>9. last = "open" => OpenTail(n) \/ Of(n, {"pr"}) # {}
      <4>1. last = "open" => journal[p].ev \in {"start", "build", "review", "commit", "return", "pr"}
        BY <3>4, <3>5 DEF Says
      <4>2. journal[p].ev = "pr" => p \in Of(n, {"pr"})
        BY <3>3 DEF Of
      <4> QED
        BY <3>2, <3>3, <4>1, <4>2 DEF OpenTail
    <3>10. last \in {"stopped", "ready"} => Status(n) = last \/ Of(n, {"pr"}) # {}
      <4> SUFFICES ASSUME last \in {"stopped", "ready"}, Of(n, {"pr"}) = {} PROVE Status(n) = last
        OBVIOUS
      <4>1. journal[s].ev = (IF last = "stopped" THEN "stop" ELSE "ready")
        BY <3>4 DEF Says
      <4>2. Status(n) = IF journal[s].ev = "stop" THEN "stopped" ELSE "ready"
        BY <2>1, <3>1, <4>1, StatusSaid
      <4> QED
        BY <4>1, <4>2
    <3> QED
      BY <3>8, <3>9, <3>10
  <2> QED
    BY <2>1, <2>3
<1> QED
  BY <1>1, RaceInvariant, DueInvariant, EndInvariant, PTL
=============================================================================

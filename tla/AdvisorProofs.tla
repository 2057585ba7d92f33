--------------------------- MODULE AdvisorProofs ---------------------------
(***************************************************************************)
(* What the advisor promises, for any number of calls, any cap and any     *)
(* cadence.  The hooks look at the manifest first and may start over: what *)
(* the advisor keeps, the calls, the consults and the history then change  *)
(* together, before the hook itself goes on.  The invariant is therefore   *)
(* stated of four values, a of the advisor, q of the calls, c of the       *)
(* consults and g of the history: it is kept by the look, and by what      *)
(* follows it.                                                             *)
(***************************************************************************)
EXTENDS Advisor, FiniteSetTheorems, TLAPS

Epoch == Nat \union {None}
Queued == Triggers \ {"pre-return"}

Advisors ==
  [epoch : Epoch, gen : Nat, calls : Nat, consults : Nat, spent : BOOLEAN,
   maybe : Call \union {None}, grounded : BOOLEAN, fired : BOOLEAN,
   said : SUBSET Nat, heard : SUBSET Call]
ToolCall ==
  [at : {"new", "passed", "waiting", "resuming", "blocked"},
   kind : {"plain"} \union ReturnKinds,
   why : {None, "spent", "unconsulted", "consulted"},
   gen : Nat, queue : Seq(Queued), over : BOOLEAN]
Consult ==
  [at : {"none", "running", "stopping"}, gen : Nat, epoch : Epoch,
   first : {None, "aborted", "timeout", "stream"}, timedOut : BOOLEAN, aborted : BOOLEAN]
Ghosts == [begun : Nat, maybes : Nat, told : SUBSET [claim : Nat, call : Call]]

ManifestType == manifest \in Epoch /\ changes \in Nat

Typed(a, q, c, g) ==
  /\ a \in Advisors
  /\ q \in [Call -> ToolCall]
  /\ c \in [Consults -> Consult]
  /\ g \in Ghosts

-----------------------------------------------------------------------------
(* What every step keeps.                                                  *)

\* A consult that is stopped has one cause, its flags say which.
OneCause(x) ==
  /\ x.at = "running" => x.first = None
  /\ x.timedOut <=> (x.first = "timeout")
  /\ x.aborted <=> (x.first = "aborted")
Causes(c) == \A k \in Consults : OneCause(c[k])

\* The cap counts what was begun.  A maybe that was consulted on keeps the slot.
Capped(a, q, g) ==
  /\ g.begun = a.consults /\ a.consults <= MaxConsults
  /\ g.maybes <= 1
  /\ g.maybes = 1 => a.maybe # None /\ q[a.maybe].at \notin {"new", "resuming"}

\* What the seat was told is remembered with who heard it.
Recalled(a, g) ==
  /\ IsFiniteSet(g.told)
  /\ \A note \in g.told : note.claim \in a.said /\ note.call \in a.heard

\* A return's consult ends while the return waits for it.
Waited(q, c) ==
  \A i \in Call : /\ c[<<i, "pre-return">>].at # "none" => q[i].at = "waiting"
                  /\ q[i].at \in {"new", "waiting", "resuming"} => q[i].why = None

\* A sure return whose consult ended, in the generation it names.
Reviewed(q, j, gen) ==
  q[j].kind = "sure" /\ q[j].why = "consulted" /\ q[j].gen = gen
SpentOnce(a, q) ==
  /\ a.spent => \E j \in Call : Reviewed(q, j, a.gen)
  /\ \A i \in Call : q[i].kind = "sure" /\ q[i].why = "spent" =>
       \E j \in Call \ {i} : Reviewed(q, j, q[i].gen)

\* A consult of this generation is of the epoch the advisor knows.
Aged(a, c) ==
  \A k \in Consults : c[k].at # "none" =>
    /\ c[k].gen <= a.gen
    /\ c[k].gen = a.gen => c[k].epoch = a.epoch /\ a.epoch # None

Fits(a, q, c, g) ==
  /\ Typed(a, q, c, g)
  /\ Causes(c)
  /\ Capped(a, q, g)
  /\ Recalled(a, g)
  /\ Waited(q, c)
  /\ SpentOnce(a, q)
  /\ Aged(a, c)

AdvisorInv == ManifestType /\ Fits(advisor, call, consult, ghost)

-----------------------------------------------------------------------------
(* What follows the look, each change of the four values by itself.        *)

\* None is not one of the names.
LEMMA NoneIsNoName ==
  /\ None # "aborted" /\ None # "timeout" /\ None # "stream"
  /\ None # "spent" /\ None # "unconsulted" /\ None # "consulted"
  /\ \A n \in Nat : n # None
BY AdvisorAssumption

\* A trigger is queued at most once, after those that wait.
LEMMA QueueTyped ==
  ASSUME NEW s \in Seq(Queued), NEW t \in Queued
  PROVE  Queue(s, t) \in Seq(Queued)
BY DEF Queue

\* The rhythm of the calls queues its own trigger or none.
LEMMA CadenceTyped ==
  ASSUME NEW s \in Seq(Queued), NEW a
  PROVE  CadenceDue(s, a) \in Seq(Queued)
<1>1. "cadence" \in Queued
  BY DEF Queued, Triggers
<1> QED
  BY <1>1, QueueTyped DEF CadenceDue

\* The four values are kept by the look at the manifest, which may start over.
LEMMA LookFits ==
  AdvisorInv => /\ Fits(Current, CurrentCalls, CurrentConsults, CurrentGhost)
                /\ Current.epoch = manifest
<1> SUFFICES ASSUME AdvisorInv
             PROVE  /\ Fits(Current, CurrentCalls, CurrentConsults, CurrentGhost)
                    /\ Current.epoch = manifest
  OBVIOUS
<1> DEFINE b == IF Restarting THEN Reset(advisor) ELSE advisor
<1>1. advisor \in Advisors /\ manifest \in Epoch
  BY DEF AdvisorInv, ManifestType, Fits, Typed
<1>2. b \in Advisors
  <2>1. advisor.gen + 1 \in Nat
    BY <1>1 DEF Advisors
  <2> DEFINE b1 == [advisor EXCEPT !.gen = @ + 1, !.consults = 0, !.spent = FALSE, !.maybe = None]
  <2>2. b1 \in Advisors
    BY <1>1, <2>1 DEF Advisors
  <2>4. Reset(advisor) = [b1 EXCEPT !.grounded = FALSE, !.fired = FALSE, !.said = {}, !.heard = {}]
    BY DEF Reset
  <2> HIDE DEF b1
  <2>3. Reset(advisor) \in Advisors
    BY <2>2, <2>4 DEF Advisors
  <2> QED
    BY <1>1, <2>3
<1>3. Current = [b EXCEPT !.epoch = manifest]
  BY DEF Current
<1>4. CASE Restarting
  <2>1. /\ b.gen = advisor.gen + 1 /\ b.consults = 0 /\ b.spent = FALSE /\ b.maybe = None
        /\ b.said = {} /\ b.heard = {}
    BY <1>1, <1>4 DEF Reset, Advisors
  <2> HIDE DEF b
  <2>2. /\ Current \in Advisors /\ Current.epoch = manifest
        /\ Current.gen = advisor.gen + 1 /\ Current.consults = 0 /\ Current.spent = FALSE
        /\ Current.maybe = None /\ Current.said = {} /\ Current.heard = {}
    BY <1>1, <1>2, <1>3, <2>1 DEF Advisors
  <2>3. CurrentGhost = [begun |-> 0, maybes |-> 0, told |-> {}]
    BY <1>4 DEF CurrentGhost, NoGhost
  <2>4. /\ CurrentCalls \in [Call -> ToolCall]
        /\ \A i \in Call : /\ CurrentCalls[i].at = call[i].at
                           /\ CurrentCalls[i].kind = call[i].kind
                           /\ CurrentCalls[i].why = call[i].why
                           /\ CurrentCalls[i].gen = call[i].gen
    <3>1. \A i \in Call : CurrentCalls[i] = [call[i] EXCEPT !.queue = <<>>]
      BY <1>4 DEF CurrentCalls
    <3>2. call \in [Call -> ToolCall]
      BY DEF AdvisorInv, Fits, Typed
    <3>3. <<>> \in Seq(Queued)
      OBVIOUS
    <3>4. \A i \in Call : [call[i] EXCEPT !.queue = <<>>] \in ToolCall
      BY <3>2, <3>3 DEF ToolCall
    <3>5. CurrentCalls \in [Call -> ToolCall]
      BY <1>4, <3>4 DEF CurrentCalls
    <3> QED
      BY <3>1, <3>2, <3>5 DEF ToolCall
  <2>5. /\ CurrentConsults \in [Consults -> Consult]
        /\ \A k \in Consults : /\ (CurrentConsults[k].at = "none") <=> (consult[k].at = "none")
                               /\ CurrentConsults[k].gen = consult[k].gen
                               /\ OneCause(CurrentConsults[k])
    <3>1. \A k \in Consults : CurrentConsults[k] = Abort(consult[k])
      BY <1>4 DEF CurrentConsults
    <3>2. consult \in [Consults -> Consult] /\ Causes(consult)
      BY DEF AdvisorInv, Fits, Typed
    <3>3. ASSUME NEW x \in Consult, OneCause(x)
          PROVE  /\ Abort(x) \in Consult /\ OneCause(Abort(x))
                 /\ (Abort(x).at = "none") <=> (x.at = "none")
                 /\ Abort(x).gen = x.gen
      <4>1. CASE x.at = "running"
        <5>1. x.first = None /\ ~x.timedOut
          BY <3>3, <4>1, NoneIsNoName DEF OneCause
        <5>2. Abort(x) = [x EXCEPT !.at = "stopping", !.first = "aborted", !.aborted = TRUE]
          BY <4>1 DEF Abort
        <5> QED
          BY <3>3, <4>1, <5>1, <5>2 DEF Consult, OneCause
      <4>2. CASE x.at # "running"
        BY <3>3, <4>2 DEF Abort
      <4> QED
        BY <4>1, <4>2
    <3>4. \A k \in Consults : Abort(consult[k]) \in Consult
      BY <3>2, <3>3 DEF Causes
    <3>5. CurrentConsults \in [Consults -> Consult]
      BY <1>4, <3>4 DEF CurrentConsults
    <3> QED
      BY <3>1, <3>2, <3>3, <3>5 DEF Causes
  <2>6. Typed(Current, CurrentCalls, CurrentConsults, CurrentGhost)
    BY <2>2, <2>3, <2>4, <2>5 DEF Typed, Ghosts
  <2>7. Causes(CurrentConsults)
    BY <2>5 DEF Causes
  <2>8. Capped(Current, CurrentCalls, CurrentGhost)
    BY <2>2, <2>3, AdvisorAssumption DEF Capped
  <2>9. Recalled(Current, CurrentGhost)
    BY <2>3, FS_EmptySet DEF Recalled
  <2>10. Waited(CurrentCalls, CurrentConsults)
    <3>1. Waited(call, consult)
      BY DEF AdvisorInv, Fits
    <3>2. \A i \in Call : <<i, "pre-return">> \in Consults
      BY DEF Consults, Triggers
    <3> QED
      BY <2>4, <2>5, <3>1, <3>2 DEF Waited
  <2>11. SpentOnce(Current, CurrentCalls)
    <3>1. SpentOnce(advisor, call)
      BY DEF AdvisorInv, Fits
    <3> QED
      BY <2>2, <2>4, <3>1 DEF SpentOnce, Reviewed
  <2>12. Aged(Current, CurrentConsults)
    <3>1. \A k \in Consults : consult[k].at # "none" => consult[k].gen <= advisor.gen
      BY DEF AdvisorInv, Fits, Aged
    <3>2. advisor.gen \in Nat /\ \A k \in Consults : consult[k].gen \in Nat
      BY <1>1 DEF Advisors, AdvisorInv, Fits, Typed, Consult
    <3>3. \A k \in Consults : CurrentConsults[k].at # "none" =>
            CurrentConsults[k].gen <= Current.gen /\ CurrentConsults[k].gen # Current.gen
      BY <2>2, <2>5, <3>1, <3>2
    <3> QED
      BY <3>3 DEF Aged
  <2> QED
    BY <2>2, <2>6, <2>7, <2>8, <2>9, <2>10, <2>11, <2>12 DEF Fits
<1>5. CASE ~Restarting
  <2>1. CurrentGhost = ghost
    BY <1>5 DEF CurrentGhost
  <2>2. CurrentCalls = call /\ CurrentConsults = consult
    <3>1. /\ CurrentCalls = [i \in Call |-> call[i]]
          /\ CurrentConsults = [k \in Consults |-> consult[k]]
      BY <1>5 DEF CurrentCalls, CurrentConsults
    <3> QED
      BY <3>1 DEF AdvisorInv, Fits, Typed
  <2>3. Current = [advisor EXCEPT !.epoch = manifest]
    BY <1>3, <1>5
  <2>4. advisor.epoch = None \/ manifest = advisor.epoch
    BY <1>5 DEF Restarting
  <2>5. /\ Current \in Advisors /\ Current.epoch = manifest
        /\ Current.gen = advisor.gen /\ Current.consults = advisor.consults
        /\ Current.spent = advisor.spent /\ Current.maybe = advisor.maybe
        /\ Current.said = advisor.said /\ Current.heard = advisor.heard
    BY <1>1, <2>3 DEF Advisors
  <2>6. Aged(Current, consult)
    <3>1. Aged(advisor, consult)
      BY DEF AdvisorInv, Fits
    <3> QED
      BY <2>4, <2>5, <3>1 DEF Aged
  <2>7. Fits(advisor, call, consult, ghost)
    BY DEF AdvisorInv
  <2> QED
    BY <2>1, <2>2, <2>5, <2>6, <2>7 DEF Fits, Typed, Capped, Recalled, SpentOnce
<1> QED
  BY <1>4, <1>5

\* The count of calls, what fired, what grounds, and a slot that is claimed.
LEMMA AdvisorMoves ==
  ASSUME NEW a, NEW q, NEW c, NEW g, Fits(a, q, c, g),
         NEW b \in Advisors,
         b.epoch = a.epoch, b.gen = a.gen, b.consults = a.consults, b.spent = a.spent,
         b.said = a.said, b.heard = a.heard,
         b.maybe = a.maybe \/ a.maybe = None
  PROVE  Fits(b, q, c, g)
<1>1. g.maybes \in Nat
  BY DEF Fits, Typed, Ghosts
<1>2. Capped(b, q, g)
  BY <1>1 DEF Fits, Capped
<1>3. Typed(b, q, c, g) /\ Recalled(b, g) /\ SpentOnce(b, q) /\ Aged(b, c)
  BY DEF Fits, Typed, Recalled, SpentOnce, Aged
<1> QED
  BY <1>2, <1>3 DEF Fits

\* A call that is answered is no longer new, and is not reviewed yet.
LEMMA CallAnswered ==
  ASSUME NEW a, NEW q, NEW c, NEW g, Fits(a, q, c, g),
         NEW i \in Call, q[i].at = "new",
         NEW x \in ToolCall,
         x.at \in {"passed", "waiting", "resuming"}, x.why \in {None, "spent"},
         x.at # "passed" => x.why = None,
         x.why = "spent" /\ x.kind = "sure" => a.spent /\ x.gen = a.gen
  PROVE  Fits(a, [q EXCEPT ![i] = x], c, g)
<1> DEFINE r == [q EXCEPT ![i] = x]
<1>1. q \in [Call -> ToolCall]
  BY DEF Fits, Typed
<1>2. r \in [Call -> ToolCall] /\ r[i] = x /\ \A j \in Call \ {i} : r[j] = q[j]
  BY <1>1
<1> HIDE DEF r
<1>3. Typed(a, r, c, g)
  BY <1>2 DEF Fits, Typed
<1>4. Capped(a, r, g)
  <2>1. a.maybe \in Call \union {None}
    BY DEF Fits, Typed, Advisors
  <2> QED
    BY <1>2, <2>1 DEF Fits, Capped
<1>5. Waited(r, c)
  <2>1. q[i].why = None /\ c[<<i, "pre-return">>].at = "none"
    BY DEF Fits, Waited
  <2> QED
    BY <1>2, <2>1 DEF Fits, Waited
<1>6. SpentOnce(a, r)
  <2>1. q[i].why = None
    BY DEF Fits, Waited
  <2>2. \A n : \A j \in Call : Reviewed(q, j, n) => j # i /\ Reviewed(r, j, n)
    BY <1>2, <2>1, NoneIsNoName DEF Reviewed
  <2>3. SpentOnce(a, q)
    BY DEF Fits
  <2>4. a.spent => \E j \in Call : Reviewed(r, j, a.gen)
    BY <2>2, <2>3 DEF SpentOnce
  <2>5. ASSUME NEW h \in Call, r[h].kind = "sure", r[h].why = "spent"
        PROVE  \E j \in Call \ {h} : Reviewed(r, j, r[h].gen)
    <3>1. CASE h = i
      <4>1. \E j \in Call : Reviewed(q, j, a.gen)
        BY <1>2, <2>3, <2>5, <3>1 DEF SpentOnce
      <4> QED
        BY <1>2, <2>2, <2>5, <3>1, <4>1
    <3>2. CASE h # i
      <4>1. \E j \in Call \ {h} : Reviewed(q, j, q[h].gen)
        BY <1>2, <2>3, <2>5, <3>2 DEF SpentOnce
      <4> QED
        BY <1>2, <2>2, <3>2, <4>1
    <3> QED
      BY <3>1, <3>2
  <2> QED
    BY <2>4, <2>5 DEF SpentOnce
<1> QED
  BY <1>3, <1>4, <1>5, <1>6 DEF Fits, r

\* The consults, and their count, once those of K are begun.
BegunIn(a, c, K) == [k \in Consults |-> IF k \in K THEN Begun(a) ELSE c[k]]
BegunMore(g, n) == [g EXCEPT !.begun = @ + n]

\* Consults that are begun while the cap leaves room are of the advisor's own run.
LEMMA ConsultsBegin ==
  ASSUME NEW a, NEW q, NEW c, NEW g, Fits(a, q, c, g),
         NEW K \in SUBSET Consults, NEW n \in Nat, a.consults + n <= MaxConsults,
         K # {} => a.epoch # None,
         \A k \in K : k[2] = "pre-return" => q[k[1]].at = "waiting"
  PROVE  Fits(Counted(a, n), q, BegunIn(a, c, K), BegunMore(g, n))
<1> USE DEF BegunIn, BegunMore
<1> DEFINE b == Counted(a, n)
           d == BegunIn(a, c, K)
           h == BegunMore(g, n)
<1>1. /\ a \in Advisors /\ q \in [Call -> ToolCall] /\ c \in [Consults -> Consult]
      /\ g \in Ghosts
  BY DEF Fits, Typed
<1>2. a.consults + n \in Nat /\ g.begun + n \in Nat
  BY <1>1 DEF Advisors, Ghosts
<1>3. /\ b \in Advisors /\ b.epoch = a.epoch /\ b.gen = a.gen /\ b.consults = a.consults + n
      /\ b.spent = a.spent /\ b.maybe = a.maybe /\ b.said = a.said /\ b.heard = a.heard
  BY <1>1, <1>2 DEF Counted, Advisors
<1>4. /\ h \in Ghosts /\ h.begun = g.begun + n /\ h.maybes = g.maybes /\ h.told = g.told
  BY <1>1, <1>2 DEF Ghosts
<1>5. NoConsult \in Consult /\ NoConsult.first = None /\ ~NoConsult.timedOut /\ ~NoConsult.aborted
  BY DEF NoConsult, Consult, Epoch
<1>6. /\ Begun(a) \in Consult /\ OneCause(Begun(a))
      /\ Begun(a).gen = a.gen /\ Begun(a).epoch = a.epoch
  BY <1>1, <1>5, NoneIsNoName DEF Begun, Consult, Advisors, OneCause
<1>7. d \in [Consults -> Consult]
  BY <1>1, <1>6
<1>8. \A k \in Consults : (k \in K /\ d[k] = Begun(a)) \/ (k \notin K /\ d[k] = c[k])
  <2>1. TAKE k \in Consults
  <2>2. d[k] = IF k \in K THEN Begun(a) ELSE c[k]
    OBVIOUS
  <2> HIDE DEF d
  <2> QED
    BY <2>2
<1> HIDE DEF b, d, h
<1>9. Typed(b, q, d, h)
  BY <1>1, <1>3, <1>4, <1>7 DEF Typed
<1>10. Causes(d)
  BY <1>6, <1>8 DEF Fits, Causes
<1>11. Capped(b, q, h)
  BY <1>3, <1>4 DEF Fits, Capped
<1>12. Recalled(b, h) /\ SpentOnce(b, q)
  BY <1>3, <1>4 DEF Fits, Recalled, SpentOnce
<1>13. Waited(q, d)
  <2>1. \A i \in Call : <<i, "pre-return">> \in Consults
    BY DEF Consults, Triggers
  <2>2. \A i \in Call : <<i, "pre-return">>[1] = i /\ <<i, "pre-return">>[2] = "pre-return"
    OBVIOUS
  <2> QED
    BY <1>8, <2>1, <2>2 DEF Fits, Waited
<1>14. Aged(b, d)
  <2>1. a.gen \in Nat
    BY <1>1 DEF Advisors
  <2>3. ASSUME NEW k \in Consults, d[k].at # "none"
        PROVE  /\ d[k].gen <= b.gen
               /\ d[k].gen = b.gen => d[k].epoch = b.epoch /\ b.epoch # None
    BY <1>3, <1>6, <1>8, <2>1, <2>3 DEF Fits, Aged
  <2> QED
    BY <2>3 DEF Aged
<1> QED
  BY <1>9, <1>10, <1>11, <1>12, <1>13, <1>14 DEF Fits, b, d, h

\* The maybe that is consulted on is the one that claimed the slot, and the first.
LEMMA MaybeTaken ==
  ASSUME NEW a, NEW q, NEW c, NEW g, Fits(a, q, c, g),
         g.maybes = 0, a.maybe # None, q[a.maybe].at = "waiting"
  PROVE  Fits(a, q, c, [g EXCEPT !.maybes = @ + 1])
<1>1. g \in Ghosts
  BY DEF Fits, Typed
<1> DEFINE h == [g EXCEPT !.maybes = @ + 1]
<1>2. h \in Ghosts /\ h.begun = g.begun /\ h.told = g.told /\ h.maybes = 1
  BY <1>1 DEF Ghosts
<1> HIDE DEF h
<1>3. Typed(a, q, c, h) /\ Capped(a, q, h) /\ Recalled(a, h)
  BY <1>2 DEF Fits, Typed, Capped, Recalled
<1> QED
  BY <1>3 DEF Fits, h

\* A return that was not consulted on goes on, and gives back its slot.
LEMMA ReturnResumes ==
  ASSUME NEW a, NEW q, NEW c, NEW g, Fits(a, q, c, g),
         NEW i \in Call, q[i].at = "resuming"
  PROVE  Fits(SlotReturned(a, i),
              [q EXCEPT ![i] = [@ EXCEPT !.at = "passed", !.why = "unconsulted"]], c, g)
<1> DEFINE x == [q[i] EXCEPT !.at = "passed", !.why = "unconsulted"]
           r == [q EXCEPT ![i] = x]
           b == SlotReturned(a, i)
<1>1. a \in Advisors /\ q \in [Call -> ToolCall] /\ g \in Ghosts
  BY DEF Fits, Typed
<1>2. /\ x \in ToolCall /\ x.at = "passed" /\ x.why = "unconsulted"
  BY <1>1 DEF ToolCall
<1> HIDE DEF x
<1>3. r \in [Call -> ToolCall] /\ r[i] = x /\ \A j \in Call \ {i} : r[j] = q[j]
  BY <1>1, <1>2
<1>4. /\ b \in Advisors /\ b.epoch = a.epoch /\ b.gen = a.gen /\ b.consults = a.consults
      /\ b.spent = a.spent /\ b.said = a.said /\ b.heard = a.heard
      /\ b.maybe = (IF a.maybe = i THEN None ELSE a.maybe)
  BY <1>1 DEF SlotReturned, Advisors
<1>5. q[i].why = None /\ c[<<i, "pre-return">>].at = "none"
  BY DEF Fits, Waited
<1> HIDE DEF r, b
<1>6. Typed(b, r, c, g) /\ Recalled(b, g) /\ Aged(b, c)
  BY <1>3, <1>4 DEF Fits, Typed, Recalled, Aged
<1>7. Capped(b, r, g)
  <2>1. a.maybe \in Call \union {None} /\ g.maybes \in Nat
    BY <1>1 DEF Advisors, Ghosts
  <2>2. g.maybes = 1 => a.maybe # i
    BY DEF Fits, Capped
  <2> QED
    BY <1>3, <1>4, <2>1, <2>2 DEF Fits, Capped
<1>8. Waited(r, c)
  BY <1>2, <1>3, <1>5 DEF Fits, Waited
<1>9. SpentOnce(b, r)
  <2>1. \A n : \A j \in Call : Reviewed(q, j, n) => j # i /\ Reviewed(r, j, n)
    BY <1>3, <1>5, NoneIsNoName DEF Reviewed
  <2>2. SpentOnce(a, q)
    BY DEF Fits
  <2>3. b.spent => \E j \in Call : Reviewed(r, j, b.gen)
    BY <1>4, <2>1, <2>2 DEF SpentOnce
  <2>4. ASSUME NEW h \in Call, r[h].kind = "sure", r[h].why = "spent"
        PROVE  \E j \in Call \ {h} : Reviewed(r, j, r[h].gen)
    <3>1. h # i
      BY <1>2, <1>3, <2>4
    <3>2. \E j \in Call \ {h} : Reviewed(q, j, q[h].gen)
      BY <1>3, <2>2, <2>4, <3>1 DEF SpentOnce
    <3> QED
      BY <1>3, <2>1, <3>1, <3>2
  <2> QED
    BY <2>3, <2>4 DEF SpentOnce
<1> QED
  BY <1>6, <1>7, <1>8, <1>9 DEF Fits, Causes, x, r, b

\* The result of a call takes its queue.
LEMMA QueueTaken ==
  ASSUME NEW a, NEW q, NEW c, NEW g, Fits(a, q, c, g), NEW i \in Call
  PROVE  Fits(a, [q EXCEPT ![i] = [@ EXCEPT !.queue = <<>>, !.over = TRUE]], c, g)
<1> DEFINE x == [q[i] EXCEPT !.queue = <<>>, !.over = TRUE]
           r == [q EXCEPT ![i] = x]
<1>1. q \in [Call -> ToolCall] /\ a \in Advisors
  BY DEF Fits, Typed
<1>2. <<>> \in Seq(Queued)
  OBVIOUS
<1>3. /\ x \in ToolCall /\ x.at = q[i].at /\ x.kind = q[i].kind /\ x.why = q[i].why
      /\ x.gen = q[i].gen
  BY <1>1, <1>2 DEF ToolCall
<1> HIDE DEF x
<1>4. /\ r \in [Call -> ToolCall]
      /\ \A j \in Call : /\ r[j].at = q[j].at /\ r[j].kind = q[j].kind
                         /\ r[j].why = q[j].why /\ r[j].gen = q[j].gen
  BY <1>1, <1>3
<1> HIDE DEF r
<1>5. Typed(a, r, c, g)
  BY <1>4 DEF Fits, Typed
<1>6. Capped(a, r, g)
  BY <1>1, <1>4 DEF Fits, Capped, Advisors
<1>7. Waited(r, c)
  BY <1>4 DEF Fits, Waited
<1>8. SpentOnce(a, r)
  BY <1>4 DEF Fits, SpentOnce, Reviewed
<1> QED
  BY <1>5, <1>6, <1>7, <1>8 DEF Fits, x, r

\* A consult that is being stopped stays the consult it was.
LEMMA ConsultStops ==
  ASSUME NEW a, NEW q, NEW c, NEW g, Fits(a, q, c, g),
         NEW k \in Consults, c[k].at # "none",
         NEW x \in Consult, OneCause(x),
         x.at # "none", x.gen = c[k].gen, x.epoch = c[k].epoch
  PROVE  Fits(a, q, [c EXCEPT ![k] = x], g)
<1> DEFINE d == [c EXCEPT ![k] = x]
<1>1. c \in [Consults -> Consult]
  BY DEF Fits, Typed
<1>2. /\ d \in [Consults -> Consult] /\ Causes(d)
      /\ \A l \in Consults : /\ (d[l].at = "none") <=> (c[l].at = "none")
                             /\ d[l].gen = c[l].gen /\ d[l].epoch = c[l].epoch
  BY <1>1 DEF Fits, Causes
<1> HIDE DEF d
<1>3. Waited(q, d)
  <2>1. \A i \in Call : <<i, "pre-return">> \in Consults
    BY DEF Consults, Triggers
  <2> QED
    BY <1>2, <2>1 DEF Fits, Waited
<1>4. Typed(a, q, d, g) /\ Aged(a, d)
  BY <1>2 DEF Fits, Typed, Aged
<1> QED
  BY <1>2, <1>3, <1>4 DEF Fits, d

\* A consult that is failed, or whose deadline passes, keeps the first cause.
LEMMA FailsOnce ==
  ASSUME NEW x \in Consult, OneCause(x), x.at # "none"
  PROVE  /\ Fail(x, "stream") \in Consult /\ OneCause(Fail(x, "stream"))
         /\ Fail(x, "stream").at # "none" /\ Fail(x, "stream").gen = x.gen
         /\ Fail(x, "stream").epoch = x.epoch
         /\ Expired(x) \in Consult /\ OneCause(Expired(x))
         /\ Expired(x).at # "none" /\ Expired(x).gen = x.gen /\ Expired(x).epoch = x.epoch
<1>1. CASE x.first = None
  <2>1. ~x.timedOut /\ ~x.aborted
    BY <1>1, NoneIsNoName DEF OneCause
  <2>2. Fail(x, "stream") = [x EXCEPT !.at = "stopping", !.first = "stream"]
    BY <1>1 DEF Fail
  <2>3. Fail(x, "timeout") = [x EXCEPT !.at = "stopping", !.first = "timeout"]
    BY <1>1 DEF Fail
  <2>4. Expired(x) = [x EXCEPT !.at = "stopping", !.first = "timeout", !.timedOut = TRUE]
    BY <1>1, <2>3 DEF Expired, Consult
  <2> QED
    BY <2>1, <2>2, <2>4 DEF Consult, OneCause
<1>2. CASE x.first # None
  <2>1. Fail(x, "stream") = x /\ Fail(x, "timeout") = x
    BY <1>2 DEF Fail
  <2>2. Expired(x) = [x EXCEPT !.timedOut = x.timedOut]
    BY <1>2, <2>1 DEF Expired, Consult
  <2>3. Expired(x) = x
    BY <2>2 DEF Consult
  <2> QED
    BY <2>1, <2>3
<1> QED
  BY <1>1, <1>2

\* What was claimed is numbered, and so is a new claim; a finding is never None.
LEMMA FindingTyped ==
  ASSUME ghost \in Ghosts, IsFiniteSet(ghost.told), NEW k \in Consults,
         NEW finding \in Findings(k)
  PROVE  finding.claim \in Nat /\ finding # None
<1>1. ghost.told \subseteq [claim : Nat, call : Call]
  BY DEF Ghosts
<1>2. Claims \subseteq Nat
  BY <1>1 DEF Claims
<1>3. IsFiniteSet(Claims)
  <2> DEFINE f == [note \in ghost.told |-> note.claim]
  <2>1. f \in Surjection(ghost.told, Claims)
    BY DEF Surjection, Claims
  <2> QED
    BY <2>1, FS_Surjection
<1>4. Cardinality(Claims) + 1 \in Nat
  BY <1>3, FS_CardinalityType
<1>5. finding \in [claim : Nat, grave : BOOLEAN]
  BY <1>2, <1>4 DEF Findings
<1> QED
  BY <1>5, AdvisorAssumption

\* What ends a consult is kept by the four values together.
LEMMA ConsultEnds ==
  ASSUME AdvisorInv, NEW k \in Consults, consult[k].at # "none",
         NEW finding, finding = None \/ finding.claim \in Nat,
         NEW kept \in BOOLEAN, Ends(k, finding, kept)
  PROVE  AdvisorInv'
<1> DEFINE i == k[1]
           accepted == Accepted(k, finding, kept)
           b == IF accepted THEN Remembered(advisor, k, finding) ELSE advisor
           x == [call[i] EXCEPT !.at = IF accepted /\ Blocks(k, finding) THEN "blocked" ELSE "passed",
                                !.why = "consulted", !.gen = advisor.gen]
           note == [claim |-> finding.claim, call |-> i]
<1>1. /\ advisor \in Advisors /\ call \in [Call -> ToolCall]
      /\ consult \in [Consults -> Consult] /\ ghost \in Ghosts
  BY DEF AdvisorInv, Fits, Typed
<1>2. i \in Call /\ k = <<i, k[2]>>
  BY DEF Consults
<1>3. /\ advisor' = [b EXCEPT !.spent = @ \/ Spends(k)]
      /\ consult' = [consult EXCEPT ![k] = NoConsult]
      /\ call' = IF k[2] = "pre-return" THEN [call EXCEPT ![i] = x] ELSE call
      /\ ghost' = IF accepted THEN [ghost EXCEPT !.told = @ \union {note}] ELSE ghost
      /\ UNCHANGED <<manifest, changes>>
  BY DEF Ends
<1>4. accepted => finding.claim \in Nat /\ accepted \in BOOLEAN
  BY DEF Accepted
<1>5. /\ b \in Advisors /\ b.epoch = advisor.epoch /\ b.gen = advisor.gen
      /\ b.consults = advisor.consults /\ b.spent = advisor.spent /\ b.maybe = advisor.maybe
      /\ advisor.said \subseteq b.said /\ advisor.heard \subseteq b.heard
      /\ accepted => finding.claim \in b.said /\ i \in b.heard
  <2>1. CASE accepted
    <3>1. advisor.said \union {finding.claim} \in SUBSET Nat
      BY <1>1, <1>4, <2>1 DEF Advisors
    <3>2. advisor.heard \union {i} \in SUBSET Call
      BY <1>1, <1>2 DEF Advisors
    <3>3. b = [advisor EXCEPT !.said = @ \union {finding.claim}, !.heard = @ \union {i}]
      BY <2>1 DEF Remembered
    <3> HIDE DEF accepted, b
    <3> QED
      BY <1>1, <3>1, <3>2, <3>3 DEF Advisors
  <2>2. CASE ~accepted
    BY <1>1, <2>2
  <2> QED
    BY <2>1, <2>2
<1>6. /\ ghost' \in Ghosts /\ ghost'.begun = ghost.begun /\ ghost'.maybes = ghost.maybes
      /\ ghost'.told \subseteq ghost.told \union {note}
      /\ ~accepted => ghost'.told = ghost.told
  <2>1. CASE accepted
    <3>1. note \in [claim : Nat, call : Call]
      BY <1>2, <1>4, <2>1
    <3>2. ghost' = [ghost EXCEPT !.told = @ \union {note}]
      BY <1>3, <2>1
    <3> HIDE DEF accepted, note
    <3> QED
      BY <1>1, <2>1, <3>1, <3>2 DEF Ghosts
  <2>2. CASE ~accepted
    BY <1>1, <1>3, <2>2
  <2> QED
    BY <2>1, <2>2
<1>7. /\ x \in ToolCall /\ x.kind = call[i].kind /\ x.why = "consulted"
      /\ x.gen = advisor.gen /\ x.at \in {"blocked", "passed"}
  <2> DEFINE at == IF accepted /\ Blocks(k, finding) THEN "blocked" ELSE "passed"
  <2>1. at \in {"blocked", "passed"}
    OBVIOUS
  <2>2. x = [call[i] EXCEPT !.at = at, !.why = "consulted", !.gen = advisor.gen]
    OBVIOUS
  <2>3. call[i] \in ToolCall /\ advisor.gen \in Nat
    BY <1>1, <1>2 DEF Advisors
  <2> HIDE DEF at, x
  <2> QED
    BY <2>1, <2>2, <2>3 DEF ToolCall
<1> HIDE DEF b, x, accepted
<1>8. /\ advisor' \in Advisors /\ advisor'.epoch = advisor.epoch /\ advisor'.gen = advisor.gen
      /\ advisor'.consults = advisor.consults /\ advisor'.maybe = advisor.maybe
      /\ advisor'.said = b.said /\ advisor'.heard = b.heard
      /\ advisor'.spent <=> advisor.spent \/ Spends(k)
  <2>1. Spends(k) \in BOOLEAN
    BY DEF Spends
  <2> QED
    BY <1>3, <1>5, <2>1 DEF Advisors
<1>9. NoConsult \in Consult /\ OneCause(NoConsult) /\ NoConsult.at = "none"
  BY NoneIsNoName DEF NoConsult, Consult, Epoch, OneCause
<1>10. /\ consult' \in [Consults -> Consult] /\ consult'[k] = NoConsult
       /\ \A l \in Consults \ {k} : consult'[l] = consult[l]
  BY <1>1, <1>3, <1>9
<1>11. /\ call' \in [Call -> ToolCall]
       /\ \A j \in Call \ {i} : call'[j] = call[j]
       /\ k[2] = "pre-return" => call'[i] = x
       /\ k[2] # "pre-return" => call' = call
  BY <1>1, <1>2, <1>3, <1>7
<1>12. k[2] = "pre-return" => call[i].why = None /\ call[i].at = "waiting"
  BY <1>2 DEF AdvisorInv, Fits, Waited
<1>13. Typed(advisor, call, consult, ghost)'
  BY <1>6, <1>8, <1>10, <1>11 DEF Typed
<1>14. Causes(consult)'
  BY <1>9, <1>10 DEF AdvisorInv, Fits, Causes
<1>15. Capped(advisor, call, ghost)'
  <2>1. advisor.maybe \in Call \union {None}
    BY <1>1 DEF Advisors
  <2> QED
    BY <1>6, <1>7, <1>8, <1>11, <2>1 DEF AdvisorInv, Fits, Capped
<1>16. Recalled(advisor, ghost)'
  <2>1. IsFiniteSet(ghost.told) /\ \A n \in ghost.told : n.claim \in advisor.said /\ n.call \in advisor.heard
    BY DEF AdvisorInv, Fits, Recalled
  <2>2. IsFiniteSet(ghost'.told)
    BY <1>6, <2>1, FS_AddElement, FS_Subset
  <2>3. accepted => note.claim \in b.said /\ note.call \in b.heard
    BY <1>5
  <2> QED
    BY <1>5, <1>6, <1>8, <2>1, <2>2, <2>3 DEF Recalled
<1>17. Waited(call, consult)'
  <2>1. ASSUME NEW j \in Call
        PROVE  /\ consult'[<<j, "pre-return">>].at # "none" => call'[j].at = "waiting"
               /\ call'[j].at \in {"new", "waiting", "resuming"} => call'[j].why = None
    <3>1. <<j, "pre-return">> \in Consults
      BY DEF Consults, Triggers
    <3>2. CASE k = <<j, "pre-return">>
      BY <1>2, <1>7, <1>9, <1>10, <1>11, <3>2
    <3>3. CASE k # <<j, "pre-return">>
      <4>1. consult'[<<j, "pre-return">>] = consult[<<j, "pre-return">>]
        BY <1>10, <3>1, <3>3
      <4>2. call'[j] = call[j]
        BY <1>2, <1>11, <3>3
      <4> QED
        BY <4>1, <4>2 DEF AdvisorInv, Fits, Waited
    <3> QED
      BY <3>2, <3>3
  <2> QED
    BY <2>1 DEF Waited
<1>18. SpentOnce(advisor, call)'
  <2>1. \A n : \A j \in Call : Reviewed(call, j, n) =>
          Reviewed(call', j, n) /\ (k[2] = "pre-return" => j # i)
    BY <1>11, <1>12, NoneIsNoName DEF Reviewed
  <2>2. SpentOnce(advisor, call)
    BY DEF AdvisorInv, Fits
  <2>3. Spends(k) => Reviewed(call', i, advisor.gen)
    BY <1>7, <1>11 DEF Spends, Reviewed
  <2>4. advisor'.spent => \E j \in Call : Reviewed(call', j, advisor'.gen)
    BY <1>2, <1>8, <2>1, <2>2, <2>3 DEF SpentOnce
  <2>5. ASSUME NEW h \in Call, call'[h].kind = "sure", call'[h].why = "spent"
        PROVE  \E j \in Call \ {h} : Reviewed(call', j, call'[h].gen)
    <3>1. call'[h] = call[h]
      BY <1>7, <1>11, <2>5
    <3> QED
      BY <2>1, <2>2, <2>5, <3>1 DEF SpentOnce
  <2> QED
    BY <2>4, <2>5 DEF SpentOnce
<1>19. Aged(advisor, consult)'
  BY <1>8, <1>9, <1>10 DEF AdvisorInv, Fits, Aged
<1>20. ManifestType'
  BY <1>3 DEF AdvisorInv, ManifestType
<1> QED
  BY <1>13, <1>14, <1>15, <1>16, <1>17, <1>18, <1>19, <1>20 DEF AdvisorInv, Fits

\* The queue that is dispatched stays under the cap.
LEMMA DispatchedTyped ==
  ASSUME NEW a \in Advisors, a.consults <= MaxConsults, NEW s \in Seq(Queued)
  PROVE  /\ Dispatched(a, s) \in Seq(Queued)
         /\ a.consults + Len(Dispatched(a, s)) <= MaxConsults
         /\ Dispatched(a, s) # <<>> => a.epoch # None
<1>1. a.consults \in Nat /\ MaxConsults \in Nat
  BY AdvisorAssumption DEF Advisors
<1>2. CASE MayConsult(a, a.grounded)
  <2> DEFINE m == IF Len(s) > MaxConsults - a.consults THEN MaxConsults - a.consults ELSE Len(s)
  <2>1. m \in 0 .. Len(s) /\ a.consults + m <= MaxConsults
    BY <1>1
  <2>2. Dispatched(a, s) = SubSeq(s, 1, m)
    BY <1>2 DEF Dispatched
  <2>3. SubSeq(s, 1, m) \in Seq(Queued) /\ Len(SubSeq(s, 1, m)) = m
    <3>1. m \in Nat /\ m <= Len(s)
      BY <2>1
    <3> HIDE DEF m
    <3> QED
      BY <3>1
  <2> QED
    BY <1>2, <2>1, <2>2, <2>3 DEF MayConsult
<1>3. CASE ~MayConsult(a, a.grounded)
  <2>1. Dispatched(a, s) = <<>>
    BY <1>3 DEF Dispatched
  <2> QED
    BY <1>1, <2>1
<1> QED
  BY <1>2, <1>3

\* The look leaves each call where it is.
LEMMA LookCalls ==
  ASSUME AdvisorInv, NEW i \in Call
  PROVE  CurrentCalls[i].at = call[i].at
<1>1. call[i] \in ToolCall
  BY DEF AdvisorInv, Fits, Typed
<1>2. CurrentCalls[i] = (IF Restarting THEN [call[i] EXCEPT !.queue = <<>>] ELSE call[i])
  BY DEF CurrentCalls
<1> QED
  BY <1>1, <1>2 DEF ToolCall

\* A call as it is answered.
AnswerOf(i, kind, at, why, s) ==
  [CurrentCalls[i] EXCEPT !.at = at, !.kind = kind, !.why = why, !.queue = s,
                          !.gen = IF why = None THEN 0 ELSE Current.gen]

\* What is answered is a call, with the generation it was let through in.
LEMMA AnsweredTyped ==
  ASSUME AdvisorInv, NEW i \in Call, NEW kind \in {"plain"} \union ReturnKinds,
         NEW at \in {"passed", "waiting", "resuming"}, NEW why \in {None, "spent"},
         NEW s \in Seq(Queued)
  PROVE  LET x == AnswerOf(i, kind, at, why, s)
         IN /\ Answered(i, kind, at, why, s) = [CurrentCalls EXCEPT ![i] = x]
            /\ x \in ToolCall /\ x.at = at /\ x.kind = kind /\ x.why = why
            /\ why # None => x.gen = Current.gen
<1> DEFINE n == IF why = None THEN 0 ELSE Current.gen
           x == AnswerOf(i, kind, at, why, s)
<1>1. CurrentCalls \in [Call -> ToolCall] /\ Current.gen \in Nat
  BY LookFits DEF Fits, Typed, Advisors
<1>2. n \in Nat
  BY <1>1
<1>3. Answered(i, kind, at, why, s) = [CurrentCalls EXCEPT ![i] = x]
  BY DEF Answered, AnswerOf
<1>4. why # None => n = Current.gen
  OBVIOUS
<1>6. x = [CurrentCalls[i] EXCEPT !.at = at, !.kind = kind, !.why = why, !.queue = s, !.gen = n]
  BY DEF AnswerOf
<1> HIDE DEF n, x
<1>5. x \in ToolCall /\ x.at = at /\ x.kind = kind /\ x.why = why /\ x.gen = n
  BY <1>1, <1>2, <1>6 DEF ToolCall
<1> QED
  BY <1>3, <1>4, <1>5 DEF x

\* A call that is counted or fires a predicate leaves the rest of the advisor.
LEMMA CountedTyped ==
  ASSUME NEW a \in Advisors, NEW hit
  PROVE  LET b == CallCounted(a)  f == Fired(a, hit)  bf == Fired(b, hit)
         IN /\ b \in Advisors /\ f \in Advisors /\ bf \in Advisors
            /\ \A y \in {b, f, bf} :
                 /\ y.epoch = a.epoch /\ y.gen = a.gen /\ y.consults = a.consults
                 /\ y.spent = a.spent /\ y.said = a.said /\ y.heard = a.heard
                 /\ y.maybe = a.maybe
<1>1. ASSUME NEW y \in Advisors
      PROVE  /\ Fired(y, hit) \in Advisors /\ Fired(y, hit).epoch = y.epoch
             /\ Fired(y, hit).gen = y.gen /\ Fired(y, hit).consults = y.consults
             /\ Fired(y, hit).spent = y.spent /\ Fired(y, hit).said = y.said
             /\ Fired(y, hit).heard = y.heard /\ Fired(y, hit).maybe = y.maybe
  <2> DEFINE fired == y.fired \/ hit # "none"
  <2>1. fired \in BOOLEAN
    OBVIOUS
  <2>2. Fired(y, hit) = [y EXCEPT !.fired = fired]
    BY DEF Fired
  <2> HIDE DEF fired
  <2> QED
    BY <2>1, <2>2 DEF Advisors
<1>2. /\ CallCounted(a) \in Advisors /\ CallCounted(a).epoch = a.epoch
      /\ CallCounted(a).gen = a.gen /\ CallCounted(a).consults = a.consults
      /\ CallCounted(a).spent = a.spent /\ CallCounted(a).said = a.said
      /\ CallCounted(a).heard = a.heard /\ CallCounted(a).maybe = a.maybe
  <2>1. a.calls + 1 \in Nat
    BY DEF Advisors
  <2> QED
    BY <2>1 DEF CallCounted, Advisors
<1> QED
  BY <1>1, <1>2

-----------------------------------------------------------------------------
(* Each action.                                                            *)

\* A plain call may queue what its notes and the rhythm of the calls give.
LEMMA PlainCallKeeps ==
  ASSUME AdvisorInv, NEW i \in Call, PlainCall(i)
  PROVE  AdvisorInv'
<1>1. PICK breach \in Hits :
        LET a == CallCounted(Current)
            noted == IF Notes(a, breach) THEN <<"tier0-note">> ELSE <<>>
        IN /\ advisor' = Fired(a, breach)
           /\ call' = Answered(i, "plain", "passed", None, CadenceDue(noted, a))
  BY DEF PlainCall
<1> DEFINE noted == IF Notes(CallCounted(Current), breach) THEN <<"tier0-note">> ELSE <<>>
<1>2. /\ consult' = CurrentConsults /\ ghost' = CurrentGhost /\ UNCHANGED <<manifest, changes>>
      /\ call[i].at = "new"
  BY DEF PlainCall, Arrives
<1>3. Fits(Current, CurrentCalls, CurrentConsults, CurrentGhost)
  BY LookFits
<1>4. Current \in Advisors
  BY <1>3 DEF Fits, Typed
<1>5. Fits(advisor', CurrentCalls, CurrentConsults, CurrentGhost)
  BY <1>1, <1>3, <1>4, CountedTyped, AdvisorMoves
<1>6. noted \in Seq(Queued)
  <2>1. "tier0-note" \in Queued
    BY DEF Queued, Triggers
  <2> QED
    BY <2>1
<1>7. CadenceDue(noted, CallCounted(Current)) \in Seq(Queued)
  BY <1>6, CadenceTyped
<1>8. call' = Answered(i, "plain", "passed", None, CadenceDue(noted, CallCounted(Current)))
  BY <1>1
<1> HIDE DEF noted
<1>9. PICK x \in ToolCall : /\ call' = [CurrentCalls EXCEPT ![i] = x]
                            /\ x.at = "passed" /\ x.why = None
  BY <1>7, <1>8, AnsweredTyped
<1>10. Fits(advisor', call', CurrentConsults, CurrentGhost)
  BY <1>2, <1>5, <1>9, LookCalls, CallAnswered, NoneIsNoName
<1> QED
  BY <1>2, <1>10 DEF AdvisorInv, ManifestType

\* A return that is let through had its consult in this generation.
LEMMA ReturnPassesKeeps ==
  ASSUME AdvisorInv, NEW i \in Call, NEW kind \in ReturnKinds, ReturnPasses(i, kind)
  PROVE  AdvisorInv'
<1>1. /\ advisor' = Current /\ consult' = CurrentConsults /\ ghost' = CurrentGhost
      /\ call' = Answered(i, kind, "passed", "spent", <<>>)
      /\ UNCHANGED <<manifest, changes>> /\ call[i].at = "new" /\ LetThrough(Current, kind)
  BY DEF ReturnPasses, Arrives
<1>2. Fits(Current, CurrentCalls, CurrentConsults, CurrentGhost)
  BY LookFits
<1>7. <<>> \in Seq(Queued)
  OBVIOUS
<1>3. PICK s \in Seq(Queued), why \in {None, "spent"} : s = <<>> /\ why = "spent"
  BY <1>7, Zenon
<1>4. PICK x \in ToolCall : /\ call' = [CurrentCalls EXCEPT ![i] = x]
                            /\ x.at = "passed" /\ x.kind = kind /\ x.why = "spent"
                            /\ x.gen = Current.gen
  <2>1. kind \in {"plain"} \union ReturnKinds /\ "passed" \in {"passed", "waiting", "resuming"}
    OBVIOUS
  <2>2. LET x == AnswerOf(i, kind, "passed", why, s)
        IN /\ Answered(i, kind, "passed", why, s) = [CurrentCalls EXCEPT ![i] = x]
           /\ x \in ToolCall /\ x.at = "passed" /\ x.kind = kind /\ x.why = why
           /\ why # None => x.gen = Current.gen
    BY <2>1, AnsweredTyped
  <2> QED
    BY <1>1, <1>3, <2>2, NoneIsNoName
<1>5. kind = "sure" => Current.spent
  BY <1>1 DEF LetThrough
<1>6. Fits(Current, call', CurrentConsults, CurrentGhost)
  BY <1>1, <1>2, <1>4, <1>5, LookCalls, CallAnswered, NoneIsNoName
<1> QED
  BY <1>1, <1>6 DEF AdvisorInv, ManifestType

\* A return that is consulted on counts, and one that may be a return claims
\* the slot before it does.
LEMMA ReturnCallKeeps ==
  ASSUME AdvisorInv, NEW i \in Call, NEW kind \in ReturnKinds, ReturnCall(i, kind)
  PROVE  AdvisorInv'
<1> DEFINE a == MaybeClaimed(CallCounted(Current), i, kind)
           s == CadenceDue(<<>>, a)
<1>1. /\ UNCHANGED <<manifest, changes>> /\ call[i].at = "new"
      /\ ~LetThrough(Current, kind)
  BY DEF ReturnCall, Arrives
<1>2. \/ /\ a.epoch # None /\ a.consults < MaxConsults
         /\ advisor' = Counted(a, 1)
         /\ consult' = [CurrentConsults EXCEPT ![<<i, "pre-return">>] = Begun(a)]
         /\ ghost' = [CurrentGhost EXCEPT !.begun = @ + 1,
                        !.maybes = IF kind = "maybe" THEN @ + 1 ELSE @]
         /\ call' = Answered(i, kind, "waiting", None, s)
      \/ /\ advisor' = a
         /\ consult' = CurrentConsults
         /\ ghost' = CurrentGhost
         /\ call' = Answered(i, kind, "resuming", None, s)
  BY DEF ReturnCall, MayConsult
<1>3. Fits(Current, CurrentCalls, CurrentConsults, CurrentGhost)
  BY LookFits
<1>4. Current \in Advisors
  BY <1>3 DEF Fits, Typed
<1> DEFINE b == CallCounted(Current)
<1>5. /\ b \in Advisors
      /\ b.epoch = Current.epoch /\ b.gen = Current.gen /\ b.consults = Current.consults
      /\ b.spent = Current.spent /\ b.said = Current.said /\ b.heard = Current.heard
      /\ b.maybe = Current.maybe
  BY <1>4, CountedTyped
<1>6. kind = "maybe" => Current.maybe = None
  BY <1>1 DEF LetThrough
<1> HIDE DEF b
<1>7. /\ a \in Advisors
      /\ a.epoch = Current.epoch /\ a.gen = Current.gen /\ a.consults = Current.consults
      /\ a.spent = Current.spent /\ a.said = Current.said /\ a.heard = Current.heard
      /\ a.maybe = (IF kind = "maybe" THEN i ELSE Current.maybe)
  <2>1. a = IF kind = "maybe" THEN [b EXCEPT !.maybe = i] ELSE b
    BY DEF MaybeClaimed, b
  <2> HIDE DEF a
  <2> QED
    BY <1>5, <2>1 DEF Advisors
<1>8. s \in Seq(Queued)
  <2>1. <<>> \in Seq(Queued)
    OBVIOUS
  <2> QED
    BY <2>1, CadenceTyped
<1> HIDE DEF a, s
<1>9. Fits(a, CurrentCalls, CurrentConsults, CurrentGhost)
  BY <1>3, <1>6, <1>7, AdvisorMoves
<1>10. ASSUME NEW at \in {"waiting", "resuming"}, call' = Answered(i, kind, at, None, s)
       PROVE  /\ Fits(a, call', CurrentConsults, CurrentGhost)
              /\ call'[i].at = at
  <2>1. PICK x \in ToolCall : /\ call' = [CurrentCalls EXCEPT ![i] = x]
                              /\ x.at = at /\ x.why = None
    <3>1. kind \in {"plain"} \union ReturnKinds /\ at \in {"passed", "waiting", "resuming"}
      BY <1>10
    <3>2. PICK why \in {None, "spent"} : why = None
      OBVIOUS
    <3>3. LET x == AnswerOf(i, kind, at, why, s)
          IN /\ Answered(i, kind, at, why, s) = [CurrentCalls EXCEPT ![i] = x]
             /\ x \in ToolCall /\ x.at = at /\ x.kind = kind /\ x.why = why
             /\ why # None => x.gen = Current.gen
      BY <1>8, <3>1, AnsweredTyped
    <3> QED
      BY <1>10, <3>2, <3>3
  <2>2. Fits(a, call', CurrentConsults, CurrentGhost)
    BY <1>1, <1>9, <2>1, LookCalls, CallAnswered, NoneIsNoName
  <2>3. i \in DOMAIN CurrentCalls
    BY DEF CurrentCalls
  <2> QED
    BY <2>1, <2>2, <2>3
<1>11. CASE /\ advisor' = a /\ consult' = CurrentConsults /\ ghost' = CurrentGhost
            /\ call' = Answered(i, kind, "resuming", None, s)
  BY <1>1, <1>10, <1>11 DEF AdvisorInv, ManifestType
<1>12. CASE /\ a.epoch # None /\ a.consults < MaxConsults
            /\ advisor' = Counted(a, 1)
            /\ consult' = [CurrentConsults EXCEPT ![<<i, "pre-return">>] = Begun(a)]
            /\ ghost' = [CurrentGhost EXCEPT !.begun = @ + 1,
                           !.maybes = IF kind = "maybe" THEN @ + 1 ELSE @]
            /\ call' = Answered(i, kind, "waiting", None, s)
  <2> DEFINE K == {<<i, "pre-return">>}
             h == [CurrentGhost EXCEPT !.begun = @ + 1]
  <2>1. K \in SUBSET Consults
    BY DEF Consults, Triggers
  <2>2. Fits(a, call', CurrentConsults, CurrentGhost) /\ call'[i].at = "waiting"
    BY <1>10, <1>12
  <2>3. a.consults + 1 <= MaxConsults /\ 1 \in Nat
    BY <1>7, <1>12, AdvisorAssumption DEF Advisors
  <2>4. consult' = [k \in Consults |-> IF k \in K THEN Begun(a) ELSE CurrentConsults[k]]
    BY <1>12 DEF CurrentConsults
  <2>5. \A k \in K : k[2] = "pre-return" => call'[k[1]].at = "waiting"
    BY <2>2
  <2>6. Fits(Counted(a, 1), call', consult', h)
    <3>1. K # {} => a.epoch # None
      BY <1>12
    <3>2. \A k \in K : k[2] = "pre-return" => call'[k[1]].at = "waiting"
      BY <2>5
    <3>3. K \in SUBSET Consults
      BY <2>1
    <3> HIDE DEF K
    <3>4. Fits(Counted(a, 1), call', BegunIn(a, CurrentConsults, K), BegunMore(CurrentGhost, 1))
      BY <2>2, <2>3, <3>1, <3>2, <3>3, ConsultsBegin, Zenon
    <3> QED
      BY <2>4, <3>4 DEF BegunIn, BegunMore
  <2>7. CurrentGhost \in Ghosts
    BY <1>3 DEF Fits, Typed
  <2>8. CASE kind = "maybe"
    <3>1. Current.maybe = None /\ CurrentGhost.maybes <= 1 /\ CurrentGhost.maybes \in Nat
      BY <1>3, <1>6, <2>7, <2>8 DEF Fits, Capped, Ghosts
    <3>2. CurrentGhost.maybes = 0
      BY <1>3, <3>1 DEF Fits, Capped
    <3>3. h.maybes = 0
      BY <2>7, <3>2 DEF Ghosts
    <3>4. Counted(a, 1).maybe = i
      BY <1>7, <2>8 DEF Counted, Advisors
    <3>5. i # None
      BY NoneIsNoName DEF Call
    <3>6. ghost' = [h EXCEPT !.maybes = @ + 1]
      BY <1>12, <2>7, <2>8 DEF Ghosts
    <3> HIDE DEF h
    <3>7. Fits(advisor', call', consult', ghost')
      <4>1. Counted(a, 1).maybe # None /\ call'[Counted(a, 1).maybe].at = "waiting"
        BY <2>2, <3>4, <3>5
      <4>2. Fits(Counted(a, 1), call', consult', [h EXCEPT !.maybes = @ + 1])
        BY <2>6, <3>3, <4>1, MaybeTaken, Zenon
      <4> QED
        BY <1>12, <3>6, <4>2
    <3> QED
      BY <1>1, <3>7 DEF AdvisorInv, ManifestType
  <2>9. CASE kind # "maybe"
    <3>1. ghost' = h
      BY <1>12, <2>7, <2>9 DEF Ghosts
    <3>2. Fits(advisor', call', consult', ghost')
      BY <1>12, <2>6, <3>1
    <3> QED
      BY <1>1, <3>2 DEF AdvisorInv, ManifestType
  <2> QED
    BY <2>8, <2>9
<1> QED
  BY <1>2, <1>11, <1>12

\* The result of a call begins the consults of its queue as the cap allows.
LEMMA ToolResultKeeps ==
  ASSUME AdvisorInv, NEW i \in Call, ToolResult(i)
  PROVE  AdvisorInv'
<1>1. PICK grew \in BOOLEAN, grounds \in BOOLEAN, hit \in Hits :
       LET a == [Fired(Current, hit) EXCEPT !.grounded = @ \/ grounds]
           q1 == IF grew THEN Queue(CurrentCalls[i].queue, "diff-growth")
                 ELSE CurrentCalls[i].queue
           q2 == IF Notes(Current, hit) THEN Queue(q1, "tier0-note") ELSE q1
           started == Dispatched(a, q2)
       IN /\ advisor' = Counted(a, Len(started))
          /\ consult' = [k \in Consults |->
               IF k[1] = i /\ \E n \in DOMAIN started : started[n] = k[2]
               THEN Begun(a) ELSE CurrentConsults[k]]
          /\ ghost' = [CurrentGhost EXCEPT !.begun = @ + Len(started)]
          /\ call' = [CurrentCalls EXCEPT ![i] = [@ EXCEPT !.queue = <<>>, !.over = TRUE]]
  BY DEF ToolResult
<1> DEFINE f == Fired(Current, hit)
           a == [f EXCEPT !.grounded = @ \/ grounds]
           q1 == IF grew THEN Queue(CurrentCalls[i].queue, "diff-growth")
                 ELSE CurrentCalls[i].queue
           q2 == IF Notes(Current, hit) THEN Queue(q1, "tier0-note") ELSE q1
           started == Dispatched(a, q2)
           K == {k \in Consults : k[1] = i /\ \E n \in DOMAIN started : started[n] = k[2]}
           m == Len(started)
<1>2. Fits(Current, CurrentCalls, CurrentConsults, CurrentGhost)
  BY LookFits
<1>3. Current \in Advisors /\ CurrentCalls \in [Call -> ToolCall]
  BY <1>2 DEF Fits, Typed
<1>4. UNCHANGED <<manifest, changes>>
  BY DEF ToolResult
<1>5. /\ f \in Advisors
      /\ f.epoch = Current.epoch /\ f.gen = Current.gen /\ f.consults = Current.consults
      /\ f.spent = Current.spent /\ f.said = Current.said /\ f.heard = Current.heard
      /\ f.maybe = Current.maybe
  BY <1>3, CountedTyped
<1> HIDE DEF f
<1>6. /\ a \in Advisors
      /\ a.epoch = Current.epoch /\ a.gen = Current.gen /\ a.consults = Current.consults
      /\ a.spent = Current.spent /\ a.said = Current.said /\ a.heard = Current.heard
      /\ a.maybe = Current.maybe
  BY <1>5 DEF Advisors
<1> HIDE DEF a
<1>7. q2 \in Seq(Queued)
  <2>1. "diff-growth" \in Queued /\ "tier0-note" \in Queued
    BY DEF Queued, Triggers
  <2>2. CurrentCalls[i].queue \in Seq(Queued)
    BY <1>3 DEF ToolCall
  <2>3. q1 \in Seq(Queued)
    BY <2>1, <2>2, QueueTyped
  <2> HIDE DEF q1
  <2> QED
    BY <2>1, <2>3, QueueTyped
<1> HIDE DEF q2
<1>8. a.consults <= MaxConsults
  BY <1>2, <1>6 DEF Fits, Capped
<1>9. /\ started \in Seq(Queued) /\ a.consults + Len(started) <= MaxConsults
      /\ started # <<>> => a.epoch # None
  BY <1>6, <1>7, <1>8, DispatchedTyped
<1> HIDE DEF started
<1>10. Fits(a, call', CurrentConsults, CurrentGhost)
  <2>1. Fits(a, CurrentCalls, CurrentConsults, CurrentGhost)
    BY <1>2, <1>6, AdvisorMoves
  <2> QED
    BY <1>1, <2>1, QueueTaken
<1>11. /\ m \in Nat /\ K \in SUBSET Consults
       /\ K # {} => a.epoch # None
       /\ \A k \in K : k[2] = "pre-return" => call'[k[1]].at = "waiting"
  <2>1. m \in Nat
    BY <1>9
  <2>2. K # {} => started # <<>>
    BY <1>9
  <2>3. \A k \in K : k[2] # "pre-return"
    BY <1>9 DEF Queued
  <2> QED
    BY <1>9, <2>1, <2>2, <2>3
<1>12. /\ advisor' = Counted(a, m)
       /\ ghost' = [CurrentGhost EXCEPT !.begun = @ + m]
       /\ consult' = [k \in Consults |-> IF k \in K THEN Begun(a) ELSE CurrentConsults[k]]
  BY <1>1 DEF started, q2, a, f
<1>13. a.consults + m <= MaxConsults
  BY <1>9
<1> HIDE DEF K, m
<1>14. Fits(advisor', call', consult', ghost')
  <2>1. Fits(Counted(a, m), call', BegunIn(a, CurrentConsults, K), BegunMore(CurrentGhost, m))
    BY <1>10, <1>11, <1>13, ConsultsBegin, Zenon
  <2> QED
    BY <1>12, <2>1 DEF BegunIn, BegunMore
<1> QED
  BY <1>4, <1>14 DEF AdvisorInv, ManifestType

\* A return whose await resumes goes on.
LEMMA ResumeKeeps ==
  ASSUME AdvisorInv, NEW i \in Call, Resume(i)
  PROVE  AdvisorInv'
<1>1. /\ call[i].at = "resuming" /\ advisor' = SlotReturned(advisor, i)
      /\ call' = [call EXCEPT ![i] = [@ EXCEPT !.at = "passed", !.why = "unconsulted"]]
      /\ UNCHANGED <<manifest, changes, consult, ghost>>
  BY DEF Resume
<1>2. Fits(advisor, call, consult, ghost)
  BY DEF AdvisorInv
<1>3. Fits(SlotReturned(advisor, i),
           [call EXCEPT ![i] = [@ EXCEPT !.at = "passed", !.why = "unconsulted"]],
           consult, ghost)
  BY <1>1, <1>2, ReturnResumes, Zenon
<1> QED
  BY <1>1, <1>3 DEF AdvisorInv, ManifestType

\* A deadline or a broken stream stops the consult it is about.
LEMMA ConsultMoves ==
  ASSUME AdvisorInv, NEW k \in Consults, Timeout(k) \/ StreamBreaks(k)
  PROVE  AdvisorInv'
<1>1. consult[k].at # "none" /\ consult[k] \in Consult /\ OneCause(consult[k])
  BY DEF Timeout, StreamBreaks, Child, AdvisorInv, Fits, Typed, Causes
<1>2. UNCHANGED <<manifest, changes, advisor, call, ghost>>
  BY DEF Timeout, StreamBreaks, Child
<1>3. Fits(advisor, call, consult, ghost)
  BY DEF AdvisorInv
<1>4. PICK x \in Consult :
        /\ consult' = [consult EXCEPT ![k] = x]
        /\ OneCause(x) /\ x.at # "none" /\ x.gen = consult[k].gen /\ x.epoch = consult[k].epoch
  BY <1>1, FailsOnce DEF Timeout, StreamBreaks, Child
<1>5. Fits(advisor, call, [consult EXCEPT ![k] = x], ghost)
  BY <1>1, <1>3, <1>4, ConsultStops, Zenon
<1> QED
  BY <1>2, <1>4, <1>5 DEF AdvisorInv, ManifestType

\* The manifest changes, and nothing else does until it is looked at.
LEMMA ManifestKeeps ==
  ASSUME AdvisorInv, ManifestChanges
  PROVE  AdvisorInv'
<1>1. advisor.epoch \in Epoch /\ changes \in Nat
  BY DEF AdvisorInv, ManifestType, Fits, Typed, Advisors
<1>2. ManifestType'
  BY <1>1 DEF ManifestChanges, ManifestType, Epoch
<1> QED
  BY <1>2 DEF AdvisorInv, ManifestChanges

-----------------------------------------------------------------------------
(* The invariant.                                                          *)

\* The advisor begins with what fits.
LEMMA AdvisorInit == Init => AdvisorInv
<1> SUFFICES ASSUME Init
             PROVE  AdvisorInv
  OBVIOUS
<1> USE DEF Init
<1>1. NoConsult \in Consult /\ OneCause(NoConsult) /\ NoConsult.at = "none"
  BY NoneIsNoName DEF NoConsult, Consult, Epoch, OneCause
<1>2. consult \in [Consults -> Consult] /\ \A k \in Consults : consult[k] = NoConsult
  BY <1>1
<1>3. /\ call \in [Call -> ToolCall]
      /\ \A i \in Call : call[i].why = None /\ call[i].at = "new" /\ call[i].kind = "plain"
  <2>1. <<>> \in Seq(Queued)
    OBVIOUS
  <2> QED
    BY <2>1 DEF ToolCall
<1>4. advisor \in Advisors /\ advisor.consults = 0 /\ ~advisor.spent
  BY DEF Advisors, Epoch
<1>5. ghost \in Ghosts /\ ghost.begun = 0 /\ ghost.maybes = 0 /\ ghost.told = {}
  BY DEF NoGhost, Ghosts
<1>6. Typed(advisor, call, consult, ghost)
  BY <1>2, <1>3, <1>4, <1>5 DEF Typed
<1>7. Causes(consult) /\ Aged(advisor, consult)
  BY <1>1, <1>2 DEF Causes, Aged
<1>8. Capped(advisor, call, ghost) /\ Recalled(advisor, ghost)
  BY <1>4, <1>5, AdvisorAssumption, FS_EmptySet DEF Capped, Recalled
<1>9. Waited(call, consult) /\ SpentOnce(advisor, call)
  <2>1. \A i \in Call : <<i, "pre-return">> \in Consults
    BY DEF Consults, Triggers
  <2> QED
    BY <1>1, <1>2, <1>3, <1>4, <2>1, NoneIsNoName DEF Waited, SpentOnce
<1>10. ManifestType
  BY DEF ManifestType, Epoch
<1> QED
  BY <1>6, <1>7, <1>8, <1>9, <1>10 DEF AdvisorInv, Fits

\* Every step keeps it.
LEMMA AdvisorNext == AdvisorInv /\ [Next]_vars => AdvisorInv'
<1> SUFFICES ASSUME AdvisorInv, [Next]_vars
             PROVE  AdvisorInv'
  OBVIOUS
<1>1. CASE ManifestChanges
  BY <1>1, ManifestKeeps
<1>2. ASSUME NEW i \in Call, PlainCall(i) \/ Resume(i) \/ ToolResult(i)
      PROVE  AdvisorInv'
  BY <1>2, PlainCallKeeps, ResumeKeeps, ToolResultKeeps
<1>3. ASSUME NEW i \in Call, NEW kind \in ReturnKinds,
             ReturnPasses(i, kind) \/ ReturnCall(i, kind)
      PROVE  AdvisorInv'
  BY <1>3, ReturnPassesKeeps, ReturnCallKeeps
<1>4. ASSUME NEW k \in Consults, Timeout(k) \/ StreamBreaks(k)
      PROVE  AdvisorInv'
  BY <1>4, ConsultMoves
<1>5. ASSUME NEW k \in Consults, Closes(k) \/ HardStop(k)
      PROVE  AdvisorInv'
  <2>1. consult[k].at # "none" /\ Ends(k, None, TRUE)
    BY <1>5 DEF Closes, HardStop
  <2> QED
    BY <2>1, ConsultEnds
<1>6. ASSUME NEW k \in Consults, Replies(k)
      PROVE  AdvisorInv'
  <2>1. PICK finding \in Findings(k), kept \in BOOLEAN : Ends(k, finding, kept)
    BY <1>6 DEF Replies
  <2>2. consult[k].at # "none"
    BY <1>6 DEF Replies
  <2>3. finding.claim \in Nat
    BY FindingTyped DEF AdvisorInv, Fits, Typed, Recalled
  <2> QED
    BY <2>1, <2>2, <2>3, ConsultEnds
<1>7. CASE UNCHANGED vars
  BY <1>7 DEF vars, AdvisorInv, ManifestType
<1> QED
  BY <1>1, <1>2, <1>3, <1>4, <1>5, <1>6, <1>7 DEF Next

\* The invariant of the advisor is inductive: for any number of calls, any cap,
\* any cadence, and however often the manifest changes.
THEOREM AdvisorInvariant == Spec => []AdvisorInv
<1>1. Init => AdvisorInv
  BY AdvisorInit
<1>2. AdvisorInv /\ [Next]_vars => AdvisorInv'
  BY AdvisorNext
<1> QED
  BY <1>1, <1>2, PTL DEF Spec

-----------------------------------------------------------------------------
(* What the advisor promises.                                              *)

\* The consults of a generation stay under TIER1_MAX_CONSULTS, whatever calls
\* run at once, and at most one maybe is consulted on.
THEOREM ConsultsBounded == Spec => []ConsultBound
<1>1. AdvisorInv => ConsultBound
  BY DEF AdvisorInv, Fits, Capped, ConsultBound
<1> QED
  BY <1>1, AdvisorInvariant, PTL

\* However a consult ends, its spend and its failure are told by their first cause.
THEOREM ConsultsPriced == Spec => []PricedClean
<1>1. ASSUME NEW x \in Consult, OneCause(x), NEW end \in Endings
      PROVE  LET clean == x.first = None /\ end = "well"
             IN /\ Measured(x, end) <=> clean
                /\ (CellFailure(x, end) = "timeout") <=> (x.first = "timeout")
                /\ (CellFailure(x, end) = None) <=> (clean \/ x.first = "aborted")
  <2>1. x.timedOut \in BOOLEAN /\ x.aborted \in BOOLEAN
    BY DEF Consult
  <2>2. "transport-error" # None
    BY AdvisorAssumption
  <2> QED
    BY <1>1, <2>1, <2>2, NoneIsNoName
       DEF OneCause, Endings, Measured, Failed, Thrown, Unclean, CellFailure, Consult
<1>2. AdvisorInv => PricedClean
  BY <1>1 DEF AdvisorInv, Fits, Typed, Causes, PricedClean
<1> QED
  BY <1>2, AdvisorInvariant, PTL

\* What reaches the seat is of the run the manifest names, and is not repeated.
THEOREM AdviceFresh == Spec => []FreshAdvice
<1>1. AdvisorInv => FreshAdvice
  BY DEF AdvisorInv, Fits, Recalled, FreshAdvice, Accepted, Live, Unsaid
<1> QED
  BY <1>1, AdvisorInvariant, PTL

\* A sure return is let through only behind the consult of another, and a grave
\* finding refuses the return it is about.
THEOREM ReturnsReviewed == Spec => []ReturnReviewed
<1>1. ASSUME AdvisorInv
      PROVE  ReturnReviewed
  <2>1. \A i \in Call : call[i].kind = "sure" /\ call[i].why = "spent" =>
          \E j \in Call \ {i} : Reviewed(call, j, call[i].gen)
    BY <1>1 DEF AdvisorInv, Fits, SpentOnce
  <2>2. ASSUME NEW k \in Consults, NEW finding \in Findings(k),
               consult[k].at = "running", Blocks(k, finding),
               consult[k].gen = advisor.gen, advisor.epoch = manifest
        PROVE  Accepted(k, finding, TRUE)
    <3>1. finding # None
      BY <1>1, FindingTyped DEF AdvisorInv, Fits, Typed, Recalled
    <3>2. consult[k].epoch = advisor.epoch
      BY <1>1, <2>2 DEF AdvisorInv, Fits, Aged
    <3> QED
      BY <2>2, <3>1, <3>2 DEF Accepted, Live, Unsaid
  <2> QED
    BY <2>1, <2>2 DEF ReturnReviewed, Reviewed
<1> QED
  BY <1>1, AdvisorInvariant, PTL
=============================================================================

---------------------------- MODULE FinishProofs ----------------------------
(***************************************************************************)
(* What a finish of LaneVerbs is given, for any number of calls and runs   *)
(* and wherever one dies: the review rounds that are left, and the build   *)
(* it starts on.                                                           *)
(* A review is written to the journal by the run that has it, so its rows  *)
(* tell how many there were, if they are counted from early enough: from a *)
(* stop, or from the place a return recovered and wrote into finish.json.  *)
(* BudgetInv says who has counted every review: the finish at work, the    *)
(* ready row it leaves, the journal from where finish.json begins, and a   *)
(* return from its look at the end it claims until its launch.             *)
(* HeadInv says where the head of the branch is, which a return resets one *)
(* commit down before it writes a row: on the base, on a ready commit, or  *)
(* on the one that stands.                                                 *)
(* All of it ends with a launch for an end that was not the call's own, or *)
(* not the one counted to.                                                 *)
(***************************************************************************)
EXTENDS VerbProofs

-----------------------------------------------------------------------------
(* What has been counted                                                   *)

\* How many reviews the finishes of the lane have had.  The count is excused once
\* a run was launched for an end that was not the one it was taken for, or not
\* the call's own.
Spent == Cardinality(FinishReviews(runs))
Excused == ghost.raced \/ \E act \in Launches : act.stake # act.at

\* The counts are within their bounds: rows and finish.json are counted from a
\* place in the journal, and a return has a round left.
Counts ==
  /\ \A r \in DOMAIN runs :
       /\ runs[r].reviews \in Nat
       /\ runs[r].finish => runs[r].prior \in Nat /\ runs[r].prior + runs[r].reviews <= Rounds
  /\ \A p \in 1..Len(journal) : journal[p].ev = "ready" => journal[p].num \in 0..Rounds
  /\ lane.spec.rec \in 0..(Len(journal) + 1)
  /\ \A o \in Ops : Aiming(o) => /\ ops[o].prior \in Nat /\ ops[o].prior < Rounds
                                 /\ ops[o].rec \in 0..(Len(journal) + 1)

\* A finish at work counts every review, and so does a ready row with the reviews
\* after it.
WorkCounts == \A r \in DOMAIN runs : AtWork(r) /\ runs[r].finish => Spent <= runs[r].prior + runs[r].reviews
ReadyCounts == \A p \in 1..Len(journal) : journal[p].ev = "ready" =>
                 Spent <= journal[p].num + Reviews(p + 1, Len(journal))

\* The journal tells of every review from where a spec lets its finishes begin; a
\* lane whose spec and journal have no such place has had no finish.
Unfinished(rec) == Begins(journal, rec) = {} /\ \A r \in DOMAIN runs : ~runs[r].finish
SpecTells == Tells(journal, lane.spec.rec, Spent) \/ Unfinished(lane.spec.rec)

\* The same of a return from where it will let its finish begin, as long as the
\* journal is the one it read or its end is claimed.
Looking(o) == ops[o].verb = "return" /\ ops[o].pc \in {"claim", "recheck"} /\ ops[o].way = "stop"
CallTells(o) ==
  /\ Aiming(o) /\ (Looking(o) => ops[o].n = Len(journal)) =>
       \/ Tells(journal, ops[o].rec, Spent)
       \/ Looking(o) /\ Begins(journal, ops[o].rec) = {} /\ Spent = 0
  /\ ops[o].verb = "return" /\ ops[o].pc \in {"drop", "spawn"} => Begins(journal, lane.spec.rec) # {}

\* A return that looks at a stop, or at a dead run, has counted every review if the
\* journal is the one it read.
StopCounts(o) ==
  IF ops[o].died = None
  THEN /\ ops[o].at = Last(ops[o].n, {"stop"})
       /\ Reran(ops[o].n, ops[o].at) \/ Spent <= ops[o].prior
  ELSE ops[o].at = ops[o].n + 1 /\ Spent <= ops[o].prior

\* A return has counted every review once it holds the end it counted to, and one
\* on a ready row no less than that row tells.
CallCounts(o) ==
  /\ Looking(o) /\ ops[o].n = Len(journal) => StopCounts(o)
  /\ Aiming(o) /\ ops[o].way = "ready" => journal[ops[o].at].num <= ops[o].prior
  /\ Cleared(o) => ops[o].stake # ops[o].at \/ Retaken(o) \/ Spent <= ops[o].prior

Budgets == /\ Spent <= Rounds
           /\ WorkCounts /\ ReadyCounts /\ SpecTells
           /\ \A o \in Ops : CallTells(o) /\ CallCounts(o)
BudgetInv == Counts /\ (~Excused => Budgets)

\* How many reviews of a run are those of a finish.
FinishOf(run) == IF run.finish THEN run.reviews ELSE 0

\* The pairs of one number with the first k are finitely many.
LEMMA FiniteRow ==
  ASSUME NEW r, NEW k \in Nat
  PROVE  IsFiniteSet({r} \X (1..k))
<1> DEFINE f == [i \in 1..k |-> <<r, i>>]
<1>1. f \in [1..k -> {r} \X (1..k)] /\ \A t \in {r} \X (1..k) : \E i \in 1..k : f[i] = t
  OBVIOUS
<1>2. f \in Surjection(1..k, {r} \X (1..k))
  BY <1>1 DEF Surjection
<1>3. IsFiniteSet(1..k)
  BY FS_Interval
<1> QED
  BY <1>2, <1>3, FS_Surjection

\* So are those of finitely many rows.
LEMMA FiniteRows ==
  ASSUME NEW n \in Nat, NEW w, \A r \in 1..n : w[r] \in Nat
  PROVE  IsFiniteSet(UNION {{r} \X (1..w[r]) : r \in 1..n})
<1> DEFINE U(m) == UNION {{r} \X (1..w[r]) : r \in 1..m}
           T == {m \in 0..n : ~IsFiniteSet(U(m))}
<1>1. SUFFICES T = {}
  OBVIOUS
<1>2. SUFFICES ASSUME T # {} PROVE FALSE
  OBVIOUS
<1>3. T \subseteq Nat
  OBVIOUS
<1>4. PICK m \in T : \A y \in T : ~(<<y, m>> \in OpToRel(<, Nat))
  BY <1>2, <1>3, NatLessThanWellFounded, WFMin
<1>5. m \in 0..n /\ ~IsFiniteSet(U(m))
  BY <1>4
<1>6. U(0) = {}
  OBVIOUS
<1>7. m # 0
  BY <1>5, <1>6, FS_EmptySet
<1>8. m - 1 \in 0..n /\ m - 1 < m /\ m \in 1..n /\ 1..m = (1..(m - 1)) \union {m}
  BY <1>5, <1>7
<1>9. IsFiniteSet(U(m - 1))
  <2>1. m - 1 \notin T
    BY <1>4, <1>8, <1>3 DEF OpToRel
  <2> QED
    BY <1>8, <2>1
<1>10. IsFiniteSet({m} \X (1..w[m]))
  BY <1>8, FiniteRow
<1>11. U(m) = U(m - 1) \union ({m} \X (1..w[m]))
  BY <1>8
<1>12. IsFiniteSet(U(m))
  <2>1. PICK S, R : S = U(m - 1) /\ R = {m} \X (1..w[m])
    OBVIOUS
  <2>2. IsFiniteSet(S) /\ IsFiniteSet(R) /\ U(m) = S \union R
    BY <1>9, <1>10, <1>11, <2>1
  <2> HIDE DEF U
  <2>3. IsFiniteSet(S \union R)
    BY <2>2, FS_Union
  <2> QED
    BY <2>2, <2>3
<1> QED
  BY <1>5, <1>12

\* The reviews of the finishes are finitely many.
LEMMA SpentNat ==
  ASSUME RunShape, Counts
  PROVE  IsFiniteSet(FinishReviews(runs)) /\ Spent \in Nat
<1>1. PICK n : n = Len(runs) /\ n \in Nat /\ DOMAIN runs = 1..n
  BY DEF RunShape
<1>2. PICK w : w = [r \in 1..n |-> FinishOf(runs[r])]
  OBVIOUS
<1>3. \A r \in 1..n : w[r] = (IF runs[r].finish THEN runs[r].reviews ELSE 0) /\ w[r] \in Nat
  BY <1>1, <1>2 DEF FinishOf, Counts
<1>4. FinishReviews(runs) = UNION {{r} \X (1..w[r]) : r \in 1..n}
  BY <1>1, <1>3 DEF FinishReviews
<1>5. IsFiniteSet(FinishReviews(runs))
  <2>1. IsFiniteSet(UNION {{r} \X (1..w[r]) : r \in 1..n})
    <3>1. n \in Nat /\ \A r \in 1..n : w[r] \in Nat
      BY <1>1, <1>3
    <3> QED
      BY <3>1, FiniteRows
  <2> QED
    BY <1>4, <2>1
<1> QED
  BY <1>5, FS_CardinalityType DEF Spent

\* A step in which no finish has a review more.
LEMMA SpentStill ==
  ASSUME DOMAIN runs' = DOMAIN runs,
         \A s \in DOMAIN runs : FinishOf(runs'[s]) = FinishOf(runs[s])
  PROVE  Spent' = Spent
<1>1. FinishReviews(runs') = FinishReviews(runs)
  BY DEF FinishReviews, FinishOf
<1> QED
  BY <1>1 DEF Spent

\* A run that is new has none.
LEMMA SpentAnew ==
  ASSUME RunShape, NEW run, run.reviews = 0, runs' = Append(runs, run)
  PROVE  Spent' = Spent
<1>1. PICK n : n = Len(runs) /\ n \in Nat /\ DOMAIN runs = 1..n
  BY DEF RunShape
<1>2. DOMAIN runs' = 1..(n + 1) /\ runs'[n + 1] = run /\ \A s \in 1..n : runs'[s] = runs[s]
  BY <1>1 DEF RunShape
<1>3. FinishOf(runs'[n + 1]) = 0 /\ \A s \in 1..n : FinishOf(runs'[s]) = FinishOf(runs[s])
  BY <1>2 DEF FinishOf
<1>4. FinishReviews(runs') = UNION {{s} \X (1..FinishOf(runs'[s])) : s \in 1..(n + 1)}
  BY <1>2 DEF FinishReviews, FinishOf
<1>5. FinishReviews(runs) = UNION {{s} \X (1..FinishOf(runs[s])) : s \in 1..n}
  BY <1>1 DEF FinishReviews, FinishOf
<1>6. FinishReviews(runs') = FinishReviews(runs)
  <2>1. {n + 1} \X (1..FinishOf(runs'[n + 1])) = {}
    BY <1>3
  <2>2. \A x : x \in FinishReviews(runs') <=> \E s \in 1..(n + 1) : x \in {s} \X (1..FinishOf(runs'[s]))
    BY <1>4
  <2>3. \A x : x \in FinishReviews(runs) <=> \E s \in 1..n : x \in {s} \X (1..FinishOf(runs[s]))
    BY <1>5
  <2>4. 1..(n + 1) = (1..n) \union {n + 1}
    BY <1>1
  <2>5. ASSUME NEW x PROVE x \in FinishReviews(runs') <=> x \in FinishReviews(runs)
    <3>1. \A s \in 1..n : x \in {s} \X (1..FinishOf(runs'[s])) <=> x \in {s} \X (1..FinishOf(runs[s]))
      BY <1>3
    <3>2. x \in FinishReviews(runs') <=> \E s \in (1..n) \union {n + 1} : x \in {s} \X (1..FinishOf(runs'[s]))
      BY <2>2, <2>4
    <3>3. x \in FinishReviews(runs') <=> \E s \in 1..n : x \in {s} \X (1..FinishOf(runs'[s]))
      BY <2>1, <3>2, Zenon
    <3> QED
      BY <2>3, <3>1, <3>3, Zenon
  <2> QED
    BY <2>5
<1> QED
  BY <1>6 DEF Spent

\* A review of a finish is one more.
LEMMA SpentMore ==
  ASSUME RunShape, Counts, NEW r \in DOMAIN runs, runs[r].finish, Steady(r),
         runs'[r].reviews = runs[r].reviews + 1
  PROVE  Spent' = Spent + 1
<1>1. PICK k : k = runs[r].reviews /\ k \in Nat
  BY DEF Counts
<1>2. FinishOf(runs[r]) = k /\ FinishOf(runs'[r]) = k + 1
  BY <1>1 DEF Steady, FinishOf
<1>3. DOMAIN runs' = DOMAIN runs /\ \A s \in DOMAIN runs \ {r} : FinishOf(runs'[s]) = FinishOf(runs[s])
  BY DEF Steady, FinishOf
<1>4. FinishReviews(runs') = UNION {{s} \X (1..FinishOf(runs'[s])) : s \in DOMAIN runs}
  BY <1>3 DEF FinishReviews, FinishOf
<1>5. FinishReviews(runs) = UNION {{s} \X (1..FinishOf(runs[s])) : s \in DOMAIN runs}
  BY DEF FinishReviews, FinishOf
<1>6. PICK x : x = <<r, k + 1>>
  OBVIOUS
<1>7. \A y : y \in FinishReviews(runs') <=> \E s \in DOMAIN runs : y \in {s} \X (1..FinishOf(runs'[s]))
  BY <1>4
<1>8. \A y : y \in FinishReviews(runs) <=> \E s \in DOMAIN runs : y \in {s} \X (1..FinishOf(runs[s]))
  BY <1>5
<1>9. {r} \X (1..FinishOf(runs'[r])) = ({r} \X (1..FinishOf(runs[r]))) \union {x}
  BY <1>1, <1>2, <1>6
<1>10. FinishReviews(runs') = FinishReviews(runs) \union {x}
  <2>1. \A s \in DOMAIN runs : \A y : s # r =>
          (y \in {s} \X (1..FinishOf(runs'[s])) <=> y \in {s} \X (1..FinishOf(runs[s])))
    BY <1>3
  <2>2. \A y : y \in {r} \X (1..FinishOf(runs'[r])) <=> (y \in {r} \X (1..FinishOf(runs[r])) \/ y = x)
    BY <1>9
  <2>3. \A y : y \in FinishReviews(runs') <=> (y \in FinishReviews(runs) \/ y = x)
    BY <1>7, <1>8, <2>1, <2>2, Zenon
  <2> QED
    BY <2>3
<1>11. x \notin FinishReviews(runs)
  <2> SUFFICES ASSUME x \in FinishReviews(runs) PROVE FALSE
    OBVIOUS
  <2>1. PICK s \in DOMAIN runs : x \in {s} \X (1..FinishOf(runs[s]))
    BY <1>8
  <2>2. s = r /\ k + 1 \in 1..FinishOf(runs[s])
    BY <1>6, <2>1
  <2> QED
    BY <1>1, <1>2, <2>2
<1>12. PICK S : S = FinishReviews(runs) /\ IsFiniteSet(S)
  BY SpentNat
<1>13. Cardinality(S \union {x}) = Cardinality(S) + 1
  BY <1>11, <1>12, FS_AddElement
<1> QED
  BY <1>10, <1>12, <1>13 DEF Spent

ReviewRows(rows, from, to) == {p \in from..to : rows[p].ev = "review"}

\* The reviews in an interval of rows can be counted.
LEMMA ReviewsNat ==
  ASSUME NEW rows, NEW from \in Nat, NEW to \in Nat
  PROVE  IsFiniteSet(ReviewRows(rows, from, to)) /\ Cardinality(ReviewRows(rows, from, to)) \in Nat
<1>1. IsFiniteSet(from..to)
  BY FS_Interval
<1>2. ReviewRows(rows, from, to) \in SUBSET (from..to)
  BY DEF ReviewRows
<1> QED
  BY <1>1, <1>2, FS_Subset, FS_CardinalityType

\* A longer interval of the same rows has no fewer.
LEMMA ReviewsGrow ==
  ASSUME NEW rows, NEW more, NEW from \in Nat, NEW to \in Nat, NEW since \in Nat, NEW last \in Nat,
         since <= from, to <= last, \A p \in from..to : rows[p].ev = "review" => more[p].ev = "review"
  PROVE  Cardinality(ReviewRows(rows, from, to)) <= Cardinality(ReviewRows(more, since, last))
<1>1. ReviewRows(rows, from, to) \in SUBSET ReviewRows(more, since, last)
  BY DEF ReviewRows
<1>2. IsFiniteSet(ReviewRows(more, since, last))
  BY ReviewsNat
<1> QED
  BY <1>1, <1>2, FS_Subset

\* A review row is one more.
LEMMA ReviewsMore ==
  ASSUME NEW rows, NEW more, NEW to \in Nat, NEW from \in 0..(to + 1),
         \A p \in 1..to : more[p] = rows[p], more[to + 1].ev = "review", from # 0
  PROVE  Cardinality(ReviewRows(more, from, to + 1)) = Cardinality(ReviewRows(rows, from, to)) + 1
<1>1. PICK S, T : S = ReviewRows(rows, from, to) /\ T = ReviewRows(more, from, to + 1)
  OBVIOUS
<1>2. IsFiniteSet(S)
  BY <1>1, ReviewsNat
<1>3. T = S \union {to + 1} /\ to + 1 \notin S
  BY <1>1 DEF ReviewRows
<1> QED
  BY <1>1, <1>2, <1>3, FS_AddElement

\* The places where finishes may begin stay, and none is added without a stop row.
LEMMA BeginsOn ==
  ASSUME RowShape, RowShape', RowsStay, NEW rec
  PROVE  /\ Begins(journal, rec) \subseteq Begins(journal', rec)
         /\ (\A p \in (Len(journal) + 1)..Len(journal') : journal'[p].ev # "stop") =>
              Begins(journal', rec) = Begins(journal, rec)
<1>1. DOMAIN journal = 1..Len(journal) /\ DOMAIN journal' = 1..Len(journal')
  BY DEF RowShape
<1>2. PICK S, T : /\ S = {q \in DOMAIN journal : journal[q].ev = "stop"}
                  /\ T = {q \in DOMAIN journal' : journal'[q].ev = "stop"}
  OBVIOUS
<1>3. S \subseteq T /\ ((\A p \in (Len(journal) + 1)..Len(journal') : journal'[p].ev # "stop") => T = S)
  BY <1>1, <1>2 DEF RowsStay
<1>4. /\ Begins(journal, rec) = {p + 1 : p \in S} \union ({rec} \ {0})
      /\ Begins(journal', rec) = {p + 1 : p \in T} \union ({rec} \ {0})
  BY <1>2 DEF Begins
<1> QED
  BY <1>3, <1>4

\* Where they are.
LEMMA BeginsAt ==
  ASSUME RowShape, NEW rec \in 0..(Len(journal) + 1)
  PROVE  /\ \A from \in Begins(journal, rec) : from \in 1..(Len(journal) + 1)
         /\ rec # 0 => rec \in Begins(journal, rec)
         /\ \A p \in 1..Len(journal) : journal[p].ev = "stop" => p + 1 \in Begins(journal, rec)
         /\ \A from \in Begins(journal, rec) :
              from # rec => from - 1 \in 1..Len(journal) /\ journal[from - 1].ev = "stop"
<1>1. DOMAIN journal = 1..Len(journal) /\ Len(journal) \in Nat
  BY DEF RowShape
<1> QED
  BY <1>1 DEF Begins

\* The number of reviews told of, or one more with a review row.
Tallied ==
  \/ Spent' = Spent
  \/ /\ Spent' = Spent + 1 /\ Len(journal') = Len(journal) + 1
     /\ journal'[Len(journal) + 1].ev = "review"

\* What the rows tell of, they go on telling.
LEMMA TellsOn ==
  ASSUME RowShape, RowShape', RowsStay, Spent \in Nat, Spent' \in Nat, Tallied,
         NEW rec \in 0..(Len(journal) + 1), Tells(journal, rec, Spent)
  PROVE  Tells(journal', rec, Spent')
<1>1. PICK from \in Begins(journal, rec) :
        \/ Spent <= Cardinality(ReviewRows(journal, from, Len(journal)))
        \/ \E p \in from..Len(journal) : journal[p].ev = "ready"
  BY DEF Tells, ReviewRows
<1>2. from \in Begins(journal', rec) /\ from \in 1..(Len(journal) + 1)
  BY BeginsOn, BeginsAt
<1>3. PICK n, m : n = Len(journal) /\ m = Len(journal') /\ n \in Nat /\ m \in Nat /\ n <= m
  BY DEF RowsStay
<1>4. SUFFICES \/ Spent' <= Cardinality(ReviewRows(journal', from, m))
               \/ \E p \in from..m : journal'[p].ev = "ready"
  BY <1>2, <1>3 DEF Tells, ReviewRows
<1>5. CASE \E p \in from..n : journal[p].ev = "ready"
  <2>1. PICK p \in from..n : journal[p].ev = "ready"
    BY <1>5
  <2>2. p \in from..m /\ journal'[p] = journal[p]
    BY <1>2, <1>3, <2>1 DEF RowsStay
  <2> QED
    BY <2>1, <2>2
<1>6. CASE Spent <= Cardinality(ReviewRows(journal, from, n))
  <2>1. PICK c, d : /\ c = Cardinality(ReviewRows(journal, from, n)) /\ c \in Nat
                    /\ d = Cardinality(ReviewRows(journal', from, m)) /\ d \in Nat
    BY <1>2, <1>3, ReviewsNat
  <2>2. CASE Spent' = Spent
    <3>1. \A p \in from..n : journal[p].ev = "review" => journal'[p].ev = "review"
      BY <1>2, <1>3 DEF RowsStay
    <3>2. Cardinality(ReviewRows(journal, from, n)) <= Cardinality(ReviewRows(journal', from, m))
      <4>1. from \in Nat /\ from <= from /\ n \in Nat /\ m \in Nat /\ n <= m
        BY <1>2, <1>3
      <4> QED
        BY <3>1, <4>1, ReviewsGrow
    <3>3. c <= d
      BY <2>1, <3>2
    <3> QED
      BY <1>6, <2>1, <2>2, <3>3
  <2>3. CASE Spent' = Spent + 1 /\ m = n + 1 /\ journal'[n + 1].ev = "review"
    <3>1. \A p \in 1..n : journal'[p] = journal[p]
      BY <1>3 DEF RowsStay
    <3>2. Cardinality(ReviewRows(journal', from, n + 1)) = Cardinality(ReviewRows(journal, from, n)) + 1
      <4>1. from \in 0..(n + 1) /\ from # 0 /\ n \in Nat
        BY <1>2, <1>3
      <4> QED
        BY <2>3, <3>1, <4>1, ReviewsMore
    <3>3. d = c + 1
      BY <2>1, <2>3, <3>2
    <3> QED
      BY <1>6, <2>1, <2>3, <3>3
  <2> QED
    BY <1>3, <2>2, <2>3 DEF Tallied
<1> QED
  BY <1>1, <1>3, <1>5, <1>6

\* So does a ready row with the reviews after it.
LEMMA ReadyOn ==
  ASSUME RowShape, RowsStay, Spent \in Nat, Spent' \in Nat, Tallied, NEW p \in 1..Len(journal),
         NEW num \in Nat, Spent <= num + Reviews(p + 1, Len(journal))
  PROVE  Spent' <= num + Reviews(p + 1, Len(journal))'
<1>1. PICK n, m : n = Len(journal) /\ m = Len(journal') /\ n \in Nat /\ m \in Nat /\ n <= m
  BY DEF RowsStay
<1>2. PICK c, d : /\ c = Cardinality(ReviewRows(journal, p + 1, n)) /\ c \in Nat
                  /\ d = Cardinality(ReviewRows(journal', p + 1, m)) /\ d \in Nat
  BY <1>1, ReviewsNat
<1>3. Reviews(p + 1, Len(journal)) = c /\ Reviews(p + 1, Len(journal))' = d
  BY <1>1, <1>2 DEF Reviews, ReviewRows
<1>4. CASE Spent' = Spent
  <2>1. \A q \in (p + 1)..n : journal[q].ev = "review" => journal'[q].ev = "review"
    BY <1>1 DEF RowsStay
  <2>2. Cardinality(ReviewRows(journal, p + 1, n)) <= Cardinality(ReviewRows(journal', p + 1, m))
    <3>1. p + 1 \in Nat /\ p + 1 <= p + 1 /\ n \in Nat /\ m \in Nat /\ n <= m
      BY <1>1
    <3> QED
      BY <2>1, <3>1, ReviewsGrow
  <2>3. c <= d
    BY <1>2, <2>2
  <2> QED
    BY <1>2, <1>3, <1>4, <2>3
<1>5. CASE Spent' = Spent + 1 /\ m = n + 1 /\ journal'[n + 1].ev = "review"
  <2>1. \A q \in 1..n : journal'[q] = journal[q]
    BY <1>1 DEF RowsStay
  <2>2. Cardinality(ReviewRows(journal', p + 1, n + 1)) = Cardinality(ReviewRows(journal, p + 1, n)) + 1
    <3>1. p + 1 \in 0..(n + 1) /\ p + 1 # 0 /\ n \in Nat
      BY <1>1
    <3> QED
      BY <1>5, <2>1, <3>1, ReviewsMore
  <2>3. d = c + 1
    BY <1>2, <1>5, <2>2
  <2> QED
    BY <1>2, <1>3, <1>5, <2>3
<1> QED
  BY <1>1, <1>4, <1>5 DEF Tallied

-----------------------------------------------------------------------------
(* What a call has read, and goes on with                                  *)

SameCall(q) ==
  /\ ops'[q].verb = ops[q].verb /\ ops'[q].way = ops[q].way
  /\ ops'[q].n = ops[q].n /\ ops'[q].at = ops[q].at
  /\ ops'[q].stake = ops[q].stake /\ ops'[q].died = ops[q].died
  /\ ops'[q].rec = ops[q].rec /\ ops'[q].prior = ops[q].prior

\* A launch there, a call could launch for nothing but its own end.
ToLaunch(o) == ops[o].verb = "return" /\ ops[o].pc \in {"drop", "spawn"}

\* What the others do leaves a call with the count it has, unless they are at
\* work on its end.
LEMMA CallOn ==
  ASSUME Shapes, Counts, RowsGrow, GhostStays, Spent \in Nat, Spent' \in Nat, Tallied,
         Spent' = Spent \/ ~NoneAtWork,
         NEW q \in Ops, SameCall(q), CallTells(q), CallCounts(q),
         Cleared(q) => Quiet(EndOf(ops[q])) \/ Retaken(q),
         Aiming(q)' => Aiming(q) /\ (Looking(q)' <=> Looking(q)),
         Cleared(q)' => Cleared(q),
         ToLaunch(q)' => Begins(journal', lane'.spec.rec) # {}
  PROVE  CallTells(q)' /\ CallCounts(q)'
<1>1. RowShape /\ RowShape' /\ RowsStay
  BY Grows DEF Shapes
<1>2. PICK n, m : n = Len(journal) /\ m = Len(journal') /\ n \in Nat /\ m \in Nat /\ n <= m
  BY <1>1 DEF RowsStay
<1>3. journal' = journal \/ m = n + 1
  BY <1>1, <1>2, RowAfter DEF RowsGrow
<1>4. ops[q].n \in 0..n /\ (Aiming(q) => ops[q].rec \in 0..(n + 1))
  BY <1>2 DEF Shapes, Aimed, Spots, Counts
<1>5. ASSUME ops[q].n = m PROVE journal' = journal /\ Spent' = Spent
  <2>1. m # n + 1
    BY <1>2, <1>4, <1>5
  <2> QED
    BY <1>2, <1>3, <2>1 DEF Tallied
<1>6. Looking(q)' => Aiming(q)'
  BY DEF Looking, Aiming, AimsAt, Returning
<1>7. ASSUME Aiming(q)', Looking(q)' => ops'[q].n = m
      PROVE  \/ Tells(journal', ops'[q].rec, Spent')
             \/ Looking(q)' /\ Begins(journal', ops'[q].rec) = {} /\ Spent' = 0
  <2>1. Aiming(q) /\ (Looking(q)' <=> Looking(q)) /\ ops'[q].rec = ops[q].rec /\ ops'[q].n = ops[q].n
    BY <1>7 DEF SameCall
  <2>2. CASE Looking(q)
    <3>1. journal' = journal /\ Spent' = Spent /\ ops[q].n = n
      BY <1>2, <1>5, <1>7, <2>1, <2>2
    <3>2. \/ Tells(journal, ops[q].rec, Spent)
          \/ Looking(q) /\ Begins(journal, ops[q].rec) = {} /\ Spent = 0
      BY <1>2, <2>1, <3>1 DEF CallTells
    <3> QED
      BY <2>1, <3>1, <3>2
  <2>3. CASE ~Looking(q)
    <3>1. Tells(journal, ops[q].rec, Spent)
      BY <2>1, <2>3 DEF CallTells
    <3>2. ops[q].rec \in 0..(Len(journal) + 1)
      BY <1>2, <1>4, <2>1
    <3>3. Tells(journal', ops[q].rec, Spent')
      BY <1>1, <3>1, <3>2, TellsOn
    <3> QED
      BY <2>1, <3>3
  <2> QED
    BY <2>2, <2>3
<1>8. CallTells(q)'
  BY <1>2, <1>7 DEF CallTells, ToLaunch
<1>9. ASSUME Looking(q)', ops'[q].n = m PROVE StopCounts(q)'
  <2>1. Looking(q) /\ ops[q].n = m /\ SameCall(q)
    BY <1>6, <1>9 DEF SameCall
  <2>2. journal' = journal /\ Spent' = Spent /\ ops[q].n = Len(journal)
    BY <1>2, <1>5, <2>1
  <2>3. StopCounts(q)
    BY <2>1, <2>2 DEF CallCounts
  <2> QED
    BY <2>1, <2>2, <2>3 DEF SameCall, StopCounts, Last, Of, Reran, After
<1>10. ASSUME Aiming(q)', ops'[q].way = "ready" PROVE journal'[ops'[q].at].num <= ops'[q].prior
  <2>1. Aiming(q) /\ SameCall(q) /\ ops[q].way = "ready"
    BY <1>10 DEF SameCall
  <2>2. ops[q].at \in 1..Len(journal) /\ journal[ops[q].at].num <= ops[q].prior
    BY <2>1 DEF Shapes, Aimed, CallCounts
  <2>3. journal'[ops[q].at] = journal[ops[q].at]
    BY <1>1, <2>2 DEF RowsStay
  <2> QED
    BY <2>1, <2>2, <2>3 DEF SameCall
<1>11. ASSUME Cleared(q)' PROVE ops'[q].stake # ops'[q].at \/ Retaken(q)' \/ Spent' <= ops'[q].prior
  <2>1. Cleared(q) /\ SameCall(q) /\ Aimed(q) /\ ActsPlaced
    BY <1>11 DEF Shapes
  <2>2. Retaken(q) => Retaken(q)'
    BY <1>1, <2>1, RetakenStays DEF SameCall, GhostStays
  <2>3. ops[q].stake # ops[q].at \/ Retaken(q) \/ Spent <= ops[q].prior
    BY <2>1 DEF CallCounts
  <2>4. CASE Spent' = Spent
    BY <2>1, <2>2, <2>3, <2>4 DEF SameCall
  <2>5. CASE ~NoneAtWork
    BY <2>1, <2>2, <2>5 DEF Quiet
  <2> QED
    BY <2>4, <2>5
<1>12. CallCounts(q)'
  BY <1>2, <1>9, <1>10, <1>11 DEF CallCounts
<1> QED
  BY <1>8, <1>12

\* A call that goes on has the same counts.
LEMMA GoSame ==
  ASSUME CallShape, NEW o \in Ops, NEW pc, NEW text,
         ops' = [ops EXCEPT ![o].pc = pc] \/ ops' = [ops EXCEPT ![o].pc = pc, ![o].text = text]
  PROVE  Alone(o) /\ SameCall(o) /\ ops'[o].pc = pc
<1>1. PICK d : d = ops[o] /\ Fielded(d)
  BY DEF CallShape
<1>2. CASE ops' = [ops EXCEPT ![o].pc = pc]
  <2>1. PICK c : c = [ops[o] EXCEPT !.pc = pc]
    OBVIOUS
  <2>2. c = [d EXCEPT !.pc = pc]
    BY <1>1, <2>1
  <2>3. /\ Fielded(c) /\ c.pc = pc /\ c.verb = d.verb /\ c.way = d.way /\ c.n = d.n /\ c.at = d.at
        /\ c.stake = d.stake /\ c.died = d.died /\ c.rec = d.rec /\ c.prior = d.prior
    BY <1>1, <2>2 DEF Fielded
  <2>4. ops' = [ops EXCEPT ![o] = c]
    BY <1>2, <2>1
  <2>5. Alone(o) /\ ops'[o] = c
    BY <2>3, <2>4, Replaced DEF Alone
  <2> QED
    BY <1>1, <2>3, <2>5 DEF SameCall
<1>3. CASE ops' = [ops EXCEPT ![o].pc = pc, ![o].text = text]
  <2>1. PICK c : c = [ops[o] EXCEPT !.pc = pc, !.text = text]
    OBVIOUS
  <2>2. c = [d EXCEPT !.pc = pc, !.text = text]
    BY <1>1, <2>1
  <2>3. /\ Fielded(c) /\ c.pc = pc /\ c.verb = d.verb /\ c.way = d.way /\ c.n = d.n /\ c.at = d.at
        /\ c.stake = d.stake /\ c.died = d.died /\ c.rec = d.rec /\ c.prior = d.prior
    BY <1>1, <2>2 DEF Fielded
  <2>4. ops' = [ops EXCEPT ![o] = c]
    BY <1>3, <2>1
  <2>5. Alone(o) /\ ops'[o] = c
    BY <2>3, <2>4, Replaced DEF Alone
  <2> QED
    BY <1>1, <2>3, <2>5 DEF SameCall
<1> QED
  BY <1>2, <1>3

\* Other fields of the lane than its finish.json.
OffSpec ==
  \E v, w : \/ lane' = lane
            \/ lane' = [lane EXCEPT !.dir = v]
            \/ lane' = [lane EXCEPT !.tree = v]
            \/ lane' = [lane EXCEPT !.head = v]
            \/ lane' = [lane EXCEPT !.tip = v]
            \/ lane' = [lane EXCEPT !.tip = v, !.pr = w]
            \/ lane' = [lane EXCEPT !.pid = v]

\* They leave it alone.
LEMMA SpecStays ==
  ASSUME LaneShape, OffSpec
  PROVE  lane'.spec = lane.spec
<1>1. PICK l : l = lane /\ Laned(l)
  BY DEF LaneShape
<1>2. PICK v, w : \/ lane' = l
                  \/ lane' = [l EXCEPT !.dir = v]
                  \/ lane' = [l EXCEPT !.tree = v]
                  \/ lane' = [l EXCEPT !.head = v]
                  \/ lane' = [l EXCEPT !.tip = v]
                  \/ lane' = [l EXCEPT !.tip = v, !.pr = w]
                  \/ lane' = [l EXCEPT !.pid = v]
  BY <1>1 DEF OffSpec
<1> QED
  BY <1>1, <1>2 DEF Laned

\* Only the call that launches writes it, with the place it has recovered.
LEMMA SpecKeeps ==
  ASSUME LaneShape, NEW o \in Ops, Verb(o)
  PROVE  \/ lane'.spec = lane.spec
         \/ WriteSpec(o) /\ Go(o, "drop") /\ lane'.spec.rec = ops[o].rec
<1> USE DEF OffSpec, Refuse, Forfeit, Release, LetGo, Unlocked, Unstaked, Proceed, files
<1>1. CASE OffSpec
  BY <1>1, SpecStays
<1>2. CASE BeginStart(o) \/ AddWorktree(o) \/ RecordLane(o)
  BY <1>1, <1>2 DEF BeginStart, AddWorktree, RecordLane
<1>3. CASE BeginReturn(o) \/ BeginDiscard(o) \/ BeginRecord(o) \/ BeginCloseout(o)
  BY <1>1, <1>3 DEF BeginReturn, BeginDiscard, BeginRecord, BeginCloseout, Load
<1>4. CASE \E choice \in {"accept", "abandon"} : BeginReady(o, choice)
  BY <1>1, <1>4 DEF BeginReady
<1>5. CASE Judge(o)
  <2>1. lane' = lane
    BY <1>5, ZenonT(60) DEF Judge
  <2> QED
    BY <2>1
<1>6. CASE ClaimDecision(o) \/ Recheck(o)
  BY <1>1, <1>6 DEF ClaimDecision, Recheck
<1>7. CASE Stake(o) \/ TakeLock(o) \/ Displace(o) \/ Replace(o)
  BY <1>1, <1>7 DEF Stake, TakeLock, Displace, Replace
<1>8. CASE Confirm(o) \/ RecordUndo(o) \/ DropPid(o)
  BY <1>1, <1>8 DEF Confirm, RecordUndo, DropPid
<1>9. CASE WriteSpec(o)
  <2>1. PICK l, s : /\ l = lane /\ Laned(l)
                    /\ s = [rec |-> ops[o].rec,
                            died |-> IF ops[o].way = "stop" THEN ops[o].died # None ELSE ops[o].rec # 0]
    BY DEF LaneShape
  <2>2. lane' = lane \/ (lane' = [l EXCEPT !.spec = s] /\ Go(o, "drop"))
    BY <1>9, <2>1 DEF WriteSpec
  <2> QED
    BY <1>9, <2>1, <2>2 DEF Laned
<1>10. CASE Spawn(o) \/ SpawnFails(o)
  BY <1>1, <1>10 DEF Spawn, SpawnFails
<1>11. CASE Hand(o) \/ Decide(o) \/ DecideFails(o)
  BY <1>1, <1>11 DEF Hand, Decide, DecideFails
<1>12. CASE CheckHead(o) \/ EditPullRequest(o) \/ RecordPublished(o)
  BY <1>1, <1>12 DEF CheckHead, EditPullRequest, RecordPublished
<1>13. CASE OpenPullRequest(o)
  <2>1. \/ lane' = [lane EXCEPT !.tip = lane.head, !.pr = "open"]
        \/ lane' = lane
        \/ lane' = [lane EXCEPT !.tip = lane.head]
        \/ lane' = [lane EXCEPT !.tip = lane.head, !.pr = IF @ = "none" THEN "open" ELSE @]
    BY <1>13 DEF OpenPullRequest
  <2>2. OffSpec
    BY <2>1, Zenon
  <2> QED
    BY <1>1, <2>2
<1>14. CASE Inspect(o) \/ Reread(o) \/ ListClaims(o) \/ CheckPid(o) \/ CheckClaim(o)
  <2>1. lane' = lane
    BY <1>14 DEF Inspect, Reread, ListClaims, CheckPid, CheckClaim
  <2> QED
    BY <2>1
<1>15. CASE View(o) \/ RemoveWorktree(o) \/ Archive(o)
  BY <1>1, <1>15 DEF View, RemoveWorktree, Archive, GiveUp
<1>16. CASE CheckQuiet(o) \/ AppendPr(o) \/ Lost(o) \/ Crash(o)
  BY <1>1, <1>16 DEF CheckQuiet, AppendPr, Lost, Crash
<1> QED
  BY <1>2, <1>3, <1>4, <1>5, <1>6, <1>7, <1>8, <1>9, <1>10, <1>11, <1>12, <1>13, <1>14, <1>15, <1>16 DEF Verb

\* A call that holds its count goes on with it, to its launch by way of its spec.
Forth(o) ==
  /\ SameCall(o) /\ Cleared(o) /\ Cleared(o)'
  /\ ToLaunch(o)' => ToLaunch(o) \/ WriteSpec(o)

\* A step between two places of a call.
LEMMA StepOn ==
  ASSUME CallShape, NEW o \in Ops, NEW pc, NEW text,
         ops' = [ops EXCEPT ![o].pc = pc] \/ ops' = [ops EXCEPT ![o].pc = pc, ![o].text = text],
         \/ ops[o].verb # "return"
         \/ pc \in {"reread", "hand", "decide"}
         \/ Cleared(o) /\ pc \in {"stake", "lock", "displace", "replace", "confirm", "uncommit", "spec"}
         \/ Cleared(o) /\ pc \in {"drop", "spawn"} /\ (ToLaunch(o) \/ WriteSpec(o))
  PROVE  Alone(o) /\ (~Aiming(o)' \/ Forth(o))
<1>1. Alone(o) /\ SameCall(o) /\ ops'[o].pc = pc
  BY GoSame
<1>2. CASE ops[o].verb # "return" \/ pc \in {"reread", "hand", "decide"}
  BY <1>1, <1>2 DEF SameCall, Aiming, AimsAt, Returning
<1>3. CASE /\ Cleared(o)
           /\ pc \in {"stake", "lock", "displace", "replace", "confirm", "uncommit", "spec"}
  BY <1>1, <1>3 DEF SameCall, Forth, Cleared, ClearedAt, Returning, ToLaunch
<1>4. CASE Cleared(o) /\ pc \in {"drop", "spawn"} /\ (ToLaunch(o) \/ WriteSpec(o))
  BY <1>1, <1>4 DEF SameCall, Forth, Cleared, ClearedAt, Returning, ToLaunch
<1> QED
  BY <1>2, <1>3, <1>4

\* What a call does that is not at its decision.
LEMMA CallSteps ==
  ASSUME VerbInv, NEW o \in Ops, Verb(o), ~Judge(o), ~ClaimDecision(o), ~Recheck(o)
  PROVE  Alone(o) /\ (~Aiming(o)' \/ Forth(o))
<1>1. CallShape /\ InPlace(o)
  BY DEF VerbInv
<1>2. CASE Leave(o)
  BY <1>1, <1>2, AwayRead
<1>3. ASSUME NEW pc, Go(o, pc), ops[o].verb # "return" \/ pc \in {"hand", "decide"}
      PROVE  Alone(o) /\ ~Aiming(o)'
  <2>1. Alone(o) /\ ops'[o].pc = pc /\ ops'[o].verb = ops[o].verb
    BY <1>1, <1>3, GoRead
  <2> QED
    BY <1>3, <2>1 DEF Aiming, AimsAt, Returning
<1>4. ASSUME NEW c, Fielded(c), ops' = [ops EXCEPT ![o] = c], ~AimsAt(c.verb, c.pc)
      PROVE  Alone(o) /\ ~Aiming(o)'
  BY <1>1, <1>4, Replaced DEF Alone, Aiming
<1>5. PICK d : d = ops[o] /\ Fielded(d)
  BY <1>1 DEF CallShape
<1> USE DEF Refuse, Forfeit, Release, LetGo, Unlocked, Unstaked, Proceed, At
<1>6. CASE BeginStart(o)
  <2>1. PICK c : c = [d EXCEPT !.pc = "add", !.verb = "start"]
    OBVIOUS
  <2>2. Fielded(c) /\ c.verb = "start" /\ ops' = [ops EXCEPT ![o] = c]
    BY <1>5, <1>6, <2>1 DEF BeginStart, Fielded
  <2> QED
    BY <1>4, <2>2 DEF AimsAt
<1>7. CASE AddWorktree(o) \/ RecordLane(o)
  <2>1. ops[o].verb = "start"
    BY <1>1, <1>7, VerbAt DEF AddWorktree, RecordLane
  <2>2. Leave(o) \/ Go(o, "enroll") \/ Go(o, "spawn")
    BY <1>7 DEF AddWorktree, RecordLane
  <2> QED
    BY <1>2, <1>3, <2>1, <2>2
<1>8. CASE BeginReturn(o) \/ BeginDiscard(o) \/ BeginRecord(o) \/ BeginCloseout(o)
  <2>1. PICK verb, pc : Load(o, verb, pc) /\ pc \in {"judge", "inspect", "quiet", "view"}
    BY <1>8 DEF BeginReturn, BeginDiscard, BeginRecord, BeginCloseout
  <2>2. PICK c : c = [d EXCEPT !.pc = pc, !.verb = verb, !.n = Len(journal)]
    OBVIOUS
  <2>3. Fielded(c) /\ c.pc = pc /\ ops' = [ops EXCEPT ![o] = c]
    BY <1>5, <2>1, <2>2 DEF Load, Fielded
  <2> QED
    BY <1>4, <2>1, <2>3 DEF AimsAt, Returning
<1>9. CASE \E choice \in {"accept", "abandon"} : BeginReady(o, choice)
  <2>1. PICK choice \in {"accept", "abandon"} : BeginReady(o, choice)
    BY <1>9
  <2>2. PICK c : c = [d EXCEPT !.pc = "claim", !.verb = choice, !.n = Len(journal),
                               !.at = Last(Len(journal), {"ready"}), !.way = "ready"]
    OBVIOUS
  <2>3. Fielded(c) /\ c.verb = choice /\ ops' = [ops EXCEPT ![o] = c]
    BY <1>5, <2>1, <2>2 DEF BeginReady, Fielded
  <2> QED
    BY <1>4, <2>1, <2>3 DEF AimsAt
<1>10. CASE Stake(o) \/ TakeLock(o) \/ Displace(o) \/ Replace(o)
  <2>1. ops[o].verb # "return" \/ Cleared(o)
    BY <1>1, <1>10, VerbAt DEF Stake, TakeLock, Displace, Replace, Cleared, ClearedAt, Returning
  <2>2. PICK pc, text :
          /\ \/ Leave(o) \/ ops' = [ops EXCEPT ![o].pc = pc]
             \/ ops' = [ops EXCEPT ![o].pc = pc, ![o].text = text]
          /\ pc \in {"reread", "lock", "displace", "replace", "confirm", "spec"}
    BY <1>10, Zenon DEF Stake, TakeLock, Displace, Replace, Staked, Go
  <2> QED
    BY <1>1, <1>2, <2>1, <2>2, StepOn
<1>11. CASE Confirm(o) \/ RecordUndo(o) \/ WriteSpec(o) \/ DropPid(o)
  <2>1. Cleared(o) /\ (DropPid(o) => ToLaunch(o))
    BY <1>1, <1>11, VerbAt DEF Confirm, RecordUndo, WriteSpec, DropPid, Cleared, ClearedAt, Returning, ToLaunch
  <2>2. PICK pc : /\ Leave(o) \/ ops' = [ops EXCEPT ![o].pc = pc]
                  /\ pc \in {"uncommit", "spec"} \/ (pc \in {"drop", "spawn"} /\ (DropPid(o) \/ WriteSpec(o)))
    BY <1>11 DEF Confirm, RecordUndo, WriteSpec, DropPid, Go
  <2> QED
    BY <1>1, <1>2, <2>1, <2>2, StepOn
<1>12. CASE Spawn(o)
  BY <1>1, <1>12, SpawnCalls, <1>2 DEF Aiming, AimsAt, Returning
<1>13. CASE SpawnFails(o) \/ Decide(o) \/ DecideFails(o) \/ AppendPr(o) \/ Lost(o) \/ Crash(o)
  <2>1. Leave(o)
    BY <1>13 DEF SpawnFails, Decide, DecideFails, AppendPr, Lost, Crash
  <2> QED
    BY <1>2, <2>1
<1>14. CASE Hand(o)
  BY <1>3, <1>14 DEF Hand
<1>15. CASE \/ CheckHead(o) \/ OpenPullRequest(o) \/ EditPullRequest(o) \/ RecordPublished(o)
            \/ Reread(o) \/ CheckPid(o) \/ View(o) \/ RemoveWorktree(o) \/ Archive(o) \/ CheckQuiet(o)
  <2>1. ops[o].verb # "return"
    BY <1>1, <1>15, VerbAt DEF CheckHead, OpenPullRequest, EditPullRequest, RecordPublished, Accepting,
       Reread, CheckPid, View, RemoveWorktree, Archive, CheckQuiet
  <2>2. Leave(o) \/ \E pc : Go(o, pc)
    BY <1>15 DEF CheckHead, OpenPullRequest, EditPullRequest, RecordPublished,
       Reread, CheckPid, View, RemoveWorktree, Archive, CheckQuiet, GiveUp
  <2> QED
    BY <1>2, <1>3, <2>1, <2>2
<1>16. CASE Inspect(o) \/ ListClaims(o) \/ CheckClaim(o)
  <2>1. d.verb = "discard"
    BY <1>1, <1>5, <1>16, VerbAt DEF Inspect, ListClaims, CheckClaim
  <2>2. PICK stake, died, todo :
          \/ Leave(o) \/ Go(o, "remove")
          \/ ops' = [ops EXCEPT ![o].pc = "stake", ![o].stake = stake, ![o].died = died]
          \/ ops' = [ops EXCEPT ![o].pc = "proof", ![o].todo = todo]
          \/ ops' = [ops EXCEPT ![o].todo = todo]
    <3>1. CASE Inspect(o)
      <4>1. \/ Leave(o)
            \/ \E dead : ops' = [ops EXCEPT ![o].pc = "stake",
                 ![o].stake = IF dead THEN Discardable(ops[o].n) + 1 ELSE Discardable(ops[o].n),
                 ![o].died = IF dead THEN lane.pid ELSE None]
        BY <3>1 DEF Inspect
      <4> QED
        BY <4>1, Zenon
    <3>2. CASE ListClaims(o)
      BY <3>2, Zenon DEF ListClaims
    <3>3. CASE CheckClaim(o)
      <4>1. \/ Leave(o) \/ Go(o, "remove")
            \/ \E file : ops' = [ops EXCEPT ![o].todo = @ \ {file}]
        BY <3>3 DEF CheckClaim
      <4> QED
        BY <4>1
    <3> QED
      BY <1>16, <3>1, <3>2, <3>3
  <2>3. ASSUME NEW c, Fielded(c), c.verb = "discard", ops' = [ops EXCEPT ![o] = c]
        PROVE  Alone(o) /\ ~Aiming(o)'
    BY <1>4, <2>3 DEF AimsAt
  <2>4. CASE ops' = [ops EXCEPT ![o].pc = "stake", ![o].stake = stake, ![o].died = died]
    <3>1. PICK c : c = [d EXCEPT !.pc = "stake", !.stake = stake, !.died = died]
      OBVIOUS
    <3>2. Fielded(c) /\ c.verb = d.verb /\ ops' = [ops EXCEPT ![o] = c]
      BY <1>5, <2>4, <3>1 DEF Fielded
    <3> QED
      BY <2>1, <2>3, <3>2
  <2>5. CASE ops' = [ops EXCEPT ![o].pc = "proof", ![o].todo = todo]
    <3>1. PICK c : c = [d EXCEPT !.pc = "proof", !.todo = todo]
      OBVIOUS
    <3>2. Fielded(c) /\ c.verb = d.verb /\ ops' = [ops EXCEPT ![o] = c]
      BY <1>5, <2>5, <3>1 DEF Fielded
    <3> QED
      BY <2>1, <2>3, <3>2
  <2>6. CASE ops' = [ops EXCEPT ![o].todo = todo]
    <3>1. PICK c : c = [d EXCEPT !.todo = todo]
      OBVIOUS
    <3>2. Fielded(c) /\ c.verb = d.verb /\ ops' = [ops EXCEPT ![o] = c]
      BY <1>5, <2>6, <3>1 DEF Fielded
    <3> QED
      BY <2>1, <2>3, <3>2
  <2> QED
    BY <1>2, <1>3, <1>5, <2>1, <2>2, <2>4, <2>5, <2>6
<1> QED
  BY <1>6, <1>7, <1>8, <1>9, <1>10, <1>11, <1>12, <1>13, <1>14, <1>15, <1>16 DEF Verb

-----------------------------------------------------------------------------
(* The count a return takes                                                *)

\* The least of some positive numbers.
LEMMA FirstOf ==
  ASSUME NEW S \in SUBSET (Nat \ {0}), S # {}
  PROVE  Min(S) \in S /\ \A p \in S : Min(S) <= p
<1>1. S \in SUBSET Nat
  OBVIOUS
<1>2. PICK m \in S : \A y \in S : ~(<<y, m>> \in OpToRel(<, Nat))
  BY <1>1, NatLessThanWellFounded, WFMin
<1>3. ASSUME NEW y \in S PROVE m <= y
  <2>1. y \in Nat /\ m \in Nat /\ ~(<<y, m>> \in OpToRel(<, Nat))
    BY <1>1, <1>2
  <2>2. y < m => <<y, m>> \in OpToRel(<, Nat)
    BY <2>1 DEF OpToRel
  <2>3. ~(y < m)
    BY <2>1, <2>2, Zenon
  <2>4. y \in Nat /\ m \in Nat
    BY <2>1
  <2> QED
    BY <2>3, <2>4
<1> QED
  BY <1>2, <1>3 DEF Min

\* No more reviews than rows.
LEMMA ReviewsBound ==
  ASSUME NEW rows, NEW from \in Nat \ {0}, NEW to \in Nat
  PROVE  Cardinality(ReviewRows(rows, from, to)) \in 0..to
<1>1. IsFiniteSet(1..to) /\ Cardinality(1..to) = to
  BY FS_Interval
<1>2. ReviewRows(rows, from, to) \in SUBSET (1..to)
  BY DEF ReviewRows
<1>3. Cardinality(ReviewRows(rows, from, to)) <= Cardinality(1..to)
  BY <1>1, <1>2, FS_Subset
<1> QED
  BY <1>1, <1>3, ReviewsNat

\* What a return on the end at p counts, and from where.
LEMMA StopPriorOf ==
  ASSUME RowShape, Counts, NEW n \in Spots, NEW p \in 1..(n + 1)
  PROVE  /\ StopPrior(n, p) \in Nat
         /\ \E from \in Nat \ {0} :
              /\ lane.spec.rec # 0 => from <= lane.spec.rec
              /\ \A q \in Of(n, {"stop"}) : from <= q + 1
              /\ Reviews(from, p - 1) <= StopPrior(n, p)
              /\ \A q \in 1..(p - 1) : journal[q].ev = "ready" /\ from <= q =>
                   journal[q].num + Reviews(q + 1, p - 1) <= StopPrior(n, p)
<1>1. n \in Nat /\ n <= Len(journal) /\ Len(journal) \in Nat /\ p \in Nat /\ p - 1 \in Nat /\ p - 1 <= n
  BY DEF RowShape, Spots
<1>2. PICK stops : stops = Of(n, {"stop"})
  OBVIOUS
<1>3. PICK first : first = IF stops = {} THEN p ELSE Min(stops) + 1
  OBVIOUS
<1>4. first \in Nat \ {0} /\ \A q \in stops : first <= q + 1
  <2>1. stops \in SUBSET (Nat \ {0})
    BY <1>1, <1>2 DEF Of
  <2>2. CASE stops = {}
    BY <1>1, <1>3, <2>2
  <2>3. CASE stops # {}
    <3>1. Min(stops) \in stops /\ \A q \in stops : Min(stops) <= q
      BY <2>1, <2>3, FirstOf
    <3>2. PICK m : m = Min(stops) /\ m \in Nat /\ \A q \in stops : m <= q
      BY <2>1, <3>1
    <3> QED
      BY <1>3, <2>1, <2>3, <3>2
  <2> QED
    BY <2>2, <2>3
<1>5. PICK rec : rec = lane.spec.rec /\ rec \in Nat
  BY <1>1 DEF Counts
<1>6. PICK from : from = IF rec = 0 THEN first ELSE Min({first, rec})
  OBVIOUS
<1>7. from \in Nat \ {0} /\ from <= first /\ (rec # 0 => from <= rec)
  <2>1. CASE rec = 0
    BY <1>4, <1>6, <2>1
  <2>2. CASE rec # 0
    <3>1. {first, rec} \in SUBSET (Nat \ {0}) /\ {first, rec} # {}
      BY <1>4, <1>5, <2>2
    <3>2. Min({first, rec}) \in {first, rec} /\ \A q \in {first, rec} : Min({first, rec}) <= q
      BY <3>1, FirstOf
    <3> QED
      BY <1>4, <1>5, <1>6, <2>2, <3>2
  <2> QED
    BY <2>1, <2>2
<1>8. PICK T, S : /\ T = Of(p - 1, {"ready"}) \intersect (from..n)
                  /\ S = {Reviews(from, p - 1)} \union {journal[q].num + Reviews(q + 1, p - 1) : q \in T}
  OBVIOUS
<1>9. StopPrior(n, p) = Max(S)
  BY <1>2, <1>3, <1>5, <1>6, <1>8, Zenon DEF StopPrior
<1>10. \A since \in Nat \ {0} : Reviews(since, p - 1) \in 0..(p - 1)
  BY <1>1, ReviewsBound DEF Reviews, ReviewRows
<1>11. \A q \in T : q \in 1..(p - 1) /\ journal[q].num \in 0..Rounds
  BY <1>1, <1>7, <1>8 DEF Of, Counts
<1>12. Rounds + n \in Nat /\ S \in SUBSET (0..(Rounds + n)) /\ S # {}
  <2>1. Rounds \in Nat
    BY VerbsAssumption
  <2>2. Reviews(from, p - 1) \in 0..(Rounds + n)
    BY <1>1, <1>7, <1>10, <2>1
  <2>3. ASSUME NEW q \in T PROVE journal[q].num + Reviews(q + 1, p - 1) \in 0..(Rounds + n)
    <3>1. PICK num, c : num = journal[q].num /\ c = Reviews(q + 1, p - 1)
      OBVIOUS
    <3>2. num \in 0..Rounds /\ c \in 0..(p - 1)
      BY <1>1, <1>10, <1>11, <3>1
    <3> QED
      BY <1>1, <2>1, <3>1, <3>2
  <2> QED
    BY <1>1, <1>8, <2>1, <2>2, <2>3
<1>13. Max(S) \in S /\ \A x \in S : x <= Max(S)
  BY <1>12, LastOf
<1>14. StopPrior(n, p) \in Nat
  <2>1. 0..(Rounds + n) \in SUBSET Nat
    BY <1>12
  <2> QED
    BY <1>9, <1>12, <1>13, <2>1
<1>15. ASSUME NEW q \in 1..(p - 1), journal[q].ev = "ready", from <= q
       PROVE  journal[q].num + Reviews(q + 1, p - 1) <= StopPrior(n, p)
  <2>1. q \in T
    BY <1>1, <1>7, <1>8, <1>15 DEF Of
  <2> QED
    BY <1>8, <1>9, <1>13, <2>1
<1>16. Reviews(from, p - 1) <= StopPrior(n, p)
  BY <1>8, <1>9, <1>13
<1>17. \A q \in Of(n, {"stop"}) : from <= q + 1
  <2> SUFFICES ASSUME NEW q \in stops PROVE from <= q + 1
    BY <1>2
  <2>1. q \in Nat /\ first <= q + 1
    BY <1>1, <1>2, <1>4 DEF Of
  <2> QED
    BY <1>4, <1>7, <2>1
<1> QED
  BY <1>5, <1>7, <1>14, <1>15, <1>16, <1>17

\* A lane that has had no finish has spent nothing.
LEMMA Unspent ==
  ASSUME \A r \in DOMAIN runs : ~runs[r].finish
  PROVE  Spent = 0
<1>1. FinishReviews(runs) = {}
  BY DEF FinishReviews
<1> QED
  BY <1>1, FS_EmptySet DEF Spent

\* It is every review there was, when the journal ends on that end.
LEMMA StopPriorTells ==
  ASSUME Shapes, Counts, Spent \in Nat, WorkBegan, SpecTells, ReadyCounts,
         NEW n, n = Len(journal), NEW p \in 1..(n + 1),
         \/ p = n + 1
         \/ /\ p \in Of(n, {"stop"}) /\ ~Reran(n, p)
            /\ \A q \in 1..n : journal[q].ev = "ready" => q < p
  PROVE  Spent <= StopPrior(n, p)
<1>1. n \in Nat /\ n \in Spots /\ RowShape /\ DOMAIN journal = 1..n
  BY DEF Shapes, RowShape, Spots
<1>2. PICK prior : prior = StopPrior(n, p) /\ prior \in Nat
  BY <1>1, StopPriorOf
<1>3. PICK from \in Nat \ {0} :
        /\ lane.spec.rec # 0 => from <= lane.spec.rec
        /\ \A q \in Of(n, {"stop"}) : from <= q + 1
        /\ Reviews(from, p - 1) <= prior
        /\ \A q \in 1..(p - 1) : journal[q].ev = "ready" /\ from <= q =>
             journal[q].num + Reviews(q + 1, p - 1) <= prior
  BY <1>1, <1>2, StopPriorOf
<1>4. \A q \in 1..n : journal[q].ev \in {"review", "ready"} => q <= p - 1
  <2>1. CASE p = n + 1
    BY <1>1, <2>1
  <2>2. CASE /\ p \in Of(n, {"stop"}) /\ ~Reran(n, p)
             /\ \A q \in 1..n : journal[q].ev = "ready" => q < p
    <3> SUFFICES ASSUME NEW q \in 1..n, journal[q].ev = "review", q > p - 1 PROVE FALSE
      BY <1>1, <2>2
    <3>1. p \in 1..n /\ journal[p].ev = "stop"
      BY <2>2 DEF Of
    <3>2. q > p
      BY <1>1, <3>1
    <3>3. PICK s \in 1..q : journal[s].ev = "start" /\ \A k \in (s + 1)..q : journal[k].ev \notin {"stop", "ready"}
      BY <1>1 DEF WorkBegan, Began
    <3>4. s > p
      BY <1>1, <3>1, <3>2, <3>3
    <3> QED
      BY <1>1, <2>2, <3>3, <3>4 DEF Reran, After, Of
  <2> QED
    BY <2>1, <2>2
<1>5. ASSUME NEW a \in Nat \ {0}, NEW b \in Nat \ {0}, a <= b
      PROVE  Reviews(b, n) <= Reviews(a, p - 1)
  <2>1. ReviewRows(journal, b, n) \in SUBSET ReviewRows(journal, a, p - 1)
    BY <1>1, <1>4, <1>5 DEF ReviewRows
  <2>2. IsFiniteSet(ReviewRows(journal, a, p - 1))
    BY <1>1, ReviewsNat
  <2> QED
    BY <2>1, <2>2, FS_Subset DEF Reviews, ReviewRows
<1>6. ASSUME NEW a \in Nat \ {0} PROVE Reviews(a, n) \in Nat /\ Reviews(a, p - 1) \in Nat
  <2>1. a \in Nat /\ p - 1 \in Nat
    BY <1>1
  <2> QED
    BY <1>1, <2>1, ReviewsNat DEF Reviews, ReviewRows
<1>7. CASE Unfinished(lane.spec.rec)
  <2>1. Spent = 0
    BY <1>7, Unspent DEF Unfinished
  <2> QED
    BY <1>2, <2>1
<1>8. CASE Tells(journal, lane.spec.rec, Spent)
  <2>1. PICK rec : rec = lane.spec.rec /\ rec \in 0..(Len(journal) + 1)
    BY DEF Counts
  <2>2. PICK since \in Begins(journal, rec) :
          \/ Spent <= Cardinality(ReviewRows(journal, since, n))
          \/ \E q \in since..n : journal[q].ev = "ready"
    BY <1>1, <1>8, <2>1 DEF Tells, ReviewRows
  <2>3. since \in Nat \ {0} /\ from <= since
    <3>1. /\ since \in 1..(n + 1)
          /\ since # rec => since - 1 \in 1..n /\ journal[since - 1].ev = "stop"
      BY <1>1, <2>1, <2>2, BeginsAt
    <3>2. CASE since = rec
      BY <1>1, <1>3, <2>1, <3>1, <3>2
    <3>3. CASE since # rec
      <4>1. since - 1 \in Of(n, {"stop"})
        BY <3>1, <3>3 DEF Of
      <4>2. from <= (since - 1) + 1
        BY <1>3, <4>1
      <4> QED
        BY <1>1, <3>1, <4>2
    <3> QED
      BY <3>2, <3>3
  <2>4. CASE Spent <= Cardinality(ReviewRows(journal, since, n))
    <3>1. PICK a, b : a = Reviews(since, n) /\ b = Reviews(from, p - 1) /\ a \in Nat /\ b \in Nat
      BY <1>6, <2>3
    <3>2. a <= b /\ b <= prior /\ Spent <= a
      BY <1>3, <1>5, <2>3, <2>4, <3>1 DEF Reviews, ReviewRows
    <3> QED
      BY <1>2, <3>1, <3>2
  <2>5. CASE \E q \in since..n : journal[q].ev = "ready"
    <3>1. PICK q \in since..n : journal[q].ev = "ready"
      BY <2>5
    <3>2. q \in 1..n /\ q \in 1..(p - 1) /\ from <= q
      BY <1>1, <1>4, <2>3, <3>1
    <3>3. Spent <= journal[q].num + Reviews(q + 1, n)
      BY <1>1, <3>1, <3>2 DEF ReadyCounts
    <3>4. PICK num : num = journal[q].num /\ num \in Nat
      BY <1>1, <3>1, <3>2, VerbsAssumption DEF Counts
    <3>5. PICK a, b : a = Reviews(q + 1, n) /\ b = Reviews(q + 1, p - 1) /\ a \in Nat /\ b \in Nat
      BY <1>6, <3>2
    <3>6. a <= b
      BY <1>5, <3>2, <3>5
    <3>7. num + b <= prior /\ Spent <= num + a
      BY <1>3, <3>1, <3>2, <3>3, <3>4, <3>5
    <3> QED
      BY <1>2, <3>4, <3>5, <3>6, <3>7
  <2> QED
    BY <2>2, <2>4, <2>5
<1> QED
  BY <1>7, <1>8 DEF SpecTells

\* What a return on a stop has read, and one on a ready row.
OnStop(c, n) ==
  /\ c.way = "stop" /\ c.rec = lane.spec.rec
  /\ c.at \in 1..(n + 1) /\ c.prior = StopPrior(n, c.at)
  /\ \/ /\ c.died = None /\ c.at \in Of(n, {"stop"}) /\ c.at = Last(n, {"stop"})
        /\ \A q \in 1..n : journal[q].ev = "ready" => q < c.at
     \/ c.died # None /\ c.at = n + 1
OnReady(c, n) ==
  /\ c.way = "ready" /\ c.died = None
  /\ c.at \in Of(n, {"ready"}) /\ c.prior = ReadyPrior(c.at)
  /\ c.rec = ReadyRec(c.at) /\ (Last(c.at - 1, {"stop"}) # 0 \/ ReadyRec(c.at) # 0)

\* A return that takes aim is on the newest stop, a dead run or the newest ready
\* row, with the count for it and a round to spend.
LEMMA JudgedAs ==
  ASSUME VerbInv, Shapes, NEW o \in Ops, Judge(o), ~Refuse(o)
  PROVE  /\ UNCHANGED <<journal, lane, runs, ghost>> /\ Alone(o)
         /\ ops'[o].verb = "return" /\ ops'[o].pc = "claim" /\ ops'[o].n = ops[o].n
         /\ ops'[o].prior < Rounds
         /\ OnStop(ops'[o], ops[o].n) \/ OnReady(ops'[o], ops[o].n)
<1>0. PICK n : n = ops[o].n
  OBVIOUS
<1>1. n \in Spots /\ n \in Nat /\ Len(journal) \in Nat
  BY <1>0 DEF Shapes, Aimed, RowShape, Spots
<1>2. PICK dead \in DeadRun(n) :
        LET ready == Last(n, {"ready"})
            stop == IF dead THEN n + 1 ELSE Last(n, {"stop"})
            onStop == dead \/ stop > ready
            p == IF onStop THEN stop ELSE ready
            prior == IF onStop THEN StopPrior(n, stop) ELSE ReadyPrior(ready)
        IN /\ p # 0 /\ prior < Rounds
           /\ ~onStop => Last(ready - 1, {"stop"}) # 0 \/ ReadyRec(ready) # 0
           /\ ops' = [ops EXCEPT ![o].pc = "claim", ![o].at = p, ![o].prior = prior,
                          ![o].way = IF onStop THEN "stop" ELSE "ready",
                          ![o].rec = IF onStop THEN lane.spec.rec ELSE ReadyRec(ready),
                          ![o].died = IF dead THEN lane.pid ELSE None]
  BY <1>0, ZenonT(60) DEF Judge
<1>3. PICK stop, ready, onStop, p, way, died, prior, rec :
        /\ ready = Last(n, {"ready"})
        /\ stop = IF dead THEN n + 1 ELSE Last(n, {"stop"})
        /\ onStop <=> dead \/ stop > ready
        /\ p = (IF onStop THEN stop ELSE ready) /\ p # 0
        /\ prior = (IF onStop THEN StopPrior(n, stop) ELSE ReadyPrior(ready)) /\ prior < Rounds
        /\ ~onStop => Last(ready - 1, {"stop"}) # 0 \/ ReadyRec(ready) # 0
        /\ way = (IF onStop THEN "stop" ELSE "ready")
        /\ rec = (IF onStop THEN lane.spec.rec ELSE ReadyRec(ready))
        /\ died = (IF dead THEN lane.pid ELSE None)
        /\ ops' = [ops EXCEPT ![o].pc = "claim", ![o].at = p, ![o].prior = prior,
                     ![o].way = way, ![o].rec = rec, ![o].died = died]
  BY <1>2, Zenon
<1>4. PICK d : d = ops[o] /\ Fielded(d) /\ d.verb = "return"
  BY VerbAt DEF VerbInv, CallShape, Judge, At
<1>5. PICK c : c = [ops[o] EXCEPT !.pc = "claim", !.at = p, !.prior = prior,
                                  !.way = way, !.rec = rec, !.died = died]
  OBVIOUS
<1>6. c = [d EXCEPT !.pc = "claim", !.at = p, !.prior = prior, !.way = way, !.rec = rec, !.died = died]
  BY <1>4, <1>5
<1>7. /\ Fielded(c) /\ c.pc = "claim" /\ c.verb = "return" /\ c.n = n
      /\ c.at = p /\ c.prior = prior /\ c.way = way /\ c.rec = rec /\ c.died = died
  BY <1>0, <1>4, <1>6 DEF Fielded
<1>8. ops' = [ops EXCEPT ![o] = c]
  BY <1>3, <1>5
<1>9. ops'[o] = c /\ Alone(o)
  BY <1>7, <1>8, Replaced DEF VerbInv, Alone
<1>10. /\ Last(n, {"ready"}) \in 0..n /\ (Last(n, {"ready"}) # 0 => Last(n, {"ready"}) \in Of(n, {"ready"}))
       /\ Last(n, {"stop"}) \in 0..n /\ (Last(n, {"stop"}) # 0 => Last(n, {"stop"}) \in Of(n, {"stop"}))
       /\ \A q \in Of(n, {"ready"}) : q <= Last(n, {"ready"})
  BY <1>1, LastRowOf DEF Of
<1>11. CASE onStop
  <2>1. way = "stop" /\ rec = lane.spec.rec /\ p = stop /\ prior = StopPrior(n, p)
    BY <1>3, <1>11
  <2>2. CASE dead
    <3>1. p = n + 1 /\ died # None
      BY <1>3, <2>1, <2>2, FoundOut
    <3>2. OnStop(c, n)
      BY <1>1, <1>7, <2>1, <3>1 DEF OnStop
    <3> QED
      BY <1>0, <1>3, <1>7, <1>9, <3>2 DEF Judge
  <2>3. CASE ~dead
    <3>1. p = Last(n, {"stop"}) /\ p > Last(n, {"ready"}) /\ died = None
      BY <1>3, <1>11, <2>1, <2>3
    <3>2. p \in Of(n, {"stop"}) /\ p \in 1..(n + 1)
      BY <1>1, <1>3, <1>10, <3>1
    <3>3. \A q \in 1..n : journal[q].ev = "ready" => q < p
      BY <1>1, <1>10, <3>1, <3>2 DEF Of
    <3>4. OnStop(c, n)
      BY <1>7, <2>1, <3>1, <3>2, <3>3 DEF OnStop
    <3> QED
      BY <1>0, <1>3, <1>7, <1>9, <3>4 DEF Judge
  <2> QED
    BY <2>2, <2>3
<1>12. CASE ~onStop
  <2>1. way = "ready" /\ rec = ReadyRec(p) /\ prior = ReadyPrior(p) /\ died = None
    BY <1>3, <1>12
  <2>2. p \in Of(n, {"ready"}) /\ (Last(p - 1, {"stop"}) # 0 \/ ReadyRec(p) # 0)
    BY <1>3, <1>10, <1>12
  <2>3. OnReady(c, n)
    BY <1>7, <2>1, <2>2 DEF OnReady
  <2> QED
    BY <1>0, <1>3, <1>7, <1>9, <2>3 DEF Judge
<1> QED
  BY <1>11, <1>12

\* A return on a ready row has counted what that row tells, and where it begins
\* is told of too.
LEMMA ReadyPriorOf ==
  ASSUME RowShape, Counts, NEW p \in 1..Len(journal), journal[p].ev = "ready",
         Last(p - 1, {"stop"}) # 0 \/ ReadyRec(p) # 0
  PROVE  /\ ReadyPrior(p) \in Nat /\ journal[p].num <= ReadyPrior(p)
         /\ ReadyRec(p) \in 0..p /\ \A f : Tells(journal, ReadyRec(p), f)
<1>1. p \in Nat \ {0} /\ Len(journal) \in Nat /\ p - 1 \in Nat /\ DOMAIN journal = 1..Len(journal)
  BY DEF RowShape
<1>2. PICK rec : rec = ReadyRec(p) /\ rec \in 0..p
  BY <1>1 DEF ReadyRec
<1>3. PICK stop : stop = Last(p - 1, {"stop"}) /\ stop \in 0..(p - 1) /\ (stop # 0 => stop \in Of(p - 1, {"stop"}))
  BY <1>1, LastRowOf DEF Of
<1>4. PICK a, b : a = (IF stop = 0 THEN p ELSE stop + 1) /\ b = (IF rec = 0 THEN p ELSE rec)
  OBVIOUS
<1>5. a \in Nat \ {0} /\ b \in Nat \ {0}
  BY <1>1, <1>2, <1>3, <1>4
<1>6. PICK from : from = Min({a, b})
  OBVIOUS
<1>7. from \in Nat \ {0}
  <2>1. {a, b} \in SUBSET (Nat \ {0}) /\ {a, b} # {}
    BY <1>5
  <2>2. Min({a, b}) \in {a, b}
    BY <2>1, FirstOf
  <2> QED
    BY <1>5, <1>6, <2>2
<1>8. PICK num, c : num = journal[p].num /\ c = Reviews(from, p - 1)
  OBVIOUS
<1>9. ReadyPrior(p) = Max({c, num})
  BY <1>2, <1>3, <1>4, <1>6, <1>8, Zenon DEF ReadyPrior
<1>10. num \in 0..Rounds /\ c \in 0..(p - 1) /\ Rounds \in Nat
  <2>1. c \in 0..(p - 1)
    BY <1>1, <1>7, <1>8, ReviewsBound DEF Reviews, ReviewRows
  <2> QED
    BY <1>8, <2>1, VerbsAssumption DEF Counts
<1>11. PICK k : k = Rounds + p
  OBVIOUS
<1>12. k \in Nat /\ {c, num} \in SUBSET (0..k) /\ {c, num} # {}
  BY <1>1, <1>10, <1>11
<1>13. Max({c, num}) \in {c, num} /\ \A x \in {c, num} : x <= Max({c, num})
  BY <1>12, LastOf
<1>14. ReadyPrior(p) \in Nat /\ num <= ReadyPrior(p)
  BY <1>9, <1>10, <1>13
<1>15. \E since \in Begins(journal, rec) : since \in Nat /\ since <= p
  <2>1. CASE rec # 0
    BY <1>1, <1>2, <2>1 DEF Begins
  <2>2. CASE stop # 0
    <3>1. stop \in DOMAIN journal /\ journal[stop].ev = "stop" /\ stop + 1 <= p /\ stop + 1 \in Nat
      BY <1>1, <1>3, <2>2 DEF Of
    <3>2. stop + 1 \in Begins(journal, rec)
      BY <3>1 DEF Begins
    <3> QED
      BY <3>1, <3>2
  <2> QED
    BY <1>2, <1>3, <2>1, <2>2
<1>16. \A f : Tells(journal, rec, f)
  BY <1>1, <1>15 DEF Tells
<1> QED
  BY <1>2, <1>8, <1>14, <1>16

\* A return that takes aim has counted.
LEMMA JudgeCounts ==
  ASSUME VerbInv, Shapes, Counts, NEW o \in Ops, Judge(o), ~Refuse(o)
  PROVE  /\ ops'[o].prior \in Nat /\ ops'[o].prior < Rounds
         /\ ops'[o].rec \in 0..(Len(journal) + 1)
         /\ Spent \in Nat /\ WorkBegan /\ SpecTells /\ ReadyCounts => CallTells(o)' /\ CallCounts(o)'
<1>1. PICK n : n = ops[o].n /\ n \in Spots /\ n \in Nat /\ n <= Len(journal) /\ Len(journal) \in Nat
  BY DEF Shapes, Aimed, RowShape, Spots
<1>2. PICK c : c = ops'[o]
  OBVIOUS
<1>3. /\ journal' = journal /\ lane' = lane /\ runs' = runs /\ ghost' = ghost
      /\ c.verb = "return" /\ c.pc = "claim" /\ c.n = n /\ c.prior < Rounds
      /\ OnStop(c, n) \/ OnReady(c, n)
  BY <1>1, <1>2, JudgedAs
<1>4. RowShape /\ (Looking(o)' <=> c.way = "stop") /\ ~Cleared(o)' /\ ~ToLaunch(o)' /\ Spent' = Spent
  BY <1>2, <1>3 DEF Shapes, Looking, Cleared, ClearedAt, Returning, ToLaunch, Spent
<1>5. CASE OnStop(c, n)
  <2>1. c.prior = StopPrior(n, c.at) /\ c.at \in 1..(n + 1) /\ c.rec = lane.spec.rec /\ c.way = "stop"
    BY <1>5 DEF OnStop
  <2>2. c.prior \in Nat /\ c.rec \in 0..(Len(journal) + 1)
    BY <1>1, <1>4, <2>1, StopPriorOf DEF Counts
  <2>3. ASSUME Spent \in Nat, WorkBegan, SpecTells, ReadyCounts
        PROVE  CallTells(o)' /\ CallCounts(o)'
    <3>1. \/ Tells(journal, c.rec, Spent)
          \/ Begins(journal, c.rec) = {} /\ Spent = 0
      BY <2>1, <2>3, Unspent DEF SpecTells, Unfinished
    <3>2. CallTells(o)'
      BY <1>2, <1>3, <1>4, <2>1, <3>1 DEF CallTells, ToLaunch
    <3>3. ASSUME c.n = Len(journal) PROVE StopCounts(o)'
      <4>1. CASE c.died # None /\ c.at = n + 1
        <5>1. Spent <= c.prior
          BY <1>1, <1>3, <2>1, <2>3, <3>3, <4>1, StopPriorTells
        <5> QED
          BY <1>2, <1>3, <1>4, <4>1, <5>1 DEF StopCounts
      <4>2. CASE /\ c.died = None /\ c.at \in Of(n, {"stop"}) /\ c.at = Last(n, {"stop"})
                 /\ \A q \in 1..n : journal[q].ev = "ready" => q < c.at
        <5>1. Reran(n, c.at) \/ Spent <= c.prior
          BY <1>1, <1>3, <2>1, <2>3, <3>3, <4>2, StopPriorTells
        <5>2. Last(n, {"stop"})' = Last(n, {"stop"}) /\ (Reran(n, c.at)' <=> Reran(n, c.at))
          BY <1>3 DEF Last, Of, Reran, After
        <5>3. Last(c.n, {"stop"})' = Last(n, {"stop"}) /\ (Reran(c.n, c.at)' <=> Reran(n, c.at))
          BY <1>3, <5>2 DEF Last, Of, Reran, After
        <5> QED
          BY <1>2, <1>3, <1>4, <4>2, <5>1, <5>3 DEF StopCounts, Last, Of, Reran, After
      <4> QED
        BY <1>5, <4>1, <4>2 DEF OnStop
    <3>4. CallCounts(o)'
      BY <1>2, <1>3, <1>4, <2>1, <3>3 DEF CallCounts
    <3> QED
      BY <3>2, <3>4
  <2> QED
    BY <1>2, <1>3, <2>2, <2>3
<1>6. CASE OnReady(c, n)
  <2>1. /\ c.way = "ready" /\ c.at \in 1..Len(journal) /\ journal[c.at].ev = "ready"
        /\ c.prior = ReadyPrior(c.at) /\ c.rec = ReadyRec(c.at)
        /\ Last(c.at - 1, {"stop"}) # 0 \/ ReadyRec(c.at) # 0
    BY <1>1, <1>6 DEF OnReady, Of
  <2>2. /\ c.prior \in Nat /\ journal[c.at].num <= c.prior
        /\ c.rec \in 0..c.at /\ \A f : Tells(journal, c.rec, f)
    BY <1>4, <2>1, ReadyPriorOf
  <2>3. c.rec \in 0..(Len(journal) + 1)
    BY <1>1, <2>1, <2>2
  <2>4. CallTells(o)'
    BY <1>2, <1>3, <1>4, <2>1, <2>2 DEF CallTells, ToLaunch
  <2>5. CallCounts(o)'
    BY <1>2, <1>3, <1>4, <2>1, <2>2 DEF CallCounts
  <2> QED
    BY <1>2, <1>3, <2>2, <2>3, <2>4, <2>5
<1> QED
  BY <1>3, <1>5, <1>6

\* A call that has its decision claimed goes on with what it has counted.
LEMMA ClaimedAs ==
  ASSUME VerbInv, NEW o \in Ops, ClaimDecision(o), ~Refuse(o)
  PROVE  /\ UNCHANGED <<journal, lane, runs, ghost>> /\ Alone(o) /\ ops[o].pc = "claim"
         /\ ops'[o].verb = ops[o].verb /\ ops'[o].way = ops[o].way /\ ops'[o].n = ops[o].n
         /\ ops'[o].at = ops[o].at /\ ops'[o].stake = ops[o].at /\ ops'[o].died = ops[o].died
         /\ ops'[o].rec = ops[o].rec /\ ops'[o].prior = ops[o].prior
         /\ ops[o].verb = "return" => ops'[o].pc = IF ops[o].way = "stop" THEN "recheck" ELSE "stake"
<1>1. PICK d : d = ops[o] /\ Fielded(d)
  BY DEF VerbInv, CallShape
<1>2. PICK pc : /\ pc = CASE ops[o].verb = "accept" -> "head"
                          [] ops[o].verb = "abandon" -> "decide"
                          [] OTHER -> IF ops[o].way = "stop" THEN "recheck" ELSE "stake"
                /\ ops' = [ops EXCEPT ![o].pc = pc, ![o].stake = ops[o].at]
  BY DEF ClaimDecision
<1>3. PICK c : c = [ops[o] EXCEPT !.pc = pc, !.stake = ops[o].at]
  OBVIOUS
<1>4. c = [d EXCEPT !.pc = pc, !.stake = d.at]
  BY <1>1, <1>3
<1>5. /\ Fielded(c) /\ c.pc = pc /\ c.verb = d.verb /\ c.at = d.at /\ c.stake = d.at
      /\ c.n = d.n /\ c.way = d.way /\ c.died = d.died /\ c.rec = d.rec /\ c.prior = d.prior
  BY <1>1, <1>4 DEF Fielded
<1>6. ops' = [ops EXCEPT ![o] = c]
  BY <1>2, <1>3
<1>7. ops'[o] = c /\ Alone(o)
  BY <1>5, <1>6, Replaced DEF VerbInv, Alone
<1>8. UNCHANGED <<journal, lane, runs, ghost>> /\ ops[o].pc = "claim"
  BY DEF ClaimDecision, At
<1>9. ops[o].verb = "return" => pc = IF ops[o].way = "stop" THEN "recheck" ELSE "stake"
  BY <1>2
<1> QED
  BY <1>1, <1>5, <1>7, <1>8, <1>9

\* No run has written since an end that is quiet: no review either.
LEMMA QuietCounts ==
  ASSUME RowShape, NEW p \in Spots, NoRunBetween(p, Len(journal))
  PROVE  Reviews(p + 1, Len(journal)) = 0
<1>1. ReviewRows(journal, p + 1, Len(journal)) = {}
  BY DEF NoRunBetween, ReviewRows, CallRows
<1> QED
  BY <1>1, FS_EmptySet DEF Reviews, ReviewRows

\* On a ready row it has counted every review.
LEMMA ClaimCounts ==
  ASSUME VerbInv, Shapes, Races', Counts, NEW o \in Ops, ClaimDecision(o), ~Refuse(o),
         Spent \in Nat, ReadyCounts, CallTells(o), CallCounts(o)
  PROVE  CallTells(o)' /\ CallCounts(o)'
<1>1. PICK c, d : c = ops'[o] /\ d = ops[o]
  OBVIOUS
<1>2. /\ journal' = journal /\ lane' = lane /\ runs' = runs /\ ghost' = ghost /\ d.pc = "claim"
      /\ c.verb = d.verb /\ c.way = d.way /\ c.n = d.n /\ c.at = d.at /\ c.stake = d.at
      /\ c.died = d.died /\ c.rec = d.rec /\ c.prior = d.prior
      /\ d.verb = "return" => c.pc = IF d.way = "stop" THEN "recheck" ELSE "stake"
  BY <1>1, ClaimedAs
<1>3. Spent' = Spent /\ ~ToLaunch(o)' 
  <2>1. c.verb = "return" => c.pc \in {"recheck", "stake"}
    BY <1>2
  <2> QED
    BY <1>1, <1>2, <2>1 DEF Spent, ToLaunch
<1>4. CASE d.verb # "return"
  <2>1. ~Aiming(o)' /\ ~Looking(o)' /\ ~Cleared(o)'
    BY <1>1, <1>2, <1>4 DEF Aiming, AimsAt, Looking, Cleared, ClearedAt
  <2> QED
    BY <1>3, <2>1 DEF CallTells, CallCounts, ToLaunch
<1>5. CASE d.verb = "return"
  <2>1. Aiming(o) /\ d.way \in {"stop", "ready"}
    BY <1>1, <1>2, <1>5 DEF Shapes, Aimed, Aiming, AimsAt
  <2>2. CASE d.way = "stop"
    <3>1. Looking(o) /\ Looking(o)' /\ ~Cleared(o)'
      BY <1>1, <1>2, <1>5, <2>2 DEF Looking, Cleared, ClearedAt
    <3>2. CallTells(o)'
      BY <1>1, <1>2, <1>3, <2>1, <3>1 DEF CallTells, ToLaunch
    <3>3. StopCounts(o) => StopCounts(o)'
      BY <1>1, <1>2, <1>3 DEF StopCounts, Last, Of, Reran, After
    <3> QED
      BY <1>1, <1>2, <2>2, <3>1, <3>2, <3>3 DEF CallCounts
  <2>3. CASE d.way = "ready"
    <3>1. ~Looking(o) /\ ~Looking(o)' /\ Cleared(o)'
      BY <1>1, <1>2, <1>5, <2>3 DEF Looking, Cleared, ClearedAt, Returning
    <3>2. CallTells(o)'
      BY <1>1, <1>2, <1>3, <2>1, <3>1 DEF CallTells, ToLaunch
    <3>3. d.died = None /\ d.at \in 1..Len(journal) /\ journal[d.at].ev = "ready" /\ journal[d.at].num <= d.prior
      BY <1>1, <2>1, <2>3 DEF Shapes, Aimed, CallCounts
    <3>4. EndOf(ops[o])' = d.at
      BY <1>1, <1>2, <3>3 DEF EndOf
    <3>5. Quiet(d.at) \/ Retaken(o)'
      BY <1>2, <3>1, <3>4 DEF Races, ClearedQuiet, Quiet, NoneAtWork, AtWork, NoRunBetween
    <3>6. CASE Quiet(d.at)
      <4>1. d.at \in Spots /\ RowShape
        BY <3>3 DEF Shapes, RowShape, Spots
      <4>2. Reviews(d.at + 1, Len(journal)) = 0
        BY <3>6, <4>1, QuietCounts DEF Quiet
      <4>3. PICK num : num = journal[d.at].num /\ num \in Nat
        BY <3>3, VerbsAssumption DEF Counts
      <4>4. Spent <= num + 0 /\ num <= d.prior /\ d.prior \in Nat
        BY <1>1, <2>1, <3>3, <4>2, <4>3 DEF ReadyCounts, Counts
      <4>5. Spent <= d.prior
        BY <4>3, <4>4
      <4> QED
        BY <1>1, <1>2, <1>3, <3>1, <3>2, <3>3, <4>5 DEF CallCounts
    <3>7. CASE Retaken(o)'
      BY <1>1, <1>2, <1>3, <3>1, <3>2, <3>3, <3>7 DEF CallCounts
    <3> QED
      BY <3>5, <3>6, <3>7
  <2> QED
    BY <2>1, <2>2, <2>3
<1> QED
  BY <1>4, <1>5

\* What it goes on with.
LookedAgain(o, dead, stop) ==
  /\ stop = (IF dead THEN Len(journal) + 1 ELSE Last(Len(journal), {"stop"}))
  /\ stop # 0 /\ ~Reran(Len(journal), stop)
  /\ ops[o].died # None => dead
  /\ ops'[o].stake = stop
  /\ ops'[o].rec = IF ~dead THEN ops[o].rec
                   ELSE Min({stop, IF ops[o].rec = 0 THEN stop ELSE ops[o].rec})

\* A return that looks at its end again goes on with what it has counted.
LEMMA RecheckedAs ==
  ASSUME VerbInv, NEW o \in Ops, Recheck(o), ~Forfeit(o)
  PROVE  /\ UNCHANGED <<journal, lane, runs, ghost>> /\ Alone(o)
         /\ ops[o].verb = "return" /\ ops[o].pc = "recheck" /\ ops[o].n = Len(journal)
         /\ ops'[o].verb = "return" /\ ops'[o].pc = "stake"
         /\ ops'[o].way = ops[o].way /\ ops'[o].n = ops[o].n /\ ops'[o].at = ops[o].at
         /\ ops'[o].prior = ops[o].prior
         /\ \E dead \in DeadRun(Len(journal)) : \E stop : LookedAgain(o, dead, stop)
<1>0. PICK n : n = Len(journal)
  OBVIOUS
<1>1. PICK dead \in DeadRun(n) :
        LET stop == IF dead THEN n + 1 ELSE Last(n, {"stop"})
            rec == ops[o].rec
            sound == /\ n = ops[o].n
                     /\ lane.tree
                     /\ ops[o].died # None => dead /\ lane.pid = ops[o].died
                     /\ stop # 0 /\ ~Reran(n, stop)
                     /\ Of(n, {"pr"}) = {}
                     /\ UndoOk(n) /\ (Standing(n) # 0 => lane.tip = 0)
                     /\ Of(n, {"build"}) # {}
        IN sound /\ ops' = [ops EXCEPT ![o].pc = "stake", ![o].stake = stop,
                            ![o].died = IF dead THEN lane.pid ELSE None,
                            ![o].rec = IF ~dead THEN rec
                                       ELSE Min({stop, IF rec = 0 THEN stop ELSE rec})]
  BY <1>0 DEF Recheck
<1>2. PICK stop, died, rec :
        /\ stop = (IF dead THEN n + 1 ELSE Last(n, {"stop"}))
        /\ n = ops[o].n /\ (ops[o].died # None => dead) /\ stop # 0 /\ ~Reran(n, stop)
        /\ rec = (IF ~dead THEN ops[o].rec ELSE Min({stop, IF ops[o].rec = 0 THEN stop ELSE ops[o].rec}))
        /\ ops' = [ops EXCEPT ![o].pc = "stake", ![o].stake = stop, ![o].died = died, ![o].rec = rec]
  BY <1>1, Zenon
<1>3. PICK d : d = ops[o] /\ Fielded(d) /\ d.verb = "return" /\ d.pc = "recheck"
  BY VerbAt DEF VerbInv, CallShape, Recheck, At
<1>4. PICK c : c = [ops[o] EXCEPT !.pc = "stake", !.stake = stop, !.died = died, !.rec = rec]
  OBVIOUS
<1>5. c = [d EXCEPT !.pc = "stake", !.stake = stop, !.died = died, !.rec = rec]
  BY <1>3, <1>4
<1>6. /\ Fielded(c) /\ c.verb = "return" /\ c.pc = "stake" /\ c.way = d.way /\ c.at = d.at /\ c.n = d.n
      /\ c.prior = d.prior /\ c.stake = stop /\ c.rec = rec
  BY <1>3, <1>5 DEF Fielded
<1>7. ops' = [ops EXCEPT ![o] = c]
  BY <1>2, <1>4
<1>8. ops'[o] = c /\ Alone(o)
  BY <1>6, <1>7, Replaced DEF VerbInv, Alone
<1>9. UNCHANGED <<journal, lane, runs, ghost>>
  BY DEF Recheck, files
<1>10. LookedAgain(o, dead, stop)
  BY <1>0, <1>2, <1>6, <1>8 DEF LookedAgain
<1>11. ops[o].n = Len(journal) /\ dead \in DeadRun(Len(journal))
  BY <1>0, <1>1, <1>2
<1> QED
  BY <1>3, <1>6, <1>8, <1>9, <1>10, <1>11

\* If the end is the one it claimed, it has counted for it.
LEMMA RecheckCounts ==
  ASSUME VerbInv, Shapes, Counts, NEW o \in Ops, Recheck(o), ~Forfeit(o)
  PROVE  /\ ops'[o].prior = ops[o].prior /\ ops'[o].rec \in 0..(Len(journal) + 1)
         /\ Spent \in Nat /\ CallTells(o) /\ CallCounts(o) => CallTells(o)' /\ CallCounts(o)'
<1>1. PICK c, d, n : c = ops'[o] /\ d = ops[o] /\ n = Len(journal)
  OBVIOUS
<1>2. /\ journal' = journal /\ lane' = lane /\ runs' = runs /\ ghost' = ghost
      /\ d.verb = "return" /\ d.pc = "recheck" /\ d.n = n /\ c.verb = "return" /\ c.pc = "stake"
      /\ c.way = d.way /\ c.n = d.n /\ c.at = d.at /\ c.prior = d.prior
  BY <1>1, RecheckedAs
<1>10. PICK dead \in DeadRun(Len(journal)) : \E stop : LookedAgain(o, dead, stop)
  BY RecheckedAs
<1>11. PICK stop : LookedAgain(o, dead, stop)
  BY <1>10
<1>3. /\ dead \in DeadRun(n) /\ stop # 0 /\ (d.died # None => dead) /\ c.stake = stop
      /\ ~Reran(n, stop)
      /\ stop = (IF dead THEN n + 1 ELSE Last(n, {"stop"}))
      /\ c.rec = IF ~dead THEN d.rec ELSE Min({stop, IF d.rec = 0 THEN stop ELSE d.rec})
  <2>1. /\ dead \in DeadRun(n) /\ stop # 0 /\ (d.died # None => dead) /\ c.stake = stop
        /\ ~Reran(n, stop)
    BY <1>1, <1>10, <1>11, Zenon DEF LookedAgain
  <2>2. stop = (IF dead THEN n + 1 ELSE Last(n, {"stop"}))
    BY <1>1, <1>11, Zenon DEF LookedAgain
  <2>3. c.rec = IF ~dead THEN d.rec ELSE Min({stop, IF d.rec = 0 THEN stop ELSE d.rec})
    BY <1>1, <1>11, Zenon DEF LookedAgain
  <2> QED
    BY <2>1, <2>2, <2>3
<1>4. /\ RowShape /\ n \in Nat /\ DOMAIN journal = 1..n
      /\ Last(n, {"stop"}) \in 0..n /\ (Last(n, {"stop"}) # 0 => Last(n, {"stop"}) \in Of(n, {"stop"}))
  <2>1. RowShape /\ n \in Nat /\ DOMAIN journal = 1..n
    BY <1>1 DEF Shapes, RowShape
  <2> QED
    BY <2>1, LastRowOf DEF Of
<1>5. Aiming(o) /\ d.way = "stop" /\ Looking(o) /\ Aiming(o)' /\ ~Looking(o)' /\ Cleared(o)' /\ ~ToLaunch(o)'
  <2>1. Aiming(o)
    BY <1>1, <1>2 DEF Aiming, AimsAt, Returning
  <2>2. d.way = "stop"
    BY <1>1, <1>2, <2>1 DEF Shapes, Aimed
  <2> QED
    BY <1>1, <1>2, <2>1, <2>2 DEF Looking, Aiming, AimsAt, Cleared, ClearedAt, ToLaunch, Returning
<1>6. PICK rec : rec = d.rec /\ rec \in 0..(n + 1)
  BY <1>1, <1>5 DEF Counts
<1>7. c.rec = (IF dead /\ rec = 0 THEN n + 1 ELSE rec)
  <2>1. CASE ~dead
    BY <1>3, <1>6, <2>1
  <2>2. CASE dead
    <3>1. PICK b : b = IF rec = 0 THEN n + 1 ELSE rec
      OBVIOUS
    <3>2. c.rec = Min({n + 1, b}) /\ b \in 1..(n + 1)
      BY <1>3, <1>4, <1>6, <2>2, <3>1
    <3>3. {n + 1, b} \in SUBSET (Nat \ {0}) /\ {n + 1, b} # {}
      BY <1>4, <3>2
    <3>4. Min({n + 1, b}) \in {n + 1, b} /\ \A q \in {n + 1, b} : Min({n + 1, b}) <= q
      BY <3>3, FirstOf
    <3>5. c.rec \in {n + 1, b} /\ c.rec <= b
      BY <3>2, <3>4
    <3>6. c.rec = b
      BY <1>4, <3>2, <3>5
    <3> QED
      BY <2>2, <3>1, <3>6
  <2> QED
    BY <2>1, <2>2
<1>8. c.rec \in 0..(n + 1)
  BY <1>4, <1>6, <1>7
<1>9. ASSUME Spent \in Nat, CallTells(o), CallCounts(o)
      PROVE  CallTells(o)' /\ CallCounts(o)'
  <2>1. Spent' = Spent
    BY <1>2 DEF Spent
  <2>2. Tells(journal, rec, Spent) \/ (Begins(journal, rec) = {} /\ Spent = 0)
    BY <1>1, <1>2, <1>5, <1>6, <1>9 DEF CallTells
  <2>3. Tells(journal, c.rec, Spent)
    <3>1. CASE dead /\ rec = 0
      <4>1. n + 1 \in Begins(journal, n + 1) /\ Begins(journal, rec) \subseteq Begins(journal, n + 1)
        BY <1>4, <3>1 DEF Begins
      <4>2. CASE Tells(journal, rec, Spent)
        BY <1>7, <3>1, <4>1, <4>2 DEF Tells
      <4>3. CASE Spent = 0
        <5>1. n + 1 \in Nat /\ Len(journal) \in Nat
          BY <1>1, <1>4
        <5>2. Cardinality(ReviewRows(journal, n + 1, Len(journal))) \in Nat
          BY <5>1, ReviewsNat
        <5>3. Spent <= Cardinality(ReviewRows(journal, n + 1, Len(journal)))
          BY <4>3, <5>2
        <5> QED
          BY <1>7, <3>1, <4>1, <5>3 DEF Tells, ReviewRows
      <4> QED
        BY <2>2, <4>2, <4>3
    <3>2. CASE rec # 0
      <4>1. rec \in Begins(journal, rec)
        BY <3>2 DEF Begins
      <4> QED
        BY <1>7, <2>2, <3>2, <4>1
    <3>3. CASE ~dead
      <4>1. stop \in Of(n, {"stop"})
        BY <1>3, <1>4, <3>3
      <4>2. stop + 1 \in Begins(journal, rec)
        BY <1>4, <4>1 DEF Begins, Of
      <4> QED
        BY <1>7, <2>2, <3>3, <4>2
    <3> QED
      BY <3>1, <3>2, <3>3
  <2>4. CallTells(o)'
    BY <1>1, <1>2, <1>5, <2>1, <2>3 DEF CallTells, ToLaunch
  <2>5. StopCounts(o)
    BY <1>1, <1>2, <1>5, <1>9 DEF CallCounts
  <2>6. c.stake # c.at \/ Spent <= c.prior
    <3>1. CASE d.died # None
      BY <1>1, <1>2, <2>5, <3>1 DEF StopCounts
    <3>2. CASE d.died = None /\ dead
      <4>1. c.at = Last(n, {"stop"}) /\ c.stake = n + 1
        BY <1>1, <1>2, <1>3, <2>5, <3>2 DEF StopCounts
      <4> QED
        BY <1>4, <4>1
    <3>3. CASE d.died = None /\ ~dead
      <4>1. c.at = Last(n, {"stop"}) /\ (Reran(n, c.at) \/ Spent <= c.prior)
        BY <1>1, <1>2, <2>5, <3>3 DEF StopCounts
      <4> QED
        BY <1>3, <3>3, <4>1
    <3> QED
      BY <3>1, <3>2, <3>3
  <2>7. CallCounts(o)'
    BY <1>1, <1>2, <1>5, <2>1, <2>6 DEF CallCounts
  <2> QED
    BY <2>4, <2>7
<1> QED
  BY <1>1, <1>2, <1>8, <1>9

-----------------------------------------------------------------------------
(* A step of a call                                                        *)

\* Only what it decides on makes a call hold a count it did not hold.
Weighs(o) ==
  \/ Judge(o) /\ ~Refuse(o)
  \/ ClaimDecision(o) /\ ~Refuse(o)
  \/ Recheck(o) /\ ~Forfeit(o)

\* How a call goes on.
LEMMA CallTurns ==
  ASSUME VerbInv, Shapes, NEW o \in Ops, Verb(o)
  PROVE  Alone(o) /\ (~Aiming(o)' \/ Forth(o) \/ Weighs(o))
<1>1. CASE Leave(o)
  BY <1>1, AwayRead DEF VerbInv
<1>2. CASE Weighs(o)
  BY <1>2, JudgedAs, ClaimedAs, RecheckedAs DEF Weighs
<1>3. CASE ~Leave(o) /\ ~Weighs(o)
  BY <1>3, CallSteps DEF Weighs, Refuse, Forfeit
<1> QED
  BY <1>1, <1>2, <1>3

\* A call that launches has the place to begin at in finish.json.
LEMMA SpecWritten ==
  ASSUME LaneShape, NEW o \in Ops, WriteSpec(o)
  PROVE  journal' = journal /\ runs' = runs /\ (Leave(o) \/ lane'.spec.rec = ops[o].rec)
<1>1. PICK l, s : /\ l = lane /\ Laned(l)
                  /\ s = [rec |-> ops[o].rec,
                          died |-> IF ops[o].way = "stop" THEN ops[o].died # None ELSE ops[o].rec # 0]
  BY DEF LaneShape
<1>2. Leave(o) \/ lane' = [l EXCEPT !.spec = s]
  BY <1>1 DEF WriteSpec, Release, LetGo
<1> QED
  BY <1>1, <1>2 DEF Laned, WriteSpec, Release, LetGo

\* A call does no review, and writes no row that a count looks at.
LEMMA VerbSpent ==
  ASSUME VerbInv, Shapes, NEW o \in Ops, Verb(o)
  PROVE  /\ Spent' = Spent /\ RowsGrow
         /\ \A p \in (Len(journal) + 1)..Len(journal') : journal'[p].ev \in CallRows
<1>1. RowsKept /\ (runs' = runs \/ Spawn(o))
  BY VerbsTell, VerbsKeep
<1>2. Spent' = Spent
  <2>1. CASE runs' = runs
    BY <2>1 DEF Spent
  <2>2. CASE Spawn(o)
    <3>1. runs' = Append(runs, NewRun(o)) /\ NewRun(o).reviews = 0
      BY <2>2 DEF Spawn, NewRun
    <3> QED
      BY <3>1, SpentAnew DEF Shapes
  <2> QED
    BY <1>1, <2>1, <2>2
<1>3. CASE journal' = journal
  <2>1. (Len(journal) + 1)..Len(journal') = {}
    BY <1>3 DEF Shapes, RowShape
  <2> QED
    BY <1>2, <1>3, <2>1 DEF RowsGrow
<1>4. CASE \E row : row.ev \in CallRows /\ Put(row)
  <2>1. PICK row : row.ev \in CallRows /\ Put(row)
    BY <1>4
  <2>2. row.ev \in Kinds
    BY <2>1 DEF Kinds
  <2>3. Len(journal) \in Nat /\ Len(journal') = Len(journal) + 1 /\ journal'[Len(journal) + 1] = row
    BY <2>1, <2>2, RowAfter DEF Shapes
  <2>4. \A p \in (Len(journal) + 1)..Len(journal') : journal'[p] = row
    BY <2>3
  <2> QED
    BY <1>2, <2>1, <2>2, <2>4 DEF RowsGrow
<1> QED
  BY <1>1, <1>3, <1>4 DEF RowsKept

\* The counts stay within their bounds.
LEMMA CountsVerb ==
  ASSUME VerbInv, Shapes, Counts, NEW o \in Ops, Verb(o)
  PROVE  Counts'
<1>1. /\ RowsGrow /\ RowShape /\ RowShape' /\ RowsStay
      /\ \A p \in (Len(journal) + 1)..Len(journal') : journal'[p].ev \in CallRows
  BY VerbSpent, Grows DEF Shapes
<1>2. PICK n, m : n = Len(journal) /\ m = Len(journal') /\ n \in Nat /\ m \in Nat /\ n <= m
  BY <1>1 DEF RowsStay
<1>3. /\ \A p \in 1..n : journal'[p] = journal[p]
      /\ \A p \in (n + 1)..m : journal'[p].ev \in CallRows
  BY <1>1, <1>2 DEF RowsStay
<1>4. Alone(o) /\ (~Aiming(o)' \/ Forth(o) \/ Weighs(o))
  BY CallTurns
<1>5. ASSUME NEW r \in DOMAIN runs'
      PROVE  /\ runs'[r].reviews \in Nat
             /\ runs'[r].finish => runs'[r].prior \in Nat /\ runs'[r].prior + runs'[r].reviews <= Rounds
  <2>1. CASE runs' = runs
    BY <2>1 DEF Counts
  <2>2. CASE Spawn(o)
    <3>1. runs' = Append(runs, NewRun(o)) /\ Worked(NewRun(o)) /\ RunShape
      BY <2>2 DEF Spawn, NewRun, Worked, Shapes
    <3>2. PICK k : k = Len(runs) /\ k \in Nat /\ DOMAIN runs = 1..k /\ DOMAIN runs' = 1..(k + 1)
      BY <3>1, RunAfter
    <3>3. \A s \in 1..k : runs'[s] = runs[s]
      BY <3>1, <3>2, RunAfter
    <3>4. runs'[k + 1] = NewRun(o)
      BY <3>1, <3>2, RunAfter
    <3>5. CASE r = k + 1
      <4>1. /\ runs'[r].reviews = 0 /\ runs'[r].prior = ops[o].prior
            /\ runs'[r].finish <=> ops[o].verb # "start"
        <5>1. runs'[r] = NewRun(o)
          BY <3>4, <3>5
        <5>2. NewRun(o).reviews = 0 /\ NewRun(o).prior = ops[o].prior
          BY DEF NewRun
        <5>3. NewRun(o).finish <=> ops[o].verb # "start"
          BY DEF NewRun
        <5> QED
          BY <5>1, <5>2, <5>3
      <4>2. ops[o].verb # "start" => Aiming(o)
        BY <2>2, VerbAt DEF VerbInv, Spawn, At, Aiming, AimsAt, Returning
      <4>3. Aiming(o) => ops[o].prior \in Nat /\ ops[o].prior < Rounds /\ Rounds \in Nat
        BY VerbsAssumption DEF Counts
      <4>4. runs'[r].finish => ops[o].prior \in Nat /\ ops[o].prior < Rounds /\ Rounds \in Nat
        BY <4>1, <4>2, <4>3
      <4> QED
        BY <4>1, <4>4
    <3>6. CASE r # k + 1
      <4>1. r \in 1..k
        BY <3>2, <3>6
      <4> QED
        BY <3>2, <3>3, <4>1 DEF Counts
    <3> QED
      BY <3>5, <3>6
  <2> QED
    BY <2>1, <2>2, VerbsKeep
<1>6. ASSUME NEW p \in 1..m, journal'[p].ev = "ready" PROVE journal'[p].num \in 0..Rounds
  <2>1. p \in 1..n
    BY <1>2, <1>3, <1>6 DEF CallRows
  <2> QED
    BY <1>2, <1>3, <1>6, <2>1 DEF Counts
<1>7. ASSUME NEW q \in Ops, Aiming(q)
      PROVE  ops[q].prior \in Nat /\ ops[q].prior < Rounds /\ ops[q].rec \in 0..(m + 1)
  <2>1. ops[q].prior \in Nat /\ ops[q].prior < Rounds /\ ops[q].rec \in 0..(n + 1)
    BY <1>2, <1>7 DEF Counts
  <2> QED
    BY <1>2, <2>1
<1>8. lane'.spec.rec \in 0..(m + 1)
  <2>1. CASE lane'.spec = lane.spec
    BY <1>2, <2>1 DEF Counts
  <2>2. CASE WriteSpec(o) /\ lane'.spec.rec = ops[o].rec
    <3>1. Aiming(o)
      BY <2>2, VerbAt DEF VerbInv, WriteSpec, At, Aiming, AimsAt, Returning
    <3> QED
      BY <1>7, <2>2, <3>1
  <2> QED
    BY <2>1, <2>2, SpecKeeps DEF Shapes
<1>9. ASSUME NEW q \in Ops, Aiming(q)'
      PROVE  ops'[q].prior \in Nat /\ ops'[q].prior < Rounds /\ ops'[q].rec \in 0..(m + 1)
  <2>1. CASE q # o
    BY <1>4, <1>7, <1>9, <2>1 DEF Alone, Aiming
  <2>2. CASE q = o /\ Forth(o)
    <3>1. Aiming(o) /\ SameCall(o)
      BY <2>2 DEF Forth, Cleared, ClearedAt, Aiming, AimsAt
    <3> QED
      BY <1>7, <2>2, <3>1 DEF SameCall
  <2>3. CASE q = o /\ Judge(o) /\ ~Refuse(o)
    <3>1. journal' = journal
      BY <2>3, JudgedAs
    <3> QED
      BY <1>2, <2>3, <3>1, JudgeCounts
  <2>4. CASE q = o /\ ClaimDecision(o) /\ ~Refuse(o)
    <3>1. ops[o].pc = "claim" /\ ops'[o].verb = ops[o].verb /\ ops'[o].prior = ops[o].prior /\ ops'[o].rec = ops[o].rec
      BY <2>4, ClaimedAs
    <3>2. Aiming(o)
      BY <1>9, <2>4, <3>1 DEF Aiming, AimsAt
    <3> QED
      BY <1>7, <2>4, <3>1, <3>2
  <2>5. CASE q = o /\ Recheck(o) /\ ~Forfeit(o)
    <3>1. /\ journal' = journal /\ ops[o].verb = "return" /\ ops[o].pc = "recheck"
          /\ ops'[o].prior = ops[o].prior
      BY <2>5, RecheckedAs
    <3>2. Aiming(o)
      BY <3>1 DEF Aiming, AimsAt, Returning
    <3>3. ops'[o].rec \in 0..(Len(journal) + 1)
      BY <2>5, RecheckCounts
    <3> QED
      BY <1>2, <1>7, <2>5, <3>1, <3>2, <3>3
  <2> QED
    BY <1>4, <1>9, <2>1, <2>2, <2>3, <2>4, <2>5 DEF Weighs
<1> QED
  BY <1>2, <1>5, <1>6, <1>8, <1>9 DEF Counts

\* A count that is excused stays so.
LEMMA ExcusedStays ==
  ASSUME VerbInv, NEW o \in Ops, Verb(o)
  PROVE  Excused => Excused'
<1>1. (ghost.raced => ghost'.raced) /\ (Spawn(o) \/ Launches' = Launches)
  BY VerbsTell
<1>2. CASE Spawn(o)
  <2>1. Launches \subseteq Launches'
    BY <1>2, SpawnRaces DEF VerbInv, Launches
  <2> QED
    BY <1>1, <2>1 DEF Excused
<1>3. CASE Launches' = Launches
  BY <1>1, <1>3 DEF Excused
<1> QED
  BY <1>1, <1>2, <1>3

\* A finish that is launched counts every review there was.
LEMMA LaunchCounts ==
  ASSUME VerbInv, Shapes, NEW o \in Ops, Spawn(o), ~Excused', CallCounts(o)
  PROVE  /\ ToLaunch(o) \/ ops[o].verb = "start"
         /\ runs' = Append(runs, NewRun(o)) /\ (NewRun(o).finish <=> ops[o].verb # "start")
         /\ NewRun(o).prior = ops[o].prior
         /\ ops[o].verb # "start" => Spent <= ops[o].prior
<1>1. runs' = Append(runs, NewRun(o))
  BY DEF Spawn
<1>2. NewRun(o).prior = ops[o].prior
  BY DEF NewRun
<1>3. NewRun(o).finish <=> ops[o].verb # "start"
  BY DEF NewRun
<1>4. ops[o].verb = "start" \/ (Cleared(o) /\ ToLaunch(o))
  BY VerbAt DEF VerbInv, Spawn, At, Cleared, ClearedAt, Returning, ToLaunch
<1>5. ASSUME ops[o].verb # "start" PROVE Spent <= ops[o].prior
  <2>1. PICK act : act = Act(o, "return", Len(runs) + 1)
    OBVIOUS
  <2>2. act.what = "return" /\ act.stake = ops[o].stake /\ act.at = ops[o].at
    BY <2>1 DEF Act
  <2>3. act \in Launches' /\ ghost'.raced = (ghost.raced \/ Retaken(o))
    BY <1>5, <2>1, <2>2, SpawnRaces DEF VerbInv, Launches
  <2>4. ops[o].stake = ops[o].at /\ ~Retaken(o)
    BY <2>2, <2>3 DEF Excused
  <2> QED
    BY <1>4, <1>5, <2>4 DEF CallCounts
<1> QED
  BY <1>1, <1>2, <1>3, <1>4, <1>5

\* What a finish begins with is in finish.json, in the journal's terms.
LEMMA SpecGoes ==
  ASSUME VerbInv, Shapes, Counts, Counts', NEW o \in Ops, Verb(o), ~Excused', Budgets
  PROVE  /\ SpecTells'
         /\ lane'.spec = lane.spec \/ Begins(journal', lane'.spec.rec) # {}
         /\ WriteSpec(o) /\ ToLaunch(o)' => Begins(journal', lane'.spec.rec) # {}
<1>1. /\ RowsGrow /\ RowShape /\ RowShape' /\ RowsStay /\ Spent' = Spent /\ Tallied
      /\ \A p \in (Len(journal) + 1)..Len(journal') : journal'[p].ev \in CallRows
  BY VerbSpent, Grows DEF Shapes, Tallied
<1>2. Spent \in Nat /\ Spent' \in Nat
  BY <1>1, SpentNat DEF Shapes
<1>3. \A p \in (Len(journal) + 1)..Len(journal') : journal'[p].ev # "stop"
  BY <1>1 DEF CallRows
<1>4. SpecTells /\ CallTells(o) /\ CallCounts(o)
  BY DEF Budgets
<1>5. ASSUME WriteSpec(o), lane'.spec.rec = ops[o].rec
      PROVE  Tells(journal', lane'.spec.rec, Spent')
  <2>1. Aiming(o) /\ ~Looking(o)
    BY <1>5, VerbAt DEF VerbInv, WriteSpec, At, Aiming, AimsAt, Returning, Looking
  <2>2. Tells(journal, ops[o].rec, Spent) /\ ops[o].rec \in 0..(Len(journal) + 1)
    BY <1>4, <2>1 DEF CallTells, Counts
  <2> QED
    BY <1>1, <1>2, <1>5, <2>2, TellsOn
<1>6. ASSUME NEW rec, Tells(journal', rec, Spent') PROVE Begins(journal', rec) # {}
  BY <1>6 DEF Tells
<1>7. WriteSpec(o) /\ ToLaunch(o)' => Begins(journal', lane'.spec.rec) # {}
  <2> SUFFICES ASSUME WriteSpec(o), ToLaunch(o)' PROVE Begins(journal', lane'.spec.rec) # {}
    OBVIOUS
  <2>1. ~Leave(o)
    <3> SUFFICES ASSUME Leave(o) PROVE FALSE
      OBVIOUS
    <3>1. ops'[o].verb = "none"
      BY AwayRead DEF VerbInv
    <3> QED
      BY <3>1 DEF ToLaunch
  <2>2. lane'.spec.rec = ops[o].rec
    BY <2>1, SpecWritten DEF Shapes
  <2> QED
    BY <1>5, <1>6, <2>2
<1>8. CASE WriteSpec(o) /\ lane'.spec.rec = ops[o].rec
  BY <1>5, <1>6, <1>7, <1>8 DEF SpecTells
<1>9. CASE lane'.spec = lane.spec
  <2>1. PICK rec : rec = lane.spec.rec /\ rec \in 0..(Len(journal) + 1) /\ lane'.spec.rec = rec
    BY <1>9 DEF Counts
  <2>2. CASE Tells(journal, rec, Spent)
    <3>1. Tells(journal', rec, Spent')
      BY <1>1, <1>2, <2>1, <2>2, TellsOn
    <3> QED
      BY <1>7, <1>9, <2>1, <3>1 DEF SpecTells
  <2>3. CASE Unfinished(rec)
    <3>1. Begins(journal', rec) = Begins(journal, rec) /\ Begins(journal, rec) = {}
      BY <1>1, <1>3, <2>3, BeginsOn DEF Unfinished
    <3>2. \A r \in DOMAIN runs' : ~runs'[r].finish
      <4>1. CASE runs' = runs
        BY <2>3, <4>1 DEF Unfinished
      <4>2. CASE Spawn(o)
        <5>1. ~ToLaunch(o)
          BY <1>4, <2>1, <3>1 DEF CallTells, ToLaunch
        <5>2. runs' = Append(runs, NewRun(o)) /\ ~NewRun(o).finish
          BY <1>4, <4>2, <5>1, LaunchCounts
        <5>3. Worked(NewRun(o)) /\ RunShape
          BY DEF NewRun, Worked, Shapes
        <5>4. PICK k : k = Len(runs) /\ k \in Nat /\ DOMAIN runs = 1..k /\ DOMAIN runs' = 1..(k + 1)
          BY <5>2, <5>3, RunAfter
        <5>5. /\ \A s \in 1..k : runs'[s] = runs[s]
              /\ runs'[k + 1] = NewRun(o)
          BY <5>2, <5>3, <5>4, RunAfter
        <5> QED
          BY <2>3, <5>2, <5>4, <5>5 DEF Unfinished
      <4> QED
        BY <4>1, <4>2, VerbsKeep
    <3> QED
      BY <1>7, <1>9, <2>1, <3>1, <3>2 DEF SpecTells, Unfinished
  <2> QED
    BY <1>4, <2>1, <2>2, <2>3 DEF SpecTells
<1> QED
  BY <1>8, <1>9, SpecKeeps DEF Shapes

\* No step of a call takes a count out of its bounds.
LEMMA BudgetVerb ==
  ASSUME VerbInv, Shapes, Shapes', Races, Races', Counts, Counts',
         NEW o \in Ops, Verb(o), ~Excused', Budgets
  PROVE  Budgets'
<1>1. /\ RowsGrow /\ RowShape /\ RowShape' /\ RowsStay /\ Spent' = Spent /\ Tallied
      /\ \A p \in (Len(journal) + 1)..Len(journal') : journal'[p].ev \in CallRows
  BY VerbSpent, Grows DEF Shapes, Tallied
<1>2. PICK n, m : n = Len(journal) /\ m = Len(journal') /\ n \in Nat /\ m \in Nat /\ n <= m
  BY <1>1 DEF RowsStay
<1>3. /\ \A p \in 1..n : journal'[p] = journal[p]
      /\ \A p \in (n + 1)..m : journal'[p].ev \in CallRows
  BY <1>1, <1>2 DEF RowsStay
<1>4. Spent \in Nat /\ Spent' \in Nat
  BY <1>1, SpentNat DEF Shapes
<1>5. /\ SpecTells'
      /\ lane'.spec = lane.spec \/ Begins(journal', lane'.spec.rec) # {}
      /\ WriteSpec(o) /\ ToLaunch(o)' => Begins(journal', lane'.spec.rec) # {}
  BY SpecGoes
<1>6. ASSUME NEW r \in DOMAIN runs', AtWork(r)', runs'[r].finish
      PROVE  Spent' <= runs'[r].prior + runs'[r].reviews
  <2>1. CASE runs' = runs
    <3>1. AtWork(r)
      BY <1>6, <2>1 DEF AtWork
    <3> QED
      BY <1>1, <1>6, <2>1, <3>1 DEF Budgets, WorkCounts
  <2>2. CASE Spawn(o)
    <3>1. CallCounts(o)
      BY DEF Budgets
    <3>2. /\ runs' = Append(runs, NewRun(o)) /\ (NewRun(o).finish <=> ops[o].verb # "start")
          /\ NewRun(o).prior = ops[o].prior
          /\ ToLaunch(o) \/ ops[o].verb = "start"
          /\ ops[o].verb # "start" => Spent <= ops[o].prior
      BY <2>2, <3>1, LaunchCounts
    <3>3. Worked(NewRun(o)) /\ RunShape /\ NewRun(o).reviews = 0
      BY DEF NewRun, Worked, Shapes
    <3>4. PICK k : k = Len(runs) /\ k \in Nat /\ DOMAIN runs = 1..k /\ DOMAIN runs' = 1..(k + 1)
      BY <3>2, <3>3, RunAfter
    <3>5. /\ \A s \in 1..k : runs'[s] = runs[s]
          /\ runs'[k + 1] = NewRun(o)
      BY <3>2, <3>3, <3>4, RunAfter
    <3>6. CASE r = k + 1
      <4>1. runs'[r].prior = ops[o].prior /\ runs'[r].reviews = 0 /\ ops[o].verb # "start"
        BY <1>6, <3>2, <3>3, <3>5, <3>6
      <4>2. Aiming(o)
        BY <3>2, <4>1 DEF ToLaunch, Aiming, AimsAt, Returning
      <4>3. ops[o].prior \in Nat /\ Spent <= ops[o].prior
        BY <3>2, <4>1, <4>2 DEF Counts
      <4> QED
        BY <1>1, <1>4, <4>1, <4>3
    <3>7. CASE r # k + 1
      <4>1. r \in DOMAIN runs /\ runs'[r] = runs[r]
        BY <3>4, <3>5, <3>7
      <4>2. AtWork(r)
        BY <1>6, <4>1 DEF AtWork
      <4> QED
        BY <1>1, <1>6, <4>1, <4>2 DEF Budgets, WorkCounts
    <3> QED
      BY <3>6, <3>7
  <2> QED
    BY <2>1, <2>2, VerbsKeep
<1>7. ASSUME NEW p \in 1..m, journal'[p].ev = "ready"
      PROVE  Spent' <= journal'[p].num + Reviews(p + 1, Len(journal))'
  <2>1. p \in 1..n
    BY <1>2, <1>3, <1>7 DEF CallRows
  <2>2. PICK num : num = journal[p].num
    OBVIOUS
  <2>3. journal[p].ev = "ready" /\ p \in 1..Len(journal) /\ journal'[p].num = num
    BY <1>2, <1>3, <1>7, <2>1, <2>2
  <2>4. num \in Nat /\ Spent <= num + Reviews(p + 1, Len(journal))
    BY <2>2, <2>3, VerbsAssumption DEF Budgets, ReadyCounts, Counts
  <2>5. Spent' <= num + Reviews(p + 1, Len(journal))'
    BY <1>1, <1>4, <2>3, <2>4, ReadyOn
  <2> QED
    BY <2>3, <2>5
<1>8. Alone(o) /\ (~Aiming(o)' \/ Forth(o) \/ Weighs(o))
  BY CallTurns
<1>9. GhostStays
  <2>1. CASE Spawn(o)
    BY <2>1, SpawnRaces DEF VerbInv, GhostStays, Launches
  <2>2. CASE Launches' = Launches
    BY <2>2, VerbsTell DEF GhostStays
  <2> QED
    BY <2>1, <2>2, VerbsTell
<1>10. ASSUME NEW q \in Ops, SameCall(q),
              Aiming(q)' => Aiming(q) /\ (Looking(q)' <=> Looking(q)),
              Cleared(q)' => Cleared(q), ToLaunch(q)' => ToLaunch(q) \/ (q = o /\ WriteSpec(o))
       PROVE  CallTells(q)' /\ CallCounts(q)'
  <2>1. CallTells(q) /\ CallCounts(q) /\ (Cleared(q) => Quiet(EndOf(ops[q])) \/ Retaken(q))
    BY DEF Budgets, Races, ClearedQuiet
  <2>2. ToLaunch(q)' => Begins(journal', lane'.spec.rec) # {}
    <3>1. CASE ToLaunch(q)
      <4>1. Begins(journal, lane.spec.rec) # {}
        BY <2>1, <3>1 DEF CallTells, ToLaunch
      <4>2. Begins(journal, lane.spec.rec) \subseteq Begins(journal', lane.spec.rec)
        BY <1>1, BeginsOn
      <4> QED
        BY <1>5, <4>1, <4>2
    <3>2. CASE q = o /\ WriteSpec(o)
      BY <1>5, <3>2
    <3> QED
      BY <1>10, <3>1, <3>2
  <2> QED
    BY <1>1, <1>4, <1>9, <1>10, <2>1, <2>2, CallOn
<1>11. ASSUME NEW q \in Ops \ {o} PROVE CallTells(q)' /\ CallCounts(q)'
  <2>1. ops'[q] = ops[q]
    BY <1>8 DEF Alone
  <2>2. /\ SameCall(q) /\ (Aiming(q)' => Aiming(q)) /\ (Looking(q)' <=> Looking(q))
        /\ (Cleared(q)' => Cleared(q)) /\ (ToLaunch(q)' => ToLaunch(q))
    BY <2>1 DEF SameCall, Aiming, Looking, Cleared, ToLaunch
  <2> QED
    BY <1>10, <2>2
<1>12. CallTells(o)' /\ CallCounts(o)'
  <2>1. CASE ~Aiming(o)'
    <3>1. ~Looking(o)' /\ ~Cleared(o)' /\ ~ToLaunch(o)'
      BY <2>1 DEF Aiming, AimsAt, Looking, Cleared, ClearedAt, ToLaunch, Returning
    <3> QED
      BY <2>1, <3>1 DEF CallTells, CallCounts, ToLaunch
  <2>2. CASE Forth(o)
    <3>1. /\ Aiming(o) /\ ~Looking(o) /\ ~Looking(o)' /\ SameCall(o) /\ Cleared(o)
          /\ (ToLaunch(o)' => ToLaunch(o) \/ WriteSpec(o))
      BY <2>2 DEF Forth, Cleared, ClearedAt, Aiming, AimsAt, Looking, Returning
    <3> QED
      BY <1>10, <3>1
  <2>3. CASE Judge(o) /\ ~Refuse(o)
    BY <1>4, <2>3, JudgeCounts DEF Races, Budgets
  <2>4. CASE ClaimDecision(o) /\ ~Refuse(o)
    BY <1>4, <2>4, ClaimCounts DEF Budgets
  <2>5. CASE Recheck(o) /\ ~Forfeit(o)
    BY <1>4, <2>5, RecheckCounts DEF Budgets
  <2> QED
    BY <1>8, <2>1, <2>2, <2>3, <2>4, <2>5 DEF Weighs
<1>13. \A q \in Ops : CallTells(q)' /\ CallCounts(q)'
  BY <1>11, <1>12
<1>14. Spent' <= Rounds
  BY <1>1 DEF Budgets
<1>15. WorkCounts' /\ ReadyCounts'
  BY <1>2, <1>6, <1>7 DEF WorkCounts, ReadyCounts
<1> QED
  BY <1>5, <1>13, <1>14, <1>15 DEF Budgets

-----------------------------------------------------------------------------
(* A step of a run                                                         *)

\* The counts stay within their bounds: a finish has no review it has no round for.
LEMMA CountsRun ==
  ASSUME Shapes, Counts, NEW r \in DOMAIN runs, Run(r)
  PROVE  Counts'
<1>1. Steady(r) /\ ops' = ops /\ (Mute(r) \/ \E row : Speaks(r, row))
  BY RunBecomes DEF Shapes
<1>2. PICK n : n = Len(journal) /\ n \in Nat /\ DOMAIN journal = 1..n
  BY DEF Shapes, RowShape
<1>3. runs[r].reviews \in Nat /\ (runs[r].finish => runs[r].prior \in Nat /\ runs[r].prior + runs[r].reviews <= Rounds)
  BY DEF Counts
<1>4. Rounds \in Nat
  BY VerbsAssumption
<1>5. ASSUME runs'[r].reviews \in Nat,
             runs[r].finish => runs[r].prior + runs'[r].reviews <= Rounds
      PROVE  \A s \in DOMAIN runs' :
               /\ runs'[s].reviews \in Nat
               /\ runs'[s].finish => runs'[s].prior \in Nat /\ runs'[s].prior + runs'[s].reviews <= Rounds
  <2> SUFFICES ASSUME NEW s \in DOMAIN runs'
               PROVE  /\ runs'[s].reviews \in Nat
                      /\ runs'[s].finish => runs'[s].prior \in Nat /\ runs'[s].prior + runs'[s].reviews <= Rounds
    OBVIOUS
  <2>1. CASE s = r
    BY <1>1, <1>3, <1>5, <2>1 DEF Steady
  <2>2. CASE s # r
    <3>1. s \in DOMAIN runs /\ runs'[s] = runs[s]
      BY <1>1, <2>2 DEF Steady
    <3> QED
      BY <3>1 DEF Counts
  <2> QED
    BY <2>1, <2>2
<1>6. CASE Mute(r)
  <2>1. journal' = journal /\ lane'.spec = lane.spec /\ runs'[r].reviews = runs[r].reviews
    BY <1>6 DEF Mute
  <2> QED
    BY <1>1, <1>3, <1>5, <2>1 DEF Counts, Aiming
<1>7. CASE \E row : Speaks(r, row)
  <2>1. PICK row : Speaks(r, row)
    BY <1>7
  <2>2. /\ Put(row) /\ Says(runs'[r].phase, row.ev) /\ lane' = lane
        /\ row.ev = "ready" => runs[r].finish /\ row.num = runs[r].prior + runs[r].reviews
        /\ \/ runs'[r].reviews = runs[r].reviews
           \/ /\ runs'[r].reviews = runs[r].reviews + 1
              /\ runs[r].finish => runs[r].reviews < Rounds - runs[r].prior
    BY <2>1 DEF Speaks
  <2>3. row.ev \in Kinds
    BY <2>2 DEF Says, Kinds, CallRows
  <2>4. /\ Len(journal') = n + 1 /\ journal'[n + 1] = row
        /\ \A p \in 1..n : journal'[p] = journal[p]
    BY <1>2, <2>2, <2>3, RowAfter DEF Shapes
  <2>5. /\ runs'[r].reviews \in Nat
        /\ runs[r].finish => runs[r].prior + runs'[r].reviews <= Rounds
    BY <1>3, <1>4, <2>2
  <2>6. \A s \in DOMAIN runs' :
          /\ runs'[s].reviews \in Nat
          /\ runs'[s].finish => runs'[s].prior \in Nat /\ runs'[s].prior + runs'[s].reviews <= Rounds
    BY <1>5, <2>5
  <2>7. \A p \in 1..Len(journal') : journal'[p].ev = "ready" => journal'[p].num \in 0..Rounds
    <3> SUFFICES ASSUME NEW p \in 1..(n + 1), journal'[p].ev = "ready" PROVE journal'[p].num \in 0..Rounds
      BY <2>4
    <3>1. CASE p \in 1..n
      BY <1>2, <2>4, <3>1 DEF Counts
    <3>2. CASE p = n + 1
      BY <1>3, <1>4, <2>2, <2>4, <3>2
    <3> QED
      BY <1>2, <3>1, <3>2
  <2>8. /\ lane'.spec.rec \in 0..(Len(journal') + 1)
        /\ \A o \in Ops : Aiming(o)' => /\ ops'[o].prior \in Nat /\ ops'[o].prior < Rounds
                                        /\ ops'[o].rec \in 0..(Len(journal') + 1)
    BY <1>1, <1>2, <2>2, <2>4 DEF Counts, Aiming
  <2> QED
    BY <2>6, <2>7, <2>8 DEF Counts
<1> QED
  BY <1>1, <1>6, <1>7

\* How many reviews there are after it.
LEMMA RunSpent ==
  ASSUME Shapes, Counts, NEW r \in DOMAIN runs, Steady(r), Mute(r) \/ \E row : Speaks(r, row)
  PROVE  \/ Spent' = Spent /\ (runs[r].finish => runs'[r].reviews = runs[r].reviews)
         \/ /\ Spent' = Spent + 1 /\ AtWork(r) /\ runs[r].finish
            /\ runs[r].reviews < Rounds - runs[r].prior /\ runs'[r].reviews = runs[r].reviews + 1
            /\ \E row : Put(row) /\ row.ev = "review"
<1>1. ASSUME ~runs[r].finish \/ runs'[r].reviews = runs[r].reviews PROVE Spent' = Spent
  <2>1. \A s \in DOMAIN runs : FinishOf(runs'[s]) = FinishOf(runs[s])
    BY <1>1 DEF Steady, FinishOf
  <2> QED
    BY <2>1, SpentStill DEF Steady
<1>2. CASE Mute(r)
  BY <1>1, <1>2 DEF Mute
<1>3. CASE \E row : Speaks(r, row)
  <2>1. PICK row : Speaks(r, row)
    BY <1>3
  <2>2. /\ AtWork(r) /\ Put(row)
        /\ \/ runs'[r].reviews = runs[r].reviews
           \/ /\ row.ev = "review" /\ runs'[r].reviews = runs[r].reviews + 1
              /\ runs[r].finish => runs[r].reviews < Rounds - runs[r].prior
    BY <2>1 DEF Speaks
  <2>3. CASE ~runs[r].finish \/ runs'[r].reviews = runs[r].reviews
    BY <1>1, <2>3
  <2>4. CASE runs[r].finish /\ runs'[r].reviews = runs[r].reviews + 1
    <3>1. Spent' = Spent + 1
      BY <2>4, SpentMore DEF Shapes
    <3>2. runs'[r].reviews # runs[r].reviews
      BY <2>4 DEF Counts
    <3> QED
      BY <2>2, <2>4, <3>1, <3>2
  <2> QED
    BY <2>2, <2>3, <2>4
<1> QED
  BY <1>2, <1>3

\* No step of a run takes a count out of its bounds.
LEMMA BudgetRun ==
  ASSUME Shapes, Races, Counts, Counts', NEW r \in DOMAIN runs, Run(r), Budgets
  PROVE  Budgets'
<1>1. /\ Steady(r) /\ ops' = ops /\ ghost' = ghost
      /\ Mute(r) \/ \E row : Speaks(r, row)
  BY RunBecomes DEF Shapes
<1>2. RowsGrow /\ lane'.spec = lane.spec
  <2>1. ASSUME NEW row, Speaks(r, row) PROVE Put(row) /\ row.ev \in Kinds /\ lane' = lane
    BY <2>1 DEF Speaks, Says, Kinds, CallRows
  <2> QED
    BY <1>1, <2>1 DEF RowsGrow, Mute
<1>3. RowShape /\ RowShape' /\ RowsStay /\ RunShape /\ RunShape'
  BY <1>1, <1>2, Grows DEF Shapes, Steady
<1>4. PICK n, m : n = Len(journal) /\ m = Len(journal') /\ n \in Nat /\ m \in Nat /\ n <= m
  BY <1>3 DEF RowsStay
<1>5. \/ Spent' = Spent /\ (runs[r].finish => runs'[r].reviews = runs[r].reviews)
      \/ /\ Spent' = Spent + 1 /\ AtWork(r) /\ runs[r].finish
         /\ runs[r].reviews < Rounds - runs[r].prior /\ runs'[r].reviews = runs[r].reviews + 1
         /\ \E row : Put(row) /\ row.ev = "review"
  BY <1>1, RunSpent
<1>6. Spent \in Nat /\ Spent' \in Nat
  BY <1>3, <1>5, SpentNat
<1>7. Tallied
  <2>1. ASSUME NEW row, Put(row), row.ev = "review"
        PROVE  Len(journal') = Len(journal) + 1 /\ journal'[Len(journal) + 1].ev = "review"
    BY <1>3, <2>1, RowAfter DEF Kinds
  <2> QED
    BY <1>5, <2>1 DEF Tallied
<1>8. runs[r].reviews \in Nat /\ (runs[r].finish => runs[r].prior \in Nat) /\ Rounds \in Nat
  BY VerbsAssumption DEF Counts
<1>9. AtWork(r)' => AtWork(r)
  <2>1. CASE Mute(r)
    BY <1>1, <2>1 DEF Steady, Mute, AtWork
  <2>2. CASE \E row : Speaks(r, row)
    BY <2>2 DEF Speaks
  <2> QED
    BY <1>1, <2>1, <2>2
<1>10. Spent' <= Rounds
  <2>1. CASE Spent' = Spent
    BY <2>1 DEF Budgets
  <2>2. CASE Spent' = Spent + 1 /\ AtWork(r) /\ runs[r].finish /\ runs[r].reviews < Rounds - runs[r].prior
    <3>1. Spent <= runs[r].prior + runs[r].reviews
      BY <2>2 DEF Budgets, WorkCounts
    <3> QED
      BY <1>6, <1>8, <2>2, <3>1
  <2> QED
    BY <1>5, <2>1, <2>2
<1>11. ASSUME NEW s \in DOMAIN runs', AtWork(s)', runs'[s].finish
       PROVE  Spent' <= runs'[s].prior + runs'[s].reviews
  <2>1. CASE s = r
    <3>1. AtWork(r) /\ runs[r].finish /\ runs'[r].prior = runs[r].prior
      BY <1>1, <1>9, <1>11, <2>1 DEF Steady
    <3>2. Spent <= runs[r].prior + runs[r].reviews
      BY <3>1 DEF Budgets, WorkCounts
    <3> QED
      BY <1>5, <1>6, <1>8, <2>1, <3>1, <3>2
  <2>2. CASE s # r
    <3>1. s \in DOMAIN runs /\ runs'[s] = runs[s]
      BY <1>1, <2>2 DEF Steady
    <3>2. AtWork(s) /\ runs[s].finish
      BY <1>11, <3>1 DEF AtWork
    <3>3. Spent <= runs[s].prior + runs[s].reviews
      BY <3>1, <3>2 DEF Budgets, WorkCounts
    <3>4. ~AtWork(r)
      BY <2>2, <3>1, <3>2 DEF Races, OneRun
    <3> QED
      BY <1>5, <3>1, <3>3, <3>4
  <2> QED
    BY <2>1, <2>2
<1>12. ASSUME NEW p \in 1..m, journal'[p].ev = "ready"
       PROVE  Spent' <= journal'[p].num + Reviews(p + 1, Len(journal))'
  <2>1. CASE p \in 1..n
    <3>1. PICK num : num = journal[p].num
      OBVIOUS
    <3>2. journal[p].ev = "ready" /\ p \in 1..Len(journal) /\ journal'[p].num = num
      BY <1>3, <1>4, <1>12, <2>1, <3>1 DEF RowsStay
    <3>3. num \in Nat /\ Spent <= num + Reviews(p + 1, Len(journal))
      BY <1>8, <3>1, <3>2 DEF Budgets, ReadyCounts, Counts
    <3>4. Spent' <= num + Reviews(p + 1, Len(journal))'
      BY <1>3, <1>6, <1>7, <3>2, <3>3, ReadyOn
    <3> QED
      BY <3>2, <3>4
  <2>2. CASE p \notin 1..n
    <3>1. PICK row : Speaks(r, row)
      <4>1. journal' # journal
        BY <1>4, <2>2
      <4> QED
        BY <1>1, <4>1 DEF Mute
    <3>2. Put(row) /\ row.ev \in Kinds /\ AtWork(r)
      BY <3>1 DEF Speaks, Says, Kinds, CallRows
    <3>3. m = n + 1 /\ journal'[n + 1] = row
      BY <1>3, <1>4, <3>2, RowAfter
    <3>4. p = n + 1
      BY <1>4, <2>2, <3>3
    <3>5. runs[r].finish /\ row.num = runs[r].prior + runs[r].reviews /\ row.ev # "review"
      BY <1>12, <3>1, <3>3, <3>4 DEF Speaks
    <3>6. Spent <= row.num /\ row.num \in Nat
      BY <1>8, <3>2, <3>5 DEF Budgets, WorkCounts
    <3>7. Spent' = Spent
      <4>1. journal'[n + 1].ev # "review"
        BY <3>3, <3>5
      <4> QED
        BY <1>4, <1>7, <4>1 DEF Tallied
    <3>8. Reviews(p + 1, Len(journal))' \in Nat
      <4>1. p + 1 \in Nat /\ m \in Nat
        BY <1>4
      <4>2. Cardinality(ReviewRows(journal', p + 1, m)) \in Nat
        BY <4>1, ReviewsNat
      <4> QED
        BY <1>4, <4>2 DEF Reviews, ReviewRows
    <3> QED
      BY <1>6, <3>3, <3>4, <3>6, <3>7, <3>8
  <2> QED
    BY <2>1, <2>2
<1>13. SpecTells'
  <2>1. PICK rec : rec = lane.spec.rec /\ rec \in 0..(Len(journal) + 1) /\ lane'.spec.rec = rec
    BY <1>2 DEF Counts
  <2>2. CASE Tells(journal, rec, Spent)
    <3>1. Tells(journal', rec, Spent')
      BY <1>3, <1>6, <1>7, <2>1, <2>2, TellsOn
    <3> QED
      BY <2>1, <3>1 DEF SpecTells
  <2>3. CASE Unfinished(rec)
    <3>1. \A s \in DOMAIN runs' : ~runs'[s].finish
      <4> SUFFICES ASSUME NEW s \in DOMAIN runs' PROVE ~runs'[s].finish
        OBVIOUS
      <4>1. s \in DOMAIN runs /\ (s = r \/ runs'[s] = runs[s])
        BY <1>1 DEF Steady
      <4> QED
        BY <1>1, <2>3, <4>1 DEF Steady, Unfinished
    <3>2. CASE \A p \in (Len(journal) + 1)..Len(journal') : journal'[p].ev # "stop"
      <4>1. Begins(journal', rec) = {}
        BY <1>3, <2>3, <3>2, BeginsOn DEF Unfinished
      <4> QED
        BY <2>1, <3>1, <4>1 DEF SpecTells, Unfinished
    <3>3. CASE \E p \in (Len(journal) + 1)..Len(journal') : journal'[p].ev = "stop"
      <4>1. PICK p \in (n + 1)..m : journal'[p].ev = "stop"
        BY <1>4, <3>3
      <4>2. p + 1 \in Begins(journal', rec) /\ p + 1 \in Nat
        BY <1>3, <1>4, <4>1 DEF Begins, RowShape
      <4>3. Spent = 0 /\ Spent' = 0
        <5>1. Spent = 0
          BY <2>3, Unspent DEF Unfinished
        <5>2. ~runs[r].finish
          BY <2>3 DEF Unfinished
        <5> QED
          BY <1>5, <5>1, <5>2
      <4>4. Cardinality(ReviewRows(journal', p + 1, m)) \in Nat
        BY <1>4, <4>2, ReviewsNat
      <4>5. Spent' <= Cardinality(ReviewRows(journal', p + 1, m))
        BY <4>3, <4>4
      <4> QED
        BY <1>4, <2>1, <4>2, <4>5 DEF SpecTells, Tells, ReviewRows
    <3> QED
      BY <3>2, <3>3
  <2> QED
    BY <2>1, <2>2, <2>3 DEF Budgets, SpecTells
<1>14. ASSUME NEW q \in Ops PROVE CallTells(q)' /\ CallCounts(q)'
  <2>1. /\ SameCall(q) /\ (Aiming(q)' => Aiming(q)) /\ (Looking(q)' <=> Looking(q))
        /\ (Cleared(q)' => Cleared(q)) /\ (ToLaunch(q)' => ToLaunch(q))
    BY <1>1 DEF SameCall, Aiming, Looking, Cleared, ToLaunch
  <2>2. GhostStays
    BY <1>1, GhostStill
  <2>3. Spent' = Spent \/ ~NoneAtWork
    BY <1>5 DEF NoneAtWork
  <2>4. CallTells(q) /\ CallCounts(q) /\ (Cleared(q) => Quiet(EndOf(ops[q])) \/ Retaken(q))
    BY DEF Budgets, Races, ClearedQuiet
  <2>5. ToLaunch(q)' => Begins(journal', lane'.spec.rec) # {}
    <3>1. ToLaunch(q) => Begins(journal, lane.spec.rec) # {}
      BY <2>4 DEF CallTells, ToLaunch
    <3>2. Begins(journal, lane.spec.rec) \subseteq Begins(journal', lane.spec.rec)
      BY <1>3, BeginsOn
    <3> QED
      BY <1>2, <2>1, <3>1, <3>2
  <2> QED
    BY <1>2, <1>6, <1>7, <2>1, <2>2, <2>3, <2>4, <2>5, CallOn
<1>15. WorkCounts' /\ ReadyCounts'
  BY <1>4, <1>11, <1>12 DEF WorkCounts, ReadyCounts
<1> QED
  BY <1>10, <1>13, <1>14, <1>15 DEF Budgets

\* Where neither a row, a run nor a call moves, and finish.json stays.
LEMMA BudgetRests ==
  ASSUME UNCHANGED <<journal, runs, ops, ghost>>, lane'.spec = lane.spec, BudgetInv
  PROVE  BudgetInv'
<1>1. Spent' = Spent /\ (Excused' <=> Excused) /\ (Counts => Counts')
  BY DEF Spent, Excused, Launches, Counts, Aiming
<1>2. WorkCounts /\ ReadyCounts /\ SpecTells => WorkCounts' /\ ReadyCounts' /\ SpecTells'
  BY <1>1 DEF WorkCounts, ReadyCounts, SpecTells, AtWork, Reviews, Unfinished
<1>3. ASSUME NEW q \in Ops, CallTells(q) PROVE CallTells(q)'
  BY <1>1, <1>3 DEF CallTells, Aiming, Looking
<1>4. ASSUME NEW q \in Ops, StopCounts(q) PROVE StopCounts(q)'
  BY <1>1, <1>4 DEF StopCounts, Last, Of, Reran, After
<1>5. ASSUME NEW q \in Ops PROVE Retaken(q) => Retaken(q)'
  BY DEF Retaken, Launches, SameEnd, NoRunBetween
<1>6. ASSUME NEW q \in Ops, CallCounts(q) PROVE CallCounts(q)'
  BY <1>1, <1>4, <1>5, <1>6 DEF CallCounts, Aiming, Looking, Cleared
<1>7. Budgets => Budgets'
  BY <1>1, <1>2, <1>3, <1>6 DEF Budgets
<1> QED
  BY <1>1, <1>7 DEF BudgetInv

\* What a lane has been through kept its counts.
LEMMA BudgetInit ==
  ASSUME Init, Shapes
  PROVE  BudgetInv
<1>1. PICK h \in Histories :
        /\ journal = h.journal /\ lane = h.lane /\ runs = h.runs
        /\ ghost = [acts |-> h.acts, unrecorded |-> {}, raced |-> FALSE]
  BY DEF Init
<1>2. Lived(h)
  BY HistoriesAssumption
<1>3. \A q \in Ops : ops[q].verb = "none" /\ ops[q].pc = "new"
  BY DEF Init, Fresh
<1>4. h.acts \subseteq Launch /\ Launches = h.acts
  <2>1. h.acts \subseteq Launch
    BY <1>2 DEF Lived
  <2> QED
    BY <1>1, <2>1 DEF Launches, Launch
<1>5. /\ journal \in Seq([ev : Kinds, num : Nat, head : Nat])
      /\ runs \in Seq([live : BOOLEAN, phase : STRING, finish : BOOLEAN,
                       prior : Nat, reviews : Nat, commit : STRING, below : Nat])
      /\ lane \in [dir : STRING, tree : BOOLEAN, head : Nat, tip : Nat, pr : STRING,
                   pid : Nat \union {None}, spec : [rec : Nat, died : BOOLEAN]]
      /\ lane.spec.rec <= Len(journal) + 1
      /\ \A r \in DOMAIN runs : runs[r].finish => runs[r].prior + runs[r].reviews <= Rounds
      /\ \A p \in 1..Len(journal) : journal[p].ev = "ready" => journal[p].num <= Rounds
  BY <1>1, <1>2 DEF Lived
<1>6. /\ \A r \in DOMAIN runs : runs[r].prior \in Nat /\ runs[r].reviews \in Nat
      /\ \A p \in 1..Len(journal) : journal[p].num \in Nat
      /\ Len(journal) \in Nat
  <2>1. PICK R : runs \in Seq(R) /\ \A c \in R : c.prior \in Nat /\ c.reviews \in Nat
    <3>1. PICK R : /\ R = [live : BOOLEAN, phase : STRING, finish : BOOLEAN,
                           prior : Nat, reviews : Nat, commit : STRING, below : Nat]
                   /\ runs \in Seq(R)
      BY <1>5
    <3>2. \A c \in R : c.prior \in Nat /\ c.reviews \in Nat
      BY <3>1
    <3> QED
      BY <3>1, <3>2
  <2>2. PICK J : journal \in Seq(J) /\ \A c \in J : c.num \in Nat
    <3>1. PICK J : J = [ev : Kinds, num : Nat, head : Nat] /\ journal \in Seq(J)
      BY <1>5
    <3>2. \A c \in J : c.num \in Nat
      BY <3>1
    <3> QED
      BY <3>1, <3>2
  <2>3. \A r \in DOMAIN runs : runs[r] \in R
    BY <2>1, ElementOfSeq, LenProperties
  <2>4. Len(journal) \in Nat /\ \A p \in 1..Len(journal) : journal[p] \in J
    BY <2>2, ElementOfSeq, LenProperties
  <2> QED
    BY <2>1, <2>2, <2>3, <2>4
<1>7. Counts
  <2>1. lane.spec.rec \in Nat
    BY <1>5
  <2>2. lane.spec.rec \in 0..(Len(journal) + 1)
    BY <1>5, <1>6, <2>1
  <2>3. \A p \in 1..Len(journal) : journal[p].ev = "ready" => journal[p].num \in 0..Rounds
    BY <1>5, <1>6, VerbsAssumption
  <2> QED
    BY <1>3, <1>5, <1>6, <2>2, <2>3 DEF Counts, Aiming, AimsAt
<1>8. ASSUME ~Excused
      PROVE  /\ Spent <= Rounds
             /\ \A r \in DOMAIN runs : AtWork(r) /\ runs[r].finish => Spent <= runs[r].prior + runs[r].reviews
             /\ \A p \in 1..Len(journal) : journal[p].ev = "ready" =>
                  Spent <= journal[p].num + Cardinality({q \in (p + 1)..Len(journal) : journal[q].ev = "review"})
             /\ SpecTells
  <2>1. \A act \in h.acts : act.stake = act.at
    BY <1>4, <1>8 DEF Excused
  <2>2. Spent = Cardinality(FinishReviews(h.runs))
    BY <1>1 DEF Spent
  <2>3. LET done == Cardinality(FinishReviews(h.runs))
            working(r) == h.runs[r].live /\ h.runs[r].phase \in {"born", "open"}
            n == Len(h.journal)
        IN /\ done <= Rounds
           /\ \A r \in DOMAIN h.runs : working(r) /\ h.runs[r].finish =>
                done <= h.runs[r].prior + h.runs[r].reviews
           /\ \A p \in 1..n : h.journal[p].ev = "ready" =>
                done <= h.journal[p].num + Cardinality({q \in (p + 1)..n : h.journal[q].ev = "review"})
           /\ \/ Tells(h.journal, h.lane.spec.rec, done)
              \/ /\ Begins(h.journal, h.lane.spec.rec) = {}
                 /\ \A r \in DOMAIN h.runs : ~h.runs[r].finish
    BY <1>2, <2>1, Zenon DEF Lived
  <2> QED
    BY <1>1, <2>2, <2>3 DEF AtWork, SpecTells, Unfinished
<1>9. \A q \in Ops : CallTells(q) /\ CallCounts(q)
  BY <1>3 DEF CallTells, CallCounts, Aiming, AimsAt, Looking, Cleared, ClearedAt, ToLaunch
<1>10. ~Excused => WorkCounts /\ ReadyCounts
  BY <1>8 DEF WorkCounts, ReadyCounts, Reviews
<1> QED
  BY <1>7, <1>8, <1>9, <1>10 DEF BudgetInv, Budgets

\* Until a launch goes by a count that was not taken for its end, a run at work
\* and a ready row, the journal and finish.json, and every return that holds its
\* end count all the reviews there were.
THEOREM BudgetInvariant == Spec => []BudgetInv
<1>1. Init => BudgetInv
  BY RaceInit, BudgetInit DEF RaceInv
<1>2. VerbInv /\ RaceInv /\ RaceInv' /\ BudgetInv /\ [Next]_vars => BudgetInv'
  <2> SUFFICES ASSUME VerbInv, RaceInv, RaceInv', BudgetInv, [Next]_vars PROVE BudgetInv'
    OBVIOUS
  <2>1. Shapes /\ Shapes' /\ Counts
    BY DEF RaceInv, BudgetInv
  <2>2. (~Excused => Races /\ Budgets) /\ (~Excused' => Races')
    BY DEF RaceInv, BudgetInv, Excused
  <2>3. CASE \E o \in Ops : Verb(o)
    <3>1. PICK o \in Ops : Verb(o)
      BY <2>3
    <3>2. Counts'
      BY <2>1, <3>1, CountsVerb
    <3>3. ~Excused' => Budgets'
      BY <2>1, <2>2, <3>1, <3>2, ExcusedStays, BudgetVerb
    <3> QED
      BY <3>2, <3>3 DEF BudgetInv
  <2>4. CASE \E r \in DOMAIN runs : Run(r)
    <3>1. PICK r \in DOMAIN runs : Run(r)
      BY <2>4
    <3>2. Counts'
      BY <2>1, <3>1, CountsRun
    <3>3. Excused' <=> Excused
      <4>1. ghost' = ghost
        BY <2>1, <3>1, RunBecomes DEF Shapes
      <4> QED
        BY <4>1 DEF Excused, Launches
    <3>4. ~Excused' => Budgets'
      BY <2>1, <2>2, <3>1, <3>2, <3>3, BudgetRun
    <3> QED
      BY <3>2, <3>4 DEF BudgetInv
  <2>5. CASE Settle \/ UNCHANGED vars
    <3>1. UNCHANGED <<journal, runs, ops, ghost>>
      BY <2>5 DEF Settle, vars
    <3>2. PICK l : l = lane /\ Laned(l)
      BY <2>1 DEF Shapes, LaneShape
    <3>3. lane' = l \/ \E pr : lane' = [l EXCEPT !.pr = pr]
      BY <2>5, <3>2 DEF Settle, vars
    <3>4. lane'.spec = lane.spec
      BY <3>2, <3>3 DEF Laned
    <3> QED
      BY <3>1, <3>4, BudgetRests
  <2> QED
    BY <2>3, <2>4, <2>5 DEF Next
<1> QED
  BY <1>1, <1>2, VerbInvariant, RaceInvariant, PTL DEF Spec

\* Over all the finishes of a lane, however many were launched and died, reviews
\* stay within FINISH_REVIEW_ROUNDS, unless a return was launched for an end it
\* had not counted to, or for one that is not its own.
THEOREM ReviewsBounded == Spec => []ReviewBudget
<1>1. BudgetInv => ReviewBudget
  BY DEF BudgetInv, Excused, Budgets, Spent, ReviewBudget, RoundsSpent
<1> QED
  BY <1>1, BudgetInvariant, PTL

-----------------------------------------------------------------------------
(* The build a finish starts on                                            *)

\* A commit the branch may rest on: it was made, its run is not about to tell of
\* it, and whatever commit row names it has a ready row after it.
Rests(h) ==
  \/ h = 0
  \/ /\ h \in DOMAIN runs /\ runs[h].commit # "no"
     /\ runs[h].commit = "made" => ~AtWork(h)
     /\ ~Loose(journal, h)

\* The commit that no row takes back.
Stands(h) == Standing(Len(journal)) # 0 /\ journal[Standing(Len(journal))].head = h

\* A ready row, and one no run's row follows.
Ready(p) == p \in 1..Len(journal) /\ journal[p].ev = "ready"
Latest(p) == Ready(p) /\ NoRunBetween(p, Len(journal))
NoneLatest == \A p \in 1..Len(journal) : Latest(p) => Served(p)

\* What the rows and the runs tell of commits: a commit is told of by its run,
\* rests on another that was made and not left to a row, and so does what a ready
\* row names; and where a commit was taken back, no ready row waits before it.
CommitsTold == \A p \in 1..Len(journal) : journal[p].ev = "commit" =>
  journal[p].head \in DOMAIN runs /\ runs[journal[p].head].commit \notin {"no", "made"}
BelowRests == \A r \in DOMAIN runs : runs[r].commit # "no" => Rests(runs[r].below) /\ runs[r].below # r
ReadyRests == \A p \in 1..Len(journal) : journal[p].ev = "ready" => Rests(journal[p].head)
UndoneServed == \A p, q \in 1..Len(journal) :
  journal[p].ev = "ready" /\ journal[q].ev = "uncommit" /\ p < q /\ NoRunBetween(p, q) => Served(p)
RowsTell == CommitsTold /\ BelowRests /\ ReadyRests /\ UndoneServed

\* Where the branch is: at the commit of the run at work, once it has one; at one
\* that stands, or at one to rest on; and at the ready row's until it is returned
\* on.  A run that has yet to begin finds no commit standing but a ready one's.
HeadAtWork == \A r \in DOMAIN runs : AtWork(r) =>
  IF runs[r].commit = "no" THEN Rests(lane.head) ELSE runs[r].phase # "born" /\ lane.head = r
HeadLeft == \/ Rests(lane.head) \/ Stands(lane.head)
            \/ \E r \in DOMAIN runs : AtWork(r) /\ runs[r].commit = "made"
HeadReady == \A p \in 1..Len(journal) : Latest(p) /\ NoneAtWork => Served(p) \/ lane.head = journal[p].head
BornOn == \A r \in DOMAIN runs : AtWork(r) /\ runs[r].phase = "born" =>
  Standing(Len(journal)) = 0 \/ \E p \in 1..Len(journal) : Latest(p)
Branch == HeadAtWork /\ HeadLeft /\ HeadReady /\ BornOn

\* What a return finds of that on its way.
Undone(o) == ops[o].pc = "uncommit" =>
  NoneAtWork /\ Standing(Len(journal)) # 0 /\ ~Stands(lane.head) /\ Rests(lane.head) /\ NoneLatest
Unbegun(o) == Waiting(o) /\ ops[o].n = Len(journal) => NoneAtWork \/ Standing(Len(journal)) = 0
Lies(o) == BacksAt(ops[o]) => Rests(lane.head) \/ Retaken(o)
OwnRow(o) == Cleared(o) /\ ops[o].way = "ready" => ops[o].stake = ops[o].at
CallHead(o) == Undone(o) /\ Unbegun(o) /\ Lies(o) /\ OwnRow(o)
OneUndo == \A o, q \in Ops : ops[o].pc = "uncommit" /\ ops[q].pc = "uncommit" => o = q

Heads == RowsTell /\ Branch /\ OneUndo /\ \A o \in Ops : CallHead(o)
HeadInv == ~ghost.raced => Heads

-----------------------------------------------------------------------------
(* Commits and rows                                                        *)

\* The commit that stands is that of a row there is.
LEMMA StandingRow ==
  ASSUME NEW n \in Nat
  PROVE  /\ Standing(n) \in 0..n
         /\ Standing(n) # 0 => journal[Standing(n)].ev = "commit"
<1>1. PICK c : c = Last(n, {"commit"})
  OBVIOUS
<1>2. c \in Of(n, {"commit"}) \union {0}
  BY <1>1, LastRowOf
<1>3. c \in 0..n /\ (c # 0 => journal[c].ev = "commit")
  BY <1>2 DEF Of
<1>4. Standing(n) \in {0, c}
  BY <1>1 DEF Standing
<1> QED
  BY <1>3, <1>4

\* A row that is neither a commit's nor takes one back leaves it standing.
LEMMA StandsOn ==
  ASSUME RowShape, journal' = journal \/ \E row : row.ev \in Kinds \ {"commit", "uncommit"} /\ Put(row)
  PROVE  /\ Standing(Len(journal))' = Standing(Len(journal))
         /\ \A h : Stands(h)' <=> Stands(h)
<1>0. PICK n : n = Len(journal) /\ n \in Nat
  BY DEF RowShape
<1>1. CASE journal' = journal
  BY <1>1 DEF Standing, Last, Newest, After, Of, Stands
<1>2. CASE \E row : row.ev \in Kinds \ {"commit", "uncommit"} /\ Put(row)
  <2>1. PICK row : row.ev \in Kinds \ {"commit", "uncommit"} /\ Put(row)
    BY <1>2
  <2>2. /\ Len(journal') = n + 1 /\ journal'[n + 1] = row
        /\ \A p \in 1..n : journal'[p] = journal[p]
    BY <1>0, <2>1, RowAfter
  <2>3. \A p \in 1..(n + 1) : \A ev \in {"commit", "uncommit"} :
          journal'[p].ev \in {ev} <=> p \in 1..n /\ journal[p].ev \in {ev}
    BY <1>0, <2>1, <2>2
  <2>4. \A ev \in {"commit", "uncommit"} : Of(n + 1, {ev})' = Of(n, {ev})
    BY <1>0, <2>3 DEF Of
  <2>5. Last(n + 1, {"commit"})' = Last(n, {"commit"})
    BY <2>4 DEF Last, Newest
  <2>6. \A p : After(n + 1, p, {"uncommit"})' = After(n, p, {"uncommit"})
    BY <2>4 DEF After
  <2>7. Standing(n + 1)' = Standing(n)
    BY <2>5, <2>6 DEF Standing, After
  <2>8. Standing(Len(journal))' = Standing(n + 1)'
    BY <2>2 DEF Standing, Last, Newest, After, Of
  <2>9. Standing(n) # 0 => journal'[Standing(n)] = journal[Standing(n)]
    BY <1>0, <2>2, StandingRow
  <2> QED
    BY <1>0, <2>7, <2>8, <2>9 DEF Stands
<1> QED
  BY <1>1, <1>2

\* A commit's row stands, once it is written.
LEMMA StandsNew ==
  ASSUME RowShape, NEW row, row.ev = "commit", Put(row)
  PROVE  Stands(row.head)'
<1>0. PICK n : n = Len(journal)
  OBVIOUS
<1>1. n \in Nat /\ Len(journal') = n + 1 /\ journal'[n + 1] = row /\ RowShape'
  BY <1>0, RowAfter DEF Kinds
<1>2. PICK S, m : S = Of(n + 1, {"commit"})' \union {0} /\ m = n + 1
  OBVIOUS
<1>3. m \in S /\ S \in SUBSET (0..m) /\ m \in Nat
  BY <1>1, <1>2 DEF Of
<1>4. Max(S) = m
  <2>1. PICK x : x = Max(S)
    OBVIOUS
  <2>2. x \in S /\ \A p \in S : p <= x
    BY <1>3, <2>1, LastOf
  <2>3. x \in 0..m /\ m <= x
    BY <1>3, <2>2
  <2> QED
    BY <1>3, <2>1, <2>3
<1>5. Last(n + 1, {"commit"})' = m
  BY <1>2, <1>4 DEF Last, Newest
<1>6. After(n + 1, m, {"uncommit"})' = {}
  BY <1>1, <1>2 DEF After, Of
<1>7. Standing(n + 1)' = m
  BY <1>5, <1>6 DEF Standing, After, Of
<1>8. Standing(Len(journal))' = m
  BY <1>1, <1>7 DEF Standing, Last, Newest, After, Of
<1> QED
  BY <1>1, <1>2, <1>8 DEF Stands

\* A commit goes on to be one to rest on, unless a row names it.
LEMMA RestsOn ==
  ASSUME RowShape, NEW h, Rests(h),
         journal' = journal \/ \E row : row.ev \in Kinds /\ Put(row) /\ ~(row.ev = "commit" /\ row.head = h),
         h \in DOMAIN runs => /\ h \in DOMAIN runs' /\ runs'[h].commit # "no"
                              /\ runs'[h].commit = "made" => runs[h].commit = "made"
                              /\ AtWork(h)' => AtWork(h)
  PROVE  Rests(h)'
<1> SUFFICES ASSUME h # 0 PROVE Rests(h)'
  BY DEF Rests
<1>1. /\ h \in DOMAIN runs /\ runs[h].commit # "no"
      /\ runs[h].commit = "made" => ~AtWork(h)
      /\ ~Loose(journal, h)
  BY DEF Rests
<1>2. ~Loose(journal', h)
  <2>1. CASE journal' = journal
    BY <1>1, <2>1
  <2>2. CASE \E row : row.ev \in Kinds /\ Put(row) /\ ~(row.ev = "commit" /\ row.head = h)
    <3>1. PICK row : row.ev \in Kinds /\ Put(row) /\ ~(row.ev = "commit" /\ row.head = h)
      BY <2>2
    <3>2. /\ Len(journal) \in Nat /\ Len(journal') = Len(journal) + 1
          /\ \A p \in 1..Len(journal) : journal'[p] = journal[p]
          /\ journal'[Len(journal) + 1] = row
      BY <3>1, RowAfter
    <3> QED
      BY <1>1, <3>1, <3>2 DEF Loose
  <2> QED
    BY <2>1, <2>2
<1> QED
  BY <1>1, <1>2 DEF Rests, Loose

\* What is told of commits goes on to be so, if it is of what is new.
LEMMA ToldOn ==
  ASSUME Shapes, RowsTell, Launches \subseteq Launches', \A h : Rests(h) => Rests(h)',
         \A s \in DOMAIN runs : /\ s \in DOMAIN runs'
                                /\ runs[s].commit \notin {"no", "made"} => runs'[s].commit \notin {"no", "made"},
         \A s \in DOMAIN runs' : runs'[s].commit # "no" =>
           \/ s \in DOMAIN runs /\ runs[s].commit # "no" /\ runs'[s].below = runs[s].below
           \/ Rests(runs[s].below)' /\ runs'[s].below # s,
         \/ journal' = journal
         \/ \E row : /\ row.ev \in Kinds /\ Put(row)
                     /\ row.ev = "commit" =>
                          row.head \in DOMAIN runs' /\ runs'[row.head].commit \notin {"no", "made"}
                     /\ row.ev = "ready" => Rests(row.head)'
                     /\ row.ev = "uncommit" => NoneLatest
  PROVE  RowsTell'
<1>0. PICK n : n = Len(journal)
  OBVIOUS
<1>1. RowsGrow /\ RowShape /\ ActsPlaced
  BY DEF RowsGrow, Shapes
<1>2. RowsStay /\ n \in Nat
  BY <1>0, <1>1, Grows DEF RowsStay
<1>3. PICK row :
        \/ Len(journal') = n
        \/ /\ Len(journal') = n + 1 /\ journal'[n + 1] = row
           /\ row.ev = "commit" =>
                row.head \in DOMAIN runs' /\ runs'[row.head].commit \notin {"no", "made"}
           /\ row.ev = "ready" => Rests(row.head)'
           /\ row.ev = "uncommit" => NoneLatest
  <2>1. CASE journal' = journal
    BY <1>0, <2>1
  <2>2. CASE journal' # journal
    <3>1. PICK row : /\ row.ev \in Kinds /\ Put(row)
                     /\ row.ev = "commit" =>
                          row.head \in DOMAIN runs' /\ runs'[row.head].commit \notin {"no", "made"}
                     /\ row.ev = "ready" => Rests(row.head)'
                     /\ row.ev = "uncommit" => NoneLatest
      BY <2>2
    <3>2. Len(journal') = n + 1 /\ journal'[n + 1] = row
      BY <1>0, <1>1, <3>1, RowAfter
    <3> QED
      BY <3>1, <3>2
  <2> QED
    BY <2>1, <2>2
<1>4. CommitsTold'
  BY <1>0, <1>2, <1>3 DEF RowsTell, CommitsTold, RowsStay
<1>5. BelowRests'
  <2> SUFFICES ASSUME NEW s \in DOMAIN runs', runs'[s].commit # "no"
               PROVE  Rests(runs[s].below)' /\ runs'[s].below # s
    BY DEF BelowRests
  <2>1. PICK h : h = runs'[s].below
    OBVIOUS
  <2>2. Rests(h)' /\ h # s
    <3>1. CASE s \in DOMAIN runs /\ runs[s].commit # "no" /\ runs'[s].below = runs[s].below
      BY <2>1, <3>1 DEF RowsTell, BelowRests
    <3>2. CASE Rests(runs[s].below)' /\ runs'[s].below # s
      BY <2>1, <3>2 DEF Rests
    <3> QED
      BY <3>1, <3>2
  <2> QED
    BY <2>1, <2>2 DEF Rests
<1>6. ReadyRests'
  <2> SUFFICES ASSUME NEW p \in 1..Len(journal'), journal'[p].ev = "ready"
               PROVE  Rests(journal[p].head)'
    BY DEF ReadyRests
  <2>1. PICK h : h = journal'[p].head
    OBVIOUS
  <2>2. Rests(h)'
    <3>1. CASE p \in 1..n
      BY <1>0, <1>2, <2>1, <3>1 DEF RowsTell, ReadyRests, RowsStay
    <3>2. CASE p \notin 1..n
      <4>1. p = n + 1
        BY <1>2, <1>3, <3>2
      <4> QED
        BY <1>2, <1>3, <2>1, <4>1, <3>2
    <3> QED
      BY <3>1, <3>2
  <2> QED
    BY <2>1, <2>2 DEF Rests
<1>7. UndoneServed'
  <2> SUFFICES ASSUME NEW p \in 1..Len(journal'), NEW q \in 1..Len(journal'), p < q,
                      journal'[p].ev = "ready", journal'[q].ev = "uncommit", NoRunBetween(p, q)'
               PROVE  Served(p)'
    BY DEF UndoneServed
  <2>1. p \in 1..n /\ journal[p].ev = "ready"
    BY <1>0, <1>2, <1>3 DEF RowsStay
  <2>2. Served(p)
    <3>1. CASE q \in 1..n
      <4>1. NoRunBetween(p, q) /\ journal[q].ev = "uncommit"
        BY <1>0, <1>2, <2>1, <3>1, SameRows DEF Spots, RowsStay
      <4> QED
        BY <1>0, <2>1, <3>1, <4>1 DEF RowsTell, UndoneServed
    <3>2. CASE q \notin 1..n
      <4>1. q = n + 1 /\ NoneLatest
        BY <1>2, <1>3, <3>2
      <4>2. NoRunBetween(p, n)
        BY <1>0, <1>2, <2>1, <4>1 DEF NoRunBetween, RowsStay
      <4> QED
        BY <1>0, <2>1, <4>1, <4>2 DEF NoneLatest, Latest, Ready
    <3> QED
      BY <3>1, <3>2
  <2> QED
    BY <1>0, <1>1, <1>2, <2>1, <2>2, ServedStays
<1> QED
  BY <1>4, <1>5, <1>6, <1>7 DEF RowsTell

-----------------------------------------------------------------------------
(* Steps that leave the branch and the commits                             *)

\* Runs that are at work as they were, with the commits they had.
SameRuns ==
  /\ DOMAIN runs' = DOMAIN runs
  /\ \A s \in DOMAIN runs : /\ runs'[s].commit = runs[s].commit /\ runs'[s].below = runs[s].below
                            /\ AtWork(s)' <=> AtWork(s)
                            /\ AtWork(s) => runs'[s].phase = runs[s].phase

\* A step that writes a row of a verb at most, and none that takes a commit back.
Plain ==
  /\ SameRuns /\ GhostStays /\ lane'.head = lane.head
  /\ journal' = journal \/ \E row : row.ev \in CallRows \ {"uncommit"} /\ Put(row)

\* It leaves all that as it was.
LEMMA PlainKeeps ==
  ASSUME Shapes, Heads, Plain
  PROVE  /\ RowsTell' /\ Branch' /\ RowsStay
         /\ \A h : Rests(h) => Rests(h)'
         /\ \A h : Stands(h)' <=> Stands(h)
         /\ Standing(Len(journal))' = Standing(Len(journal))
         /\ NoneLatest => NoneLatest'
         /\ NoneAtWork' <=> NoneAtWork
<1>1. RowShape /\ ActsPlaced /\ RowsKept
  BY DEF Shapes, Plain, RowsKept
<1>2. /\ RowShape' /\ RowsStay
      /\ \A p \in (Len(journal) + 1)..Len(journal') : journal'[p].ev \in CallRows
  BY <1>1, CallsOnly
<1>3. /\ Standing(Len(journal))' = Standing(Len(journal))
      /\ \A h : Stands(h)' <=> Stands(h)
  <2>1. journal' = journal \/ \E row : row.ev \in Kinds \ {"commit", "uncommit"} /\ Put(row)
    BY DEF Plain, Kinds, CallRows
  <2> QED
    BY <1>1, <2>1, StandsOn
<1>4. ASSUME NEW h, Rests(h)
      PROVE  Rests(h)'
  <2>1. journal' = journal \/ \E row : row.ev \in Kinds /\ Put(row) /\ ~(row.ev = "commit" /\ row.head = h)
    BY DEF Plain, Kinds, CallRows
  <2>2. h \in DOMAIN runs => /\ h \in DOMAIN runs' /\ (runs[h].commit # "no" => runs'[h].commit # "no")
                             /\ runs'[h].commit = "made" => runs[h].commit = "made"
                             /\ AtWork(h)' => AtWork(h)
    BY DEF Plain, SameRuns
  <2>3. h = 0 \/ (h \in DOMAIN runs /\ runs[h].commit # "no")
    BY <1>4 DEF Rests
  <2>4. CASE h = 0
    BY <2>4 DEF Rests
  <2>5. CASE h \in DOMAIN runs /\ runs[h].commit # "no"
    BY <1>1, <1>4, <2>1, <2>2, <2>5, RestsOn
  <2> QED
    BY <2>3, <2>4, <2>5
<1>5. NoneAtWork' <=> NoneAtWork
  BY DEF Plain, SameRuns, NoneAtWork
<1>6. \A p : Latest(p)' => Latest(p)
  <2> SUFFICES ASSUME NEW p, Latest(p)' PROVE Latest(p)
    OBVIOUS
  <2>1. p \in 1..Len(journal) /\ journal[p].ev = "ready"
    BY <1>2 DEF Latest, Ready, RowsStay, CallRows
  <2>2. NoRunBetween(p, Len(journal))
    BY <1>2, <2>1 DEF Latest, NoRunBetween, RowsStay
  <2> QED
    BY <2>1, <2>2 DEF Latest, Ready
<1>7. \A p : Latest(p) => Latest(p)'
  <2> SUFFICES ASSUME NEW p, Latest(p) PROVE Latest(p)'
    OBVIOUS
  <2>1. p \in 1..Len(journal) /\ p \in Spots /\ journal[p].ev = "ready"
    BY <1>2 DEF Latest, Ready, RowsStay, Spots
  <2>2. NoRunBetween(p, Len(journal))'
    BY <1>1, <2>1, QuietRows DEF Latest
  <2> QED
    BY <1>2, <2>1, <2>2 DEF Latest, Ready, RowsStay
<1>8. \A p : Latest(p) /\ Served(p) => Served(p)'
  BY <1>1, <1>2, ServedStays DEF Latest, Ready, Plain, GhostStays
<1>9. NoneLatest => NoneLatest'
  BY <1>6, <1>8 DEF NoneLatest, Latest, Ready
<1>10. RowsTell'
  <2>1. \A s \in DOMAIN runs : /\ s \in DOMAIN runs'
                               /\ runs[s].commit \notin {"no", "made"} => runs'[s].commit \notin {"no", "made"}
    BY DEF Plain, SameRuns
  <2>2. \A s \in DOMAIN runs' : runs'[s].commit # "no" =>
          s \in DOMAIN runs /\ runs[s].commit # "no" /\ runs'[s].below = runs[s].below
    BY DEF Plain, SameRuns
  <2>3. \/ journal' = journal
        \/ \E row : /\ row.ev \in Kinds /\ Put(row)
                    /\ row.ev # "commit" /\ row.ev # "ready" /\ row.ev # "uncommit"
    BY DEF Plain, Kinds, CallRows
  <2>4. RowsTell /\ Launches \subseteq Launches'
    BY DEF Heads, Plain, GhostStays
  <2> QED
    BY <1>4, <2>1, <2>2, <2>3, <2>4, ToldOn
<1>11. Branch'
  <2> USE DEF Plain, SameRuns
  <2>1. lane'.head = lane.head /\ (Rests(lane.head) => Rests(lane.head)') /\ (Stands(lane.head) => Stands(lane.head)')
    <3>1. PICK h : h = lane.head /\ h = lane'.head
      OBVIOUS
    <3>2. (Rests(h) => Rests(h)') /\ (Stands(h) => Stands(h)')
      BY <1>3, <1>4
    <3> QED
      BY <3>1, <3>2 DEF Rests, Stands
  <2>2. HeadAtWork'
    BY <2>1 DEF Heads, Branch, HeadAtWork
  <2>3. HeadLeft'
    BY <2>1 DEF Heads, Branch, HeadLeft
  <2>4. HeadReady'
    <3> SUFFICES ASSUME NEW p \in 1..Len(journal'), Latest(p)', NoneAtWork'
                 PROVE  Served(p)' \/ lane'.head = journal'[p].head
      BY DEF HeadReady
    <3>1. Latest(p) /\ p \in 1..Len(journal) /\ journal'[p] = journal[p]
      BY <1>2, <1>6 DEF Latest, Ready, RowsStay
    <3> QED
      BY <1>5, <1>8, <2>1, <3>1 DEF Heads, Branch, HeadReady
  <2>5. BornOn'
    <3> SUFFICES ASSUME NEW r \in DOMAIN runs', AtWork(r)', runs'[r].phase = "born",
                        Standing(Len(journal))' # 0
                 PROVE  \E p \in 1..Len(journal') : Latest(p)'
      BY DEF BornOn
    <3>1. PICK p \in 1..Len(journal) : Latest(p)
      BY <1>3 DEF Heads, Branch, BornOn
    <3> QED
      BY <1>2, <1>7, <3>1 DEF RowsStay
  <2> QED
    BY <2>2, <2>3, <2>4, <2>5 DEF Branch
<1> QED
  BY <1>2, <1>3, <1>4, <1>5, <1>9, <1>10, <1>11

\* A call that goes on with what it found of that, or has found it.
Follows(o) ==
  /\ ops'[o].pc = "uncommit" => ops[o].pc = "uncommit"
  /\ Waiting(o)' => ops'[o].n \in Spots
  /\ Waiting(o)' /\ ops'[o].n = Len(journal) =>
       (Waiting(o) /\ ops[o].n = Len(journal)) \/ NoneAtWork \/ Standing(Len(journal)) = 0
  /\ BacksAt(ops'[o]) =>
       \/ Rests(lane.head)
       \/ /\ Retaken(o) /\ Cleared(o) /\ ops'[o].verb = ops[o].verb
          /\ ops'[o].at = ops[o].at /\ ops'[o].stake = ops[o].stake /\ ops'[o].died = ops[o].died
  /\ OwnRow(o)'

\* A call that takes no step does.
LEMMA FollowsStill ==
  ASSUME Shapes, Heads, NEW o \in Ops, ops'[o] = ops[o]
  PROVE  Follows(o)
<1>1. CallHead(o)
  BY DEF Heads
<1>2. BacksAt(ops[o]) => Cleared(o)
  BY DEF BacksAt, Cleared, ClearedAt, Returning
<1>3. Waiting(o)' <=> Waiting(o)
  BY DEF Waiting, WaitsAt
<1>4. OwnRow(o)'
  BY <1>1 DEF CallHead, OwnRow, Cleared, ClearedAt
<1>5. ops[o].n \in Spots
  BY DEF Shapes, Aimed
<1> QED
  BY <1>1, <1>2, <1>3, <1>4, <1>5 DEF Follows, CallHead, Lies

\* So does one that has no end that it found.
LEMMA FollowsFree ==
  ASSUME NEW o \in Ops, InPlace(o)', ~Cleared(o)'
  PROVE  Follows(o)
<1>1. ops'[o].pc = "uncommit" => Cleared(o)'
  BY DEF InPlace, Verbs, Places, Cleared, ClearedAt, Returning, Accepting
<1>2. Waiting(o)' => Cleared(o)'
  BY DEF Waiting, WaitsAt, Cleared, ClearedAt, Returning
<1>3. BacksAt(ops'[o]) => Cleared(o)'
  BY DEF BacksAt, Cleared, ClearedAt, Returning
<1> QED
  BY <1>1, <1>2, <1>3 DEF Follows, OwnRow

\* Such a step keeps it.
LEMMA HeadPlain ==
  ASSUME Shapes, Heads, Plain, \A o \in Ops : Follows(o)
  PROVE  Heads'
<1>1. /\ RowsTell' /\ Branch' /\ RowsStay
      /\ \A h : Rests(h) => Rests(h)'
      /\ \A h : Stands(h)' <=> Stands(h)
      /\ Standing(Len(journal))' = Standing(Len(journal))
      /\ NoneLatest => NoneLatest'
      /\ NoneAtWork' <=> NoneAtWork
  BY PlainKeeps
<1>2. PICK h : h = lane.head /\ h = lane'.head
  BY DEF Plain
<1>3. /\ Rests(lane.head) => Rests(lane.head)'
      /\ Stands(lane.head)' => Stands(lane.head)
  <2>1. (Rests(h) => Rests(h)') /\ (Stands(h)' => Stands(h))
    BY <1>1
  <2> QED
    BY <1>2, <2>1 DEF Rests, Stands
<1>4. OneUndo'
  BY DEF Heads, OneUndo, Follows
<1>5. ASSUME NEW o \in Ops
      PROVE  CallHead(o)'
  <2>1. CallHead(o) /\ Follows(o) /\ ops[o].n \in Spots
    BY DEF Heads, Shapes, Aimed
  <2>2. Undone(o)'
    BY <1>1, <1>3, <2>1 DEF CallHead, Undone, Follows
  <2>3. Unbegun(o)'
    <3> SUFFICES ASSUME Waiting(o)', ops'[o].n = Len(journal')
                 PROVE  NoneAtWork' \/ Standing(Len(journal))' = 0
      BY DEF Unbegun
    <3>1. CASE journal' = journal
      BY <1>1, <2>1, <3>1 DEF CallHead, Unbegun, Follows
    <3>2. CASE journal' # journal
      <4>1. PICK row : row.ev \in Kinds /\ Put(row)
        BY <3>2 DEF Plain, Kinds, CallRows
      <4>2. Len(journal) \in Nat /\ Len(journal') = Len(journal) + 1
        BY <4>1, RowAfter DEF Shapes
      <4> QED
        BY <2>1, <4>2 DEF Follows, Spots
    <3> QED
      BY <3>1, <3>2
  <2>4. Lies(o)'
    <3> SUFFICES ASSUME BacksAt(ops'[o]), ~Rests(lane.head)
                 PROVE  Retaken(o)'
      BY <1>3 DEF Lies, BacksAt
    <3>1. /\ Retaken(o) /\ Cleared(o) /\ ops'[o].verb = ops[o].verb
          /\ ops'[o].at = ops[o].at /\ ops'[o].stake = ops[o].stake /\ ops'[o].died = ops[o].died
      BY <2>1 DEF Follows
    <3> QED
      BY <1>1, <3>1, RetakenStays DEF Shapes, Plain, GhostStays
  <2> QED
    BY <2>1, <2>2, <2>3, <2>4 DEF CallHead, Follows
<1> QED
  BY <1>1, <1>4, <1>5 DEF Heads

-----------------------------------------------------------------------------
(* Each action                                                             *)

\* A verb that launches nothing and takes nothing back leaves the commits.
LEMMA PlainIs ==
  ASSUME VerbInv, NEW o \in Ops, Verb(o), ~Spawn(o), lane'.head = lane.head,
         RecordUndo(o) => journal' = journal
  PROVE  Plain
<1>1. runs' = runs
  BY VerbsKeep
<1>2. /\ (ghost.raced => ghost'.raced) /\ ghost.unrecorded \subseteq ghost'.unrecorded
      /\ Launches' = Launches
      /\ journal' = journal \/ \E row : row.ev \in CallRows \ {"uncommit"} /\ Put(row)
  BY VerbsTell
<1>3. SameRuns
  BY <1>1 DEF SameRuns, AtWork
<1> QED
  BY <1>2, <1>3 DEF Plain, GhostStays

\* A call that leaves has no end that it found, and leaves the others.
LEMMA LeavesFree ==
  ASSUME VerbInv, NEW o \in Ops,
         Leave(o) \/ Refuse(o) \/ Forfeit(o) \/ Unlocked(o) \/ Unstaked(o) \/ Release(o)
  PROVE  Alone(o) /\ ~Cleared(o)'
<1>1. Leave(o)
  BY DEF Refuse, Forfeit, Unlocked, Unstaked, Release, LetGo
<1> QED
  BY <1>1, AwayRead DEF VerbInv

\* A call that goes where no return looks for its end, or is none.
LEMMA GoesFree ==
  ASSUME VerbInv, NEW o \in Ops, NEW pc, Go(o, pc) \/ Proceed(o, pc), ~ClearedAt(ops[o].verb, pc)
  PROVE  Alone(o) /\ ~Cleared(o)'
<1>1. Alone(o) /\ ops'[o].pc = pc /\ ops'[o].verb = ops[o].verb
  BY GoRead DEF VerbInv, Proceed
<1> QED
  BY <1>1 DEF Cleared

\* Most calls have no end that they found after their step.
LEMMA BeginsFree ==
  ASSUME VerbInv, NEW o \in Ops,
         \/ BeginStart(o) \/ BeginReturn(o) \/ BeginDiscard(o) \/ BeginRecord(o) \/ BeginCloseout(o)
         \/ \E choice \in {"accept", "abandon"} : BeginReady(o, choice)
  PROVE  Alone(o) /\ ~Cleared(o)'
<1>1. PICK d : d = ops[o] /\ Fielded(d)
  BY DEF VerbInv, CallShape
<1>2. ASSUME NEW c, Fielded(c), ~ClearedAt(c.verb, c.pc), ops' = [ops EXCEPT ![o] = c]
      PROVE  Alone(o) /\ ~Cleared(o)'
  BY <1>2, Replaced DEF VerbInv, Alone, Cleared
<1>3. CASE BeginStart(o)
  <2>1. PICK c : c = [ops[o] EXCEPT !.pc = "add", !.verb = "start"]
    OBVIOUS
  <2>2. c = [d EXCEPT !.pc = "add", !.verb = "start"]
    BY <1>1, <2>1
  <2>3. Fielded(c) /\ c.verb = "start"
    BY <1>1, <2>2 DEF Fielded
  <2>4. ops' = [ops EXCEPT ![o] = c]
    BY <1>3, <2>1 DEF BeginStart
  <2> QED
    BY <1>2, <2>3, <2>4 DEF ClearedAt
<1>4. ASSUME NEW verb, NEW pc, Load(o, verb, pc), pc \in {"judge", "inspect", "quiet", "view"}
      PROVE  Alone(o) /\ ~Cleared(o)'
  <2>1. PICK c : c = [ops[o] EXCEPT !.pc = pc, !.verb = verb, !.n = Len(journal)]
    OBVIOUS
  <2>2. c = [d EXCEPT !.pc = pc, !.verb = verb, !.n = Len(journal)]
    BY <1>1, <2>1
  <2>3. Fielded(c) /\ c.pc = pc
    BY <1>1, <2>2 DEF Fielded
  <2>4. ops' = [ops EXCEPT ![o] = c]
    BY <1>4, <2>1 DEF Load
  <2> QED
    BY <1>2, <1>4, <2>3, <2>4 DEF ClearedAt, Returning
<1>5. ASSUME NEW choice \in {"accept", "abandon"}, BeginReady(o, choice)
      PROVE  Alone(o) /\ ~Cleared(o)'
  <2>1. PICK n, ready : ops' = [ops EXCEPT ![o].pc = "claim", ![o].verb = choice, ![o].n = n,
                                     ![o].at = ready, ![o].way = "ready"]
    BY <1>5 DEF BeginReady
  <2>2. PICK c : c = [ops[o] EXCEPT !.pc = "claim", !.verb = choice, !.n = n, !.at = ready, !.way = "ready"]
    OBVIOUS
  <2>3. c = [d EXCEPT !.pc = "claim", !.verb = choice, !.n = n, !.at = ready, !.way = "ready"]
    BY <1>1, <2>2
  <2>4. Fielded(c) /\ c.verb = choice
    BY <1>1, <2>3 DEF Fielded
  <2>5. ops' = [ops EXCEPT ![o] = c]
    BY <2>1, <2>2
  <2> QED
    BY <1>2, <2>4, <2>5 DEF ClearedAt
<1> QED
  BY <1>3, <1>4, <1>5 DEF BeginReturn, BeginDiscard, BeginRecord, BeginCloseout

\* A return that takes aim has yet to find its end.
LEMMA JudgesFree ==
  ASSUME VerbInv, NEW o \in Ops, Judge(o)
  PROVE  Alone(o) /\ ~Cleared(o)'
<1>1. CASE Refuse(o)
  BY <1>1, LeavesFree
<1>2. CASE ~Refuse(o)
  <2>1. PICK dead \in DeadRun(ops[o].n) :
          LET n == ops[o].n
              ready == Last(n, {"ready"})
              stop == IF dead THEN n + 1 ELSE Last(n, {"stop"})
              onStop == dead \/ stop > ready
              p == IF onStop THEN stop ELSE ready
              prior == IF onStop THEN StopPrior(n, stop) ELSE ReadyPrior(ready)
          IN ops' = [ops EXCEPT ![o].pc = "claim", ![o].at = p, ![o].prior = prior,
                            ![o].way = IF onStop THEN "stop" ELSE "ready",
                            ![o].rec = IF onStop THEN lane.spec.rec ELSE ReadyRec(ready),
                            ![o].died = IF dead THEN lane.pid ELSE None]
    BY <1>2, ZenonT(60) DEF Judge
  <2>7. PICK p, prior, way, rec, died :
          ops' = [ops EXCEPT ![o].pc = "claim", ![o].at = p, ![o].prior = prior,
                       ![o].way = way, ![o].rec = rec, ![o].died = died]
    BY <2>1, Zenon
  <2>2. PICK d : d = ops[o] /\ Fielded(d)
    BY DEF VerbInv, CallShape
  <2>3. PICK c : c = [ops[o] EXCEPT !.pc = "claim", !.at = p, !.prior = prior,
                                    !.way = way, !.rec = rec, !.died = died]
    OBVIOUS
  <2>4. c = [d EXCEPT !.pc = "claim", !.at = p, !.prior = prior,
                      !.way = way, !.rec = rec, !.died = died]
    BY <2>2, <2>3
  <2>5. Fielded(c) /\ c.pc = "claim"
    BY <2>2, <2>4 DEF Fielded
  <2>6. ops' = [ops EXCEPT ![o] = c]
    BY <2>3, <2>7
  <2> QED
    BY <2>5, <2>6, Replaced DEF VerbInv, Alone, Cleared, ClearedAt, Returning
<1> QED
  BY <1>1, <1>2

\* A discard has none.
LEMMA DiscardsFree ==
  ASSUME VerbInv, NEW o \in Ops,
         Inspect(o) \/ Reread(o) \/ ListClaims(o) \/ CheckPid(o) \/ CheckClaim(o)
  PROVE  Alone(o) /\ ~Cleared(o)'
<1>1. ops[o].verb = "discard"
  BY VerbAt DEF VerbInv, Inspect, Reread, ListClaims, CheckPid, CheckClaim, At
<1>2. PICK d : d = ops[o] /\ Fielded(d)
  BY DEF VerbInv, CallShape
<1>3. ASSUME NEW c, Fielded(c), c.verb = "discard", ops' = [ops EXCEPT ![o] = c]
      PROVE  Alone(o) /\ ~Cleared(o)'
  BY <1>3, Replaced DEF VerbInv, Alone, Cleared, ClearedAt
<1>4. CASE Refuse(o) \/ Release(o)
  BY <1>4, LeavesFree
<1>5. CASE \E pc : Proceed(o, pc)
  BY <1>1, <1>5, GoesFree DEF ClearedAt
<1>6. CASE Inspect(o) /\ ~Refuse(o)
  <2>1. PICK stake, died : ops' = [ops EXCEPT ![o].pc = "stake", ![o].stake = stake, ![o].died = died]
    BY <1>6, ZenonT(60) DEF Inspect
  <2>2. PICK c : c = [ops[o] EXCEPT !.pc = "stake", !.stake = stake, !.died = died]
    OBVIOUS
  <2>3. c = [d EXCEPT !.pc = "stake", !.stake = stake, !.died = died]
    BY <1>2, <2>2
  <2>4. Fielded(c) /\ c.verb = d.verb
    BY <1>2, <2>3 DEF Fielded
  <2>5. ops' = [ops EXCEPT ![o] = c]
    BY <2>1, <2>2
  <2> QED
    BY <1>1, <1>2, <1>3, <2>4, <2>5
<1>7. CASE ListClaims(o)
  <2>1. PICK todo : ops' = [ops EXCEPT ![o].pc = "proof", ![o].todo = todo]
    BY <1>7, Zenon DEF ListClaims
  <2>2. PICK c : c = [ops[o] EXCEPT !.pc = "proof", !.todo = todo]
    OBVIOUS
  <2>3. c = [d EXCEPT !.pc = "proof", !.todo = todo]
    BY <1>2, <2>2
  <2>4. Fielded(c) /\ c.verb = d.verb
    BY <1>2, <2>3 DEF Fielded
  <2>5. ops' = [ops EXCEPT ![o] = c]
    BY <2>1, <2>2
  <2> QED
    BY <1>1, <1>2, <1>3, <2>4, <2>5
<1>8. CASE CheckClaim(o) /\ ~Release(o) /\ ~\E pc : Proceed(o, pc)
  <2>1. PICK file : ops' = [ops EXCEPT ![o].todo = @ \ {file}]
    BY <1>8, Zenon DEF CheckClaim
  <2>2. PICK c : c = [ops[o] EXCEPT !.todo = @ \ {file}]
    OBVIOUS
  <2>3. c = [d EXCEPT !.todo = d.todo \ {file}]
    BY <1>2, <2>2
  <2>4. Fielded(c) /\ c.verb = d.verb
    BY <1>2, <2>3 DEF Fielded
  <2>5. ops' = [ops EXCEPT ![o] = c]
    BY <2>1, <2>2
  <2> QED
    BY <1>1, <1>2, <1>3, <2>4, <2>5
<1>9. CASE Reread(o) \/ CheckPid(o)
  BY <1>4, <1>5, <1>9 DEF Reread, CheckPid
<1> QED
  BY <1>4, <1>5, <1>6, <1>7, <1>8, <1>9

\* Nor have those that go on, and go elsewhere, or leave.
LEMMA OthersFree ==
  ASSUME VerbInv, NEW o \in Ops,
         \/ AddWorktree(o) \/ RecordLane(o) \/ SpawnFails(o) \/ Hand(o) \/ Decide(o) \/ DecideFails(o)
         \/ CheckHead(o) \/ OpenPullRequest(o) \/ EditPullRequest(o) \/ RecordPublished(o)
         \/ View(o) \/ RemoveWorktree(o) \/ Archive(o) \/ CheckQuiet(o) \/ AppendPr(o) \/ Lost(o) \/ Crash(o)
  PROVE  Alone(o) /\ ~Cleared(o)'
<1>1. CASE Leave(o) \/ Refuse(o) \/ Forfeit(o) \/ Release(o)
  BY <1>1, LeavesFree
<1>2. CASE AddWorktree(o) \/ RecordLane(o)
  <2>1. ops[o].verb = "start"
    BY <1>2, VerbAt DEF VerbInv, AddWorktree, RecordLane, At
  <2>2. Refuse(o) \/ \E pc : Go(o, pc)
    BY <1>2 DEF AddWorktree, RecordLane
  <2> QED
    BY <1>1, <2>1, <2>2, GoesFree DEF ClearedAt
<1>3. CASE SpawnFails(o) \/ Decide(o) \/ DecideFails(o) \/ AppendPr(o) \/ Lost(o) \/ Crash(o)
  <2>1. Leave(o)
    BY <1>3 DEF SpawnFails, Decide, DecideFails, AppendPr, Lost, Crash, Refuse, LetGo
  <2> QED
    BY <1>1, <2>1
<1>4. CASE Hand(o)
  <2>1. Go(o, "decide")
    BY <1>4 DEF Hand
  <2> QED
    BY <2>1, GoesFree DEF ClearedAt, Returning
<1>5. CASE CheckHead(o) \/ OpenPullRequest(o) \/ EditPullRequest(o) \/ RecordPublished(o)
  <2>1. Leave(o) \/ Forfeit(o) \/ \E pc \in {"open", "edit", "publish", "decide"} : Go(o, pc) \/ Proceed(o, pc)
    BY <1>5 DEF CheckHead, OpenPullRequest, EditPullRequest, RecordPublished
  <2> QED
    BY <1>1, <2>1, GoesFree DEF ClearedAt, Returning
<1>6. CASE View(o) \/ RemoveWorktree(o) \/ Archive(o)
  <2>1. Leave(o) \/ Refuse(o) \/ Release(o) \/ \E pc \in {"remove", "move"} : Go(o, pc) \/ Proceed(o, pc)
    BY <1>6 DEF View, RemoveWorktree, Archive, GiveUp
  <2> QED
    BY <1>1, <2>1, GoesFree DEF ClearedAt, Returning
<1>7. CASE CheckQuiet(o)
  <2>1. Refuse(o) \/ Proceed(o, "append")
    BY <1>7 DEF CheckQuiet
  <2> QED
    BY <1>1, <2>1, GoesFree DEF ClearedAt, Returning
<1> QED
  BY <1>2, <1>3, <1>4, <1>5, <1>6, <1>7

\* A call that goes on with its end, and asks no more of it, does.
LEMMA FollowsOn ==
  ASSUME Shapes, Heads, NEW o \in Ops, Cleared(o),
         ops'[o].verb = ops[o].verb, ops'[o].n = ops[o].n, ops'[o].way = ops[o].way, ops'[o].at = ops[o].at,
         ops'[o].stake = ops[o].stake, ops'[o].died = ops[o].died,
         ops'[o].pc # "uncommit", Waiting(o)' => Waiting(o),
         BacksAt(ops'[o]) => BacksAt(ops[o]) \/ Rests(lane.head) \/ Retaken(o)
  PROVE  Follows(o)
<1>1. CallHead(o) /\ ops[o].n \in Spots
  BY DEF Heads, Shapes, Aimed
<1>2. BacksAt(ops'[o]) => Rests(lane.head) \/ Retaken(o)
  BY <1>1 DEF CallHead, Lies
<1>3. OwnRow(o)'
  BY <1>1 DEF CallHead, OwnRow, Cleared
<1> QED
  BY <1>1, <1>2, <1>3 DEF Follows

\* Of such a step of a verb, that is all to know.
LEMMA PlainVerb ==
  ASSUME VerbInv, RaceInv, Heads, NEW o \in Ops, Verb(o), ~Spawn(o), lane'.head = lane.head,
         RecordUndo(o) => journal' = journal, Alone(o), Follows(o)
  PROVE  Heads'
<1>1. Shapes /\ Plain
  BY PlainIs DEF RaceInv
<1>2. \A q \in Ops : Follows(q)
  BY <1>1, FollowsStill DEF Alone
<1> QED
  BY <1>1, <1>2, HeadPlain

\* Nor is there more to one of a call without an end that it found.
LEMMA FreeVerb ==
  ASSUME VerbInv, VerbInv', RaceInv, Heads, NEW o \in Ops, Verb(o), ~Spawn(o), lane'.head = lane.head,
         RecordUndo(o) => journal' = journal, Alone(o), ~Cleared(o)'
  PROVE  Heads'
<1>1. Follows(o)
  BY FollowsFree DEF VerbInv
<1> QED
  BY <1>1, PlainVerb

\* The claim of an end, and the lock of a claim that is stale.
LEMMA TakesFollow ==
  ASSUME VerbInv, VerbInv', Shapes, Heads, NEW o \in Ops, Stake(o) \/ TakeLock(o) \/ Displace(o) \/ Replace(o)
  PROVE  Alone(o) /\ Follows(o)
<1>1. /\ ops[o].verb \in {"return", "discard"}
      /\ ops[o].pc \in {"stake", "lock", "displace", "replace"}
  BY VerbAt DEF VerbInv, Stake, TakeLock, Displace, Replace, At
<1>2. CASE Unstaked(o) \/ Unlocked(o)
  BY <1>2, LeavesFree, FollowsFree DEF VerbInv
<1>3. ASSUME NEW c, Fielded(c), ops' = [ops EXCEPT ![o] = c], c.verb = ops[o].verb, c.n = ops[o].n,
             c.way = ops[o].way, c.at = ops[o].at, c.stake = ops[o].stake, c.died = ops[o].died,
             c.pc \in {"lock", "displace", "replace"} \/ c.pc = Staked(o)
      PROVE  Alone(o) /\ Follows(o)
  <2>1. ops'[o] = c /\ Alone(o)
    BY <1>3, Replaced DEF VerbInv, Alone
  <2>2. CASE ops[o].verb = "discard"
    <3>1. ~Cleared(o)'
      BY <1>3, <2>1, <2>2 DEF Cleared, ClearedAt
    <3> QED
      BY <2>1, <3>1, FollowsFree DEF VerbInv
  <2>3. CASE ops[o].verb = "return"
    <3>1. Cleared(o) /\ Aiming(o)
      BY <1>1, <2>3 DEF Cleared, ClearedAt, Aiming, AimsAt, Returning
    <3>2. ops[o].way \in {"stop", "ready"}
      BY <3>1 DEF Shapes, Aimed
    <3>3. c.pc \in {"lock", "displace", "replace"} \/ c.pc = (IF ops[o].way = "stop" THEN "confirm" ELSE "spec")
      BY <1>3, <2>3 DEF Staked
    <3>4. ~BacksAt(c) /\ c.pc # "uncommit"
      BY <1>3, <3>2, <3>3 DEF BacksAt
    <3>5. Waiting(o)' => Waiting(o)
      BY <1>1, <1>3, <2>1 DEF Waiting, WaitsAt
    <3> QED
      BY <1>3, <2>1, <3>1, <3>4, <3>5, FollowsOn
  <2> QED
    BY <1>1, <2>2, <2>3
<1>4. PICK d : d = ops[o] /\ Fielded(d)
  BY DEF VerbInv, CallShape
<1>5. ASSUME NEW pc, Go(o, pc), pc \in {"lock", "displace", "replace"} \/ pc = Staked(o)
      PROVE  Alone(o) /\ Follows(o)
  <2>1. PICK c : c = [ops[o] EXCEPT !.pc = pc]
    OBVIOUS
  <2>2. c = [d EXCEPT !.pc = pc]
    BY <1>4, <2>1
  <2>3. /\ Fielded(c) /\ c.pc = pc /\ c.verb = d.verb /\ c.at = d.at /\ c.n = d.n
        /\ c.way = d.way /\ c.died = d.died /\ c.stake = d.stake
    BY <1>4, <2>2 DEF Fielded
  <2>4. ops' = [ops EXCEPT ![o] = c]
    BY <1>5, <2>1 DEF Go
  <2> QED
    BY <1>3, <1>4, <1>5, <2>3, <2>4
<1>6. ASSUME NEW pc, NEW text, pc \in {"lock", "displace", "replace"} \/ pc = Staked(o),
             ops' = [ops EXCEPT ![o].pc = pc, ![o].text = text]
      PROVE  Alone(o) /\ Follows(o)
  <2>1. PICK c : c = [ops[o] EXCEPT !.pc = pc, !.text = text]
    OBVIOUS
  <2>2. c = [d EXCEPT !.pc = pc, !.text = text]
    BY <1>4, <2>1
  <2>3. /\ Fielded(c) /\ c.pc = pc /\ c.verb = d.verb /\ c.at = d.at /\ c.n = d.n
        /\ c.way = d.way /\ c.died = d.died /\ c.stake = d.stake
    BY <1>4, <2>2 DEF Fielded
  <2>4. ops' = [ops EXCEPT ![o] = c]
    BY <1>6, <2>1
  <2> QED
    BY <1>3, <1>4, <1>6, <2>3, <2>4
<1>7. CASE Stake(o)
  BY <1>2, <1>5, <1>6, <1>7 DEF Stake
<1>8. CASE TakeLock(o)
  BY <1>2, <1>5, <1>8 DEF TakeLock
<1>9. CASE Displace(o)
  BY <1>2, <1>5, <1>9 DEF Displace
<1>10. CASE Replace(o)
  BY <1>2, <1>6, <1>10 DEF Replace
<1> QED
  BY <1>7, <1>8, <1>9, <1>10

\* The claim of a decision: a return on a ready row has found its end with it.
LEMMA ClaimFollows ==
  ASSUME VerbInv, VerbInv', Shapes, Heads, NEW o \in Ops, ClaimDecision(o)
  PROVE  Alone(o) /\ Follows(o)
<1>1. CASE Refuse(o)
  BY <1>1, LeavesFree, FollowsFree DEF VerbInv
<1>2. CASE ~Refuse(o)
  <2>1. ops[o].pc = "claim" /\ ops[o].verb \in {"return", "accept", "abandon"}
    BY <1>2, VerbAt DEF VerbInv, ClaimDecision, At
  <2>2. PICK pc : /\ pc = CASE ops[o].verb = "accept" -> "head"
                            [] ops[o].verb = "abandon" -> "decide"
                            [] OTHER -> IF ops[o].way = "stop" THEN "recheck" ELSE "stake"
                  /\ ops' = [ops EXCEPT ![o].pc = pc, ![o].stake = ops[o].at]
    BY <1>2, Zenon DEF ClaimDecision
  <2>3. PICK d : d = ops[o] /\ Fielded(d)
    BY DEF VerbInv, CallShape
  <2>4. PICK c : c = [ops[o] EXCEPT !.pc = pc, !.stake = ops[o].at]
    OBVIOUS
  <2>5. c = [d EXCEPT !.pc = pc, !.stake = d.at]
    BY <2>3, <2>4
  <2>6. /\ Fielded(c) /\ c.pc = pc /\ c.verb = d.verb /\ c.at = d.at /\ c.way = d.way /\ c.stake = d.at
        /\ c.n = d.n
    BY <2>3, <2>5 DEF Fielded
  <2>7. ops' = [ops EXCEPT ![o] = c]
    BY <2>2, <2>4
  <2>8. ops'[o] = c /\ Alone(o)
    BY <2>6, <2>7, Replaced DEF VerbInv, Alone
  <2>9. CASE c.pc # "stake"
    <3>1. ~Cleared(o)'
      BY <2>1, <2>2, <2>3, <2>6, <2>8, <2>9 DEF Cleared, ClearedAt, Returning
    <3> QED
      BY <2>8, <3>1, FollowsFree DEF VerbInv
  <2>10. CASE c.pc = "stake"
    <3>1. c.way # "stop"
      BY <2>1, <2>2, <2>3, <2>6, <2>10
    <3> QED
      BY <2>6, <2>8, <2>10, <3>1 DEF Follows, Waiting, WaitsAt, BacksAt, OwnRow
  <2> QED
    BY <2>9, <2>10
<1> QED
  BY <1>1, <1>2

\* A return that looks at its end again finds no run that has begun, and none
\* that is to begin where a commit stands.
LEMMA RecheckFollows ==
  ASSUME VerbInv, VerbInv', RaceInv, DueInv', Heads, ~ghost.raced, NEW o \in Ops, Recheck(o)
  PROVE  Alone(o) /\ Follows(o)
<1>1. CASE Forfeit(o)
  BY <1>1, LeavesFree, FollowsFree DEF VerbInv
<1>2. CASE ~Forfeit(o)
  <2>1. /\ UNCHANGED <<journal, lane, runs, ghost>> /\ Alone(o)
        /\ ops'[o].verb = "return" /\ ops'[o].pc = "stake"
        /\ ops'[o].way = ops[o].way /\ ops'[o].n = ops[o].n
        /\ ops'[o].died # None => NoneAtWork
    BY <1>2, Rechecked DEF RaceInv
  <2>2. ops[o].verb = "return" /\ ops[o].pc = "recheck"
    BY VerbAt DEF VerbInv, Recheck, At
  <2>3. ops[o].way = "stop" /\ ops[o].n \in Spots /\ Len(journal) \in Nat
    BY <2>2 DEF RaceInv, Shapes, Aimed, Aiming, AimsAt, Returning, RowShape
  <2>4. ASSUME ops[o].n = Len(journal)
        PROVE  NoneAtWork \/ Standing(Len(journal)) = 0
    <3> SUFFICES ASSUME NEW r \in DOMAIN runs, AtWork(r), Standing(Len(journal)) # 0
                 PROVE  FALSE
      BY DEF NoneAtWork
    <3>1. PICK c : c = ops'[o]
      OBVIOUS
    <3>2. WaitsAt(c) /\ c.died = None /\ c.n = Len(journal)
      BY <2>1, <2>3, <2>4, <3>1 DEF WaitsAt, NoneAtWork
    <3>3. PICK s : s = c.stake /\ s \in 1..Len(journal) /\ journal[s].ev = "stop"
      BY <2>1, <3>1, <3>2 DEF DueInv, Dues, Due, DueAt
    <3>4. Settled(s, Len(journal))
      <4>1. ClearedAt(c.verb, c.pc) /\ EndOf(c)' = s
        BY <3>2, <3>3 DEF WaitsAt, ClearedAt, Returning, EndOf
      <4>2. Settled(EndOf(c), c.n)'
        BY <3>1, <4>1 DEF DueInv, Dues, Due, DueAt
      <4> QED
        BY <2>1, <3>2, <4>1, <4>2 DEF Settled
    <3>5. runs[r].phase = "born"
      <4>1. Parked(o)' /\ Waiting(o)'
        BY <2>1, <3>1, <3>2 DEF DueInv, Lays, Waiting
      <4>2. ops'[o].n = Len(journal)'
        BY <2>1, <2>4
      <4> QED
        BY <2>1, <4>1, <4>2 DEF Parked, AtWork
    <3>6. PICK p \in 1..Len(journal) : Latest(p)
      BY <3>5 DEF Heads, Branch, BornOn
    <3>7. s <= p
      BY <2>3, <3>3, <3>6 DEF Latest, NoRunBetween, CallRows
    <3> QED
      BY <2>3, <3>3, <3>4, <3>6, <3>7 DEF Latest, Ready, Settled
  <2>5. ops'[o].pc # "uncommit" /\ ~BacksAt(ops'[o]) /\ OwnRow(o)'
    BY <2>1, <2>3 DEF BacksAt, OwnRow
  <2> QED
    BY <2>1, <2>3, <2>4, <2>5 DEF Follows
<1> QED
  BY <1>1, <1>2


\* The spec, and run.pid: the end is confirmed by then.
LEMMA PreparesFollow ==
  ASSUME VerbInv, VerbInv', Shapes, Heads, NEW o \in Ops, WriteSpec(o) \/ DropPid(o)
  PROVE  Alone(o) /\ Follows(o)
<1>1. ops[o].verb = "return" /\ ops[o].pc \in {"spec", "drop"}
  BY VerbAt DEF VerbInv, WriteSpec, DropPid, At
<1>2. CASE Release(o)
  BY <1>2, LeavesFree, FollowsFree DEF VerbInv
<1>3. CASE Go(o, "drop") \/ Go(o, "spawn")
  <2>1. PICK pc \in {"drop", "spawn"} : Go(o, pc)
    BY <1>3
  <2>2. /\ Alone(o) /\ ops'[o].pc = pc /\ ops'[o].verb = ops[o].verb
        /\ ops'[o].n = ops[o].n /\ ops'[o].way = ops[o].way /\ ops'[o].at = ops[o].at
        /\ ops'[o].stake = ops[o].stake /\ ops'[o].died = ops[o].died
    BY <2>1, GoRead DEF VerbInv
  <2>3. Cleared(o) /\ ~Waiting(o)' /\ (BacksAt(ops'[o]) => BacksAt(ops[o]))
    BY <1>1, <2>1, <2>2 DEF Cleared, ClearedAt, Returning, Waiting, WaitsAt, BacksAt
  <2> QED
    BY <2>1, <2>2, <2>3, FollowsOn
<1> QED
  BY <1>2, <1>3 DEF WriteSpec, DropPid

\* A return finds no run at work at an end of its own.
LEMMA OwnEnd ==
  ASSUME RaceInv, ~ghost.raced, NEW o \in Ops, Cleared(o), ~Retaken(o)
  PROVE  NoneAtWork
BY DEF RaceInv, Races, ClearedQuiet, Quiet

\* Where one waits, a run was launched for every ready row that is the last word.
LEMMA WaitServed ==
  ASSUME RaceInv, DueInv, Heads, NEW q \in Ops, Waiting(q), ops[q].n = Len(journal)
  PROVE  NoneLatest
<1>0. PICK n, w : n = Len(journal) /\ w = ops[q]
  OBVIOUS
<1>1. Shapes /\ n \in Nat
  BY <1>0 DEF RaceInv, Shapes, RowShape
<1> SUFFICES ASSUME NEW p \in 1..n, Latest(p) PROVE Served(p)
  BY <1>0 DEF NoneLatest
<1>2. p \in 1..n /\ journal[p].ev = "ready" /\ \A k \in (p + 1)..n : journal[k].ev \in CallRows
  BY <1>0 DEF Latest, Ready, NoRunBetween
<1>3. DueAt(w) /\ WaitsAt(w) /\ w.n = n
  BY <1>0 DEF DueInv, Dues, Due, Waiting
<1>4. w.died # None
  <2> SUFFICES ASSUME w.died = None PROVE FALSE
    OBVIOUS
  <2>1. w.stake \in 1..n /\ journal[w.stake].ev = "stop"
    BY <1>0, <1>3 DEF DueAt
  <2>2. Settled(w.stake, n)
    <3>1. ClearedAt(w.verb, w.pc) /\ EndOf(w) = w.stake
      BY <1>3 DEF WaitsAt, ClearedAt, Returning, EndOf
    <3> QED
      BY <1>3, <3>1 DEF DueAt
  <2>3. w.stake <= p
    BY <1>1, <1>2, <2>1 DEF CallRows
  <2> QED
    BY <1>1, <1>2, <2>1, <2>2, <2>3 DEF Settled
<1>5. PICK l : l = LastRow(n)
  OBVIOUS
<1>6. /\ l \in 1..n /\ ~SupersededReturn(l)
      /\ \A k \in 1..n : ~SupersededReturn(k) => k <= l
      /\ journal[l].ev \notin {"stop", "pr", "ready", "accept", "abandon"}
  BY <1>1, <1>3, <1>4, <1>5, TailRow DEF DueAt
<1>7. l \in (p + 1)..n
  <2>1. ~SupersededReturn(p)
    BY <1>2 DEF SupersededReturn
  <2> QED
    BY <1>1, <1>2, <1>6, <2>1
<1>8. journal[l].ev \in {"uncommit", "return"}
  BY <1>2, <1>6, <1>7 DEF CallRows
<1>9. CASE journal[l].ev = "uncommit"
  <2>1. NoRunBetween(p, l)
    BY <1>1, <1>2, <1>7 DEF NoRunBetween
  <2> QED
    BY <1>0, <1>1, <1>2, <1>7, <1>9, <2>1 DEF Heads, RowsTell, UndoneServed
<1>10. CASE journal[l].ev = "return"
  <2>1. PICK num : num = journal[l].num
    OBVIOUS
  <2>2. num \in 1..l /\ Answered(num - 1)
    BY <1>0, <1>6, <1>10, <2>1 DEF DueInv, Dues, ReturnsTold, Told
  <2>3. \A k \in num..(l - 1) : journal[k].ev \notin {"start", "ready", "stop"}
    BY <1>6, <1>10, <2>1 DEF SupersededReturn
  <2>4. p <= num - 1
    BY <1>1, <1>2, <1>7, <2>2, <2>3
  <2>5. PICK act \in Launches : Settled(EndOf(act), num - 1)
    BY <2>2 DEF Answered
  <2>6. EndOf(act) \in 0..n
    BY <1>0, <1>1 DEF Shapes, ActsPlaced, Spots
  <2>7. p <= EndOf(act)
    BY <1>1, <1>2, <2>2, <2>4, <2>5, <2>6 DEF Settled
  <2>8. NoRunBetween(p, EndOf(act))
    BY <1>1, <1>2, <2>6 DEF NoRunBetween
  <2> QED
    BY <2>7, <2>8 DEF Served
<1> QED
  BY <1>8, <1>9, <1>10

\* A step that moves the branch alone leaves what is told of commits.
LEMMA StillTold ==
  ASSUME Shapes, Heads, UNCHANGED <<journal, runs, ghost>>
  PROVE  /\ RowsTell'
         /\ \A h : (Rests(h)' <=> Rests(h)) /\ (Stands(h)' <=> Stands(h))
         /\ Standing(Len(journal))' = Standing(Len(journal))
         /\ NoneLatest' <=> NoneLatest
         /\ NoneAtWork' <=> NoneAtWork
         /\ \A p : (Latest(p)' <=> Latest(p)) /\ (Served(p)' <=> Served(p))
<1>1. \A h : Rests(h)' <=> Rests(h)
  BY DEF Rests, AtWork, Loose
<1>2. Standing(Len(journal))' = Standing(Len(journal))
  BY DEF Standing, Last, Newest, After, Of
<1>3. \A h : Stands(h)' <=> Stands(h)
  BY <1>2 DEF Stands
<1>4. \A p : (Latest(p)' <=> Latest(p)) /\ (Served(p)' <=> Served(p))
  BY DEF Latest, Ready, NoRunBetween, Served, Launches, EndOf
<1>5. (NoneLatest' <=> NoneLatest) /\ (NoneAtWork' <=> NoneAtWork)
  BY <1>4 DEF NoneLatest, NoneAtWork, AtWork
<1>6. RowsTell'
  <2>1. \A s \in DOMAIN runs' : runs'[s].commit # "no" =>
          s \in DOMAIN runs /\ runs[s].commit # "no" /\ runs'[s].below = runs[s].below
    OBVIOUS
  <2> QED
    BY <1>1, <2>1, ToldOn DEF Heads, Launches
<1> QED
  BY <1>1, <1>2, <1>3, <1>4, <1>5, <1>6

\* A return confirms its end: the branch goes to a commit to rest on.
LEMMA HeadConfirmed ==
  ASSUME VerbInv, VerbInv', RaceInv, DueInv, Heads, ~ghost.raced, NEW o \in Ops, Confirm(o)
  PROVE  Heads'
<1>0. PICK n : n = Len(journal)
  OBVIOUS
<1>1. /\ ops[o].verb = "return" /\ ops[o].pc = "confirm" /\ ops[o].way = "stop"
      /\ Verb(o) /\ ~Spawn(o) /\ ~RecordUndo(o) /\ Shapes
  <2>1. ops[o].verb = "return" /\ ops[o].pc = "confirm"
    BY VerbAt DEF VerbInv, Confirm, At
  <2> QED
    BY <2>1 DEF DueInv, Dues, Due, DueAt, Verb, Spawn, RecordUndo, At, RaceInv
<1>2. Cleared(o) /\ Waiting(o) /\ CallHead(o)
  BY <1>1 DEF Cleared, ClearedAt, Returning, Waiting, WaitsAt, Heads
<1>3. CASE UNCHANGED lane /\ Release(o)
  BY <1>1, <1>3, LeavesFree, FreeVerb
<1>4. CASE ~(UNCHANGED lane /\ Release(o)) /\ Standing(n) = 0
  <2>1. n = ops[o].n /\ Go(o, "spec") /\ lane' = lane
    BY <1>0, <1>4 DEF Confirm, Proceed
  <2>2. /\ Alone(o) /\ ops'[o].pc = "spec" /\ ops'[o].verb = ops[o].verb
        /\ ops'[o].n = ops[o].n /\ ops'[o].way = ops[o].way /\ ops'[o].at = ops[o].at
        /\ ops'[o].stake = ops[o].stake /\ ops'[o].died = ops[o].died
    BY <2>1, GoRead DEF VerbInv
  <2>3. Rests(lane.head) \/ Retaken(o)
    <3> SUFFICES ASSUME ~Retaken(o) PROVE Rests(lane.head)
      OBVIOUS
    <3>1. NoneAtWork
      BY <1>2, OwnEnd
    <3> QED
      BY <1>0, <1>4, <3>1 DEF Heads, Branch, HeadLeft, Stands, NoneAtWork
  <2>4. ~Waiting(o)'
    BY <2>2 DEF Waiting, WaitsAt
  <2>5. Follows(o)
    BY <1>1, <1>2, <2>2, <2>3, <2>4, FollowsOn
  <2> QED
    BY <1>1, <2>1, <2>2, <2>5, PlainVerb
<1>5. CASE ~(UNCHANGED lane /\ Release(o)) /\ Standing(n) # 0
  <2>1. /\ n = ops[o].n /\ Go(o, "uncommit") /\ UNCHANGED <<journal, runs, ghost>>
        /\ lane' = [lane EXCEPT !.head = Beneath] /\ lane.head = journal[Standing(n)].head
    BY <1>0, <1>5 DEF Confirm, UndoOk
  <2>2. /\ Alone(o) /\ ops'[o].pc = "uncommit" /\ ops'[o].verb = ops[o].verb
        /\ ops'[o].n = ops[o].n /\ ops'[o].way = ops[o].way /\ ops'[o].at = ops[o].at
        /\ ops'[o].stake = ops[o].stake /\ ops'[o].died = ops[o].died
    BY <2>1, GoRead DEF VerbInv
  <2>3. Stands(lane.head)
    BY <1>0, <1>5, <2>1 DEF Stands
  <2>4. PICK h, w : h = lane.head /\ w = runs[h].below
    OBVIOUS
  <2>5. h \in DOMAIN runs /\ runs[h].commit # "no"
    <3>1. n \in Nat
      BY <1>0, <1>1 DEF Shapes, RowShape
    <3>2. Standing(n) \in 1..n /\ journal[Standing(n)].ev = "commit"
      BY <1>5, <3>1, StandingRow
    <3> QED
      BY <1>0, <2>1, <2>4, <3>2 DEF Heads, RowsTell, CommitsTold
  <2>6. Rests(w) /\ w # h
    BY <2>4, <2>5 DEF Heads, RowsTell, BelowRests
  <2>7. lane'.head = w
    <3>1. PICK l : l = lane /\ Laned(l)
      BY <1>1 DEF Shapes, LaneShape
    <3>2. lane' = [l EXCEPT !.head = w]
      BY <2>1, <2>4, <2>5, <3>1 DEF Beneath
    <3> QED
      BY <3>1, <3>2 DEF Laned
  <2>8. NoneAtWork /\ NoneLatest
    BY <1>0, <1>2, <1>5, <2>1, WaitServed DEF CallHead, Unbegun
  <2>9. \A q \in Ops : ops[q].pc # "uncommit"
    BY <2>3 DEF Heads, CallHead, Undone
  <2>10. /\ RowsTell' /\ NoneLatest' /\ NoneAtWork'
         /\ \A c : (Rests(c)' <=> Rests(c)) /\ (Stands(c)' <=> Stands(c))
         /\ Standing(Len(journal))' = Standing(Len(journal))
         /\ \A p : (Latest(p)' <=> Latest(p)) /\ (Served(p)' <=> Served(p))
    BY <1>1, <2>1, <2>8, StillTold
  <2>11. Rests(lane.head)' /\ ~Stands(lane.head)'
    <3>1. Rests(w)' /\ ~Stands(w)'
      BY <2>3, <2>4, <2>6, <2>10 DEF Stands
    <3> QED
      BY <2>7, <3>1 DEF Rests, Stands
  <2>12. Branch'
    <3>1. HeadReady'
      BY <2>8, <2>10 DEF HeadReady, NoneLatest
    <3> QED
      BY <2>10, <2>11, <3>1 DEF Branch, HeadAtWork, HeadLeft, BornOn, NoneAtWork
  <2>13. OneUndo'
    BY <2>2, <2>9 DEF OneUndo, Alone
  <2>14. ASSUME NEW q \in Ops
         PROVE  CallHead(q)'
    <3>1. CallHead(q)
      BY DEF Heads
    <3>2. Lies(q)'
      BY <2>11 DEF Lies
    <3>3. Unbegun(q)'
      BY <2>10 DEF Unbegun
    <3>4. Undone(q)'
      BY <1>0, <1>5, <2>10, <2>11 DEF Undone
    <3>5. OwnRow(q)'
      <4>1. CASE q = o
        BY <1>1, <2>2, <4>1 DEF OwnRow
      <4>2. CASE q # o
        BY <2>2, <3>1, <4>2 DEF Alone, CallHead, OwnRow, Cleared
      <4> QED
        BY <4>1, <4>2
    <3> QED
      BY <3>2, <3>3, <3>4, <3>5 DEF CallHead
  <2> QED
    BY <2>10, <2>12, <2>13, <2>14 DEF Heads
<1> QED
  BY <1>3, <1>4, <1>5

\* It tells that it took the commit back.
LEMMA HeadUndone ==
  ASSUME VerbInv, VerbInv', RaceInv, Heads, NEW o \in Ops, RecordUndo(o)
  PROVE  Heads'
<1>0. PICK n : n = Len(journal)
  OBVIOUS
<1>1. /\ ops[o].verb = "return" /\ ops[o].pc = "uncommit"
      /\ Verb(o) /\ ~Spawn(o) /\ Shapes
  <2>1. ops[o].verb = "return" /\ ops[o].pc = "uncommit"
    BY VerbAt DEF VerbInv, RecordUndo, At
  <2> QED
    BY <2>1 DEF Verb, Spawn, At, RaceInv
<1>2. CASE UNCHANGED lane /\ Release(o)
  <2>1. lane'.head = lane.head /\ journal' = journal
    BY <1>2 DEF Release, LetGo
  <2> QED
    BY <1>1, <1>2, <2>1, LeavesFree, FreeVerb
<1>3. CASE ~(UNCHANGED lane /\ Release(o))
  <2>1. PICK row : row = Row("uncommit", 0, 0)
    OBVIOUS
  <2>2. /\ row.ev = "uncommit" /\ row.ev \in CallRows /\ row.ev \in Kinds \ {"commit"}
        /\ Put(row) /\ Go(o, "spec") /\ UNCHANGED <<lane, runs, ghost>>
    BY <1>3, <2>1 DEF RecordUndo, Row, CallRows, Kinds
  <2>3. /\ Alone(o) /\ ops'[o].pc = "spec" /\ ops'[o].verb = ops[o].verb
        /\ ops'[o].n = ops[o].n /\ ops'[o].way = ops[o].way /\ ops'[o].at = ops[o].at
        /\ ops'[o].stake = ops[o].stake /\ ops'[o].died = ops[o].died
    BY <2>2, GoRead DEF VerbInv
  <2>4. NoneAtWork /\ Rests(lane.head) /\ NoneLatest
    BY <1>1 DEF Heads, CallHead, Undone
  <2>5. /\ RowShape /\ RowsKept /\ ActsPlaced /\ n \in Nat /\ Len(journal') = n + 1
        /\ RowsStay /\ journal'[n + 1] = row
    <3>1. RowShape /\ RowsKept /\ ActsPlaced
      BY <1>1, <2>2 DEF Shapes, RowsKept
    <3> QED
      BY <1>0, <2>2, <3>1, CallsOnly, RowAfter
  <2>6. \A h : Rests(h) => Rests(h)'
    <3> SUFFICES ASSUME NEW h, Rests(h) PROVE Rests(h)'
      OBVIOUS
    <3>1. CASE h \in DOMAIN runs
      <4>1. runs'[h].commit # "no" \/ h = 0
        BY <2>2 DEF Rests
      <4> QED
        BY <2>2, <2>5, <3>1, <4>1, RestsOn DEF AtWork, Rests
    <3>2. CASE h \notin DOMAIN runs
      BY <3>2 DEF Rests
    <3> QED
      BY <3>1, <3>2
  <2>7. RowsTell'
    <3>1. \A s \in DOMAIN runs' : runs'[s].commit # "no" =>
            s \in DOMAIN runs /\ runs[s].commit # "no" /\ runs'[s].below = runs[s].below
      BY <2>2
    <3>2. /\ RowsTell /\ Launches \subseteq Launches'
          /\ \A s \in DOMAIN runs : /\ s \in DOMAIN runs'
                                    /\ runs[s].commit \notin {"no", "made"} => runs'[s].commit \notin {"no", "made"}
      BY <2>2 DEF Heads, Launches
    <3>3. \E put : /\ put.ev \in Kinds /\ Put(put)
                   /\ put.ev # "commit" /\ put.ev # "ready"
                   /\ put.ev = "uncommit" => NoneLatest
      BY <2>2, <2>4
    <3> QED
      BY <1>1, <2>6, <3>1, <3>2, <3>3, ToldOn
  <2>8. Rests(lane.head)' /\ NoneAtWork'
    <3>1. PICK h : h = lane.head
      OBVIOUS
    <3> QED
      BY <2>2, <2>4, <2>6, <3>1 DEF Rests, NoneAtWork, AtWork
  <2>9. Standing(Len(journal))' = 0
    BY <2>2, <2>5, NoneStands
  <2>10. HeadReady'
    <3> SUFFICES ASSUME NEW p \in 1..Len(journal'), Latest(p)'
                 PROVE  Served(p)'
      BY DEF HeadReady
    <3>1. p \in 1..n /\ journal[p].ev = "ready"
      BY <1>0, <2>2, <2>5 DEF Latest, Ready, RowsStay
    <3>2. NoRunBetween(p, n)
      BY <1>0, <2>5, <3>1 DEF Latest, NoRunBetween, RowsStay
    <3>3. Served(p)
      BY <1>0, <2>4, <3>1, <3>2 DEF NoneLatest, Latest, Ready
    <3> QED
      BY <1>0, <2>2, <2>5, <3>1, <3>3, ServedStays DEF Launches
  <2>11. Branch'
    BY <2>8, <2>10 DEF Branch, HeadAtWork, HeadLeft, BornOn, NoneAtWork
  <2>12. \A q \in Ops : ops'[q].pc # "uncommit"
    BY <1>1, <2>3 DEF Heads, OneUndo, Alone
  <2>13. ASSUME NEW q \in Ops
         PROVE  CallHead(q)'
    <3>1. CallHead(q)
      BY DEF Heads
    <3>2. OwnRow(q)'
      <4>1. CASE q = o
        <5>1. Cleared(o)
          BY <1>1 DEF Cleared, ClearedAt, Returning
        <5> QED
          BY <2>3, <3>1, <4>1, <5>1 DEF CallHead, OwnRow
      <4>2. CASE q # o
        BY <2>3, <3>1, <4>2 DEF Alone, CallHead, OwnRow, Cleared
      <4> QED
        BY <4>1, <4>2
    <3> QED
      BY <2>8, <2>9, <2>12, <3>2 DEF CallHead, Undone, Unbegun, Lies
  <2> QED
    BY <2>7, <2>11, <2>12, <2>13 DEF Heads, OneUndo
<1> QED
  BY <1>2, <1>3

\* A return on a ready row that is its own is the first to launch for it.
LEMMA ReadyOwn ==
  ASSUME VerbInv, RaceInv, ~ghost.raced, NEW o \in Ops, Cleared(o), ops[o].way = "ready",
         OwnRow(o), ~Retaken(o)
  PROVE  Latest(ops[o].at) /\ ~Served(ops[o].at) /\ NoneAtWork
<1>1. PICK p : p = ops[o].at
  OBVIOUS
<1>2. p \in 1..Len(journal) /\ journal[p].ev = "ready" /\ ops[o].died = None /\ ops[o].stake = p
  BY <1>1 DEF RaceInv, Shapes, Aimed, Aiming, AimsAt, Cleared, ClearedAt, OwnRow
<1>3. EndOf(ops[o]) = p
  BY <1>2 DEF EndOf
<1>4. Quiet(p)
  BY <1>3 DEF RaceInv, Races, ClearedQuiet
<1>5. ASSUME NEW act \in Launches, act.at = p \/ (p <= EndOf(act) /\ NoRunBetween(p, EndOf(act)))
      PROVE  FALSE
  <2>1. act.at = p => act.at \in ghost.unrecorded
    BY <1>1 DEF VerbInv, ClaimInv, NotYet, Launches, Deciding, DecidesAt, Cleared, ClearedAt
  <2>2. act.run # ops[o].died
    <3>1. DOMAIN runs \subseteq Nat
      BY DEF RaceInv, Shapes, RunShape
    <3> QED
      BY <1>2, <3>1, VerbsAssumption DEF RaceInv, Shapes, ActsPlaced
  <2>3. p <= EndOf(act) /\ NoRunBetween(p, EndOf(act)) => SameEnd(act, ops[o])
    <3>1. EndOf(act) \in Nat /\ p \in Nat
      BY <1>2 DEF RaceInv, Shapes, RowShape, ActsPlaced, Spots
    <3> QED
      BY <1>3, <3>1 DEF SameEnd, NoRunBetween
  <2>4. ops[o].verb # "start"
    BY DEF Cleared, ClearedAt
  <2> QED
    BY <1>1, <1>5, <2>1, <2>2, <2>3, <2>4 DEF Retaken
<1> QED
  BY <1>1, <1>2, <1>4, <1>5 DEF Latest, Ready, Quiet, Served

\* A launch finds no run at work, and the branch at a commit to rest on.
LEMMA SpawnFinds ==
  ASSUME VerbInv, RaceInv, DueInv, Heads, ~ghost.raced, NEW o \in Ops, Spawn(o), ~Retaken(o)
  PROVE  /\ NoneAtWork /\ Rests(lane.head)
         /\ \A q \in Ops : ops[q].pc # "uncommit"
         /\ Standing(Len(journal)) = 0 \/ \E p \in 1..Len(journal) : Latest(p)
         /\ \A q \in Ops : Waiting(q) /\ ops[q].n = Len(journal) => Standing(Len(journal)) = 0
<1>1. ops[o].verb \in {"start", "return"} /\ ops[o].pc = "spawn" /\ CallHead(o)
  BY VerbAt DEF VerbInv, Spawn, At, Heads
<1>2. CASE ops[o].verb = "start"
  <2>1. DOMAIN runs = {}
    BY <1>2 DEF Retaken
  <2>2. NoneAtWork /\ AllCalls /\ RowShape
    BY <2>1 DEF NoneAtWork, RaceInv, Shapes, FirstRun
  <2>3. Standing(Len(journal)) = 0
    BY <2>2, CallsStand
  <2>4. Rests(lane.head)
    BY <2>1, <2>3 DEF Heads, Branch, HeadLeft, Stands
  <2> QED
    BY <2>2, <2>3, <2>4 DEF Heads, CallHead, Undone
<1>3. CASE ops[o].verb = "return"
  <2>1. Cleared(o) /\ ops[o].way \in {"stop", "ready"}
    BY <1>1, <1>3 DEF Cleared, ClearedAt, Returning, RaceInv, Shapes, Aimed, Aiming, AimsAt
  <2>2. NoneAtWork
    BY <2>1, OwnEnd
  <2>3. CASE ops[o].way = "stop"
    <3>1. BacksAt(ops[o])
      BY <1>1, <1>3, <2>3 DEF BacksAt
    <3>2. Rests(lane.head) /\ Standing(Len(journal)) = 0
      BY <1>1, <3>1 DEF CallHead, Lies, DueInv, Lays, TakenBack
    <3> QED
      BY <2>2, <3>2 DEF Heads, CallHead, Undone
  <2>4. CASE ops[o].way = "ready"
    <3>1. PICK p : p = ops[o].at
      OBVIOUS
    <3>2. Latest(p) /\ ~Served(p)
      BY <1>1, <2>1, <2>4, <3>1, ReadyOwn DEF CallHead
    <3>3. p \in 1..Len(journal) /\ journal[p].ev = "ready" /\ ~NoneLatest
      BY <3>2 DEF Latest, Ready, NoneLatest
    <3>4. PICK h : h = lane.head
      OBVIOUS
    <3>5. h = journal[p].head
      BY <2>2, <3>2, <3>3, <3>4 DEF Heads, Branch, HeadReady
    <3>6. Rests(h)
      BY <3>3, <3>5 DEF Heads, RowsTell, ReadyRests
    <3>7. \A q \in Ops : ~(Waiting(q) /\ ops[q].n = Len(journal))
      BY <3>3, WaitServed
    <3> QED
      BY <2>2, <3>2, <3>3, <3>4, <3>6, <3>7 DEF Heads, CallHead, Undone
  <2> QED
    BY <2>1, <2>3, <2>4
<1> QED
  BY <1>1, <1>2, <1>3

\* A run is launched: it finds the branch at rest, and no other is on its way.
LEMMA HeadSpawned ==
  ASSUME VerbInv, VerbInv', RaceInv, DueInv, Heads, ~ghost.raced, NEW o \in Ops, Spawn(o), ~Retaken(o)
  PROVE  Heads'
<1>0. PICK r : r = Len(runs) + 1
  OBVIOUS
<1>1. Shapes
  BY DEF RaceInv
<1>2. /\ Len(runs) \in Nat /\ DOMAIN runs = 1..Len(runs) /\ DOMAIN runs' = 1..r /\ r \in DOMAIN runs'
      /\ \A s \in DOMAIN runs : s # r /\ runs'[s] = runs[s]
      /\ runs'[r].live /\ runs'[r].phase = "born" /\ runs'[r].commit = "no"
  <2>1. PICK run : run = NewRun(o)
    OBVIOUS
  <2>2. Worked(run) /\ run.live /\ run.phase = "born" /\ run.commit = "no"
    BY <2>1 DEF NewRun, Worked
  <2>3. runs' = Append(runs, run)
    BY <2>1 DEF Spawn
  <2> QED
    BY <1>0, <1>1, <2>2, <2>3, RunAfter DEF Shapes
<1>3. journal' = journal /\ lane'.head = lane.head
  <2>1. OffHead
    BY DEF Spawn, OffHead
  <2> QED
    BY <1>1, <2>1, HeadStays DEF Spawn, Shapes
<1>4. /\ NoneAtWork /\ Rests(lane.head)
      /\ \A q \in Ops : ops[q].pc # "uncommit"
      /\ Standing(Len(journal)) = 0 \/ \E p \in 1..Len(journal) : Latest(p)
      /\ \A q \in Ops : Waiting(q) /\ ops[q].n = Len(journal) => Standing(Len(journal)) = 0
  BY SpawnFinds
<1>5. \A s \in DOMAIN runs' : AtWork(s)' <=> s = r
  <2>1. ASSUME NEW s \in DOMAIN runs', s # r
        PROVE  ~AtWork(s)'
    <3>1. s \in DOMAIN runs /\ runs'[s] = runs[s]
      BY <1>0, <1>2, <2>1
    <3> QED
      BY <1>4, <3>1 DEF NoneAtWork, AtWork
  <2> QED
    BY <1>2, <2>1 DEF AtWork
<1>6. \A h : Rests(h) => Rests(h)'
  <2> SUFFICES ASSUME NEW h, Rests(h) PROVE Rests(h)'
    OBVIOUS
  <2>1. CASE h \in DOMAIN runs
    <3>1. h \in DOMAIN runs' /\ runs'[h] = runs[h] /\ ~AtWork(h)'
      BY <1>2, <1>5, <2>1
    <3>2. h = 0 \/ (runs[h].commit # "no" /\ ~Loose(journal, h))
      BY DEF Rests
    <3> QED
      BY <1>3, <3>1, <3>2 DEF Rests, Loose
  <2>2. CASE h \notin DOMAIN runs
    BY <2>2 DEF Rests
  <2> QED
    BY <2>1, <2>2
<1>7. RowsTell'
  <2>1. Launches \subseteq Launches'
    BY SpawnRaces DEF VerbInv, Launches
  <2>2. \A s \in DOMAIN runs' : runs'[s].commit # "no" =>
          s \in DOMAIN runs /\ runs[s].commit # "no" /\ runs'[s].below = runs[s].below
    BY <1>0, <1>2
  <2>3. \A s \in DOMAIN runs : s \in DOMAIN runs' /\ runs'[s] = runs[s]
    BY <1>0, <1>2
  <2> QED
    BY <1>1, <1>3, <1>6, <2>1, <2>2, <2>3, ToldOn DEF Heads
<1>8. Rests(lane.head)' /\ Standing(Len(journal))' = Standing(Len(journal))
  <2>1. PICK h : h = lane.head
    OBVIOUS
  <2>2. Rests(h)'
    BY <1>4, <1>6, <2>1
  <2> QED
    BY <1>3, <2>1, <2>2 DEF Rests, Standing, Last, Newest, After, Of
<1>9. Branch'
  <2>1. HeadAtWork'
    BY <1>2, <1>5, <1>8 DEF HeadAtWork
  <2>2. ~NoneAtWork'
    BY <1>2, <1>5 DEF NoneAtWork
  <2>3. \A p : Latest(p)' <=> Latest(p)
    BY <1>3 DEF Latest, Ready, NoRunBetween
  <2>4. BornOn'
    BY <1>3, <1>4, <1>8, <2>3 DEF BornOn
  <2> QED
    BY <1>8, <2>1, <2>2, <2>4 DEF Branch, HeadLeft, HeadReady
<1>10. Alone(o) /\ ~Cleared(o)'
  <2>1. CASE Leave(o)
    BY <2>1, LeavesFree
  <2>2. CASE ops' = [ops EXCEPT ![o].pc = "hand", ![o].run = Len(runs) + 1]
    <3>1. PICK d : d = ops[o] /\ Fielded(d)
      BY DEF VerbInv, CallShape
    <3>2. PICK c : c = [ops[o] EXCEPT !.pc = "hand", !.run = Len(runs) + 1]
      OBVIOUS
    <3>3. c = [d EXCEPT !.pc = "hand", !.run = Len(runs) + 1]
      BY <3>1, <3>2
    <3>4. Fielded(c) /\ c.pc = "hand"
      BY <3>1, <3>3 DEF Fielded
    <3>5. ops' = [ops EXCEPT ![o] = c]
      BY <2>2, <3>2
    <3> QED
      BY <3>4, <3>5, Replaced DEF VerbInv, Alone, Cleared, ClearedAt, Returning
  <2> QED
    BY <2>1, <2>2 DEF Spawn
<1>11. /\ ops'[o].pc # "uncommit" /\ ~Waiting(o)' /\ OwnRow(o)'
  <2>1. InPlace(o)'
    BY DEF VerbInv
  <2>2. ops'[o].pc # "uncommit"
    BY <1>10, <2>1 DEF InPlace, Verbs, Places, Cleared, ClearedAt, Returning, Accepting
  <2> QED
    BY <1>10, <2>2 DEF Waiting, WaitsAt, Cleared, ClearedAt, Returning, OwnRow
<1>12. \A q \in Ops : ops'[q].pc # "uncommit"
  BY <1>4, <1>10, <1>11 DEF Alone
<1>13. ASSUME NEW q \in Ops
       PROVE  CallHead(q)'
  <2>1. CASE q = o
    BY <1>8, <1>11, <1>12, <2>1 DEF CallHead, Undone, Unbegun, Lies
  <2>2. CASE q # o
    <3>1. CallHead(q) /\ ops'[q] = ops[q]
      BY <1>10, <2>2 DEF Heads, Alone
    <3>2. OwnRow(q)'
      BY <3>1 DEF CallHead, OwnRow, Cleared
    <3>3. Unbegun(q)'
      BY <1>3, <1>4, <1>8, <3>1 DEF Unbegun, Waiting
    <3> QED
      BY <1>8, <1>12, <3>2, <3>3 DEF CallHead, Undone, Lies
  <2> QED
    BY <2>1, <2>2
<1> QED
  BY <1>7, <1>9, <1>12, <1>13 DEF Heads, OneUndo

\* Every step of a verb keeps it.
LEMMA HeadVerbs ==
  ASSUME VerbInv, VerbInv', RaceInv, DueInv, DueInv', HeadInv, NEW o \in Ops, Verb(o)
  PROVE  HeadInv'
<1>1. CASE Spawn(o)
  <2>1. ghost'.raced = (ghost.raced \/ Retaken(o))
    BY <1>1, SpawnRaces DEF VerbInv
  <2> QED
    BY <1>1, <2>1, HeadSpawned DEF HeadInv
<1>2. CASE ~Spawn(o)
  <2>1. ghost.raced => ghost'.raced
    BY <1>2, VerbsTell
  <2> SUFFICES ASSUME ~ghost.raced PROVE Heads'
    BY <2>1 DEF HeadInv
  <2>2. Heads /\ Shapes
    BY DEF HeadInv, RaceInv
  <2>3. CASE Confirm(o)
    BY <2>2, <2>3, HeadConfirmed
  <2>4. CASE RecordUndo(o)
    BY <2>2, <2>4, HeadUndone
  <2>5. CASE ~Confirm(o) /\ ~RecordUndo(o)
    <3>1. lane'.head = lane.head
      BY <2>2, <2>5, VerbsKeep, HeadStays DEF Shapes
    <3>2. CASE Recheck(o)
      BY <1>2, <2>2, <2>5, <3>1, <3>2, RecheckFollows, PlainVerb
    <3>3. CASE ClaimDecision(o)
      BY <1>2, <2>2, <2>5, <3>1, <3>3, ClaimFollows, PlainVerb
    <3>4. CASE Stake(o) \/ TakeLock(o) \/ Displace(o) \/ Replace(o)
      BY <1>2, <2>2, <2>5, <3>1, <3>4, TakesFollow, PlainVerb
    <3>5. CASE WriteSpec(o) \/ DropPid(o)
      BY <1>2, <2>2, <2>5, <3>1, <3>5, PreparesFollow, PlainVerb
    <3>6. CASE \/ BeginStart(o) \/ BeginReturn(o) \/ BeginDiscard(o) \/ BeginRecord(o) \/ BeginCloseout(o)
               \/ \E choice \in {"accept", "abandon"} : BeginReady(o, choice)
      BY <1>2, <2>2, <2>5, <3>1, <3>6, BeginsFree, FreeVerb
    <3>7. CASE Judge(o)
      BY <1>2, <2>2, <2>5, <3>1, <3>7, JudgesFree, FreeVerb
    <3>8. CASE Inspect(o) \/ Reread(o) \/ ListClaims(o) \/ CheckPid(o) \/ CheckClaim(o)
      BY <1>2, <2>2, <2>5, <3>1, <3>8, DiscardsFree, FreeVerb
    <3>9. CASE \/ AddWorktree(o) \/ RecordLane(o) \/ SpawnFails(o) \/ Hand(o) \/ Decide(o) \/ DecideFails(o)
               \/ CheckHead(o) \/ OpenPullRequest(o) \/ EditPullRequest(o) \/ RecordPublished(o)
               \/ View(o) \/ RemoveWorktree(o) \/ Archive(o) \/ CheckQuiet(o) \/ AppendPr(o)
               \/ Lost(o) \/ Crash(o)
      BY <1>2, <2>2, <2>5, <3>1, <3>9, OthersFree, FreeVerb
    <3> QED
      BY <1>2, <2>5, <3>2, <3>3, <3>4, <3>5, <3>6, <3>7, <3>8, <3>9 DEF Verb
  <2> QED
    BY <2>3, <2>4, <2>5
<1> QED
  BY <1>1, <1>2

-----------------------------------------------------------------------------
(* The branch under a run                                                  *)

\* A run at work goes on: its commit, if it has another by now, is new or told of.
Works(r) ==
  /\ AtWork(r) /\ Steady(r) /\ UNCHANGED <<ops, ghost>>
  /\ \/ runs'[r].commit = runs[r].commit
     \/ runs[r].commit = "no"
     \/ runs[r].commit # "no" /\ runs'[r].commit \notin {"no", "made"}
  /\ \/ journal' = journal
     \/ \E row : /\ row.ev \in Kinds \ {"uncommit"} /\ Put(row)
                 /\ row.ev = "commit" => /\ row.head = r /\ runs[r].commit = "made"
                                         /\ runs'[r].commit \notin {"no", "made"}

\* What others may rest on stays so.
LEMMA RestsUnder ==
  ASSUME Shapes, NEW r \in DOMAIN runs, Works(r), NEW h, Rests(h)
  PROVE  Rests(h)'
<1>1. DOMAIN runs \subseteq Nat \ {0}
  BY DEF Shapes, RunShape
<1>2. CASE h = 0
  BY <1>2 DEF Rests
<1>3. CASE h # 0
  <2>1. h \in DOMAIN runs /\ runs[h].commit # "no" /\ (runs[h].commit = "made" => ~AtWork(h))
    BY <1>3 DEF Rests
  <2>2. /\ h \in DOMAIN runs' /\ runs'[h].commit # "no"
        /\ runs'[h].commit = "made" => runs[h].commit = "made"
        /\ AtWork(h)' => AtWork(h)
    <3>1. CASE h = r
      BY <2>1, <3>1 DEF Works, Steady
    <3>2. CASE h # r
      BY <2>1, <3>2 DEF Works, Steady, AtWork
    <3> QED
      BY <3>1, <3>2
  <2>3. journal' = journal \/ \E row : row.ev \in Kinds /\ Put(row) /\ ~(row.ev = "commit" /\ row.head = h)
    <3>1. CASE journal' = journal
      BY <3>1
    <3>2. CASE journal' # journal
      <4>1. PICK row : /\ row.ev \in Kinds \ {"uncommit"} /\ Put(row)
                       /\ row.ev = "commit" => row.head = r /\ runs[r].commit = "made"
        BY <3>2 DEF Works
      <4>2. ~(row.ev = "commit" /\ row.head = h)
        BY <2>1, <4>1 DEF Works
      <4> QED
        BY <4>1, <4>2
    <3> QED
      BY <3>1, <3>2
  <2> QED
    BY <2>1, <2>2, <2>3, RestsOn DEF Shapes
<1> QED
  BY <1>2, <1>3

\* What is told of commits stays so.
LEMMA ToldUnder ==
  ASSUME Shapes, RowsTell, NEW r \in DOMAIN runs, Works(r),
         runs'[r].commit # "no" => \/ runs[r].commit # "no" /\ runs'[r].below = runs[r].below
                                   \/ Rests(runs[r].below)' /\ runs'[r].below # r,
         \A row : Put(row) /\ row.ev = "ready" => Rests(row.head)'
  PROVE  RowsTell'
<1>1. Launches \subseteq Launches'
  BY DEF Works, Launches
<1>2. \A h : Rests(h) => Rests(h)'
  BY RestsUnder
<1>3. \A s \in DOMAIN runs : /\ s \in DOMAIN runs'
                             /\ runs[s].commit \notin {"no", "made"} => runs'[s].commit \notin {"no", "made"}
  BY DEF Works, Steady
<1>4. \A s \in DOMAIN runs' : runs'[s].commit # "no" =>
        \/ s \in DOMAIN runs /\ runs[s].commit # "no" /\ runs'[s].below = runs[s].below
        \/ Rests(runs[s].below)' /\ runs'[s].below # s
  BY DEF Works, Steady
<1>5. \/ journal' = journal
      \/ \E row : /\ row.ev \in Kinds /\ Put(row)
                  /\ row.ev = "commit" =>
                       row.head \in DOMAIN runs' /\ runs'[row.head].commit \notin {"no", "made"}
                  /\ row.ev = "ready" => Rests(row.head)'
                  /\ row.ev = "uncommit" => NoneLatest
  BY DEF Works, Steady
<1> QED
  BY <1>1, <1>2, <1>3, <1>4, <1>5, ToldOn

\* While a run is at work, no return has an end of its own.
LEMMA CallsUnder ==
  ASSUME RaceInv, Heads, ~ghost.raced, NEW r \in DOMAIN runs, Works(r)
  PROVE  OneUndo' /\ \A q \in Ops : CallHead(q)'
<1>1. ~NoneAtWork /\ Shapes
  BY DEF Works, NoneAtWork, RaceInv
<1>2. RowsGrow
  BY DEF Works, RowsGrow
<1>3. RowsStay
  BY <1>1, <1>2, Grows DEF Shapes
<1>4. \A q \in Ops : ops'[q].pc # "uncommit"
  BY <1>1 DEF Heads, CallHead, Undone, Works
<1>5. ASSUME NEW q \in Ops
      PROVE  CallHead(q)'
  <2>1. ops'[q] = ops[q] /\ CallHead(q) /\ ops[q].n \in Spots
    BY <1>1 DEF Works, Heads, Shapes, Aimed
  <2>2. Unbegun(q)'
    <3> SUFFICES ASSUME Waiting(q), ops[q].n = Len(journal')
                 PROVE  Standing(Len(journal))' = 0
      BY <2>1 DEF Unbegun, Waiting
    <3>1. CASE journal' = journal
      <4>1. Standing(Len(journal)) = 0
        BY <1>1, <2>1, <3>1 DEF CallHead, Unbegun
      <4> QED
        BY <3>1, <4>1 DEF Standing, Last, Newest, After, Of
    <3>2. CASE journal' # journal
      <4>1. PICK row : row.ev \in Kinds /\ Put(row)
        BY <3>2 DEF Works
      <4>2. Len(journal) \in Nat /\ Len(journal') = Len(journal) + 1
        BY <1>1, <4>1, RowAfter DEF Shapes
      <4> QED
        BY <2>1, <4>2 DEF Spots
    <3> QED
      BY <3>1, <3>2
  <2>3. Lies(q)'
    <3> SUFFICES ASSUME BacksAt(ops[q]) PROVE Retaken(q)'
      BY <2>1 DEF Lies
    <3>1. Cleared(q)
      BY DEF BacksAt, Cleared, ClearedAt, Returning
    <3>2. Retaken(q)
      BY <1>1, <3>1 DEF RaceInv, Races, ClearedQuiet, Quiet
    <3> QED
      BY <1>1, <1>3, <2>1, <3>1, <3>2, RetakenStays DEF Shapes, Works, Launches
  <2>4. OwnRow(q)'
    BY <2>1 DEF CallHead, OwnRow, Cleared
  <2> QED
    BY <1>4, <2>2, <2>3, <2>4 DEF CallHead, Undone
<1> QED
  BY <1>4, <1>5 DEF OneUndo

\* A run that goes on has the branch at its commit, or where it may rest.
LEMMA HeadWorks ==
  ASSUME RaceInv, Heads, ~ghost.raced, NEW r \in DOMAIN runs, Works(r), RowsTell',
         runs'[r].live, runs'[r].phase = "open",
         IF runs'[r].commit = "no" THEN Rests(lane.head)' ELSE lane'.head = r,
         runs'[r].commit \in {"no", "made"} \/ Rests(lane.head)' \/ Stands(lane.head)'
  PROVE  Heads'
<1>1. \A s \in DOMAIN runs' : AtWork(s)' <=> s = r
  BY DEF RaceInv, Races, OneRun, Works, Steady, AtWork
<1>2. r \in DOMAIN runs' /\ ~NoneAtWork'
  BY <1>1 DEF NoneAtWork, Works, Steady
<1>3. HeadAtWork' /\ BornOn'
  BY <1>1 DEF HeadAtWork, BornOn
<1>4. HeadLeft' /\ HeadReady'
  BY <1>1, <1>2 DEF HeadLeft, HeadReady
<1> QED
  BY <1>3, <1>4, CallsUnder DEF Heads, Branch

\* One that ends leaves it where it may rest, or at its commit's row.
LEMMA HeadEnds ==
  ASSUME RaceInv, Heads, ~ghost.raced, NEW r \in DOMAIN runs, Works(r), RowsTell', ~AtWork(r)',
         Rests(lane.head)' \/ Stands(lane.head)', HeadReady'
  PROVE  Heads'
<1>1. \A s \in DOMAIN runs' : ~AtWork(s)'
  BY DEF RaceInv, Races, OneRun, Works, Steady, AtWork
<1>2. HeadAtWork' /\ BornOn' /\ HeadLeft'
  BY <1>1 DEF HeadAtWork, BornOn, HeadLeft
<1> QED
  BY <1>2, CallsUnder DEF Heads, Branch

\* A run that changes another field than its end goes on living.
LEMMA RunLives ==
  ASSUME RunShape, NEW r \in DOMAIN runs, NEW v, NEW w,
         \/ runs' = [runs EXCEPT ![r].phase = v] \/ runs' = [runs EXCEPT ![r].reviews = v]
         \/ runs' = [runs EXCEPT ![r].commit = v] \/ Based(r, v, w) \/ runs' = runs
  PROVE  runs'[r].live = runs[r].live
BY RunMoves DEF RunAlone

\* A step writes one row at most.
LEMMA OneRow ==
  ASSUME RowShape, NEW row, row.ev \in Kinds, Put(row), NEW put, Put(put)
  PROVE  put = row
<1>1. journal'[Len(journal) + 1] = row
  BY RowAfter
<1>2. PICK S : journal \in Seq(S)
  BY DEF RowShape
<1>3. journal \in Seq(S \union {put}) /\ put \in S \union {put}
  BY <1>2, SeqMonotonic
<1>4. Append(journal, put)[Len(journal) + 1] = put
  BY <1>3, AppendProperties
<1> QED
  BY <1>1, <1>4 DEF Put

\* One that leaves the journal writes none.
LEMMA NoRow ==
  ASSUME RowShape, journal' = journal, NEW row, Put(row)
  PROVE  FALSE
<1>1. PICK S : journal \in Seq(S)
  BY DEF RowShape
<1>2. journal \in Seq(S \union {row}) /\ row \in S \union {row}
  BY <1>1, SeqMonotonic
<1>3. Len(journal') = Len(journal) + 1 /\ Len(journal) \in Nat
  BY <1>2, AppendProperties DEF Put
<1> QED
  BY <1>3

\* The start, build and review rows.
LEMMA HeadTells ==
  ASSUME RaceInv, Heads, ~ghost.raced, NEW r \in DOMAIN runs, RunBegins(r) \/ RunBuilds(r) \/ RunReviews(r)
  PROVE  Heads'
<1>0. Shapes /\ RunShape /\ RowShape /\ AtWork(r)
  BY DEF RaceInv, Shapes, AtWork, RunBegins, RunBuilds, RunReviews, Running
<1>1. PICK row, v : /\ Put(row) /\ row.ev \in {"start", "build", "review"}
                    /\ \/ runs' = [runs EXCEPT ![r].phase = v] /\ v = "open"
                       \/ runs' = [runs EXCEPT ![r].reviews = v] /\ runs[r].phase = "open"
                    /\ UNCHANGED <<lane, ops, ghost>>
  <2>1. CASE RunBegins(r)
    <3>1. Put(Row("start", 0, 0)) /\ runs' = [runs EXCEPT ![r].phase = "open"]
      BY <2>1, Zenon DEF RunBegins, Write
    <3>2. Row("start", 0, 0).ev = "start" /\ UNCHANGED <<lane, ops, ghost>>
      BY <2>1 DEF Row, RunBegins, Write
    <3> QED
      BY <3>1, <3>2
  <2>2. CASE RunBuilds(r)
    <3>1. Put(Row("build", 0, 0)) /\ runs' = [runs EXCEPT ![r].phase = "open"]
      BY <2>2, Zenon DEF RunBuilds, Write
    <3>2. Row("build", 0, 0).ev = "build" /\ UNCHANGED <<lane, ops, ghost>>
      BY <2>2 DEF Row, RunBuilds, Write
    <3> QED
      BY <3>1, <3>2
  <2>3. CASE RunReviews(r)
    <3>1. Put(Row("review", 0, 0)) /\ runs' = [runs EXCEPT ![r].reviews = runs[r].reviews + 1]
      BY <2>3, Zenon DEF RunReviews, Write
    <3>2. Row("review", 0, 0).ev = "review" /\ UNCHANGED <<lane, ops, ghost>> /\ runs[r].phase = "open"
      BY <2>3 DEF Row, RunReviews, Write, Running
    <3> QED
      BY <3>1, <3>2
  <2> QED
    BY <2>1, <2>2, <2>3
<1>2. /\ Steady(r) /\ runs'[r].phase = "open" /\ runs'[r].live = runs[r].live
      /\ runs'[r].commit = runs[r].commit /\ runs'[r].below = runs[r].below
  BY <1>0, <1>1, RunSteady, RunLives
<1>3. Works(r)
  BY <1>0, <1>1, <1>2 DEF Works, Kinds, CallRows
<1>4. RowsTell'
  <2>1. \A put : Put(put) => put = row
    BY <1>0, <1>1, OneRow DEF Kinds, CallRows
  <2> QED
    BY <1>0, <1>1, <1>2, <1>3, <2>1, ToldUnder DEF Heads
<1>5. PICK h : h = lane.head /\ h = lane'.head
  BY <1>1
<1>6. (Rests(h) => Rests(h)') /\ (Stands(h)' <=> Stands(h))
  <2>1. \E put : put.ev \in Kinds \ {"commit", "uncommit"} /\ Put(put)
    BY <1>1 DEF Kinds, CallRows
  <2> QED
    BY <1>0, <1>3, <2>1, RestsUnder, StandsOn
<1>7. (Rests(lane.head) => Rests(lane.head)') /\ (Stands(lane.head) => Stands(lane.head)')
  BY <1>5, <1>6 DEF Rests, Stands
<1>8. IF runs[r].commit = "no" THEN Rests(lane.head) ELSE lane.head = r
  BY <1>0 DEF Heads, Branch, HeadAtWork
<1>9. runs[r].commit = "made" \/ Rests(lane.head) \/ Stands(lane.head)
  BY <1>0 DEF RaceInv, Races, OneRun, Heads, Branch, HeadLeft
<1>10. runs'[r].live
  BY <1>0, <1>2 DEF AtWork
<1> QED
  BY <1>1, <1>2, <1>3, <1>4, <1>7, <1>8, <1>9, <1>10, HeadWorks

\* A rebase leaves the branch on the base, a commit is made where it may rest.
LEMMA HeadCommits ==
  ASSUME RaceInv, Heads, ~ghost.raced, NEW r \in DOMAIN runs, RunRebases(r) \/ RunCommits(r)
  PROVE  Heads'
<1>1. /\ Shapes /\ RunShape /\ AtWork(r) /\ runs[r].live /\ runs[r].phase = "open" /\ runs[r].commit = "no"
      /\ UNCHANGED <<journal, ops, ghost>>
  BY DEF RaceInv, Shapes, AtWork, RunRebases, RunCommits, Running
<1>2. PICK l : l = lane /\ Laned(l)
  BY <1>1 DEF Shapes, LaneShape
<1>3. \A row : ~Put(row)
  BY <1>1, NoRow DEF Shapes
<1>4. CASE RunRebases(r)
  <2>1. runs' = runs /\ lane' = [l EXCEPT !.head = 0]
    BY <1>2, <1>4 DEF RunRebases
  <2>2. lane'.head = 0
    BY <1>2, <2>1 DEF Laned
  <2>3. Steady(r)
    BY <1>1, <2>1, RunSteady
  <2>4. Works(r)
    BY <1>1, <2>1, <2>3 DEF Works
  <2>5. RowsTell'
    BY <1>1, <1>3, <2>1, <2>4, ToldUnder DEF Heads
  <2>6. Rests(lane.head)'
    BY <2>2 DEF Rests
  <2> QED
    BY <1>1, <2>1, <2>4, <2>5, <2>6, HeadWorks
<1>5. CASE RunCommits(r)
  <2>1. PICK h : h = lane.head
    OBVIOUS
  <2>2. Based(r, "made", h) /\ lane' = [l EXCEPT !.head = r]
    BY <1>2, <1>5, <2>1 DEF RunCommits, Based
  <2>3. lane'.head = r
    BY <1>2, <2>2 DEF Laned
  <2>4. /\ Steady(r) /\ runs'[r].phase = "open" /\ runs'[r].live
        /\ runs'[r].commit = "made" /\ runs'[r].below = h
    BY <1>1, <2>2, RunSteady, RunLives
  <2>5. Works(r)
    BY <1>1, <2>4 DEF Works
  <2>6. Rests(h) /\ h # r
    <3>1. Rests(h)
      BY <1>1, <2>1 DEF Heads, Branch, HeadAtWork
    <3>2. r # 0
      BY <1>1 DEF RunShape
    <3> QED
      BY <1>1, <3>1, <3>2 DEF Rests
  <2>7. Rests(runs[r].below)' /\ runs'[r].below # r
    <3>1. Rests(h)'
      BY <1>1, <2>5, <2>6, RestsUnder
    <3> QED
      BY <2>4, <2>6, <3>1 DEF Rests
  <2>8. RowsTell'
    BY <1>1, <1>3, <2>5, <2>7, ToldUnder DEF Heads
  <2> QED
    BY <2>3, <2>4, <2>5, <2>8, HeadWorks
<1> QED
  BY <1>4, <1>5

\* The commit's row, and the push.
LEMMA HeadRecords ==
  ASSUME RaceInv, Heads, ~ghost.raced, NEW r \in DOMAIN runs, RunRecordsCommit(r) \/ RunPushes(r)
  PROVE  Heads'
<1>1. /\ Shapes /\ RunShape /\ RowShape /\ AtWork(r) /\ runs[r].live /\ runs[r].phase = "open"
      /\ UNCHANGED <<ops, ghost>> /\ runs[r].commit \in {"made", "told"}
  BY DEF RaceInv, Shapes, AtWork, RunRecordsCommit, RunPushes, Running, Write
<1>2. lane.head = r
  BY <1>1 DEF Heads, Branch, HeadAtWork
<1>3. PICK l : l = lane /\ Laned(l)
  BY <1>1 DEF Shapes, LaneShape
<1>4. CASE RunRecordsCommit(r)
  <2>1. PICK row : row = Row("commit", 0, r)
    OBVIOUS
  <2>2. row.ev = "commit" /\ row.head = r
    BY <2>1 DEF Row
  <2>3. /\ Put(row) /\ runs' = [runs EXCEPT ![r].commit = "told"] /\ lane' = lane
        /\ runs[r].commit = "made"
    BY <1>4, <2>1 DEF RunRecordsCommit, Write
  <2>4. /\ Steady(r) /\ runs'[r].phase = "open" /\ runs'[r].live
        /\ runs'[r].commit = "told" /\ runs'[r].below = runs[r].below
    <3>1. PICK v : v = "told" /\ runs' = [runs EXCEPT ![r].commit = v]
      BY <2>3
    <3>2. runs'[r].live = runs[r].live
      BY <1>1, <3>1, RunLives
    <3>3. /\ Steady(r) /\ runs'[r].phase = runs[r].phase
          /\ runs'[r].commit = v /\ runs'[r].below = runs[r].below
      BY <1>1, <3>1, RunSteady
    <3> QED
      BY <1>1, <3>1, <3>2, <3>3
  <2>5. Works(r)
    BY <1>1, <2>2, <2>3, <2>4 DEF Works, Kinds, CallRows
  <2>6. \A put : Put(put) => put = row
    BY <1>1, <2>2, <2>3, OneRow DEF Kinds
  <2>7. RowsTell'
    BY <1>1, <2>2, <2>3, <2>4, <2>5, <2>6, ToldUnder DEF Heads
  <2>8. Stands(lane.head)'
    <3>1. Stands(row.head)'
      BY <1>1, <2>2, <2>3, StandsNew
    <3> QED
      BY <1>2, <2>2, <2>3, <3>1 DEF Stands
  <2> QED
    BY <1>2, <2>3, <2>4, <2>5, <2>7, <2>8, HeadWorks
<1>5. CASE RunPushes(r)
  <2>1. /\ runs' = [runs EXCEPT ![r].commit = "pushed"] /\ journal' = journal
        /\ lane' = [l EXCEPT !.tip = l.head, !.pr = "open"] /\ runs[r].commit = "told"
    BY <1>3, <1>5 DEF RunPushes
  <2>2. lane'.head = r
    BY <1>2, <1>3, <2>1 DEF Laned
  <2>3. /\ Steady(r) /\ runs'[r].phase = "open" /\ runs'[r].live
        /\ runs'[r].commit = "pushed" /\ runs'[r].below = runs[r].below
    <3>1. PICK v : v = "pushed" /\ runs' = [runs EXCEPT ![r].commit = v]
      BY <2>1
    <3>2. runs'[r].live = runs[r].live
      BY <1>1, <3>1, RunLives
    <3>3. /\ Steady(r) /\ runs'[r].phase = runs[r].phase
          /\ runs'[r].commit = v /\ runs'[r].below = runs[r].below
      BY <1>1, <3>1, RunSteady
    <3> QED
      BY <1>1, <3>1, <3>2, <3>3
  <2>4. Works(r)
    BY <1>1, <2>1, <2>3 DEF Works
  <2>5. \A row : ~Put(row)
    BY <1>1, <2>1, NoRow
  <2>6. RowsTell'
    BY <1>1, <2>1, <2>3, <2>4, <2>5, ToldUnder DEF Heads
  <2>7. Rests(r) \/ Stands(r)
    BY <1>1, <1>2, <2>1 DEF RaceInv, Races, OneRun, Heads, Branch, HeadLeft
  <2>8. Rests(r)' \/ Stands(r)'
    BY <1>1, <2>1, <2>4, <2>7, RestsUnder, StandsOn
  <2>9. Rests(lane.head)' \/ Stands(lane.head)'
    BY <2>2, <2>8 DEF Rests, Stands
  <2> QED
    BY <2>2, <2>3, <2>4, <2>6, <2>9, HeadWorks
<1> QED
  BY <1>4, <1>5

\* A ready row that is not a run's own was launched for while one is at work.
LEMMA ReadyUnder ==
  ASSUME RaceInv, ~ghost.raced, NEW r \in DOMAIN runs, Works(r),
         \A row : Put(row) /\ row.ev = "ready" => lane'.head = row.head
  PROVE  HeadReady'
<1>1. Shapes /\ RowShape /\ ActsPlaced /\ RowsGrow
  BY DEF RaceInv, Shapes, Works, RowsGrow
<1>2. RowsStay
  BY <1>1, Grows
<1>3. ASSUME NEW p \in 1..Len(journal), journal[p].ev = "ready"
      PROVE  Served(p)'
  <2>1. ~Quiet(p)
    BY DEF Quiet, NoneAtWork, Works
  <2>2. Served(p)
    BY <1>3, <2>1 DEF RaceInv, Races, ReadyServed
  <2> QED
    BY <1>1, <1>2, <2>2, ServedStays DEF Works, Launches
<1> SUFFICES ASSUME NEW p \in 1..Len(journal'), journal'[p].ev = "ready"
             PROVE  Served(p)' \/ lane'.head = journal'[p].head
  BY DEF HeadReady, Latest, Ready
<1>4. CASE p \in 1..Len(journal)
  BY <1>2, <1>3, <1>4 DEF RowsStay
<1>5. CASE p \notin 1..Len(journal)
  <2>1. journal' # journal
    BY <1>5
  <2>2. PICK row : row.ev \in Kinds /\ Put(row)
    BY <2>1 DEF Works
  <2>3. Len(journal) \in Nat /\ Len(journal') = Len(journal) + 1 /\ journal'[Len(journal) + 1] = row
    BY <1>1, <2>2, RowAfter
  <2>4. p = Len(journal) + 1
    BY <1>5, <2>3
  <2> QED
    BY <2>2, <2>3, <2>4
<1> QED
  BY <1>4, <1>5

\* Where a run at work leaves the branch when it ends without a ready row.
LEMMA LeavesHead ==
  ASSUME RaceInv, Heads, ~ghost.raced, NEW r \in DOMAIN runs, Works(r), ~AtWork(r)', lane'.head = lane.head,
         runs'[r].commit = runs[r].commit,
         journal' = journal \/ \E row : row.ev \in Kinds \ {"commit", "uncommit"} /\ Put(row)
  PROVE  Rests(lane.head)' \/ Stands(lane.head)'
<1>1. Shapes /\ RowShape /\ AtWork(r)
  BY DEF RaceInv, Shapes, Works
<1>2. PICK h : h = lane.head
  OBVIOUS
<1>3. Rests(h) \/ Stands(h) \/ (h = r /\ runs[r].commit = "made")
  BY <1>1, <1>2 DEF RaceInv, Races, OneRun, Heads, Branch, HeadLeft, HeadAtWork
<1>4. CASE Rests(h) \/ Stands(h)
  <2>1. Rests(h)' \/ Stands(h)'
    BY <1>1, <1>4, RestsUnder, StandsOn
  <2> QED
    BY <1>2, <2>1 DEF Rests, Stands
<1>5. CASE h = r /\ runs[r].commit = "made"
  <2>1. \A p \in 1..Len(journal') : ~(journal'[p].ev = "commit" /\ journal'[p].head = r)
    <3>1. \A p \in 1..Len(journal) : ~(journal[p].ev = "commit" /\ journal[p].head = r)
      BY <1>5 DEF Heads, RowsTell, CommitsTold
    <3>2. CASE journal' = journal
      BY <3>1, <3>2
    <3>3. CASE journal' # journal
      <4>1. PICK row : row.ev \in Kinds \ {"commit", "uncommit"} /\ Put(row)
        BY <3>3
      <4>2. /\ Len(journal) \in Nat /\ Len(journal') = Len(journal) + 1
            /\ \A p \in 1..Len(journal) : journal'[p] = journal[p]
            /\ journal'[Len(journal) + 1] = row
        BY <1>1, <4>1, RowAfter
      <4> QED
        BY <3>1, <4>1, <4>2
    <3> QED
      BY <3>2, <3>3
  <2>2. ~Loose(journal', r)
    BY <2>1 DEF Loose
  <2>3. r \in DOMAIN runs' /\ runs'[r].commit = "made"
    BY <1>5 DEF Works, Steady
  <2>4. Rests(r)'
    BY <2>2, <2>3 DEF Rests
  <2> QED
    BY <1>2, <1>5, <2>4 DEF Rests
<1> QED
  BY <1>3, <1>4, <1>5

\* A run publishes, stops, or is gone.
LEMMA HeadStops ==
  ASSUME RaceInv, Heads, ~ghost.raced, NEW r \in DOMAIN runs, AtWork(r),
         RunPublishes(r) \/ RunStops(r) \/ RunEnds(r)
  PROVE  Heads'
<1>1. Shapes /\ RunShape /\ RowShape /\ UNCHANGED <<lane, ops, ghost>>
  BY DEF RaceInv, Shapes, RunPublishes, RunStops, RunEnds, Write
<1>2. /\ Steady(r) /\ ~AtWork(r)' /\ runs'[r].commit = runs[r].commit /\ runs'[r].below = runs[r].below
      /\ journal' = journal \/ \E row : row.ev \in {"pr", "stop"} /\ Put(row)
  <2>1. CASE RunEnds(r)
    <3>1. runs' = [runs EXCEPT ![r].live = FALSE] /\ journal' = journal
      BY <2>1 DEF RunEnds
    <3>2. /\ Steady(r) /\ runs'[r].commit = runs[r].commit /\ runs'[r].below = runs[r].below
      BY <1>1, <3>1, RunSteady
    <3>3. runs'[r].live = FALSE
      BY <1>1, <3>1, RunMoves DEF RunAlone
    <3> QED
      BY <3>1, <3>2, <3>3 DEF AtWork
  <2>2. ASSUME NEW row, NEW phase, Put(row), runs' = [runs EXCEPT ![r].phase = phase],
               row.ev \in {"pr", "stop"}, phase \notin {"born", "open"}
        PROVE  /\ Steady(r) /\ ~AtWork(r)' /\ runs'[r].commit = runs[r].commit /\ runs'[r].below = runs[r].below
               /\ journal' = journal \/ \E put : put.ev \in {"pr", "stop"} /\ Put(put)
    <3>1. /\ Steady(r) /\ runs'[r].phase = phase
          /\ runs'[r].commit = runs[r].commit /\ runs'[r].below = runs[r].below
      BY <1>1, <2>2, RunSteady
    <3> QED
      BY <2>2, <3>1 DEF AtWork
  <2>3. CASE RunPublishes(r)
    <3>1. PICK row, phase : row = Row("pr", 0, 0) /\ phase = "published"
      OBVIOUS
    <3>2. Put(row) /\ runs' = [runs EXCEPT ![r].phase = phase]
      BY <2>3, <3>1 DEF RunPublishes, Write
    <3>3. row.ev \in {"pr", "stop"} /\ phase \notin {"born", "open"}
      BY <3>1 DEF Row
    <3> QED
      BY <2>2, <3>2, <3>3
  <2>4. CASE RunStops(r)
    <3>1. PICK row, phase : row = Row("stop", 0, 0) /\ phase = "stopped"
      OBVIOUS
    <3>2. Put(row) /\ runs' = [runs EXCEPT ![r].phase = phase]
      BY <2>4, <3>1 DEF RunStops, Write
    <3>3. row.ev \in {"pr", "stop"} /\ phase \notin {"born", "open"}
      BY <3>1 DEF Row
    <3> QED
      BY <2>2, <3>2, <3>3
  <2> QED
    BY <2>1, <2>3, <2>4
<1>3. Works(r)
  BY <1>1, <1>2 DEF Works, Kinds, CallRows
<1>4. \A row : Put(row) => row.ev # "ready"
  BY <1>1, <1>2, NoRow, OneRow DEF Kinds, CallRows
<1>5. RowsTell'
  BY <1>1, <1>2, <1>3, <1>4, ToldUnder DEF Heads
<1>6. HeadReady'
  BY <1>3, <1>4, ReadyUnder
<1>7. Rests(lane.head)' \/ Stands(lane.head)'
  BY <1>1, <1>2, <1>3, LeavesHead DEF Kinds, CallRows
<1> QED
  BY <1>2, <1>3, <1>5, <1>6, <1>7, HeadEnds

\* A run tells that it is ready, at its commit.
LEMMA HeadReadied ==
  ASSUME RaceInv, Heads, ~ghost.raced, NEW r \in DOMAIN runs, RunReady(r)
  PROVE  Heads'
<1>1. /\ Shapes /\ RunShape /\ RowShape /\ UNCHANGED <<lane, ops, ghost>> /\ AtWork(r)
      /\ runs[r].commit = "told" /\ runs[r].phase = "open"
  BY DEF RaceInv, Shapes, RunReady, Write, AtWork, Running
<1>2. lane.head = r
  BY <1>1 DEF Heads, Branch, HeadAtWork
<1>3. PICK row : row = Row("ready", runs[r].prior + runs[r].reviews, lane.head)
  OBVIOUS
<1>4. row.ev = "ready" /\ row.head = r
  BY <1>2, <1>3 DEF Row
<1>5. PICK v : v = "ready"
  OBVIOUS
<1>6. Put(row) /\ runs' = [runs EXCEPT ![r].phase = v]
  BY <1>3, <1>5 DEF RunReady, Write
<1>7. /\ Steady(r) /\ runs'[r].phase = v
      /\ runs'[r].commit = runs[r].commit /\ runs'[r].below = runs[r].below
  BY <1>1, <1>6, RunSteady
<1>8. Works(r) /\ ~AtWork(r)'
  BY <1>1, <1>4, <1>5, <1>6, <1>7 DEF Works, Kinds, CallRows, AtWork
<1>9. \A put : Put(put) => put = row
  BY <1>1, <1>4, <1>6, OneRow DEF Kinds
<1>10. Rests(r)'
  <2>1. /\ Len(journal) \in Nat /\ Len(journal') = Len(journal) + 1
        /\ journal'[Len(journal) + 1] = row
    BY <1>1, <1>4, <1>6, RowAfter DEF Kinds
  <2>2. ~Loose(journal', r)
    BY <1>4, <2>1 DEF Loose
  <2> QED
    BY <1>1, <1>7, <2>2 DEF Rests, Steady
<1>11. RowsTell'
  <2>1. Rests(row.head)'
    BY <1>4, <1>10 DEF Rests
  <2>2. \A put : Put(put) /\ put.ev = "ready" => Rests(put.head)'
    BY <1>9, <2>1
  <2> QED
    BY <1>1, <1>7, <1>8, <2>2, ToldUnder DEF Heads
<1>12. HeadReady'
  BY <1>1, <1>2, <1>4, <1>8, <1>9, ReadyUnder
<1>13. Rests(lane.head)'
  BY <1>1, <1>2, <1>10 DEF Rests
<1> QED
  BY <1>8, <1>11, <1>12, <1>13, HeadEnds

\* Every step of a run keeps it.
LEMMA HeadRuns ==
  ASSUME RaceInv, HeadInv, NEW r \in DOMAIN runs, Run(r)
  PROVE  HeadInv'
<1>1. Steady(r) /\ UNCHANGED <<ops, ghost>> /\ Shapes
  BY RunBecomes DEF RaceInv, Shapes
<1> SUFFICES ASSUME ~ghost.raced PROVE Heads'
  BY <1>1 DEF HeadInv
<1>2. Heads
  BY DEF HeadInv
<1>3. CASE RunBegins(r) \/ RunBuilds(r) \/ RunReviews(r)
  BY <1>2, <1>3, HeadTells
<1>4. CASE RunRebases(r) \/ RunCommits(r)
  BY <1>2, <1>4, HeadCommits
<1>5. CASE RunRecordsCommit(r) \/ RunPushes(r)
  BY <1>2, <1>5, HeadRecords
<1>6. CASE RunReady(r)
  BY <1>2, <1>6, HeadReadied
<1>7. CASE RunPublishes(r) \/ RunStops(r)
  <2>1. AtWork(r)
    BY <1>7 DEF RunPublishes, RunStops, Running, AtWork
  <2> QED
    BY <1>2, <1>7, <2>1, HeadStops
<1>8. CASE RunEnds(r)
  <2>1. CASE AtWork(r)
    BY <1>2, <1>8, <2>1, HeadStops
  <2>2. CASE ~AtWork(r)
    <3>1. runs' = [runs EXCEPT ![r].live = FALSE] /\ UNCHANGED <<journal, lane, ghost>> /\ runs[r].live
      BY <1>8 DEF RunEnds
    <3>2. /\ runs'[r].phase = runs[r].phase /\ runs'[r].commit = runs[r].commit
          /\ runs'[r].below = runs[r].below
      BY <1>1, <3>1, RunSteady DEF Shapes
    <3>3. ~AtWork(r)'
      BY <2>2, <3>1, <3>2 DEF AtWork
    <3>4. SameRuns
      BY <1>1, <2>2, <3>2, <3>3 DEF SameRuns, Steady, AtWork
    <3>5. Plain
      BY <3>1, <3>4 DEF Plain, GhostStays, Launches
    <3>6. \A o \in Ops : Follows(o)
      BY <1>1, <1>2, FollowsStill
    <3> QED
      BY <1>1, <1>2, <3>5, <3>6, HeadPlain
  <2> QED
    BY <2>1, <2>2
<1> QED
  BY <1>3, <1>4, <1>5, <1>6, <1>7, <1>8 DEF Run

-----------------------------------------------------------------------------
(* The theorems                                                            *)

\* A commit that a history's branch may rest on.
RestsIn(h, c) ==
  c = 0 \/ /\ c \in DOMAIN h.runs /\ h.runs[c].commit # "no"
           /\ h.runs[c].commit = "made" => ~(h.runs[c].live /\ h.runs[c].phase \in {"born", "open"})
           /\ ~Loose(h.journal, c)

\* What a history tells of it.
LEMMA LivedHeads ==
  ASSUME NEW h, Lived(h)
  PROVE  /\ \A p \in 1..Len(h.journal) :
              /\ h.journal[p].ev = "commit" =>
                   /\ h.journal[p].head \in DOMAIN h.runs
                   /\ h.runs[h.journal[p].head].commit \notin {"no", "made"}
              /\ h.journal[p].ev = "ready" => RestsIn(h, h.journal[p].head)
         /\ \A r \in DOMAIN h.runs :
              /\ h.runs[r].commit # "no" => h.runs[r].below # r /\ RestsIn(h, h.runs[r].below)
              /\ h.runs[r].live /\ h.runs[r].phase \in {"born", "open"} =>
                   IF h.runs[r].commit = "no" THEN RestsIn(h, h.lane.head) ELSE h.lane.head = r
         /\ \/ RestsIn(h, h.lane.head)
            \/ \E r \in DOMAIN h.runs : /\ h.runs[r].live /\ h.runs[r].phase \in {"born", "open"}
                                        /\ h.runs[r].commit = "made"
            \/ \E p \in 1..Len(h.journal) :
                 /\ h.journal[p].ev = "commit" /\ h.journal[p].head = h.lane.head
                 /\ \A q \in (p + 1)..Len(h.journal) : h.journal[q].ev \notin {"commit", "uncommit"}
         /\ \A p \in 1..Len(h.journal) : h.journal[p].ev = "ready" =>
              \/ /\ \A r \in DOMAIN h.runs : ~(h.runs[r].live /\ h.runs[r].phase \in {"born", "open"})
                 /\ \A q \in (p + 1)..Len(h.journal) : h.journal[q].ev \in CallRows \ {"uncommit"}
                 /\ h.lane.head = h.journal[p].head
              \/ \E act \in h.acts : act.at = p
         /\ \A r \in DOMAIN h.runs :
              h.runs[r].live /\ h.runs[r].phase \in {"born", "open"} => h.runs[r].phase = "open"
<1>1. \A p \in 1..Len(h.journal) :
        /\ h.journal[p].ev = "commit" =>
             /\ h.journal[p].head \in DOMAIN h.runs
             /\ h.runs[h.journal[p].head].commit \notin {"no", "made"}
        /\ h.journal[p].ev = "ready" => RestsIn(h, h.journal[p].head)
  BY ZenonT(60) DEF Lived, RestsIn
<1>2. \A r \in DOMAIN h.runs :
        /\ h.runs[r].commit # "no" => h.runs[r].below # r /\ RestsIn(h, h.runs[r].below)
        /\ h.runs[r].live /\ h.runs[r].phase \in {"born", "open"} =>
             IF h.runs[r].commit = "no" THEN RestsIn(h, h.lane.head) ELSE h.lane.head = r
  BY ZenonT(60) DEF Lived, RestsIn
<1>3. \/ RestsIn(h, h.lane.head)
      \/ \E r \in DOMAIN h.runs : /\ h.runs[r].live /\ h.runs[r].phase \in {"born", "open"}
                                  /\ h.runs[r].commit = "made"
      \/ \E p \in 1..Len(h.journal) :
           /\ h.journal[p].ev = "commit" /\ h.journal[p].head = h.lane.head
           /\ \A q \in (p + 1)..Len(h.journal) : h.journal[q].ev \notin {"commit", "uncommit"}
  BY ZenonT(60) DEF Lived, RestsIn
<1>4. \A p \in 1..Len(h.journal) : h.journal[p].ev = "ready" =>
        \/ /\ \A r \in DOMAIN h.runs : ~(h.runs[r].live /\ h.runs[r].phase \in {"born", "open"})
           /\ \A q \in (p + 1)..Len(h.journal) : h.journal[q].ev \in CallRows \ {"uncommit"}
           /\ h.lane.head = h.journal[p].head
        \/ \E act \in h.acts : act.at = p
  BY ZenonT(60) DEF Lived
<1>5. \A r \in DOMAIN h.runs :
        h.runs[r].live /\ h.runs[r].phase \in {"born", "open"} => h.runs[r].phase = "open"
  BY ZenonT(60) DEF Lived
<1> QED
  BY <1>1, <1>2, <1>3, <1>4, <1>5

\* A commit row that none follows, and no row that takes it back, stands.
LEMMA LastStands ==
  ASSUME RowShape, NEW p \in 1..Len(journal), journal[p].ev = "commit",
         \A q \in (p + 1)..Len(journal) : journal[q].ev \notin {"commit", "uncommit"}
  PROVE  Standing(Len(journal)) = p
<1>0. PICK n : n = Len(journal) /\ n \in Nat
  BY DEF RowShape
<1>1. p \in Of(n, {"commit"}) /\ \A q \in Of(n, {"commit"}) : q <= p
  BY <1>0 DEF Of
<1>2. PICK c : c = Last(n, {"commit"})
  OBVIOUS
<1>3. c \in Of(n, {"commit"}) \union {0} /\ p <= c
  BY <1>0, <1>1, <1>2, LastRowOf
<1>4. c = p
  BY <1>0, <1>1, <1>3 DEF Of
<1>5. After(n, p, {"uncommit"}) = {}
  BY <1>0 DEF After, Of
<1> QED
  BY <1>0, <1>2, <1>4, <1>5 DEF Standing

\* A lane begins with its branch where it may be.
LEMMA HeadInit ==
  ASSUME Init
  PROVE  HeadInv
<1>1. PICK h \in Histories :
        /\ journal = h.journal /\ lane = h.lane /\ runs = h.runs
        /\ ghost = [acts |-> h.acts, unrecorded |-> {}, raced |-> FALSE]
  BY DEF Init
<1>2. PICK n : n = Len(journal) /\ n \in Nat
  BY RaceInit DEF RaceInv, Shapes, RowShape
<1>3. Lived(h) /\ RaceInv /\ RowShape
  BY HistoriesAssumption, RaceInit DEF RaceInv, Shapes
<1>4. \A c : RestsIn(h, c) <=> Rests(c)
  BY <1>1 DEF RestsIn, Rests, AtWork
<1>5. /\ \A p \in 1..n :
           /\ journal[p].ev = "commit" =>
                journal[p].head \in DOMAIN runs /\ runs[journal[p].head].commit \notin {"no", "made"}
           /\ journal[p].ev = "ready" => Rests(journal[p].head)
      /\ \A r \in DOMAIN runs :
           /\ runs[r].commit # "no" => runs[r].below # r /\ Rests(runs[r].below)
           /\ AtWork(r) => IF runs[r].commit = "no" THEN Rests(lane.head) ELSE lane.head = r
      /\ \/ Rests(lane.head)
         \/ \E r \in DOMAIN runs : AtWork(r) /\ runs[r].commit = "made"
         \/ \E p \in 1..n : /\ journal[p].ev = "commit" /\ journal[p].head = lane.head
                            /\ \A q \in (p + 1)..n : journal[q].ev \notin {"commit", "uncommit"}
      /\ \A p \in 1..n : journal[p].ev = "ready" =>
           \/ /\ \A r \in DOMAIN runs : ~AtWork(r)
              /\ \A q \in (p + 1)..n : journal[q].ev \in CallRows \ {"uncommit"}
              /\ lane.head = journal[p].head
           \/ \E act \in h.acts : act.at = p
      /\ \A r \in DOMAIN runs : AtWork(r) => runs[r].phase = "open"
  BY <1>1, <1>2, <1>3, <1>4, LivedHeads DEF AtWork
<1>6. Launches = h.acts
  <2>1. h.acts \subseteq Launch
    BY <1>3 DEF Lived
  <2> QED
    BY <1>1, <2>1 DEF Launches, Launch
<1>7. \A p \in 1..n : (\E act \in h.acts : act.at = p) => Served(p)
  BY <1>6 DEF Served
<1>8. RowsTell
  <2>1. UndoneServed
    BY <1>2, <1>5, <1>7 DEF UndoneServed
  <2> QED
    BY <1>2, <1>5, <2>1 DEF RowsTell, CommitsTold, BelowRests, ReadyRests
<1>9. HeadLeft
  <2>1. ASSUME NEW p \in 1..n, journal[p].ev = "commit", journal[p].head = lane.head,
               \A q \in (p + 1)..n : journal[q].ev \notin {"commit", "uncommit"}
        PROVE  Stands(lane.head)
    <3>1. Standing(n) = p
      BY <1>2, <1>3, <2>1, LastStands
    <3> QED
      BY <1>2, <2>1, <3>1 DEF Stands
  <2> QED
    BY <1>5, <2>1 DEF HeadLeft
<1>10. Branch
  <2>1. HeadAtWork /\ BornOn
    BY <1>5 DEF HeadAtWork, BornOn
  <2>2. HeadReady
    BY <1>2, <1>5, <1>7 DEF HeadReady, Latest, Ready
  <2> QED
    BY <1>9, <2>1, <2>2 DEF Branch
<1>11. \A o \in Ops : ops[o].pc = "new" /\ ops[o].verb = "none"
  BY DEF Init, Fresh
<1>12. OneUndo /\ \A o \in Ops : CallHead(o)
  BY <1>11 DEF OneUndo, CallHead, Undone, Unbegun, Lies, OwnRow, Waiting, WaitsAt, BacksAt, Cleared, ClearedAt
<1> QED
  BY <1>8, <1>10, <1>12 DEF HeadInv, Heads

\* Where the branch of a lane is, and what its rows tell of that: until a run is
\* launched for an end that is not its launcher's own, a return on a stop finds the
\* branch at a commit to rest on, one on a ready row at that row's.
THEOREM HeadInvariant == Spec => []HeadInv
<1>1. Init => HeadInv
  BY HeadInit
<1>2. /\ VerbInv /\ VerbInv' /\ RaceInv /\ DueInv /\ DueInv' /\ HeadInv /\ [Next]_vars
      => HeadInv'
  <2> SUFFICES ASSUME VerbInv, VerbInv', RaceInv, DueInv, DueInv', HeadInv, [Next]_vars PROVE HeadInv'
    OBVIOUS
  <2>1. CASE \E o \in Ops : Verb(o)
    BY <2>1, HeadVerbs
  <2>2. CASE \E r \in DOMAIN runs : Run(r)
    BY <2>2, HeadRuns
  <2>3. CASE Settle \/ UNCHANGED vars
    <3>1. OffHead /\ UNCHANGED <<journal, runs, ops, ghost>>
      BY <2>3 DEF Settle, OffHead, vars
    <3>2. Shapes /\ lane'.head = lane.head
      BY <3>1, HeadStays DEF RaceInv, Shapes
    <3> SUFFICES ASSUME ~ghost.raced PROVE Heads'
      BY <3>1 DEF HeadInv
    <3>3. Heads
      BY DEF HeadInv
    <3>4. Plain
      BY <3>1, <3>2 DEF Plain, SameRuns, AtWork, GhostStays, Launches
    <3>5. \A o \in Ops : Follows(o)
      BY <3>1, <3>2, <3>3, FollowsStill
    <3> QED
      BY <3>2, <3>3, <3>4, <3>5, HeadPlain
  <2> QED
    BY <2>1, <2>2, <2>3 DEF Next
<1> QED
  BY <1>1, <1>2, VerbInvariant, RaceInvariant, DueInvariant, PTL DEF Spec

\* A commit is taken back on the way to a launch only where it was not pushed.
LEMMA BackUnpushed ==
  ASSUME VerbInv, RaceInv, DueInv, [Next]_vars, ops' # ops, lane'.head # lane.head
  PROVE  lane.tip = 0 \/ ghost.raced \/ \E p \in DOMAIN journal : Strayed(p)
<1>1. Shapes /\ LaneShape /\ RunShape
  BY DEF RaceInv, Shapes
<1>2. ~OffHead
  BY <1>1, HeadStays
<1>3. ~\E r \in DOMAIN runs : Run(r)
  BY <1>1, RunBecomes
<1>4. ~Settle /\ ~UNCHANGED vars
  BY DEF Settle, vars
<1>5. PICK o \in Ops : Confirm(o)
  BY <1>2, <1>3, <1>4, VerbsKeep DEF Next
<1>6. ops[o].verb = "return" /\ ops[o].pc = "confirm"
  BY <1>5, VerbAt DEF VerbInv, Confirm, At
<1>7. ops[o].way = "stop"
  BY <1>6 DEF DueInv, Dues, Due, DueAt
<1>8. Waiting(o) /\ ops[o].n = Len(journal) /\ Standing(Len(journal)) # 0
  <2>1. ops[o].n = Len(journal) /\ Standing(ops[o].n) # 0
    BY <1>2, <1>5 DEF Confirm, Proceed, OffHead
  <2> QED
    BY <1>6, <1>7, <2>1 DEF Waiting, WaitsAt
<1>9. ~ghost.raced => lane.tip = 0 \/ \E p \in 1..Len(journal) : Strayed(p)
  BY <1>8 DEF DueInv, Lays, Parked
<1>10. DOMAIN journal = 1..Len(journal)
  BY <1>1 DEF Shapes, RowShape
<1> QED
  BY <1>9, <1>10

\* A return that launches takes that step itself.
LEMMA Launcher ==
  ASSUME VerbInv, RaceInv, [Next]_vars, NEW o \in Ops, NEW way, Launching(o, way)
  PROVE  /\ Spawn(o) /\ ops[o].verb = "return" /\ ops[o].way = way /\ Cleared(o)
         /\ ghost'.raced = (ghost.raced \/ Retaken(o))
<1>1. runs' # runs /\ ops' # ops /\ Len(runs') # Len(runs)
  <2>1. PICK S : runs \in Seq(S)
    BY DEF RaceInv, Shapes, RunShape
  <2>2. Len(runs) \in Nat
    BY <2>1, LenProperties
  <2>3. Len(runs') > Len(runs) /\ ops' # ops
    BY DEF Launching
  <2> QED
    BY <2>2, <2>3
<1>2. ~\E r \in DOMAIN runs : Run(r)
  BY <1>1, RunBecomes DEF RaceInv, Shapes
<1>3. ~Settle /\ ~UNCHANGED vars
  BY <1>1 DEF Settle, vars
<1>4. PICK q \in Ops : Spawn(q)
  BY <1>1, <1>2, <1>3, VerbsKeep DEF Next
<1>5. \A c \in Ops \ {q} : ops'[c] = ops[c]
  BY <1>4 DEF Spawn, Leave, VerbInv, CallShape
<1>6. q = o
  BY <1>5 DEF Launching
<1>7. ghost'.raced = (ghost.raced \/ Retaken(o))
  BY <1>4, <1>6, SpawnRaces DEF VerbInv
<1> QED
  BY <1>4, <1>6, <1>7 DEF Launching, Cleared, ClearedAt, Returning

\* On a stop, the build lies on the branch as changes.
LEMMA StartsOnChanges ==
  ASSUME VerbInv, RaceInv, DueInv, HeadInv, [Next]_vars, NEW o \in Ops, Launching(o, "stop"), ~ghost'.raced
  PROVE  Standing(Len(journal)) = 0 /\ ~Loose(journal, lane.head)
<1>1. /\ Spawn(o) /\ ops[o].verb = "return" /\ ops[o].way = "stop"
      /\ ~ghost.raced /\ ~Retaken(o)
  BY Launcher
<1>2. Heads
  BY <1>1 DEF HeadInv
<1>3. Rests(lane.head)
  BY <1>1, <1>2, SpawnFinds
<1>4. BacksAt(ops[o])
  BY <1>1 DEF BacksAt, Launching
<1>5. Standing(Len(journal)) = 0
  BY <1>1, <1>4 DEF DueInv, Lays, TakenBack
<1>6. ~Loose(journal, 0)
  <2>1. 0 \notin DOMAIN runs
    BY DEF RaceInv, Shapes, RunShape
  <2> QED
    BY <1>2, <2>1 DEF Heads, RowsTell, CommitsTold, Loose
<1> QED
  BY <1>3, <1>5, <1>6 DEF Rests

\* On a ready row, that row's commit is the branch's head.
LEMMA StartsOnReady ==
  ASSUME VerbInv, RaceInv, DueInv, HeadInv, [Next]_vars, NEW o \in Ops, Launching(o, "ready"), ~ghost'.raced
  PROVE  lane.head = journal[ops[o].at].head
<1>1. /\ Spawn(o) /\ ops[o].way = "ready" /\ Cleared(o)
      /\ ~ghost.raced /\ ~Retaken(o)
  BY Launcher
<1>2. Heads /\ OwnRow(o)
  BY <1>1 DEF HeadInv, Heads, CallHead
<1>3. PICK p : p = ops[o].at
  OBVIOUS
<1>4. Latest(p) /\ ~Served(p) /\ NoneAtWork
  BY <1>1, <1>2, <1>3, ReadyOwn
<1> QED
  BY <1>2, <1>3, <1>4 DEF Heads, Branch, HeadReady, Latest, Ready

\* A finish starts on the build it was given: a return on a stop launches where
\* the build lies as changes, one on a ready row at that row's commit, and neither
\* takes a pushed commit back on its way.
THEOREM BuildKept == Spec => BuildReturned
<1>1. /\ VerbInv /\ RaceInv /\ DueInv /\ HeadInv /\ [Next]_vars
      => [/\ ops' # ops /\ lane'.head # lane.head
               => lane.tip = 0 \/ ghost.raced \/ \E p \in DOMAIN journal : Strayed(p)
          /\ \A o \in Ops : Launching(o, "stop")
               => (Standing(Len(journal)) = 0 /\ ~Loose(journal, lane.head)) \/ ghost.raced'
          /\ \A o \in Ops : Launching(o, "ready")
               => lane.head = journal[ops[o].at].head \/ ghost.raced']_vars
  BY BackUnpushed, StartsOnChanges, StartsOnReady
<1> QED
  BY <1>1, VerbInvariant, RaceInvariant, DueInvariant, HeadInvariant, PTL DEF Spec, BuildReturned
=============================================================================

---------------------------- MODULE MCLaneLoop ----------------------------
(* Instances of LaneLoop: one set of started runs per kind of lane.        *)
EXTENDS LaneLoop

CONSTANTS base, clean, protected

MCTree == {base, clean, protected}
MCProtected == {protected}

Standard(tier) == [shape |-> "standard", tier |-> tier, planned |-> FALSE,
                   prior |-> 0, built |-> base, ready |-> base]

MechanicalLanes == {Standard("mechanical")}
ReviewedLanes == {Standard("build"), Standard("judge")}

\* A stopped lane is finished with or without a plan, in its first or a later
\* pass, and with anything in its checkout, on the base or on the commit of a
\* ready lane.
FinishLanes ==
  {[shape |-> "finish", tier |-> t, planned |-> (t # "mechanical") \/ p,
    prior |-> n, built |-> b, ready |-> r] :
      t \in {"mechanical", "build"}, p \in BOOLEAN, n \in 0..1, b \in MCTree,
      r \in MCTree}

\* What a checked tree is depends on how often the base moves: lanes that are
\* reviewed or finished.  How a lane ends depends on its restarts: mechanical
\* lanes, which restart as build or judge, and finishes again.
GatedLanes == ReviewedLanes \union FinishLanes
EndingLanes == MechanicalLanes \union FinishLanes
=============================================================================

-------------------------- MODULE LaneLoopProofs --------------------------
(***************************************************************************)
(* LaneLoop for any trees, any bounds and any rosters: what is published   *)
(* or reported ready passed the checks of its lane.  First the types:      *)
(* what the operators its actions share leave behind, then the actions one *)
(* by one.  Then the induction, which is over where the loop is: GateInv   *)
(* says what has been established there, and a delivered change is one     *)
(* that came through "publish".                                            *)
(***************************************************************************)
EXTENDS LaneLoop, TLAPS

-----------------------------------------------------------------------------
(* What the helpers of the actions leave behind.                           *)

\* A stop is a result like any other.
LEMMA HaltTypes ==
  ASSUME NEW why \in Reasons, Halt(why)
  PROVE  pc' \in Places /\ result' \in Results
  BY DEF Halt, Places, Results, Reasons

\* The frame of a fresh turn.
LEMMA NewFrameTypes ==
  ASSUME NEW site \in Sites, NEW free \in BOOLEAN, NEW single \in BOOLEAN
  PROVE  NewFrame(site, free, single) \in Frames
  BY DEF NewFrame, Frames

\* Evidence of nothing is evidence.
LEMMA NoEvidenceTypes == NoEvidence \in Evidences
  BY DEF NoEvidence, Evidences

\* A turn more is a bound.
LEMMA OneMoreTypes ==
  ASSUME BudgetType, NEW S
  PROVE  OneMore(bound, S) \in [Role -> Nat]
  BY DEF BudgetType, OneMore, MaxOf

\* The seat of a turn has a role.
LEMMA SeatTypes ==
  ASSUME FrameType
  PROVE  Seat \in Role /\ FrameRole \in Role
<1>1. FrameRole \in Role
  BY DEF FrameType, Frames, FrameRole, SiteRole, Sites, Role
<1> QED
  BY <1>1 DEF Seat, Role

\* A turn spends rounds of its seat.
LEMMA SpendTypes ==
  ASSUME FrameType, BudgetType, Spend
  PROVE  rounds' \in [Role -> Nat]
  BY SeatTypes DEF BudgetType, Spend

\* What a seat writes is a tree, and evidence of nothing.
LEMMA SeatWritesTypes ==
  ASSUME GitType, EvidenceType, SeatWrites
  PROVE  GitType' /\ EvidenceType'
<1>1. CASE Seat = "builder"
  BY <1>1, NoEvidenceTypes DEF SeatWrites, GitType, EvidenceType, Checkouts
<1>2. CASE Seat # "builder"
  BY <1>2 DEF SeatWrites, GitType, EvidenceType
<1> QED
  BY <1>1, <1>2

\* A restart is a fresh build of a raised lane.
LEMMA RestartTypes ==
  ASSUME TypeOK, NEW to \in Tiers,
         NEW nested \in {"replan", "restart", "rejudge"},
         Restart(to, nested)
  PROVE  /\ LaneType'
         /\ FrameType'
         /\ rounds' \in [Role -> Nat]
         /\ GitType'
         /\ RunType'
         /\ EvidenceType'
         /\ pc' \in Places
<1>1. LaneType'
  BY DEF TypeOK, LaneType, Restart, Raised, Tiers
<1>2. FrameType'
  BY DEF Restart, NewFrame, FrameType, Frames, Sites
<1>3. rounds' \in [Role -> Nat]
  BY DEF TypeOK, BudgetType, Restart
<1>4. GitType'
  BY TreeAssumption DEF TypeOK, GitType, Checkouts, Restart
<1>5. RunType'
  BY DEF TypeOK, RunType, Restart
<1>6. EvidenceType'
  BY NoEvidenceTypes DEF EvidenceType, Restart
<1>7. pc' \in Places
  BY DEF Restart, Places
<1> QED
  BY <1>1, <1>2, <1>3, <1>4, <1>5, <1>6, <1>7

\* A restart that fails has discarded the build or not.
LEMMA RestartFailsTypes ==
  ASSUME GitType, RestartFails
  PROVE  GitType' /\ pc' \in Places /\ result' \in Results
<1>1. GitType'
  BY TreeAssumption DEF GitType, Checkouts, RestartFails
<1>2. PICK why \in {"discard-failed", "seat-unmeasured"} : Halt(why)
  BY DEF RestartFails
<1>3. why \in Reasons
  BY DEF Reasons
<1>4. pc' \in Places /\ result' \in Results
  BY <1>2, <1>3, HaltTypes
<1> QED
  BY <1>1, <1>4

\* The stop of a rebase leaves a checkout.
LEMMA RebaseStopTypes ==
  ASSUME NEW g \in Checkouts, NEW why \in Reasons, RebaseStop(g, why)
  PROVE  GitType' /\ pc' \in Places /\ result' \in Results
<1>1. CASE git' = g /\ Halt(why)
  BY <1>1, HaltTypes DEF GitType
<1>2. CASE git' = [g EXCEPT !.head = g.ready] /\ Halt(why)
  BY <1>2, HaltTypes, TreeAssumption DEF GitType, Checkouts
<1>3. CASE git' = g /\ Halt("restore-failed")
  <2>1. "restore-failed" \in Reasons
    BY DEF Reasons
  <2>2. pc' \in Places /\ result' \in Results
    BY <1>3, <2>1, HaltTypes
  <2> QED
    BY <1>3, <2>2 DEF GitType
<1> QED
  BY <1>1, <1>2, <1>3 DEF RebaseStop

\* What a run of the tests leaves is a tree.
LEMMA ResidueTypes ==
  ASSUME GitType, Residue
  PROVE  GitType'
  BY DEF GitType, Checkouts, Residue

\* So is what a suite was green for.
LEMMA RunSuiteTypes ==
  ASSUME GitType, EvidenceType, NEW for \in Tree \union {None}, RunSuite(for)
  PROVE  GitType' /\ EvidenceType'
<1>1. GitType'
  BY ResidueTypes DEF RunSuite
<1>2. EvidenceType'
  BY DEF GitType, Checkouts, EvidenceType, Evidences, RunSuite, Suited
<1> QED
  BY <1>1, <1>2

\* The repair turn is bounded and allowed once.
LEMMA RepairTypes ==
  ASSUME TypeOK, Repair
  PROVE  /\ bound' \in [Role -> Nat] /\ PassType' /\ RunType'
         /\ pc' \in Places /\ result' = result
<1>1. bound' \in [Role -> Nat]
  <2>1. CASE Finish
    BY <2>1 DEF TypeOK, BudgetType, Repair, Role
  <2>2. CASE ~Finish
    BY <2>2, OneMoreTypes DEF TypeOK, BudgetType, Repair
  <2> QED
    BY <2>1, <2>2
<1>2. PassType' /\ RunType' /\ pc' \in Places /\ result' = result
  BY DEF TypeOK, PassType, RunType, Repair, Places
<1> QED
  BY <1>1, <1>2

\* A later phase is a phase.
LEMMA EnterPhaseTypes ==
  ASSUME phase \in 0..2, BudgetType, NEW n \in 0..2, EnterPhase(n)
  PROVE  phase' \in 0..2 /\ rounds' \in [Role -> Nat]
  BY DEF BudgetType, EnterPhase, MaxOf

\* A review is a fresh turn of its phase.
LEMMA AskReviewTypes ==
  ASSUME TypeOK, AskReview
  PROVE  /\ phase' \in 0..2 /\ rounds' \in [Role -> Nat]
         /\ FrameType' /\ pc' \in Places
<1>1. phase' \in 0..2 /\ rounds' \in [Role -> Nat]
  BY EnterPhaseTypes DEF TypeOK, ControlType, AskReview
<1>2. PICK free \in BOOLEAN, single \in BOOLEAN :
        frame' = NewFrame("review", free, single)
  <2>1. pass.rebaseOnly \in BOOLEAN
    BY DEF TypeOK, PassType
  <2>2. (Finish \/ (~pass.rebaseOnly /\ run.reserve = "pending")) \in BOOLEAN
    OBVIOUS
  <2> QED
    BY <2>1, <2>2 DEF AskReview
<1>3. FrameType'
  BY <1>2, NewFrameTypes DEF FrameType, Sites
<1>4. pc' \in Places
  BY DEF AskReview, Places
<1> QED
  BY <1>1, <1>3, <1>4

\* What a rebase makes of a commit is a tree.
LEMMA ReplayedTypes ==
  ASSUME GitType
  PROVE  Replayed \subseteq Tree
  BY TreeAssumption DEF Replayed, GitType, Checkouts

\* A moved base drops, replays or rechecks the change.
LEMMA MovedTypes ==
  ASSUME TypeOK, NEW t \in Tree, Moved(t)
  PROVE  /\ phase' \in 0..2
         /\ rounds' \in [Role -> Nat]
         /\ GitType'
         /\ PassType'
         /\ RunType'
         /\ EvidenceType'
         /\ pc' \in Places
         /\ result' \in Results
<1> USE DEF TypeOK, ControlType
<1>1. GitType'
  BY TreeAssumption DEF Moved, CheckedOut, Uncommitted, GitType, Checkouts
<1>2. EvidenceType'
  BY NoEvidenceTypes DEF Moved, EvidenceType
<1>3. CASE UNCHANGED <<rounds, phase, pass>>
  <2>1. \/ run' = run
        \/ run' = [run EXCEPT !.based = TRUE]
        \/ RecheckLeft /\ run' = [run EXCEPT !.rechecks = @ + 1]
    BY DEF Moved
  <2>2. RunType'
    <3>1. CASE RecheckLeft /\ run' = [run EXCEPT !.rechecks = @ + 1]
      <4>1. run.rechecks + 1 \in 0..MaxRechecks
        BY <3>1, BoundAssumption DEF RunType, RecheckLeft
      <4>2. run' = [run EXCEPT !.rechecks = run.rechecks + 1]
        BY <3>1
      <4> QED
        BY <4>1, <4>2 DEF RunType
    <3> QED
      BY <2>1, <3>1 DEF RunType
  <2>3. \/ \E why \in {"nothing-to-commit", "recheck-bound"} : Halt(why)
        \/ pc' \in {"build", "reproof"} /\ result' = result
    BY DEF Moved
  <2>4. \A why \in {"nothing-to-commit", "recheck-bound"} : why \in Reasons
    BY DEF Reasons
  <2>5. pc' \in Places /\ result' \in Results
    BY <2>3, <2>4, HaltTypes DEF Places, Results
  <2> QED
    BY <1>1, <1>2, <1>3, <2>2, <2>5 DEF BudgetType, PassType
<1>4. CASE /\ RecheckLeft
           /\ EnterPhase(2)
           /\ run' = [run EXCEPT !.rechecks = @ + 1]
           /\ pass' = [pass EXCEPT !.recheck = TRUE]
           /\ pc' = "build"
           /\ UNCHANGED result
  <2>1. RunType'
    BY <1>4, BoundAssumption DEF RunType, RecheckLeft
  <2>2. PassType' /\ pc' \in Places /\ result' \in Results
    BY <1>4 DEF PassType, Places, Results
  <2>3. phase' \in 0..2 /\ rounds' \in [Role -> Nat]
    BY <1>4, EnterPhaseTypes
  <2> QED
    BY <1>1, <1>2, <2>1, <2>2, <2>3
<1> QED
  BY <1>3, <1>4 DEF Moved

-----------------------------------------------------------------------------
(* The types, action by action: only the parts an action writes are shown.  *)

\* Every step keeps the types.
LEMMA TypeStep ==
  ASSUME TypeOK, ConflictFrame, [Next]_vars
  PROVE  TypeOK'
<1> USE DEF TypeOK, ControlType, LaneType, FrameType, BudgetType, GitType,
            PassType, RunType, EvidenceType, budget
<1>1. CASE Begin
  BY <1>1 DEF Begin, Places, Results, Reasons
<1>2. CASE BeginFinish
  <2>1. ControlType'
    BY <1>2 DEF BeginFinish, Places, Results, Reasons
  <2>2. LaneType'
    BY <1>2 DEF BeginFinish, Finish, Tiers
  <2>3. BudgetType'
    BY <1>2, BoundAssumption DEF BeginFinish, Role
  <2> QED
    BY <1>2, <2>1, <2>2, <2>3 DEF BeginFinish
<1>3. CASE SeatRefused
  BY <1>3, SpendTypes, SeatWritesTypes, HaltTypes, TreeAssumption
     DEF SeatRefused, Places, Results, Reasons, Role, Checkouts, Evidences
<1>4. CASE SeatDone
  <2>1. ControlType'
    BY <1>4 DEF SeatDone, Places, Results, Reasons
  <2>2. FrameType'
    BY <1>4 DEF SeatDone, Frames, Sites
  <2>3. BudgetType'
    BY <1>4, SpendTypes DEF SeatDone, Role
  <2>4. GitType'
    BY <1>4, SeatWritesTypes, TreeAssumption DEF SeatDone, Checkouts
  <2>5. EvidenceType'
    BY <1>4, SeatWritesTypes DEF SeatDone, Evidences, Checkouts
  <2> QED
    BY <1>4, <2>1, <2>2, <2>3, <2>4, <2>5 DEF SeatDone
<1>5. CASE SeatHeld
  <2>1. ControlType'
    BY <1>5 DEF SeatHeld, Places, Results, Reasons
  <2>2. FrameType'
    BY <1>5 DEF SeatHeld, Frames, Sites
  <2>3. BudgetType'
    BY <1>5, SpendTypes DEF SeatHeld, Role
  <2>4. GitType'
    BY <1>5, SeatWritesTypes, TreeAssumption DEF SeatHeld, Checkouts
  <2>5. EvidenceType'
    BY <1>5, SeatWritesTypes DEF SeatHeld, Evidences, Checkouts
  <2> QED
    BY <1>5, <2>1, <2>2, <2>3, <2>4, <2>5 DEF SeatHeld
<1>6. CASE SeatSpent
  BY <1>6, HaltTypes DEF SeatSpent, Places, Results, Reasons, Frames, Sites
<1>7. CASE HeldSingle
  BY <1>7, HaltTypes DEF HeldSingle, Places, Results, Reasons
<1>8. CASE HeldNoProgress
  BY <1>8, HaltTypes DEF HeldNoProgress, Places, Results, Reasons
<1>9. CASE HeldQuestionless
  <2>1. ControlType'
    BY <1>9 DEF HeldQuestionless, Recorded, Places
  <2> QED
    BY <1>9, <2>1 DEF HeldQuestionless
<1>10. CASE HeldInsufficient
  <2>1. CASE Restart("build", "restart") /\ UNCHANGED result
    <3>1. /\ LaneType' /\ FrameType' /\ rounds' \in [Role -> Nat]
          /\ GitType' /\ RunType' /\ EvidenceType' /\ pc' \in Places
      BY <2>1, RestartTypes DEF Tiers
    <3>2. /\ phase' = phase /\ suite' = suite /\ result' = result
          /\ failed' \subseteq {"seat", "no-tests", "unproven"}
          /\ bound' = bound /\ pass' = pass
      BY <1>10, <2>1 DEF HeldInsufficient, Recorded, Restart
    <3> QED
      BY <3>1, <3>2
  <2>2. CASE RestartFails /\ UNCHANGED <<lane, frame, rounds, run, evidence>>
    <3>1. GitType' /\ pc' \in Places /\ result' \in Results
      BY <2>2, RestartFailsTypes
    <3>2. /\ phase' = phase /\ suite' = suite
          /\ failed' \subseteq {"seat", "no-tests", "unproven"}
          /\ bound' = bound /\ pass' = pass
      BY <1>10, <2>2 DEF HeldInsufficient, Recorded
    <3> QED
      BY <2>2, <3>1, <3>2
  <2> QED
    BY <1>10, <2>1, <2>2 DEF HeldInsufficient
<1>11. CASE HeldConsults
  <2>1. ControlType'
    <3>1. pc' \in Places /\ result' \in Results
      <4>1. "lead-unavailable" \in Reasons
        BY DEF Reasons
      <4> QED
        BY <1>11, <4>1, HaltTypes DEF HeldConsults, Places
    <3> QED
      BY <1>11, <3>1 DEF HeldConsults, Recorded
  <2>2. FrameType'
    BY <1>11 DEF HeldConsults, Frames, Sites
  <2> QED
    BY <1>11, <2>1, <2>2 DEF HeldConsults
<1>12. CASE LeadReturns
  <2>1. ControlType'
    BY <1>12, HaltTypes DEF LeadReturns, Places, Results, Reasons
  <2>2. BudgetType'
    BY <1>12, SpendTypes DEF LeadReturns, Role
  <2> QED
    BY <1>12, <2>1, <2>2 DEF LeadReturns
<1>13. CASE LeadEscalates
  BY <1>13, HaltTypes DEF LeadEscalates, Places, Results, Reasons
<1>14. CASE LeadAskedAgain
  BY <1>14 DEF LeadAskedAgain, Places, Results, Reasons
<1>15. CASE LeadAccepts
  <2>1. ControlType'
    BY <1>15 DEF LeadAccepts, Places, Results, Reasons
  <2>2. FrameType'
    BY <1>15 DEF LeadAccepts, Frames, Sites
  <2> QED
    BY <1>15, <2>1, <2>2 DEF LeadAccepts
<1>16. CASE LeadBounces
  <2>1. ControlType'
    BY <1>16 DEF LeadBounces, Places, Results, Reasons
  <2>2. FrameType'
    BY <1>16 DEF LeadBounces, Frames, Sites
  <2>3. BudgetType'
    BY <1>16, OneMoreTypes
       DEF LeadBounces, MaxOf, Bounced, Finish, FrameRole, SiteRole, Role
  <2> QED
    BY <1>16, <2>1, <2>2, <2>3 DEF LeadBounces
<1>17. CASE LeadBouncesPlanner
  <2>1. CASE lane.tier # "mechanical"
    <3>1. FrameType'
      BY <1>17, <2>1 DEF LeadBouncesPlanner, Frames
    <3>2. BudgetType'
      BY <1>17, <2>1, OneMoreTypes DEF LeadBouncesPlanner
    <3>3. ControlType'
      BY <1>17, <2>1 DEF LeadBouncesPlanner, Places
    <3> QED
      BY <1>17, <2>1, <3>1, <3>2, <3>3 DEF LeadBouncesPlanner
  <2>2. CASE /\ Restart("build", "replan") /\ UNCHANGED result
             /\ lane.tier = "mechanical"
    <3>1. /\ LaneType' /\ FrameType' /\ rounds' \in [Role -> Nat]
          /\ GitType' /\ RunType' /\ EvidenceType' /\ pc' \in Places
      BY <2>2, RestartTypes DEF Tiers
    <3>2. /\ phase' = phase /\ suite' = suite /\ result' = result
          /\ failed' \subseteq {"seat", "no-tests", "unproven"}
          /\ bound' = bound /\ pass' = pass
      BY <1>17, <2>2 DEF LeadBouncesPlanner, Restart
    <3> QED
      BY <3>1, <3>2
  <2>3. CASE /\ RestartFails /\ UNCHANGED <<lane, frame, rounds, run, evidence>>
             /\ lane.tier = "mechanical"
    <3>1. GitType' /\ pc' \in Places /\ result' \in Results
      BY <2>3, RestartFailsTypes
    <3>2. /\ phase' = phase /\ suite' = suite
          /\ failed' \subseteq {"seat", "no-tests", "unproven"}
          /\ bound' = bound /\ pass' = pass
      BY <1>17, <2>3 DEF LeadBouncesPlanner
    <3> QED
      BY <2>3, <3>1, <3>2
  <2> QED
    BY <1>17, <2>1, <2>2, <2>3 DEF LeadBouncesPlanner
<1>18. CASE PlanReturned
  <2>1. ControlType'
    BY <1>18 DEF PlanReturned, Places, Results, Reasons
  <2>2. LaneType'
    BY <1>18 DEF PlanReturned, Finish, Tiers
  <2>3. FrameType'
    BY <1>18 DEF PlanReturned, Frames, Sites
  <2>4. BudgetType'
    BY <1>18, OneMoreTypes
       DEF PlanReturned, FrameRole, SiteRole, MaxOf, Bounced, Finish, Role
  <2> QED
    BY <1>18, <2>1, <2>2, <2>3, <2>4 DEF PlanReturned
<1>19. CASE PlanRaiseFails
  BY <1>19, HaltTypes DEF PlanRaiseFails, Places, Results, Reasons
<1>20. CASE FetchBase
  <2>1. ControlType'
    BY <1>20, HaltTypes DEF FetchBase, Places, Results, Reasons
  <2>2. RunType'
    BY <1>20 DEF FetchBase
  <2> QED
    BY <1>20, <2>1, <2>2 DEF FetchBase
<1>21. CASE Build
  <2>1. ControlType'
    BY <1>21 DEF Build, Places, Results, Reasons
  <2>2. FrameType'
    <3>1. (pass.repairing /\ (Finish \/ Mechanical)) \in BOOLEAN
      OBVIOUS
    <3> QED
      BY <1>21, <3>1, NewFrameTypes DEF Build, Sites
  <2>3. GitType'
    BY <1>21, TreeAssumption DEF Build, Checkouts
  <2>4. PassType'
    BY <1>21 DEF Build
  <2> QED
    BY <1>21, <2>1, <2>2, <2>3, <2>4 DEF Build
<1>22. CASE Built
  <2>1. ControlType'
    BY <1>22 DEF Built, Places, Results, Reasons
  <2>2. PassType'
    BY <1>22 DEF Built
  <2> QED
    BY <1>22, <2>1, <2>2 DEF Built
<1>23. CASE BuiltNoTests
  BY <1>23, HaltTypes DEF BuiltNoTests, Places, Results, Reasons
<1>24. CASE ProofSkipped
  BY <1>24 DEF ProofSkipped, Places, Results, Reasons
<1>25. CASE Proof
  <2>1. ControlType'
    BY <1>25, HaltTypes DEF Proof, Places, Results, Reasons
  <2>2. GitType'
    BY <1>25, TreeAssumption DEF Proof, Checkouts
  <2>3. EvidenceType'
    BY <1>25 DEF Proof, Evidences, Checkouts
  <2> QED
    BY <1>25, <2>1, <2>2, <2>3 DEF Proof
<1>26. CASE ChangedPaths
  <2>1. ControlType'
    BY <1>26, AskReviewTypes DEF ChangedPaths, Places, Results, Reasons
  <2>2. LaneType'
    BY <1>26 DEF ChangedPaths, Finish, Tiers
  <2>3. FrameType'
    BY <1>26, AskReviewTypes DEF ChangedPaths, Frames, Sites
  <2>4. BudgetType'
    BY <1>26, AskReviewTypes DEF ChangedPaths, Finish, Role
  <2>5. GitType'
    BY <1>26, TreeAssumption DEF ChangedPaths, Stage, Checkouts
  <2> QED
    BY <1>26, <2>1, <2>2, <2>3, <2>4, <2>5 DEF ChangedPaths
<1>27. CASE MechanicalPaths
  <2>1. ControlType'
    BY <1>27 DEF MechanicalPaths, Places, Results, Reasons
  <2>2. GitType'
    BY <1>27, TreeAssumption DEF MechanicalPaths, Stage, Checkouts
  <2> QED
    BY <1>27, <2>1, <2>2 DEF MechanicalPaths
<1>28. CASE MechanicalProtected
  BY <1>28, RestartTypes, RestartFailsTypes, TreeAssumption
     DEF MechanicalProtected, Finish, Places, Results, Reasons, Tiers, Frames,
         Sites, Role, Checkouts, Evidences
<1>29. CASE PathsFail
  <2>1. \E why \in Reasons : Halt(why)
    BY <1>29 DEF PathsFail, Reasons
  <2> QED
    BY <1>29, <2>1, HaltTypes DEF PathsFail
<1>30. CASE JudgeSuite
  BY <1>30, RunSuiteTypes, AskReviewTypes, TreeAssumption
     DEF JudgeSuite, Finish, SuiteGreen, Places, Results, Reasons, Frames,
         Sites, Role, Checkouts, Evidences
<1>31. CASE LastSuite
  <2>1. GitType' /\ EvidenceType'
    <3>1. git.checked \in Tree \union {None}
      BY DEF Checkouts
    <3> QED
      BY <1>31, <3>1, RunSuiteTypes DEF LastSuite
  <2>3. CASE Repair
    BY <1>31, <2>1, <2>3, RepairTypes DEF LastSuite
  <2>4. CASE NoRepair
    <3>1. \A why \in {"suite-red", "suite-unmeasured"} : why \in Reasons
      BY DEF Reasons
    <3>2. pc' \in Places /\ result' \in Results
      BY <1>31, <2>4, <3>1, HaltTypes, RepairTypes DEF LastSuite, Places
    <3> QED
      BY <1>31, <2>1, <2>4, <3>2 DEF LastSuite, NoRepair
  <2> QED
    BY <1>31, <2>3, <2>4 DEF LastSuite
<1>32. CASE Rerun
  <2>1. GitType'
    BY <1>32, ResidueTypes DEF Rerun
  <2>2. EvidenceType'
    BY <1>32 DEF Rerun, Suited, Evidences, Checkouts
  <2>3. CASE Repair
    BY <1>32, <2>1, <2>2, <2>3, RepairTypes DEF Rerun
  <2>4. CASE NoRepair
    <3>1. \A why \in {"suite-red", "suite-unmeasured"} : why \in Reasons
      BY DEF Reasons
    <3>2. pc' \in Places /\ result' \in Results
      BY <1>32, <2>4, <3>1, HaltTypes, RepairTypes DEF Rerun, Places
    <3> QED
      BY <1>32, <2>1, <2>2, <2>4, <3>2 DEF Rerun, NoRepair
  <2> QED
    BY <1>32, <2>3, <2>4 DEF Rerun
<1>33. CASE Reviewed
  <2>1. ControlType'
    BY <1>33 DEF Reviewed, Places, Results, Reasons
  <2>2. PassType'
    BY <1>33 DEF Reviewed
  <2>3. EvidenceType'
    BY <1>33 DEF Reviewed, Evidences, Checkouts
  <2> QED
    BY <1>33, <2>1, <2>2, <2>3 DEF Reviewed
<1>34. CASE JoinStops
  BY <1>34 DEF JoinStops, Places, Results, Reasons
<1>35. CASE Join
  <2>1. ControlType'
    BY <1>35 DEF Join, Places, Results, Reasons
  <2>2. FrameType'
    <3>1. pass.rebaseOnly \in BOOLEAN
      OBVIOUS
    <3> QED
      BY <1>35, <3>1, NewFrameTypes DEF Join, Sites
  <2>3. BudgetType'
    BY <1>35 DEF Join, Role
  <2>4. PassType'
    BY <1>35 DEF Join
  <2>5. RunType'
    BY <1>35 DEF Join
  <2> QED
    BY <1>35, <2>1, <2>2, <2>3, <2>4, <2>5 DEF Join
<1>36. CASE Seconded
  <2>1. ControlType'
    BY <1>36 DEF Seconded, Places, Results, Reasons
  <2>2. EvidenceType'
    BY <1>36 DEF Seconded, Evidences, Checkouts
  <2> QED
    BY <1>36, <2>1, <2>2 DEF Seconded
<1>37. CASE CommitStops
  BY <1>37, HaltTypes DEF CommitStops, Places, Results, Reasons
<1>38. CASE Commit
  BY <1>38, TreeAssumption DEF Commit, Places, Results, Reasons, Checkouts
<1>39. CASE Snapshot
  <2>1. ControlType'
    BY <1>39, HaltTypes DEF Snapshot, Places, Results, Reasons
  <2>2. GitType'
    <3>1. git \in Checkouts /\ CheckedOut(git.work) \in Checkouts
      BY DEF CheckedOut, Checkouts
    <3> QED
      BY <1>39, <3>1 DEF Snapshot
  <2>3. RunType'
    BY <1>39 DEF Snapshot
  <2> QED
    BY <1>39, <2>1, <2>2, <2>3 DEF Snapshot
<1>40. CASE RebaseUnmoved
  BY <1>40 DEF RebaseUnmoved, Places, Results, Reasons
<1>41. CASE RebaseMoved
  BY <1>41, MovedTypes, ReplayedTypes
     DEF RebaseMoved, Places, Results, Reasons, Role, Checkouts, Evidences
<1>42. CASE RebaseFails
  <2>1. \A why \in {"rebase-failed", "cleanup-unproven"} : why \in Reasons
    BY DEF Reasons
  <2>2. PICK g \in Checkouts, why \in {"rebase-failed", "cleanup-unproven"} :
          RebaseStop(g, why)
    <3>1. /\ git \in Checkouts
          /\ \A t \in Tree : [git EXCEPT !.work = t] \in Checkouts
      BY DEF Checkouts
    <3> QED
      BY <1>42, <3>1 DEF RebaseFails
  <2>3. GitType' /\ pc' \in Places /\ result' \in Results
    BY <2>1, <2>2, RebaseStopTypes
  <2> QED
    BY <1>42, <2>3 DEF RebaseFails
<1>43. CASE Conflict
  <2>1. [git EXCEPT !.before = git.head] \in Checkouts
    BY DEF Checkouts
  <2>2. CASE run.conflictTurn
    <3>1. FrameType'
      BY <1>43, <2>2, NewFrameTypes DEF Conflict, Sites
    <3>2. RunType'
      BY <1>43, <2>2 DEF Conflict
    <3> QED
      BY <1>43, <2>1, <2>2, <3>1, <3>2 DEF Conflict, Places
  <2>3. CASE ~run.conflictTurn
    <3>1. "rebase-conflict" \in Reasons
      BY DEF Reasons
    <3>2. GitType' /\ pc' \in Places /\ result' \in Results
      BY <1>43, <2>1, <2>3, <3>1, RebaseStopTypes DEF Conflict
    <3> QED
      BY <1>43, <2>3, <3>2 DEF Conflict
  <2> QED
    BY <2>2, <2>3
<1>44. CASE ConflictReturned
  BY <1>44, MovedTypes, TreeAssumption
     DEF ConflictReturned, Places, Results, Reasons, Role, Checkouts,
         Evidences
<1>45. CASE Undo
  <2>1. git.before \in Tree
    BY <1>45 DEF Undo, ConflictFrame, Checkouts
  <2>2. \A why \in {"rebase-conflict", "authentication_failed", "undo-failed"} :
          why \in Reasons
    BY DEF Reasons
  <2>3. PICK g \in Checkouts,
            why \in {"rebase-conflict", "authentication_failed", "undo-failed"} :
          RebaseStop(g, why)
    <3>1. CheckedOut(git.before) \in Checkouts
      BY <2>1 DEF CheckedOut, Checkouts
    <3>2. \A t \in Tree : [git EXCEPT !.work = t] \in Checkouts
      BY DEF Checkouts
    <3> QED
      BY <1>45, <3>1, <3>2 DEF Undo
  <2>4. GitType' /\ pc' \in Places /\ result' \in Results
    BY <2>2, <2>3, RebaseStopTypes
  <2> QED
    BY <1>45, <2>4 DEF Undo
<1>46. CASE Reproof
  <2>1. ControlType'
    BY <1>46, HaltTypes DEF Reproof, Places, Results, Reasons
  <2>2. GitType'
    BY <1>46, ResidueTypes DEF Reproof
  <2>3. EvidenceType'
    <3>1. pass.named \in BOOLEAN
      OBVIOUS
    <3> QED
      BY <1>46, <3>1 DEF Reproof, Evidences
  <2> QED
    BY <1>46, <2>1, <2>2, <2>3 DEF Reproof
<1>47. CASE Retest
  BY <1>47, RunSuiteTypes, HaltTypes, TreeAssumption
     DEF Retest, SuiteGreen, Places, Results, Reasons, Checkouts, Evidences
<1>48. CASE Reclean
  BY <1>48, HaltTypes DEF Reclean, Places, Results, Reasons
<1>49. CASE Publish
  BY <1>49, HaltTypes DEF Publish, Places, Results, Reasons
<1>50. CASE SuiteEnds
  <2>1. ControlType'
    BY <1>50 DEF SuiteEnds, Places, Results, Reasons
  <2>2. GitType'
    BY <1>50, ResidueTypes DEF SuiteEnds
  <2>3. EvidenceType'
    BY <1>50 DEF SuiteEnds, Suited, Evidences, Checkouts
  <2> QED
    BY <1>50, <2>1, <2>2, <2>3 DEF SuiteEnds
<1>51. CASE UNCHANGED vars
  BY <1>51 DEF vars
<1>52. CASE BeginFails
  BY <1>52, HaltTypes DEF BeginFails, Places, Results, Reasons
<1> QED
  BY <1>1, <1>2, <1>3, <1>4, <1>5, <1>6, <1>7, <1>8, <1>9, <1>10, <1>11,
     <1>12, <1>13, <1>14, <1>15, <1>16, <1>17, <1>18, <1>19, <1>20, <1>21,
     <1>22, <1>23, <1>24, <1>25, <1>26, <1>27, <1>28, <1>29, <1>30, <1>31,
     <1>32, <1>33, <1>34, <1>35, <1>36, <1>37, <1>38, <1>39, <1>40, <1>41,
     <1>42, <1>43, <1>44, <1>45, <1>46, <1>47, <1>48, <1>49, <1>50, <1>51, <1>52
     DEF Next, Step, Turns, Routing, Checks, Delivery, Ended

\* A lane is started with values of those types.
LEMMA TypeInit ==
  ASSUME Init
  PROVE  TypeOK
<1>1. PICK l \in Lanes :
        /\ lane = [shape |-> l.shape, tier |-> l.tier, planned |-> l.planned,
                   needTests |-> l.shape = "finish" \/ l.tier # "mechanical",
                   prior |-> l.prior]
        /\ git = [work |-> l.built, index |-> l.ready, head |-> l.ready,
                  ready |-> l.ready, checked |-> None, before |-> None]
  BY DEF Init
<1>2. l \in LaneStart
  BY LaneAssumption
<1>3. LaneType /\ GitType
  BY <1>1, <1>2, TreeAssumption DEF LaneType, GitType, Checkouts, LaneStart
<1>4. FrameType /\ EvidenceType
  BY NewFrameTypes, NoEvidenceTypes DEF Init, FrameType, EvidenceType, Sites
<1>5. BudgetType /\ PassType /\ RunType
  BY BoundAssumption DEF Init, BudgetType, PassType, RunType
<1>6. ControlType
  BY DEF Init, ControlType, Places, Results
<1> QED
  BY <1>3, <1>4, <1>5, <1>6 DEF TypeOK


-----------------------------------------------------------------------------
(* What has been established at each place of the loop                     *)

\* A stop keeps the invariant: no change is published, and only a suite that
\* still runs is waited for.
LEMMA HaltGate ==
  ASSUME GateInv, NEW why, Halt(why), UNCHANGED <<lane, frame, suite>>,
         pass'.verdict = pass.verdict,
         git'.before = git.before \/ git'.before # None
  PROVE  GateInv'
  BY DEF Halt, GateInv, NestedInBuild, ConflictFrame, SoleWriter, InReview,
     InSecond, InJoin, InChecks, InDelivery, SuiteOnlyInPair, Delivered,
     CheckedPublish, Asking, Finish

\* A moved base keeps it, whether it drops the change, stops the lane, or sends
\* it to its checks once more.
LEMMA MovedGate ==
  ASSUME GitType, PassType, RunType, FrameType, EvidenceType, GateInv,
         NEW t \in Tree, Moved(t),
         suite = "idle", pass.verdict = "none", ~Delivered,
         UNCHANGED <<lane, frame, suite>>
  PROVE  GateInv'
<1>1. /\ git'.before = git.before
      /\ pass'.verdict = pass.verdict /\ pass'.named = pass.named
  BY DEF Moved, CheckedOut, Uncommitted, GitType, Checkouts, PassType
<1>2. CASE pc' = "build" /\ UNCHANGED result
  BY <1>1, <1>2 DEF GateInv, NestedInBuild, ConflictFrame, SoleWriter, InReview,
     InSecond, InJoin, InChecks, InDelivery, SuiteOnlyInPair, Delivered,
     CheckedPublish, Asking
<1>3. CASE pc' = "reproof" /\ Mechanical /\ UNCHANGED result
  BY <1>1, <1>3 DEF GateInv, NestedInBuild, ConflictFrame, SoleWriter, InReview,
     InSecond, InJoin, InChecks, InDelivery, SuiteOnlyInPair, Delivered,
     CheckedPublish, Asking, Mechanical, Finish
<1>4. CASE \E why : Halt(why)
  BY <1>1, <1>4, HaltGate
<1> QED
  BY <1>2, <1>3, <1>4 DEF Moved, RepeatsChecks, Mechanical

-----------------------------------------------------------------------------
(* The invariant, action by action.                                        *)

\* Every step keeps what has been established where the loop is.
LEMMA GateStep ==
  ASSUME GitType, FrameType, LaneType, PassType, RunType, EvidenceType,
         GateInv, [Next]_vars
  PROVE  GateInv'
<1> USE DEF GateInv, NestedInBuild, ConflictFrame, SoleWriter, InReview,
            InSecond, PairedSuite, InJoin, InChecks, InDelivery, Passed,
            TestsProved, SuiteOnlyInPair, Delivered, CheckedPublish, Asking,
            Finish, Mechanical, GitType, FrameType, LaneType, PassType,
            RunType, EvidenceType, Shapes, Tiers, Sites, Frames, Checkouts,
            Evidences
<1>1. CASE Begin
  BY <1>1, TreeAssumption DEF Begin, budget
<1>2. CASE BeginFinish
  BY <1>2, TreeAssumption DEF BeginFinish
<1>3. CASE SeatRefused
  <2>1. git'.before = git.before /\ git'.ready = git.ready
    BY <1>3 DEF SeatRefused, SeatWrites
  <2>2. CASE Hold
    <3>1. pc = "ask" /\ suite = "idle" /\ ~Delivered
      BY <1>3, <2>2 DEF SeatRefused, Spend, Hold
    <3>2. /\ pc' = "undo" /\ frame' = frame /\ suite' = "idle"
          /\ result' = result /\ pass' = pass /\ frame.site = "conflict"
      BY <1>3, <2>2, <3>1 DEF SeatRefused, Hold
    <3> QED
      BY <2>1, <3>1, <3>2
  <2>3. CASE ~Hold
    <3>1. PICK why \in {"lead-refused", "seat-refused"} : Halt(why)
      BY <1>3, <2>3 DEF SeatRefused
    <3> QED
      BY <1>3, <2>1, <3>1, HaltGate DEF SeatRefused
  <2> QED
    BY <2>2, <2>3
<1>4. CASE SeatDone
  <2>1. git'.before = git.before /\ git'.ready = git.ready
    BY <1>4 DEF SeatDone, SeatWrites
  <2>2. ASSUME frame.site \in {"review", "second"}
        PROVE  UNCHANGED <<git, evidence>>
    <3>1. Seat # "builder"
      BY <2>2 DEF Seat, FrameRole, SiteRole
    <3> QED
      BY <1>4, <3>1 DEF SeatDone, SeatWrites
  <2>3. pc = "ask" /\ pc' \in {"returned"} /\ ~Delivered
    BY <1>4 DEF SeatDone, Spend
  <2>4. /\ frame'.site = frame.site /\ frame'.nested = frame.nested
        /\ frame'.consulting = frame.consulting
        /\ pc' # "undo"
    BY <1>4, <2>3 DEF SeatDone, Hold
  <2>5. UNCHANGED <<lane, pass, run, suite, result>>
    BY <1>4 DEF SeatDone
  <2> QED
    BY <2>1, <2>2, <2>3, <2>4, <2>5
<1>5. CASE SeatHeld
  <2>1. git'.before = git.before /\ git'.ready = git.ready
    BY <1>5 DEF SeatHeld, SeatWrites
  <2>2. ASSUME frame.site \in {"review", "second"}
        PROVE  UNCHANGED <<git, evidence>>
    <3>1. Seat # "builder"
      BY <2>2 DEF Seat, FrameRole, SiteRole
    <3> QED
      BY <1>5, <3>1 DEF SeatHeld, SeatWrites
  <2>3. pc = "ask" /\ pc' \in {"held", "undo"} /\ ~Delivered
    BY <1>5 DEF SeatHeld, Spend
  <2>4. /\ frame'.site = frame.site /\ frame'.nested = frame.nested
        /\ frame'.consulting = frame.consulting
        /\ pc' = "undo" <=> frame.site = "conflict"
    BY <1>5, <2>3 DEF SeatHeld, Hold
  <2>5. UNCHANGED <<lane, pass, run, suite, result>>
    BY <1>5 DEF SeatHeld
  <2> QED
    BY <2>1, <2>2, <2>3, <2>4, <2>5
<1>6. CASE SeatSpent
  BY <1>6, TreeAssumption, HaltGate
     DEF SeatSpent, Seat, FrameRole, SiteRole, budget
<1>7. CASE HeldSingle
  BY <1>7, TreeAssumption, HaltGate
     DEF HeldSingle, Single, FrameRole, SiteRole, budget
<1>8. CASE HeldNoProgress
  BY <1>8, TreeAssumption, HaltGate
     DEF HeldNoProgress, Single, FrameRole, SiteRole, HeldRepeats, budget
<1>9. CASE HeldQuestionless
  BY <1>9, TreeAssumption
     DEF HeldQuestionless, Single, FrameRole, SiteRole, Recorded
<1>10. CASE HeldInsufficient
  BY <1>10, TreeAssumption
     DEF HeldInsufficient, Single, FrameRole, SiteRole, Recorded, Restart,
         Raised, NoEvidence, NewFrame, RestartFails, Halt
<1>11. CASE HeldConsults
  BY <1>11, TreeAssumption, HaltGate
     DEF HeldConsults, Single, FrameRole, SiteRole, Recorded
<1>12. CASE LeadReturns
  BY <1>12, TreeAssumption, HaltGate
     DEF LeadReturns, Spend, Seat, FrameRole, SiteRole
<1>13. CASE LeadEscalates
  BY <1>13, TreeAssumption, HaltGate DEF LeadEscalates, budget
<1>14. CASE LeadAskedAgain
  BY <1>14, TreeAssumption
     DEF LeadAskedAgain, MustRoute, FrameRole, SiteRole, budget
<1>15. CASE LeadAccepts
  BY <1>15, TreeAssumption
     DEF LeadAccepts, MustRoute, FrameRole, SiteRole, budget
<1>16. CASE LeadBounces
  BY <1>16, TreeAssumption
     DEF LeadBounces, OneMore, Role, MaxOf, Bounced, FrameRole, SiteRole
<1>17. CASE LeadBouncesPlanner
  <2>1. /\ pc = "decide" /\ frame.site = "build" /\ suite = "idle" /\ ~Delivered
        /\ UNCHANGED <<pass, suite>> /\ pass.verdict = "none"
    BY <1>17 DEF LeadBouncesPlanner, FrameRole, SiteRole
  <2>2. CASE frame'.site = "build" /\ pc' = "ask" /\ UNCHANGED result
    BY <2>1, <2>2
  <2>3. CASE RestartFails /\ UNCHANGED <<lane, frame>>
    <3>1. git'.before = git.before /\ \E why : Halt(why)
      BY <2>3 DEF RestartFails
    <3> QED
      BY <2>1, <2>3, <3>1, HaltGate
  <2>4. CASE Restart("build", "replan") /\ UNCHANGED result
    BY <2>2, <2>4 DEF Restart, NewFrame
  <2>5. CASE /\ frame' = [frame EXCEPT !.nested = "replan", !.consulting = FALSE,
                                       !.held = "none"]
             /\ pc' = "ask"
             /\ UNCHANGED result
    BY <2>1, <2>2, <2>5
  <2> QED
    BY <1>17, <2>3, <2>4, <2>5 DEF LeadBouncesPlanner
<1>18. CASE PlanReturned
  BY <1>18, TreeAssumption
     DEF PlanReturned, FrameRole, SiteRole, OneMore, Role, MaxOf, Bounced
<1>19. CASE PlanRaiseFails
  BY <1>19, TreeAssumption, HaltGate
     DEF PlanRaiseFails, FrameRole, SiteRole, budget
<1>20. CASE FetchBase
  BY <1>20, TreeAssumption, HaltGate DEF FetchBase, budget
<1>21. CASE Build
  BY <1>21, TreeAssumption DEF Build, NewFrame, budget
<1>22. CASE Built
  BY <1>22, TreeAssumption DEF Built, AtSite, budget
<1>23. CASE BuiltNoTests
  BY <1>23, TreeAssumption, HaltGate DEF BuiltNoTests, AtSite
<1>24. CASE ProofSkipped
  BY <1>24, TreeAssumption DEF ProofSkipped, budget
<1>25. CASE Proof
  BY <1>25, TreeAssumption, HaltGate DEF Proof
<1>26. CASE ChangedPaths
  BY <1>26, TreeAssumption
     DEF ChangedPaths, Touches, MayTouch, Stage, AskReview, EnterPhase, MaxOf, NewFrame
<1>27. CASE MechanicalPaths
  BY <1>27, TreeAssumption DEF MechanicalPaths, Touches, MayTouch, Stage, budget
<1>28. CASE MechanicalProtected
  BY <1>28, TreeAssumption, HaltGate
     DEF MechanicalProtected, Touches, MayTouch, Restart, Raised, NoEvidence, NewFrame,
         RestartFails
<1>29. CASE PathsFail
  BY <1>29, TreeAssumption, HaltGate DEF PathsFail, Touches, MayTouch, budget
<1>30. CASE JudgeSuite
  <2>1. /\ pc = "suite" /\ ~Finish /\ ~Mechanical /\ lane.tier = "judge"
        /\ UNCHANGED <<lane, pass, run, result>> /\ ~Delivered
        /\ git.checked # None /\ TestsProved /\ git.work = git.checked
    BY <1>30 DEF JudgeSuite
  <2>2. /\ git'.checked = git.checked /\ git'.before = git.before
        /\ evidence'.proved = evidence.proved
        /\ SuiteGreen =>
              evidence'.suited = git.checked /\ evidence'.ran = git.checked
    BY <1>30, <2>1 DEF JudgeSuite, RunSuite, Residue, Suited, SuiteGreen
  <2>3. CASE SuiteGreen
    <3>1. /\ pc' = "ask" /\ frame'.site = "review" /\ frame'.nested = "none"
          /\ suite' = "green"
      BY <1>30, <2>3 DEF JudgeSuite, AskReview, NewFrame
    <3> QED
      BY <2>1, <2>2, <2>3, <3>1
  <2>4. CASE ~SuiteGreen
    <3>1. pc' = "join" /\ frame' = frame /\ suite' \in {"red", "broken"}
      BY <1>30, <2>4 DEF JudgeSuite
    <3> QED
      BY <2>1, <2>2, <3>1
  <2> QED
    BY <2>3, <2>4
<1>31. CASE LastSuite
  <2>1. /\ pc = "suite" /\ suite = "idle" /\ UNCHANGED <<lane, frame, suite>>
        /\ git.checked # None /\ TestsProved
        /\ Finish => evidence.reviewed = git.checked
        /\ ~Delivered /\ pass.verdict = "none"
    BY <1>31 DEF LastSuite
  <2>2. /\ git'.checked = git.checked /\ git'.before = git.before
        /\ evidence'.proved = evidence.proved
        /\ evidence'.reviewed = evidence.reviewed
        /\ SuiteGreen => evidence'.suited = git.checked
    BY <1>31 DEF LastSuite, RunSuite, Residue, Suited, SuiteGreen
  <2>3. CASE \/ SuiteGreen /\ pc' = "precommit" /\ NoRepair /\ UNCHANGED result
             \/ Finish /\ pc' = "rerun" /\ NoRepair /\ UNCHANGED result
    BY <1>31, <2>1, <2>2, <2>3 DEF NoRepair, LastSuite
  <2>4. CASE Repair
    BY <2>1, <2>2, <2>4 DEF Repair
  <2>5. CASE (\E why : Halt(why)) /\ NoRepair
    BY <2>1, <2>2, <2>5, HaltGate DEF NoRepair
  <2> QED
    BY <1>31, <2>3, <2>4, <2>5 DEF LastSuite
<1>32. CASE Rerun
  <2>1. /\ pc = "rerun" /\ suite = "idle" /\ UNCHANGED <<lane, frame, suite>>
        /\ git.checked # None /\ TestsProved
        /\ Finish /\ evidence.reviewed = git.checked
        /\ ~Delivered /\ pass.verdict = "none"
    BY <1>32 DEF Rerun
  <2>2. git'.checked = git.checked /\ git'.before = git.before
    BY <1>32 DEF Rerun, Residue
  <2>3. CASE /\ evidence' = Suited(git.checked, git.work)
             /\ pc' = "precommit"
             /\ NoRepair
             /\ UNCHANGED result
    <3>1. /\ evidence'.proved = evidence.proved
          /\ evidence'.reviewed = evidence.reviewed
          /\ evidence'.suited = git.checked
      BY <2>3 DEF Suited
    <3> QED
      BY <2>1, <2>2, <2>3, <3>1 DEF NoRepair
  <2>4. CASE Repair
    BY <2>1, <2>2, <2>4 DEF Repair
  <2>5. CASE (\E why : Halt(why)) /\ NoRepair
    BY <2>1, <2>2, <2>5, HaltGate DEF NoRepair
  <2> QED
    BY <1>32, <2>3, <2>4, <2>5 DEF Rerun
<1>33. CASE Reviewed
  <2>1. /\ pc = "returned" /\ frame.site = "review" /\ frame.nested = "none"
        /\ UNCHANGED <<lane, frame, git, run, suite, result>> /\ ~Delivered
        /\ git.checked # None /\ TestsProved
        /\ ~Finish => PairedSuite /\ suite # "idle"
        /\ pass.verdict = "none"
    BY <1>33 DEF Reviewed, AtSite
  <2>2. /\ evidence'.proved = evidence.proved
        /\ evidence'.suited = evidence.suited
        /\ evidence'.ran = evidence.ran
        /\ pass'.named = pass.named
    BY <1>33 DEF Reviewed
  <2>3. CASE Finish
    <3>1. /\ pc' \in {"suite", "build"} /\ pass' = pass
          /\ pc' = "suite" => evidence'.reviewed = git.checked
      BY <1>33, <2>3 DEF Reviewed
    <3>2. suite = "idle"
      BY <2>3
    <3> QED
      BY <2>1, <2>2, <2>3, <3>1, <3>2
  <2>4. CASE ~Finish
    <3>1. /\ pc' = "join" /\ pass'.verdict \in {"pass", "changes"}
          /\ pass'.verdict = "pass" => evidence'.reviewed = git.checked
      BY <1>33, <2>4 DEF Reviewed
    <3> QED
      BY <2>1, <2>2, <2>4, <3>1
  <2> QED
    BY <2>3, <2>4
<1>34. CASE JoinStops
  BY <1>34, TreeAssumption DEF JoinStops, Joined, ReserveSpent, budget
<1>35. CASE Join
  BY <1>35, TreeAssumption
     DEF Join, Joined, ReserveSpent, ReserveOpens, NewFrame
<1>36. CASE Seconded
  BY <1>36, TreeAssumption DEF Seconded, AtSite, budget
<1>37. CASE CommitStops
  BY <1>37, TreeAssumption, HaltGate DEF CommitStops, Dirty, budget
<1>38. CASE Commit
  BY <1>38, TreeAssumption DEF Commit, Dirty, budget
<1>39. CASE Snapshot
  <2>1. pc = "snapshot" /\ suite = "idle" /\ ~run.based /\ ~Delivered
    BY <1>39 DEF Snapshot
  <2>2. /\ git' \in {git, CheckedOut(git.work)}
        /\ run' \in {run, [run EXCEPT !.wip = TRUE]}
    BY <1>39 DEF Snapshot
  <2>3. git'.before = git.before /\ run'.based = run.based
    BY <2>2 DEF CheckedOut
  <2>4. CASE pc' = "rebase" /\ UNCHANGED result
    BY <1>39, <2>1, <2>3, <2>4 DEF Snapshot
  <2>5. CASE \E why : Halt(why)
    BY <1>39, <2>3, <2>5, HaltGate DEF Snapshot
  <2> QED
    BY <1>39, <2>4, <2>5 DEF Snapshot
<1>40. CASE RebaseUnmoved
  BY <1>40, TreeAssumption DEF RebaseUnmoved, budget
<1>41. CASE RebaseMoved
  <2>1. /\ pc = "rebase" /\ suite = "idle" /\ ~Delivered
        /\ pass.verdict = "none" /\ UNCHANGED <<lane, frame, suite>>
    BY <1>41 DEF RebaseMoved, AtSite
  <2>2. CASE \E t \in Tree : Moved(t)
    BY <2>1, <2>2, MovedGate
  <2> QED
    BY <1>41, <2>2, ReplayedTypes DEF RebaseMoved
<1>42. CASE RebaseFails
  BY <1>42, TreeAssumption, HaltGate DEF RebaseFails, RebaseStop, budget
<1>43. CASE Conflict
  <2>1. /\ pc = "rebase" /\ suite = "idle" /\ ~Delivered
        /\ UNCHANGED <<lane, pass, evidence, suite>>
    BY <1>43 DEF Conflict
  <2>2. CASE run.conflictTurn
    <3>1. /\ git'.before # None /\ pc' = "ask" /\ result' = result
          /\ frame'.site = "conflict" /\ frame'.nested = "none"
          /\ frame'.free /\ ~frame'.consulting
      BY <1>43, <2>2, TreeAssumption DEF Conflict, NewFrame
    <3> QED
      BY <2>1, <3>1
  <2>3. CASE ~run.conflictTurn
    <3>1. /\ (\E why : Halt(why)) /\ frame' = frame
          /\ \/ git' = [[git EXCEPT !.before = git.head] EXCEPT !.head = git.ready]
             \/ git' = [git EXCEPT !.before = git.head]
      <4>1. /\ RebaseStop([git EXCEPT !.before = git.head], "rebase-conflict")
            /\ frame' = frame
        BY <1>43, <2>3 DEF Conflict
      <4>2. [git EXCEPT !.before = git.head].ready = git.ready
        BY DEF Checkouts
      <4> QED
        BY <4>1, <4>2 DEF RebaseStop
    <3>2. git'.before = git.head /\ git.head # None
      BY <3>1, TreeAssumption
    <3> QED
      BY <2>1, <3>1, <3>2, HaltGate
  <2> QED
    BY <2>2, <2>3
<1>44. CASE ConflictReturned
  <2>1. /\ pc = "returned" /\ frame.site = "conflict" /\ suite = "idle" /\ ~Delivered
        /\ pass.verdict = "none" /\ UNCHANGED <<lane, frame, suite>>
    BY <1>44 DEF ConflictReturned, AtSite
  <2>2. CASE \E t \in Tree : Moved(t)
    BY <2>1, <2>2, MovedGate
  <2>3. CASE pc' = "undo" /\ UNCHANGED <<git, pass, run, evidence, result>>
    BY <2>1, <2>3
  <2> QED
    BY <1>44, <2>2, <2>3, TreeAssumption DEF ConflictReturned
<1>45. CASE Undo
  <2>1. (\E why : Halt(why)) /\ git'.before = git.before
    BY <1>45 DEF Undo, RebaseStop, CheckedOut
  <2> QED
    BY <1>45, <2>1, HaltGate DEF Undo
<1>46. CASE Reproof
  <2>1. pc = "reproof" /\ suite = "idle" /\ Mechanical /\ ~Delivered
    BY <1>46 DEF Reproof
  <2>2. git'.before = git.before
    BY <1>46 DEF Reproof, Residue
  <2>3. CASE pc' = "retest" /\ UNCHANGED result
    <3>1. evidence'.proved = pass.named
      BY <1>46, <2>3 DEF Reproof, Halt
    <3> QED
      BY <1>46, <2>1, <2>2, <2>3, <3>1 DEF Reproof
  <2>4. CASE \E why : Halt(why)
    BY <1>46, <2>2, <2>4, HaltGate DEF Reproof
  <2> QED
    BY <1>46, <2>3, <2>4 DEF Reproof
<1>47. CASE Retest
  <2>1. /\ pc = "retest" /\ suite = "idle" /\ Mechanical /\ TestsProved /\ ~Delivered
        /\ UNCHANGED <<lane, frame, pass, run, suite>>
    BY <1>47 DEF Retest
  <2>2. /\ git'.before = git.before /\ git'.head = git.head
        /\ evidence'.proved = evidence.proved
        /\ SuiteGreen => evidence'.suited = git.head
    BY <1>47 DEF Retest, RunSuite, Residue, Suited, SuiteGreen
  <2>3. CASE SuiteGreen /\ pc' = "reclean" /\ UNCHANGED result
    BY <2>1, <2>2, <2>3
  <2>4. CASE \E why : Halt(why)
    BY <2>1, <2>2, <2>4, HaltGate
  <2> QED
    BY <1>47, <2>3, <2>4 DEF Retest
<1>48. CASE Reclean
  BY <1>48, TreeAssumption, HaltGate DEF Reclean, budget
<1>49. CASE Publish
  BY <1>49, TreeAssumption, HaltGate DEF Publish, budget
<1>50. CASE SuiteEnds
  BY <1>50, TreeAssumption DEF SuiteEnds, Residue, Suited, budget
<1>51. CASE UNCHANGED vars
  BY <1>51 DEF vars
<1>52. CASE BeginFails
  BY <1>52, TreeAssumption, HaltGate DEF BeginFails, budget
<1> QED
  BY <1>1, <1>2, <1>3, <1>4, <1>5, <1>6, <1>7, <1>8, <1>9, <1>10, <1>11,
     <1>12, <1>13, <1>14, <1>15, <1>16, <1>17, <1>18, <1>19, <1>20, <1>21,
     <1>22, <1>23, <1>24, <1>25, <1>26, <1>27, <1>28, <1>29, <1>30, <1>31,
     <1>32, <1>33, <1>34, <1>35, <1>36, <1>37, <1>38, <1>39, <1>40, <1>41,
     <1>42, <1>43, <1>44, <1>45, <1>46, <1>47, <1>48, <1>49, <1>50, <1>51, <1>52
     DEF Next, Step, Turns, Routing, Checks, Delivery, Ended

-----------------------------------------------------------------------------
(* The theorems.                                                           *)

IInv == TypeOK /\ GateInv

\* Nothing has been established when a lane starts, and nothing is claimed.
LEMMA GateInit ==
  ASSUME Init
  PROVE  GateInv
  BY DEF Init, NewFrame, GateInv, NestedInBuild, ConflictFrame, SoleWriter,
     InReview, InSecond, InJoin, InChecks, InDelivery, SuiteOnlyInPair,
     Delivered, CheckedPublish, Asking

\* The types and what is established at each place hold of every lane.
THEOREM LaneInvariant == Spec => []IInv
<1>1. Init => IInv
  BY TypeInit, GateInit DEF IInv
<1>2. IInv /\ [Next]_vars => IInv'
  BY TypeStep, GateStep DEF IInv, TypeOK, GateInv
<1> QED
  BY <1>1, <1>2, PTL DEF Spec

\* Every variable of a lane keeps to its type; no lane repeats its checks more
\* often than MAX_RECHECKS (loop.mjs, moved).
THEOREM LaneTyped == Spec => []TypeOK
<1>1. IInv => TypeOK
  BY DEF IInv
<1> QED
  BY <1>1, LaneInvariant, PTL

\* What each place of the loop relies on has been established on every path that
\* leads there (loop.mjs, the body of runLoop's checks).
THEOREM LaneGated == Spec => []GateInv
<1>1. IInv => GateInv
  BY DEF IInv
<1> QED
  BY <1>1, LaneInvariant, PTL

\* No lane publishes, and no finish is ready, with a tree that its suite, its
\* reviews or its proof did not pass on the base it is delivered on.
THEOREM LaneChecked == Spec => []CheckedPublish
<1>1. IInv => CheckedPublish
  BY DEF IInv, GateInv
<1> QED
  BY <1>1, LaneInvariant, PTL

\* No builder, commit, rebase or reset touches the checkout while the suite a
\* review was paired with runs in it, and the lane does not end under it.
THEOREM LaneSoleWriter == Spec => []SoleWriter
<1>1. IInv => SoleWriter
  BY DEF IInv, GateInv
<1> QED
  BY <1>1, LaneInvariant, PTL

-----------------------------------------------------------------------------
(* Three more promises: a protected change is published by a judge lane    *)
(* only, the reviews of a finish keep to their cap over all its passes,    *)
(* and a rebase that stops on a conflict gives the build back.  Each has   *)
(* an invariant of its own over the places of the loop; all three lean on  *)
(* GateInv for who may be where while a suite is running.                  *)

\* Before its commit a lane of a brief stands on the base, whatever its checkout
\* holds: the paths are measured against a HEAD that touches nothing protected.
\* (A finish may stand on a ready commit, and publishes nothing itself.)  It
\* knows its base once it is planned.
OnBase ==
  ~Finish =>
    /\ \/ pc \in {"start", "snapshot", "fetch", "build", "proof", "paths",
                  "suite", "rerun", "join", "precommit"}
       \/ pc \in Asking /\ frame.site # "conflict"
       => git.head = BaseTree
    /\ \/ pc \in {"start", "fetch", "end"}
       \/ pc \in Asking /\ frame.site = "plan"
       \/ run.based

\* From the measuring of the paths on, what a lane of a brief still at tier build
\* staged, committed and is about to publish touches nothing protected.
Unprotected ==
  /\ result.status = "published" => ~Finish
  /\ ~Finish /\ lane.tier = "build" =>
       /\ \/ pc \in {"join", "suite", "rerun", "precommit"}
          \/ pc \in Asking /\ frame.site \in {"review", "second"}
          => git.checked \notin Protected
       /\ (pc = "rebase" /\ run.based) \/ pc = "publish" => git.head \notin Protected
       /\ result.status = "published" => git.head \notin Protected

ProtectedInv == OnBase /\ Unprotected

\* A finish never has its reviewer's bound raised: its reviews are asked once,
\* are not free, and so are never held for the lead to bounce.
ReviewsCounted ==
  Finish =>
    /\ ~pass.rebaseOnly
    /\ pc = "start" => rounds["reviewer"] = 0
    /\ pc \notin {"start", "end"} => bound["reviewer"] = FinishReviews - lane.prior
    /\ pc \in Asking /\ frame.site = "review" =>
         frame.single /\ ~frame.free /\ frame.nested = "none" /\ ~frame.consulting
    /\ pc = "decide" => frame.site # "review"
    /\ rounds["reviewer"] <= FinishReviews - lane.prior

\* What a rebase starts from is committed and clean; and when a finish had
\* nothing to snapshot, that is the commit it was launched on: the base, or what
\* a ready lane holds.
RebaseClean ==
  /\ pc \in {"start", "snapshot"} =>
       git.index = git.head /\ git.head = git.ready /\ ~run.wip
  /\ pc = "rebase" =>
       /\ git.work = git.head /\ git.index = git.head
       /\ (~run.based /\ ~run.wip => git.head = git.ready)
  /\ pc = "undo" \/ (pc \in Asking /\ frame.site = "conflict") =>
       (~run.based /\ ~run.wip => git.before = git.ready)

\* Nothing is built, checked or reviewed before the lane knows its base.
Based ==
  \/ pc \in {"build", "proof", "paths", "suite", "rerun", "join", "precommit"}
  \/ pc \in Asking /\ frame.site \in {"build", "review", "second"}
  => run.based

KeepInv ==
  /\ RebaseClean
  /\ Based
  /\ result.reason = "rebase-conflict" => pc = "end"
  /\ ConflictStopKeepsBuild

-----------------------------------------------------------------------------
(* What the helpers of the actions leave behind.                           *)

\* A seat's turn stages what it wrote and nothing else of the checkout.
LEMMA SeatWritesWork ==
  ASSUME GitType, SeatWrites
  PROVE  /\ git'.head = git.head /\ git'.checked = git.checked
         /\ git'.before = git.before /\ git'.ready = git.ready
<1>1. CASE Seat # "builder"
  BY <1>1 DEF SeatWrites
<1>2. CASE Seat = "builder"
  <2>1. PICK t \in Tree : git' = [git EXCEPT !.work = t, !.index = t]
    BY <1>2 DEF SeatWrites
  <2> QED
    BY <2>1 DEF GitType, Checkouts
<1> QED
  BY <1>1, <1>2

\* A moved base stops the lane, sends the change back to its checks on the base,
\* or has a mechanical commit proved where it is now.  No review is spent.
LEMMA MovedOutcome ==
  ASSUME GitType, PassType, BudgetType, RunType, NEW t \in Tree, Moved(t)
  PROVE  /\ \/ \E why \in {"nothing-to-commit", "recheck-bound"} :
                 Halt(why) /\ run' = run
            \/ /\ pc' = "build" /\ result' = result
               /\ git'.head = BaseTree \/ ~run.based
            \/ pc' = "reproof" /\ Mechanical /\ result' = result
         /\ rounds'["reviewer"] = rounds["reviewer"]
         /\ pass'.rebaseOnly = pass.rebaseOnly
         /\ pc' \in {"build", "reproof"} => run'.based
<1>1. git \in Checkouts
  BY DEF GitType
<1>2. rounds' = rounds \/ EnterPhase(2)
  BY DEF Moved
<1>3. rounds'["reviewer"] = rounds["reviewer"]
  BY <1>2 DEF EnterPhase, BudgetType, Role
<1>4. pass'.rebaseOnly = pass.rebaseOnly
  BY DEF Moved, PassType
<1>5. CASE Halt("nothing-to-commit") /\ UNCHANGED run
  BY <1>1, <1>3, <1>4, <1>5 DEF Halt
<1>6. CASE ~run.based /\ run' = [run EXCEPT !.based = TRUE] /\ pc' = "build"
           /\ UNCHANGED result
  BY <1>1, <1>3, <1>4, <1>6 DEF RunType
<1>7. CASE /\ run.based
           /\ \/ ~RepeatsChecks /\ pc' = "reproof" /\ UNCHANGED <<run, result>>
              \/ Halt("recheck-bound") /\ UNCHANGED run
              \/ /\ git' = Uncommitted(t) /\ pc' = "build" /\ UNCHANGED result
                 /\ run' = [run EXCEPT !.rechecks = @ + 1]
  BY <1>1, <1>3, <1>4, <1>7
     DEF Uncommitted, Checkouts, RepeatsChecks, Mechanical, RunType, Halt
<1> QED
  BY <1>5, <1>6, <1>7 DEF Moved

\* The stop of a rebase leaves the checkout as given, but for a snapshot that it
\* takes off HEAD.
LEMMA RebaseStopOutcome ==
  ASSUME NEW g, NEW why, RebaseStop(g, why)
  PROVE  \/ git' = g /\ Halt(why) /\ ~(~run.based /\ run.wip /\ why # "cleanup-unproven")
         \/ git' = [g EXCEPT !.head = g.ready] /\ Halt(why) /\ ~run.based /\ run.wip
         \/ git' = g /\ Halt("restore-failed")
  BY DEF RebaseStop

-----------------------------------------------------------------------------
(* A protected change is published by a judge.                             *)

\* A stop publishes nothing, and only a review is left to wait for its suite.
LEMMA HaltProtected ==
  ASSUME GateInv, ProtectedInv, NEW why, Halt(why), UNCHANGED <<lane, frame, run>>,
         suite = "running" => git'.head = git.head /\ git'.checked = git.checked
  PROVE  ProtectedInv'
<1>1. CASE pc' = "end"
  BY <1>1 DEF Halt, ProtectedInv, OnBase, Unprotected, Asking
<1>2. CASE pc' = "join"
  <2>1. suite = "running"
    BY <1>2 DEF Halt
  <2>2. pc \in {"join"} \/ (pc \in Asking /\ frame.site = "review")
    BY <2>1 DEF GateInv, SoleWriter, Asking
  <2> QED
    BY <1>2, <2>1, <2>2
       DEF Halt, ProtectedInv, OnBase, Unprotected, Asking, Finish
<1> QED
  BY <1>1, <1>2 DEF Halt

\* Every step keeps HEAD of a brief's lane on the base until the commit, and what a build lane
\* takes through its checks clear of the protected paths.
LEMMA ProtectedStep ==
  ASSUME GitType, FrameType, LaneType, PassType, RunType, BudgetType,
         GateInv, ProtectedInv, [Next]_vars
  PROVE  ProtectedInv'
<1> USE DEF ProtectedInv, OnBase, Unprotected, GateInv,
            NestedInBuild, ConflictFrame, SoleWriter, InJoin, InDelivery,
            SuiteOnlyInPair, PairedSuite, Asking, Finish, Mechanical, GitType,
            FrameType, LaneType, PassType, RunType, Shapes, Tiers, Sites,
            Frames, Checkouts, Delivered
<1>1. CASE Begin
  BY <1>1, TreeAssumption DEF Begin, budget
<1>2. CASE BeginFinish
  BY <1>2, TreeAssumption DEF BeginFinish
<1>3. CASE BeginFails
  BY <1>3, TreeAssumption DEF BeginFails, Halt, budget
<1>4. CASE SeatRefused
  <2>1. git'.head = git.head /\ git'.checked = git.checked
    BY <1>4, SeatWritesWork DEF SeatRefused
  <2>2. pc = "ask" /\ ~Delivered /\ UNCHANGED <<lane, frame, run>>
    BY <1>4 DEF SeatRefused, Spend
  <2>3. CASE Hold /\ pc' = "undo" /\ result' = result
    BY <2>2, <2>3 DEF Hold
  <2>4. CASE \E why : Halt(why)
    BY <2>1, <2>2, <2>4, HaltProtected
  <2> QED
    BY <1>4, <2>3, <2>4 DEF SeatRefused
<1>5. CASE SeatDone
  <2>1. git'.head = git.head /\ git'.checked = git.checked
    BY <1>5, SeatWritesWork DEF SeatDone
  <2>2. pc = "ask" /\ pc' = "returned" /\ UNCHANGED <<lane, run, result>>
    BY <1>5 DEF SeatDone, Spend
  <2>3. frame'.site = frame.site
    BY <1>5 DEF SeatDone
  <2> QED
    BY <2>1, <2>2, <2>3
<1>6. CASE SeatHeld
  <2>1. git'.head = git.head /\ git'.checked = git.checked
    BY <1>6, SeatWritesWork DEF SeatHeld
  <2>2. pc = "ask" /\ pc' \in {"held", "undo"} /\ UNCHANGED <<lane, run, result>>
    BY <1>6 DEF SeatHeld, Spend
  <2>3. frame'.site = frame.site /\ (pc' = "undo" => frame.site = "conflict")
    BY <1>6 DEF SeatHeld, Hold
  <2> QED
    BY <2>1, <2>2, <2>3
<1>7. CASE SeatSpent
  BY <1>7, TreeAssumption DEF SeatSpent, Halt, Seat, FrameRole, SiteRole, budget
<1>8. CASE HeldSingle
  BY <1>8, TreeAssumption
     DEF HeldSingle, Halt, Single, FrameRole, SiteRole, budget
<1>9. CASE HeldNoProgress
  BY <1>9, TreeAssumption
     DEF HeldNoProgress, Halt, Single, FrameRole, SiteRole, HeldRepeats, budget
<1>10. CASE HeldQuestionless
  BY <1>10, TreeAssumption
     DEF HeldQuestionless, Single, FrameRole, SiteRole, Recorded
<1>11. CASE HeldInsufficient
  <2>1. /\ pc = "held" /\ frame.site = "build" /\ ~Finish /\ ~Delivered
        /\ git.head = BaseTree /\ run.based
    BY <1>11 DEF HeldInsufficient, FrameRole, SiteRole
  <2>2. CASE Restart("build", "restart") /\ UNCHANGED result
    BY <2>1, <2>2, TreeAssumption DEF Restart, NewFrame, Raised
  <2>3. CASE RestartFails /\ UNCHANGED <<lane, frame, run>>
    BY <2>1, <2>3, HaltProtected DEF RestartFails
  <2> QED
    BY <1>11, <2>2, <2>3 DEF HeldInsufficient
<1>12. CASE HeldConsults
  BY <1>12, TreeAssumption
     DEF HeldConsults, Halt, Single, FrameRole, SiteRole, Recorded
<1>13. CASE LeadReturns
  BY <1>13, TreeAssumption
     DEF LeadReturns, Halt, Spend, Seat, FrameRole, SiteRole
<1>14. CASE LeadEscalates
  BY <1>14, TreeAssumption DEF LeadEscalates, Halt, budget
<1>15. CASE LeadAskedAgain
  BY <1>15, TreeAssumption
     DEF LeadAskedAgain, MustRoute, FrameRole, SiteRole, budget
<1>16. CASE LeadAccepts
  BY <1>16, TreeAssumption
     DEF LeadAccepts, MustRoute, FrameRole, SiteRole, budget
<1>17. CASE LeadBounces
  BY <1>17, TreeAssumption
     DEF LeadBounces, OneMore, MaxOf, Bounced, FrameRole, SiteRole
<1>18. CASE LeadBouncesPlanner
  <2>1. /\ pc = "decide" /\ frame.site = "build" /\ ~Finish /\ ~Delivered
        /\ git.head = BaseTree /\ run.based
    BY <1>18 DEF LeadBouncesPlanner, FrameRole, SiteRole
  <2>2. CASE /\ pc' = "ask" /\ frame'.site = "build"
             /\ UNCHANGED <<lane, git, run, result>>
    BY <2>1, <2>2
  <2>3. CASE Restart("build", "replan") /\ UNCHANGED result
    BY <2>1, <2>3, TreeAssumption DEF Restart, NewFrame, Raised
  <2>4. CASE RestartFails /\ UNCHANGED <<lane, frame, run>>
    BY <2>1, <2>4, HaltProtected DEF RestartFails
  <2> QED
    BY <1>18, <2>2, <2>3, <2>4 DEF LeadBouncesPlanner
<1>19. CASE PlanReturned
  BY <1>19, TreeAssumption
     DEF PlanReturned, OneMore, MaxOf, Bounced, FrameRole, SiteRole
<1>20. CASE PlanRaiseFails
  BY <1>20, TreeAssumption DEF PlanRaiseFails, Halt, FrameRole, SiteRole, budget
<1>21. CASE FetchBase
  BY <1>21, TreeAssumption DEF FetchBase, Halt, budget
<1>22. CASE Build
  BY <1>22, TreeAssumption DEF Build, NewFrame, budget
<1>23. CASE Built
  BY <1>23, TreeAssumption DEF Built, AtSite, budget
<1>24. CASE BuiltNoTests
  BY <1>24, TreeAssumption DEF BuiltNoTests, Halt, AtSite
<1>25. CASE ProofSkipped
  BY <1>25, TreeAssumption DEF ProofSkipped, budget
<1>26. CASE Proof
  BY <1>26, TreeAssumption DEF Proof, Halt
<1>27. CASE ChangedPaths
  BY <1>27, TreeAssumption
     DEF ChangedPaths, Touches, MayTouch, Stage, AskReview, NewFrame, EnterPhase, MaxOf
<1>28. CASE MechanicalPaths
  BY <1>28, TreeAssumption DEF MechanicalPaths, Touches, MayTouch, Stage, budget
<1>29. CASE MechanicalProtected
  BY <1>29, TreeAssumption
     DEF MechanicalProtected, Restart, NewFrame, Raised, NoEvidence,
         RestartFails, Halt, Touches, MayTouch
<1>30. CASE PathsFail
  <2>1. \E why : Halt(why)
    BY <1>30 DEF PathsFail
  <2> QED
    BY <1>30, <2>1, HaltProtected DEF PathsFail
<1>31. CASE JudgeSuite
  BY <1>31, TreeAssumption
     DEF JudgeSuite, AskReview, NewFrame, EnterPhase, MaxOf, RunSuite, Residue,
         Suited, SuiteGreen
<1>32. CASE LastSuite
  BY <1>32, TreeAssumption
     DEF LastSuite, Halt, RunSuite, Residue, Suited, SuiteGreen, Repair,
         OneMore, MaxOf, NoRepair
<1>33. CASE Rerun
  <2>1. git'.head = git.head /\ git'.checked = git.checked
    BY <1>33 DEF Rerun, Residue
  <2>2. pc = "rerun" /\ Finish /\ UNCHANGED lane
    BY <1>33 DEF Rerun, InChecks
  <2>3. CASE pc' \in {"precommit", "build"} /\ result' = result
    BY <2>1, <2>2, <2>3
  <2>4. CASE pc' = "end" /\ result'.status = "stopped"
    BY <2>2, <2>4
  <2> QED
    BY <1>33, <2>3, <2>4 DEF Rerun, Repair, Halt
<1>34. CASE Reviewed
  BY <1>34, TreeAssumption DEF Reviewed, AtSite, budget
<1>35. CASE JoinStops
  BY <1>35, TreeAssumption DEF JoinStops, ReserveSpent, Joined, budget
<1>36. CASE Join
  BY <1>36, TreeAssumption
     DEF Join, NewFrame, ReserveOpens, ReserveSpent, Joined
<1>37. CASE Seconded
  BY <1>37, TreeAssumption DEF Seconded, AtSite, budget
<1>38. CASE CommitStops
  BY <1>38, TreeAssumption DEF CommitStops, Halt, Dirty, budget
<1>39. CASE Commit
  BY <1>39, TreeAssumption DEF Commit, Dirty, budget
<1>40. CASE Snapshot
  BY <1>40, TreeAssumption DEF Snapshot, Halt, CheckedOut, budget
<1>41. CASE RebaseUnmoved
  BY <1>41, TreeAssumption DEF RebaseUnmoved, budget
<1>42. CASE RebaseMoved
  <2>1. PICK t \in Tree : Moved(t)
    BY <1>42, ReplayedTypes DEF RebaseMoved
  <2>2. UNCHANGED <<lane, frame, suite>> /\ suite = "idle" /\ ~Delivered
    BY <1>42 DEF RebaseMoved, AtSite
  <2>3. CASE \E why : Halt(why) /\ run' = run
    BY <2>2, <2>3, HaltProtected
  <2>4. CASE /\ pc' = "build" /\ result' = result /\ run'.based
             /\ git'.head = BaseTree \/ ~run.based
    BY <1>42, <2>2, <2>4 DEF RebaseMoved
  <2>5. CASE pc' = "reproof" /\ Mechanical /\ result' = result /\ run'.based
    BY <2>2, <2>5
  <2> QED
    BY <2>1, <2>3, <2>4, <2>5, MovedOutcome
<1>43. CASE RebaseFails
  BY <1>43, TreeAssumption DEF RebaseFails, RebaseStop, Halt, budget
<1>44. CASE Conflict
  BY <1>44, TreeAssumption DEF Conflict, NewFrame, RebaseStop, Halt, budget
<1>45. CASE ConflictReturned
  <2>1. UNCHANGED <<lane, frame, suite>> /\ suite = "idle" /\ ~Delivered
    BY <1>45 DEF ConflictReturned, AtSite
  <2>2. CASE pc' = "undo" /\ UNCHANGED <<run, result>>
    BY <1>45, <2>1, <2>2 DEF ConflictReturned, AtSite
  <2>3. ASSUME NEW t \in Tree, Moved(t)
        PROVE  ProtectedInv'
    <3>1. CASE \E why : Halt(why) /\ run' = run
      BY <2>1, <3>1, HaltProtected
    <3>2. CASE /\ pc' = "build" /\ result' = result /\ run'.based
               /\ git'.head = BaseTree \/ ~run.based
      BY <1>45, <2>1, <3>2 DEF ConflictReturned, AtSite
    <3>3. CASE pc' = "reproof" /\ Mechanical /\ result' = result /\ run'.based
      BY <2>1, <3>3
    <3> QED
      BY <2>3, <3>1, <3>2, <3>3, MovedOutcome
  <2> QED
    BY <1>45, <2>2, <2>3 DEF ConflictReturned
<1>46. CASE Undo
  <2>1. \E why : Halt(why)
    BY <1>46 DEF Undo, RebaseStop
  <2>2. suite = "idle" /\ UNCHANGED <<lane, frame, run>>
    BY <1>46 DEF Undo
  <2> QED
    BY <2>1, <2>2, HaltProtected
<1>47. CASE Reproof
  BY <1>47, TreeAssumption DEF Reproof, Halt, Residue, budget
<1>48. CASE Retest
  BY <1>48, TreeAssumption
     DEF Retest, Halt, RunSuite, Residue, Suited, SuiteGreen, budget
<1>49. CASE Reclean
  BY <1>49, TreeAssumption DEF Reclean, Halt, budget
<1>50. CASE Publish
  BY <1>50, TreeAssumption DEF Publish, Halt, budget
<1>51. CASE SuiteEnds
  BY <1>51, TreeAssumption DEF SuiteEnds, Residue, Suited, budget
<1>52. CASE UNCHANGED vars
  BY <1>52 DEF vars
<1> QED
  BY <1>1, <1>2, <1>3, <1>4, <1>5, <1>6, <1>7, <1>8, <1>9, <1>10, <1>11, <1>12,
     <1>13, <1>14, <1>15, <1>16, <1>17, <1>18, <1>19, <1>20, <1>21, <1>22,
     <1>23, <1>24, <1>25, <1>26, <1>27, <1>28, <1>29, <1>30, <1>31, <1>32,
     <1>33, <1>34, <1>35, <1>36, <1>37, <1>38, <1>39, <1>40, <1>41, <1>42,
     <1>43, <1>44, <1>45, <1>46, <1>47, <1>48, <1>49, <1>50, <1>51, <1>52
     DEF Next, Step, Turns, Routing, Checks, Delivery, Ended

-----------------------------------------------------------------------------
(* The reviews of a finish.                                                *)

\* Every step of a finish counts its reviews against the cap.
LEMMA ReviewsStep ==
  ASSUME GitType, FrameType, LaneType, PassType, RunType, BudgetType,
         GateInv, ReviewsCounted, [Next]_vars
  PROVE  ReviewsCounted'
<1> USE BoundAssumption
    DEF ReviewsCounted, GateInv, NestedInBuild, ConflictFrame, SoleWriter,
        InReview, InSecond, InJoin, InChecks, InDelivery, SuiteOnlyInPair,
        PairedSuite, Asking, Finish, Mechanical, FrameType, LaneType, PassType,
        BudgetType, RunType, Shapes, Tiers, Sites, Frames, Delivered, Role
<1>1. CASE Begin
  BY <1>1, TreeAssumption DEF Begin, budget
<1>2. CASE BeginFinish
  BY <1>2, TreeAssumption DEF BeginFinish
<1>3. CASE BeginFails
  BY <1>3, TreeAssumption DEF BeginFails, Halt, budget
<1>4. CASE SeatRefused
  <2>1. Finish /\ Spend /\ Seat = "reviewer" =>
          rounds'["reviewer"] = rounds["reviewer"] + 1
          /\ rounds["reviewer"] < FinishReviews - lane.prior
    <3>1. ASSUME Finish, Spend, Seat = "reviewer"
          PROVE  frame.site = "review" /\ ~frame.free
      BY <3>1 DEF Spend, Seat, FrameRole, SiteRole
    <3> QED
      BY <3>1 DEF Spend
  <2>2. Spend /\ Seat # "reviewer" => rounds'["reviewer"] = rounds["reviewer"]
    BY SeatTypes DEF Spend
  <2>3. /\ pc = "ask" /\ Spend /\ UNCHANGED <<lane, pass, bound>>
        /\ (Finish => pc' \in {"undo", "end"})
        /\ frame'.site = frame.site /\ frame'.nested = frame.nested
        /\ frame'.single = frame.single /\ frame'.consulting = frame.consulting
        /\ frame'.free = frame.free \/ ~frame'.free
    BY <1>4 DEF SeatRefused, Spend, Halt, SuiteOnlyInPair
  <2> QED
    BY <2>1, <2>2, <2>3
<1>5. CASE SeatDone
  <2>1. Finish /\ Spend /\ Seat = "reviewer" =>
          rounds'["reviewer"] = rounds["reviewer"] + 1
          /\ rounds["reviewer"] < FinishReviews - lane.prior
    <3>1. ASSUME Finish, Spend, Seat = "reviewer"
          PROVE  frame.site = "review" /\ ~frame.free
      BY <3>1 DEF Spend, Seat, FrameRole, SiteRole
    <3> QED
      BY <3>1 DEF Spend
  <2>2. Spend /\ Seat # "reviewer" => rounds'["reviewer"] = rounds["reviewer"]
    BY SeatTypes DEF Spend
  <2>3. /\ pc = "ask" /\ Spend /\ UNCHANGED <<lane, pass, bound>>
        /\ pc' = "returned"
        /\ frame'.site = frame.site /\ frame'.nested = frame.nested
        /\ frame'.single = frame.single /\ frame'.consulting = frame.consulting
        /\ frame'.free = frame.free \/ ~frame'.free
    BY <1>5 DEF SeatDone, Spend, Halt, SuiteOnlyInPair
  <2> QED
    BY <2>1, <2>2, <2>3
<1>6. CASE SeatHeld
  <2>1. Finish /\ Spend /\ Seat = "reviewer" =>
          rounds'["reviewer"] = rounds["reviewer"] + 1
          /\ rounds["reviewer"] < FinishReviews - lane.prior
    <3>1. ASSUME Finish, Spend, Seat = "reviewer"
          PROVE  frame.site = "review" /\ ~frame.free
      BY <3>1 DEF Spend, Seat, FrameRole, SiteRole
    <3> QED
      BY <3>1 DEF Spend
  <2>2. Spend /\ Seat # "reviewer" => rounds'["reviewer"] = rounds["reviewer"]
    BY SeatTypes DEF Spend
  <2>3. /\ pc = "ask" /\ Spend /\ UNCHANGED <<lane, pass, bound>>
        /\ pc' \in {"held", "undo"}
        /\ frame'.site = frame.site /\ frame'.nested = frame.nested
        /\ frame'.single = frame.single /\ frame'.consulting = frame.consulting
        /\ frame'.free = frame.free \/ ~frame'.free
    BY <1>6 DEF SeatHeld, Spend, Halt, SuiteOnlyInPair
  <2> QED
    BY <2>1, <2>2, <2>3
<1>7. CASE SeatSpent
  BY <1>7, TreeAssumption DEF SeatSpent, Halt, Seat, FrameRole, SiteRole, budget
<1>8. CASE HeldSingle
  BY <1>8, TreeAssumption
     DEF HeldSingle, Halt, Single, FrameRole, SiteRole, budget
<1>9. CASE HeldNoProgress
  BY <1>9, TreeAssumption
     DEF HeldNoProgress, Halt, Single, FrameRole, SiteRole, HeldRepeats, budget
<1>10. CASE HeldQuestionless
  BY <1>10, TreeAssumption
     DEF HeldQuestionless, Single, FrameRole, SiteRole, Recorded
<1>11. CASE HeldInsufficient
  BY <1>11, TreeAssumption
     DEF HeldInsufficient, Single, FrameRole, SiteRole, Recorded, Restart,
         NewFrame, Raised, NoEvidence, RestartFails, Halt
<1>12. CASE HeldConsults
  BY <1>12, TreeAssumption
     DEF HeldConsults, Halt, Single, FrameRole, SiteRole, Recorded
<1>13. CASE LeadReturns
  BY <1>13, TreeAssumption
     DEF LeadReturns, Halt, Spend, Seat, FrameRole, SiteRole
<1>14. CASE LeadEscalates
  BY <1>14, TreeAssumption DEF LeadEscalates, Halt, budget
<1>15. CASE LeadAskedAgain
  BY <1>15, TreeAssumption
     DEF LeadAskedAgain, MustRoute, FrameRole, SiteRole, budget
<1>16. CASE LeadAccepts
  BY <1>16, TreeAssumption
     DEF LeadAccepts, MustRoute, FrameRole, SiteRole, budget
<1>17. CASE LeadBounces
  BY <1>17, TreeAssumption
     DEF LeadBounces, OneMore, MaxOf, Bounced, FrameRole, SiteRole
<1>18. CASE LeadBouncesPlanner
  BY <1>18, TreeAssumption
     DEF LeadBouncesPlanner, OneMore, MaxOf, Restart, NewFrame, Raised,
         NoEvidence, RestartFails, Halt, FrameRole, SiteRole
<1>19. CASE PlanReturned
  BY <1>19, TreeAssumption
     DEF PlanReturned, OneMore, MaxOf, Bounced, FrameRole, SiteRole
<1>20. CASE PlanRaiseFails
  BY <1>20, TreeAssumption DEF PlanRaiseFails, Halt, FrameRole, SiteRole, budget
<1>21. CASE FetchBase
  BY <1>21, TreeAssumption DEF FetchBase, Halt, budget
<1>22. CASE Build
  BY <1>22, TreeAssumption DEF Build, NewFrame, budget
<1>23. CASE Built
  BY <1>23, TreeAssumption DEF Built, AtSite, budget
<1>24. CASE BuiltNoTests
  BY <1>24, TreeAssumption DEF BuiltNoTests, Halt, AtSite
<1>25. CASE ProofSkipped
  BY <1>25, TreeAssumption DEF ProofSkipped, budget
<1>26. CASE Proof
  BY <1>26, TreeAssumption DEF Proof, Halt
<1>27. CASE ChangedPaths
  <2>1. pc = "paths" /\ ~Mechanical /\ UNCHANGED <<bound, pass>>
        /\ lane' \in {lane, [lane EXCEPT !.tier = "judge"]}
    BY <1>27 DEF ChangedPaths
  <2>2. lane'.shape = lane.shape /\ lane'.prior = lane.prior
    BY <2>1
  <2>3. ASSUME Finish
        PROVE  /\ pc' = "ask" /\ frame'.site = "review" /\ frame'.single
               /\ ~frame'.free /\ frame'.nested = "none" /\ ~frame'.consulting
               /\ rounds'["reviewer"] = rounds["reviewer"]
    <3>1. AskReview
      BY <1>27, <2>3 DEF ChangedPaths
    <3>2. frame' = NewFrame("review", pass.rebaseOnly, TRUE)
      BY <2>3, <3>1 DEF AskReview
    <3>3. rounds' \in {rounds, [rounds EXCEPT !["lead"] = 0]}
      BY <3>1 DEF AskReview, EnterPhase
    <3>4. rounds'["reviewer"] = rounds["reviewer"]
      BY <3>3
    <3>5. pc' = "ask" /\ ~pass.rebaseOnly
      BY <2>3, <3>1 DEF AskReview
    <3> QED
      BY <3>2, <3>4, <3>5 DEF NewFrame
  <2> QED
    BY <2>1, <2>2, <2>3
<1>28. CASE MechanicalPaths
  BY <1>28, TreeAssumption DEF MechanicalPaths, Touches, MayTouch, Stage, budget
<1>29. CASE MechanicalProtected
  BY <1>29, TreeAssumption
     DEF MechanicalProtected, Restart, NewFrame, Raised, NoEvidence,
         RestartFails, Halt, Touches, MayTouch
<1>30. CASE PathsFail
  BY <1>30, TreeAssumption DEF PathsFail, Halt, Touches, MayTouch, budget
<1>31. CASE JudgeSuite
  BY <1>31, TreeAssumption
     DEF JudgeSuite, AskReview, NewFrame, EnterPhase, MaxOf, RunSuite, Residue,
         Suited, SuiteGreen
<1>32. CASE LastSuite
  BY <1>32, TreeAssumption
     DEF LastSuite, Halt, RunSuite, Residue, Suited, SuiteGreen, Repair,
         OneMore, MaxOf, NoRepair
<1>33. CASE Rerun
  BY <1>33, TreeAssumption
     DEF Rerun, Halt, Residue, Suited, Repair, OneMore, MaxOf, NoRepair
<1>34. CASE Reviewed
  BY <1>34, TreeAssumption DEF Reviewed, AtSite, budget
<1>35. CASE JoinStops
  BY <1>35, TreeAssumption DEF JoinStops, ReserveSpent, Joined, budget
<1>36. CASE Join
  BY <1>36, TreeAssumption
     DEF Join, NewFrame, ReserveOpens, ReserveSpent, Joined
<1>37. CASE Seconded
  BY <1>37, TreeAssumption DEF Seconded, AtSite, budget
<1>38. CASE CommitStops
  BY <1>38, TreeAssumption DEF CommitStops, Halt, Dirty, budget
<1>39. CASE Commit
  BY <1>39, TreeAssumption DEF Commit, Dirty, budget
<1>40. CASE Snapshot
  BY <1>40, TreeAssumption DEF Snapshot, Halt, CheckedOut, budget
<1>41. CASE RebaseUnmoved
  BY <1>41, TreeAssumption DEF RebaseUnmoved, budget
<1>42. CASE RebaseMoved
  BY <1>42, TreeAssumption
     DEF RebaseMoved, Moved, EnterPhase, MaxOf, Halt, NoEvidence, CheckedOut,
         Uncommitted, RecheckLeft, RepeatsChecks
<1>43. CASE RebaseFails
  BY <1>43, TreeAssumption DEF RebaseFails, RebaseStop, Halt, budget
<1>44. CASE Conflict
  BY <1>44, TreeAssumption DEF Conflict, NewFrame, RebaseStop, Halt, budget
<1>45. CASE ConflictReturned
  <2>1. pc = "returned" /\ UNCHANGED <<lane, frame, bound, suite>> /\ suite = "idle"
    BY <1>45 DEF ConflictReturned, AtSite
  <2>2. CASE pc' = "undo" /\ UNCHANGED <<rounds, pass>>
    BY <2>1, <2>2
  <2>3. ASSUME NEW t \in Tree, Moved(t)
        PROVE  ReviewsCounted'
    <3>1. /\ pc' \in {"end", "build", "reproof"}
          /\ rounds'["reviewer"] = rounds["reviewer"]
          /\ pass'.rebaseOnly = pass.rebaseOnly
      BY <2>1, <2>3, MovedOutcome DEF Halt
    <3> QED
      BY <2>1, <3>1
  <2> QED
    BY <1>45, <2>2, <2>3 DEF ConflictReturned
<1>46. CASE Undo
  BY <1>46, TreeAssumption DEF Undo, CheckedOut, RebaseStop, Halt, budget
<1>47. CASE Reproof
  BY <1>47, TreeAssumption DEF Reproof, Halt, Residue, budget
<1>48. CASE Retest
  BY <1>48, TreeAssumption
     DEF Retest, Halt, RunSuite, Residue, Suited, SuiteGreen, budget
<1>49. CASE Reclean
  BY <1>49, TreeAssumption DEF Reclean, Halt, budget
<1>50. CASE Publish
  BY <1>50, TreeAssumption DEF Publish, Halt, budget
<1>51. CASE SuiteEnds
  BY <1>51, TreeAssumption DEF SuiteEnds, Residue, Suited, budget
<1>52. CASE UNCHANGED vars
  BY <1>52 DEF vars
<1> QED
  BY <1>1, <1>2, <1>3, <1>4, <1>5, <1>6, <1>7, <1>8, <1>9, <1>10, <1>11, <1>12,
     <1>13, <1>14, <1>15, <1>16, <1>17, <1>18, <1>19, <1>20, <1>21, <1>22,
     <1>23, <1>24, <1>25, <1>26, <1>27, <1>28, <1>29, <1>30, <1>31, <1>32,
     <1>33, <1>34, <1>35, <1>36, <1>37, <1>38, <1>39, <1>40, <1>41, <1>42,
     <1>43, <1>44, <1>45, <1>46, <1>47, <1>48, <1>49, <1>50, <1>51, <1>52
     DEF Next, Step, Turns, Routing, Checks, Delivery, Ended

-----------------------------------------------------------------------------
(* A conflict gives the build back.                                        *)

\* A stop for any other reason says nothing of a conflict.
LEMMA HaltKeeps ==
  ASSUME NEW why, why # "rebase-conflict", Halt(why)
  PROVE  /\ pc' \in {"join", "end"}
         /\ pc' = "join" => suite = "running"
         /\ result'.reason # "rebase-conflict"
  BY DEF Halt

\* Every step keeps what a conflict needs to give the build back.
LEMMA KeepStep ==
  ASSUME GitType, FrameType, LaneType, PassType, RunType, BudgetType,
         GateInv, KeepInv, [Next]_vars
  PROVE  KeepInv'
<1> USE DEF KeepInv, RebaseClean, Based, ConflictStopKeepsBuild, GateInv,
            NestedInBuild, ConflictFrame, SoleWriter, InReview, InSecond,
            InJoin, InChecks, InDelivery, SuiteOnlyInPair, PairedSuite, Asking,
            Finish, Mechanical, GitType, FrameType, LaneType, PassType,
            RunType, Shapes, Tiers, Sites, Frames, Checkouts, Delivered
<1>1. CASE Begin
  BY <1>1, TreeAssumption DEF Begin, budget
<1>2. CASE BeginFinish
  BY <1>2, TreeAssumption DEF BeginFinish
<1>3. CASE BeginFails
  BY <1>3, TreeAssumption DEF BeginFails, Halt, budget
<1>4. CASE SeatRefused
  <2>1. git'.before = git.before /\ git'.ready = git.ready
    BY <1>4, SeatWritesWork DEF SeatRefused
  <2>2. /\ pc = "ask" /\ UNCHANGED run
        /\ frame'.site = frame.site
        /\ pc' \in {"returned", "held", "undo", "join", "end"}
        /\ pc' = "undo" => frame.site = "conflict"
        /\ pc' = "join" => suite = "running"
        /\ result'.reason # "rebase-conflict"
    BY <1>4, HaltKeeps DEF SeatRefused, Spend, Hold
  <2> QED
    BY <2>1, <2>2
<1>5. CASE SeatDone
  <2>1. git'.before = git.before /\ git'.ready = git.ready
    BY <1>5, SeatWritesWork DEF SeatDone
  <2>2. /\ pc = "ask" /\ UNCHANGED run
        /\ frame'.site = frame.site
        /\ pc' \in {"returned", "held", "undo", "join", "end"}
        /\ pc' = "undo" => frame.site = "conflict"
        /\ pc' = "join" => suite = "running"
        /\ result'.reason # "rebase-conflict"
    BY <1>5, HaltKeeps DEF SeatDone, Spend, Hold
  <2> QED
    BY <2>1, <2>2
<1>6. CASE SeatHeld
  <2>1. git'.before = git.before /\ git'.ready = git.ready
    BY <1>6, SeatWritesWork DEF SeatHeld
  <2>2. /\ pc = "ask" /\ UNCHANGED run
        /\ frame'.site = frame.site
        /\ pc' \in {"returned", "held", "undo", "join", "end"}
        /\ pc' = "undo" => frame.site = "conflict"
        /\ pc' = "join" => suite = "running"
        /\ result'.reason # "rebase-conflict"
    BY <1>6, HaltKeeps DEF SeatHeld, Spend, Hold
  <2> QED
    BY <2>1, <2>2
<1>7. CASE SeatSpent
  BY <1>7, TreeAssumption DEF SeatSpent, Halt, Seat, FrameRole, SiteRole, budget
<1>8. CASE HeldSingle
  BY <1>8, TreeAssumption
     DEF HeldSingle, Halt, Single, FrameRole, SiteRole, budget
<1>9. CASE HeldNoProgress
  BY <1>9, TreeAssumption
     DEF HeldNoProgress, Halt, Single, FrameRole, SiteRole, HeldRepeats, budget
<1>10. CASE HeldQuestionless
  BY <1>10, TreeAssumption
     DEF HeldQuestionless, Single, FrameRole, SiteRole, Recorded
<1>11. CASE HeldInsufficient
  BY <1>11, TreeAssumption
     DEF HeldInsufficient, Single, FrameRole, SiteRole, Recorded, Restart,
         NewFrame, Raised, NoEvidence, RestartFails, Halt
<1>12. CASE HeldConsults
  BY <1>12, TreeAssumption
     DEF HeldConsults, Halt, Single, FrameRole, SiteRole, Recorded
<1>13. CASE LeadReturns
  BY <1>13, TreeAssumption
     DEF LeadReturns, Halt, Spend, Seat, FrameRole, SiteRole
<1>14. CASE LeadEscalates
  BY <1>14, TreeAssumption DEF LeadEscalates, Halt, budget
<1>15. CASE LeadAskedAgain
  BY <1>15, TreeAssumption
     DEF LeadAskedAgain, MustRoute, FrameRole, SiteRole, budget
<1>16. CASE LeadAccepts
  BY <1>16, TreeAssumption
     DEF LeadAccepts, MustRoute, FrameRole, SiteRole, budget
<1>17. CASE LeadBounces
  BY <1>17, TreeAssumption
     DEF LeadBounces, OneMore, MaxOf, Bounced, FrameRole, SiteRole
<1>18. CASE LeadBouncesPlanner
  <2>1. /\ pc = "decide" /\ frame.site = "build" /\ run.based
        /\ result.reason # "rebase-conflict"
    BY <1>18 DEF LeadBouncesPlanner, FrameRole, SiteRole
  <2>2. CASE /\ pc' = "ask" /\ frame'.site = "build" /\ result' = result
             /\ run'.based
    BY <2>1, <2>2
  <2>3. CASE RestartFails
    <3>1. \E why \in {"discard-failed", "seat-unmeasured"} : Halt(why)
      BY <2>3 DEF RestartFails
    <3>2. /\ pc' \in {"join", "end"} /\ result'.reason # "rebase-conflict"
          /\ pc' = "join" => suite = "running"
      BY <3>1, HaltKeeps
    <3> QED
      BY <2>1, <3>2
  <2>4. CASE Restart("build", "replan") /\ result' = result
    BY <2>1, <2>2, <2>4 DEF Restart, NewFrame
  <2>5. CASE /\ frame' = [frame EXCEPT !.nested = "replan",
                                       !.consulting = FALSE, !.held = "none"]
             /\ pc' = "ask" /\ UNCHANGED <<run, result>>
    BY <2>1, <2>2, <2>5
  <2> QED
    BY <1>18, <2>3, <2>4, <2>5 DEF LeadBouncesPlanner
<1>19. CASE PlanReturned
  BY <1>19, TreeAssumption
     DEF PlanReturned, OneMore, MaxOf, Bounced, FrameRole, SiteRole
<1>20. CASE PlanRaiseFails
  BY <1>20, TreeAssumption DEF PlanRaiseFails, Halt, FrameRole, SiteRole, budget
<1>21. CASE FetchBase
  BY <1>21, TreeAssumption DEF FetchBase, Halt, budget
<1>22. CASE Build
  BY <1>22, TreeAssumption DEF Build, NewFrame, budget
<1>23. CASE Built
  BY <1>23, TreeAssumption DEF Built, AtSite, budget
<1>24. CASE BuiltNoTests
  BY <1>24, TreeAssumption DEF BuiltNoTests, Halt, AtSite
<1>25. CASE ProofSkipped
  BY <1>25, TreeAssumption DEF ProofSkipped, budget
<1>26. CASE Proof
  BY <1>26, TreeAssumption DEF Proof, Halt
<1>27. CASE ChangedPaths
  BY <1>27, TreeAssumption
     DEF ChangedPaths, Touches, MayTouch, Stage, AskReview, NewFrame, EnterPhase, MaxOf
<1>28. CASE MechanicalPaths
  BY <1>28, TreeAssumption DEF MechanicalPaths, Touches, MayTouch, Stage, budget
<1>29. CASE MechanicalProtected
  BY <1>29, TreeAssumption
     DEF MechanicalProtected, Restart, NewFrame, Raised, NoEvidence,
         RestartFails, Halt, Touches, MayTouch
<1>30. CASE PathsFail
  <2>1. \E why : why # "rebase-conflict" /\ Halt(why)
    BY <1>30 DEF PathsFail
  <2> QED
    BY <1>30, <2>1, HaltKeeps DEF PathsFail
<1>31. CASE JudgeSuite
  BY <1>31, TreeAssumption
     DEF JudgeSuite, AskReview, NewFrame, EnterPhase, MaxOf, RunSuite, Residue,
         Suited, SuiteGreen
<1>32. CASE LastSuite
  BY <1>32, TreeAssumption
     DEF LastSuite, Halt, RunSuite, Residue, Suited, SuiteGreen, Repair,
         OneMore, MaxOf, NoRepair
<1>33. CASE Rerun
  BY <1>33, TreeAssumption
     DEF Rerun, Halt, Residue, Suited, Repair, OneMore, MaxOf, NoRepair
<1>34. CASE Reviewed
  BY <1>34, TreeAssumption DEF Reviewed, AtSite, budget
<1>35. CASE JoinStops
  BY <1>35, TreeAssumption DEF JoinStops, ReserveSpent, Joined, budget
<1>36. CASE Join
  BY <1>36, TreeAssumption
     DEF Join, NewFrame, ReserveOpens, ReserveSpent, Joined
<1>37. CASE Seconded
  BY <1>37, TreeAssumption DEF Seconded, AtSite, budget
<1>38. CASE CommitStops
  BY <1>38, TreeAssumption DEF CommitStops, Halt, Dirty, budget
<1>39. CASE Commit
  <2>1. pc = "precommit" /\ pc' = "rebase" /\ UNCHANGED <<run, result, frame>>
    BY <1>39 DEF Commit
  <2>2. git'.work = git'.head /\ git'.index = git'.head
    BY <1>39 DEF Commit, Dirty
  <2> QED
    BY <2>1, <2>2
<1>40. CASE Snapshot
  <2>1. /\ pc = "snapshot" /\ ~run.based /\ suite = "idle" /\ UNCHANGED frame
        /\ git.index = git.head /\ git.head = git.ready
        /\ result.reason # "rebase-conflict"
    BY <1>40 DEF Snapshot
  <2>2. CASE pc' = "rebase" /\ git.work = git.head /\ UNCHANGED <<git, run, result>>
    BY <2>1, <2>2
  <2>3. CASE /\ pc' = "rebase" /\ git' = CheckedOut(git.work)
             /\ run' = [run EXCEPT !.wip = TRUE] /\ result' = result
    BY <2>1, <2>3 DEF CheckedOut
  <2>4. CASE \E why \in {"paths-unmeasured", "rebase-failed", "commit-failed"} : Halt(why)
    BY <2>1, <2>4, HaltKeeps
  <2> QED
    BY <1>40, <2>2, <2>3, <2>4 DEF Snapshot
<1>41. CASE RebaseUnmoved
  BY <1>41, TreeAssumption DEF RebaseUnmoved, budget
<1>42. CASE RebaseMoved
  BY <1>42, TreeAssumption
     DEF RebaseMoved, Moved, EnterPhase, MaxOf, Halt, NoEvidence, CheckedOut,
         Uncommitted, RecheckLeft, RepeatsChecks
<1>43. CASE RebaseFails
  BY <1>43, TreeAssumption DEF RebaseFails, RebaseStop, Halt, budget
<1>44. CASE Conflict
  <2>1. /\ pc = "rebase" /\ suite = "idle" /\ result.reason # "rebase-conflict"
        /\ git.work = git.head /\ git.index = git.head
        /\ ~run.based /\ ~run.wip => git.head = git.ready
    BY <1>44 DEF Conflict
  <2>2. CASE run.conflictTurn
    <3>1. /\ git'.before = git.head /\ git'.ready = git.ready /\ pc' = "ask" /\ result' = result
          /\ frame'.site = "conflict"
          /\ run'.based = run.based /\ run'.wip = run.wip
      BY <1>44, <2>2 DEF Conflict, NewFrame
    <3> QED
      BY <2>1, <3>1
  <2>3. CASE ~run.conflictTurn
    <3>1. RebaseStop([git EXCEPT !.before = git.head], "rebase-conflict") /\ run' = run
      BY <1>44, <2>3 DEF Conflict
    <3>2. pc' = "end"
      BY <2>1, <3>1 DEF RebaseStop, Halt
    <3>3. CASE Halt("restore-failed")
      BY <3>2, <3>3 DEF Halt
    <3>4. CASE git' = [git EXCEPT !.before = git.head] /\ ~(~run.based /\ run.wip)
      BY <2>1, <3>1, <3>2, <3>4
    <3>5. CASE /\ git' = [[git EXCEPT !.before = git.head] EXCEPT !.head = git.ready]
               /\ ~run.based /\ run.wip
      BY <2>1, <3>1, <3>2, <3>5
    <3> QED
      BY <3>1, <3>3, <3>4, <3>5, RebaseStopOutcome
  <2> QED
    BY <2>2, <2>3
<1>45. CASE ConflictReturned
  <2>1. /\ pc = "returned" /\ frame.site = "conflict" /\ suite = "idle"
        /\ result.reason # "rebase-conflict" /\ UNCHANGED frame
    BY <1>45 DEF ConflictReturned, AtSite
  <2>2. CASE pc' = "undo" /\ UNCHANGED <<git, run, result>>
    BY <2>1, <2>2
  <2>3. ASSUME NEW t \in Tree, Moved(t)
        PROVE  KeepInv'
    <3>1. /\ pc' \in {"end", "build", "reproof"}
          /\ pc' \in {"build", "reproof"} => run'.based
          /\ result'.reason # "rebase-conflict"
      BY <2>1, <2>3, MovedOutcome DEF Halt
    <3> QED
      BY <3>1
  <2> QED
    BY <1>45, <2>2, <2>3 DEF ConflictReturned
<1>46. CASE Undo
  <2>1. /\ pc = "undo" /\ frame.site = "conflict" /\ suite = "idle" /\ run' = run
        /\ git.before # None
        /\ ~run.based /\ ~run.wip => git.before = git.ready
    BY <1>46 DEF Undo
  <2>2. CASE \E t \in Tree : RebaseStop([git EXCEPT !.work = t], "undo-failed")
    <3>1. \E why : why # "rebase-conflict" /\ Halt(why)
      BY <2>2 DEF RebaseStop
    <3> QED
      BY <2>1, <3>1, HaltKeeps
  <2>3. ASSUME NEW why \in {"rebase-conflict", "authentication_failed"},
               RebaseStop(CheckedOut(git.before), why)
        PROVE  KeepInv'
    <3>1. pc' = "end"
      BY <2>1, <2>3 DEF RebaseStop, Halt
    <3>2. /\ CheckedOut(git.before).work = git.before
          /\ CheckedOut(git.before).index = git.before
          /\ CheckedOut(git.before).head = git.before
          /\ CheckedOut(git.before).before = git.before
          /\ CheckedOut(git.before).ready = git.ready
          /\ CheckedOut(git.before) \in Checkouts
      BY <2>1 DEF CheckedOut
    <3>3. CASE Halt("restore-failed")
      BY <3>1, <3>3 DEF Halt
    <3>4. CASE /\ git' = CheckedOut(git.before) /\ Halt(why)
               /\ ~(~run.based /\ run.wip /\ why # "cleanup-unproven")
      BY <2>1, <3>1, <3>2, <3>4
    <3>5. CASE /\ git' = [CheckedOut(git.before) EXCEPT
                            !.head = CheckedOut(git.before).ready]
               /\ ~run.based /\ run.wip
      BY <2>1, <3>1, <3>2, <3>5
    <3> QED
      BY <2>3, <3>3, <3>4, <3>5, RebaseStopOutcome
  <2> QED
    BY <1>46, <2>2, <2>3 DEF Undo
<1>47. CASE Reproof
  <2>1. /\ pc = "reproof" /\ suite = "idle" /\ UNCHANGED <<frame, run>>
        /\ result.reason # "rebase-conflict"
    BY <1>47 DEF Reproof
  <2>2. CASE pc' = "retest" /\ result' = result
    BY <2>1, <2>2
  <2>3. CASE Halt("proof-unmeasured")
    BY <2>1, <2>3, HaltKeeps
  <2> QED
    BY <1>47, <2>2, <2>3 DEF Reproof
<1>48. CASE Retest
  BY <1>48, TreeAssumption
     DEF Retest, Halt, RunSuite, Residue, Suited, SuiteGreen, budget
<1>49. CASE Reclean
  BY <1>49, TreeAssumption DEF Reclean, Halt, budget
<1>50. CASE Publish
  BY <1>50, TreeAssumption DEF Publish, Halt, budget
<1>51. CASE SuiteEnds
  BY <1>51, TreeAssumption DEF SuiteEnds, Residue, Suited, budget
<1>52. CASE UNCHANGED vars
  BY <1>52 DEF vars
<1> QED
  BY <1>1, <1>2, <1>3, <1>4, <1>5, <1>6, <1>7, <1>8, <1>9, <1>10, <1>11, <1>12,
     <1>13, <1>14, <1>15, <1>16, <1>17, <1>18, <1>19, <1>20, <1>21, <1>22,
     <1>23, <1>24, <1>25, <1>26, <1>27, <1>28, <1>29, <1>30, <1>31, <1>32,
     <1>33, <1>34, <1>35, <1>36, <1>37, <1>38, <1>39, <1>40, <1>41, <1>42,
     <1>43, <1>44, <1>45, <1>46, <1>47, <1>48, <1>49, <1>50, <1>51, <1>52
     DEF Next, Step, Turns, Routing, Checks, Delivery, Ended

-----------------------------------------------------------------------------
(* The theorems.                                                           *)

BoundInv == ProtectedInv /\ ReviewsCounted /\ KeepInv

\* A lane of a brief starts on its base, a finish on what it was launched on,
\* with no review spent and nothing rebased.
LEMMA BoundInit ==
  ASSUME Init
  PROVE  BoundInv
<1>1. PICK l \in Lanes : lane.shape = l.shape /\ lane.tier = l.tier
                         /\ lane.prior = l.prior /\ git.head = l.ready
  BY DEF Init
<1>2. /\ l.prior \in 0..FinishReviews
      /\ l.shape \in Shapes
      /\ l.shape = "standard" => l.ready = BaseTree
  BY LaneAssumption DEF LaneStart
<1>3. ProtectedInv
  BY <1>1, <1>2 DEF Init, ProtectedInv, OnBase, Unprotected, Asking, Finish, Shapes
<1>4. ReviewsCounted
  BY <1>1, <1>2, BoundAssumption DEF Init, ReviewsCounted, Asking, Role
<1>5. KeepInv
  BY DEF Init, KeepInv, RebaseClean, Based, ConflictStopKeepsBuild, Asking
<1> QED
  BY <1>3, <1>4, <1>5 DEF BoundInv

\* The three invariants hold of every lane.
THEOREM LaneBounded == Spec => []BoundInv
<1>1. Init => BoundInv
  BY BoundInit
<1>2. IInv /\ BoundInv /\ [Next]_vars => BoundInv'
  BY ProtectedStep, ReviewsStep, KeepStep DEF BoundInv, IInv, TypeOK
<1> QED
  BY <1>1, <1>2, LaneInvariant, PTL DEF Spec

\* A lane that is reviewed publishes protected work only as judge, whether the
\* plan, the build, a test or a conflict turn brought it in (loop.mjs, raiseTier).
THEOREM LaneJudged == Spec => []JudgedProtected
<1>1. IInv /\ BoundInv => JudgedProtected
  <2> SUFFICES ASSUME IInv, BoundInv, result.status = "published",
                      lane.tier # "mechanical", git.head \in Protected
               PROVE  lane.tier = "judge"
    BY DEF JudgedProtected
  <2>1. lane.tier \in Tiers /\ lane.shape \in Shapes
    BY DEF IInv, TypeOK, LaneType
  <2> QED
    BY <2>1 DEF BoundInv, ProtectedInv, Unprotected, Tiers, Finish
<1> QED
  BY <1>1, LaneInvariant, LaneBounded, PTL

\* Over all passes of a finish its reviews stay within FINISH_REVIEW_ROUNDS, and
\* no lead ever gives it another (loop.mjs, FINISH_REVIEW_ROUNDS).
THEOREM LaneReviewsCapped == Spec => []FinishReviewCap
<1>1. IInv /\ BoundInv => FinishReviewCap
  BY BoundAssumption
     DEF IInv, TypeOK, LaneType, BudgetType, Role, BoundInv, ReviewsCounted,
         FinishReviewCap
<1> QED
  BY <1>1, LaneInvariant, LaneBounded, PTL

\* A lane that stops on a rebase conflict has its change in the checkout as it
\* was before the rebase: a finish has what it snapshotted back uncommitted, on
\* the commit the snapshot was made on, and a ready commit as it was.
THEOREM LaneKeepsBuild == Spec => []ConflictStopKeepsBuild
<1>1. BoundInv => ConflictStopKeepsBuild
  BY DEF BoundInv, KeepInv
<1> QED
  BY <1>1, LaneBounded, PTL

=============================================================================

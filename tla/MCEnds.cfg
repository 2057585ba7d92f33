SPECIFICATION Spec
CONSTANTS
  base = base
  clean = clean
  protected = protected
  None = None
  BaseTree = base
  Tree <- MCTree
  Protected <- MCProtected
  DefaultRounds = 1
  MaxRechecks = 0
  FinishReviews = 2
  LeadTiers = {"mechanical", "build", "judge"}
  Lanes <- EndingLanes
INVARIANTS FinishReviewCap ConflictStopKeepsBuild
PROPERTY Termination

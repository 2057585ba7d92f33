SPECIFICATION Spec
CONSTANTS
  base = base
  clean = clean
  protected = protected
  None = None
  BaseTree = base
  Tree <- MCTree
  Protected <- MCProtected
  DefaultRounds = 1
  MaxRechecks = 1
  FinishReviews = 2
  LeadTiers = {"build", "judge"}
  Lanes <- GatedLanes
INVARIANTS CheckedPublish JudgedProtected SoleWriter

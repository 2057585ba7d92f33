SPECIFICATION Spec
CONSTANTS
  a = a
  b = b
  None = None
  Ops <- MCOps
  Rounds = 2
  MaxRuns = 4
  Histories <- MCHistories
SYMMETRY Symmetry
CHECK_DEADLOCK FALSE
INVARIANTS OneRunButRetaken DecidedOnce ReviewBudget
INVARIANTS EndTold
PROPERTIES DiscardQuiet BuildReturned
CONSTRAINT Unraced

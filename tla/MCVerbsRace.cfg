SPECIFICATION Spec
CONSTANTS
  a = a
  b = b
  None = None
  Ops <- MCOps
  Rounds = 2
  MaxRuns = 3
  Histories <- RaceHistories
SYMMETRY Symmetry
CHECK_DEADLOCK FALSE
INVARIANTS OneRun

SPECIFICATION Spec
CONSTANTS
  Seats <- AnySeat
  RetryMax = 2
  TotalWait = 2
  Ladder <- Rungs
  MaxOver = 1
  MaxPrompts = 2
  MaxFrames = 1
CONSTRAINT ThreeSessions
INVARIANTS
  EarnedReturn
  BlockedGone
  Confined
  AnswerHeard
  WaitBounded
  EvidenceKept
PROPERTY
  TurnEnds

SPECIFICATION Spec
CONSTANTS
  Calls = 3
  MaxConsults = 2
  Cadence = 2
  MaxChanges = 1
  MaxResults = 1
  None = None
INVARIANTS FreshAdvice ReturnReviewed PricedClean ConsultBound
PROPERTY Settles
CHECK_DEADLOCK FALSE

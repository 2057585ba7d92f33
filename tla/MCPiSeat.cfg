SPECIFICATION Spec
CONSTANTS
  Prompts = 2
  MaxCalls = 1
  Budget = 1
  None = None
INVARIANTS Answered ScoutsKept NothingLeft
PROPERTIES GateHeld Stops

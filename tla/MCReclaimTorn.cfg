SPECIFICATION Spec
CONSTANTS
  a = a
  b = b
  None = None
  Proc <- MCProc
  Calls <- MCCalls
  MaxAttempts = 2
PROPERTY TornNeverRefuses

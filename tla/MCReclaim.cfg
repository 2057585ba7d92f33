SPECIFICATION Spec
CONSTANTS
  a = a
  b = b
  None = None
  Proc <- MCProc
  Calls <- MCCalls
  MaxAttempts = 2
INVARIANTS MutualExclusion FenceHeld
PROPERTIES EpochsRise OneReservation Returns

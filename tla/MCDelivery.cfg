SPECIFICATION Spec
CONSTANT Publishes = 2
INVARIANTS
  VerdictEarned
  AsFound
  Exact
  UpstreamNeverLocal
PROPERTIES
  OneRequest
  Ends

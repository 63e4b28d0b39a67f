CONSTANTS
  s1 = s1
  s2 = s2
  s3 = s3
  Sessions = {s1, s2}
  NoSession = NoSession
  PoolSize = 2
  TargetCount = 2
  SlowConnect = FALSE
  FreedClosed <- ReadsClosed
  MaxDrift = 1
SPECIFICATION Spec
SYMMETRY Symmetry
INVARIANTS
  CountMatchesOpen
  ClosedHoldsNothing
PROPERTIES
  ImplementsLedger

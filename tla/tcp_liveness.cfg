CONSTANTS
  s1 = s1
  s2 = s2
  s3 = s3
  Sessions = {s1, s2}
  NoSession = NoSession
  PoolSize = 2
  TargetCount = 1
  SlowConnect = TRUE
  FreedClosed <- ReadsAnything
  MaxDrift = 1
SPECIFICATION FairSpec
INVARIANTS
  TypeOK
  OpenSessionIsOwned
  OneReadPerChannel
PROPERTIES
  ClosedIsForgotten
  AcceptResumes
  

CONSTANTS
  c1 = c1
  c2 = c2
  s1 = s1
  s2 = s2
  s3 = s3
  Clients = {c1}
  Sessions = {s1, s2}
  NoClient = NoClient
  NoSession = NoSession
  PoolSize = 2
  ReceiveMayFail = FALSE
  FreedClosed <- ReadsAnything
  MaxQueue = 2
SPECIFICATION FairSpec
INVARIANTS
  EntryWillExpire
  OneReceivePerSession
PROPERTIES
  ClosedIsForgotten
  SilentClientIsErased
  ListensAgain

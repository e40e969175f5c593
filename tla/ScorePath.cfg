CONSTANTS
  NoSample = NoSample
  Ids = {0, 1}
  Samples <- MCSamples
  IdOf <- MCIdOf
  Cap = 2
  MaxAddrs = 2
  MaxSessions = 2
  MaxEvents = 2
  MaxFaults = 1
SPECIFICATION PathSpec
INVARIANTS
  WindowTypeOK
  LastIsNewest
  StreamFollowsPod
  AtMostOneStale
PROPERTIES
  ImplementsRecent
  ScoresArrive
CHECK_DEADLOCK FALSE

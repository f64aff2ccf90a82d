SPECIFICATION FairSpec
CONSTANTS
  Item = {g, w}
  WalkItem = {w}
  NamedItem = {w}
  BadDelay = {}
  Id = {k1, k2, k3}
  NoId = NoId
  MaxSessions = 0
  MaxRetries = 1
  MaxLookups = 1
INVARIANT OpenWalkHasData
PROPERTIES PollingReturns SessionsClosed

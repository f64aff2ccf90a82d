SPECIFICATION Spec
CONSTANTS
  Item = {g, h, w}
  WalkItem = {w}
  NamedItem = {}
  BadDelay = {h}
  Id = {k1, k2, k3, k4}
  NoId = NoId
  MaxSessions = 1
  MaxRetries = 2
  MaxLookups = 0
SYMMETRY IdSymmetry
INVARIANTS TypeOK AddressedInv SessionOwned WaitingHasTimer SessionsBounded NoStaleResult

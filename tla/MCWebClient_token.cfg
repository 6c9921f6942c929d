\* Two sessions, one after the other.
SPECIFICATION Spec
CONSTANTS
  Connections = {k1}
  Lengths = {1}
  MaxPieces = 1
  MaxBroken = 0
  Accounts <- MCAccounts
  FirstRows <- MCFirstRows
  PageSize = 1
  MaxRows = 4
  MaxSessions = 2
  Loads <- MCLoads
INVARIANT TokenInSync

\* The list of recent transactions when another account is chosen.
SPECIFICATION Spec
CONSTANTS
  Connections = {k1}
  Lengths = {1}
  MaxPieces = 1
  MaxBroken = 0
  Accounts <- MCAccounts
  FirstRows <- MCFirstRows
  PageSize = 1
  MaxRows = 4
  MaxSessions = 1
  Loads <- MCLoads
INVARIANT RecentOfAccount

\* The transactions page of one session, and uploads.
SPECIFICATION Spec
CONSTANTS
  Connections = {k1, k2}
  Lengths = {1, 2}
  MaxPieces = 1
  MaxBroken = 1
  Accounts <- MCAccounts
  FirstRows <- MCFirstRows
  PageSize = 1
  MaxRows = 4
  MaxSessions = 1
  Loads <- MCLoads
SYMMETRY ConnectionSymmetry
CONSTRAINTS Narrow Single Last
INVARIANTS
  AccountsFresh
  RecentUnbroken
  BodySound

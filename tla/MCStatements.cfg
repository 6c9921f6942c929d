\* Statements and pages of both backends while two processes post movements.
SPECIFICATION ReadingSpec
CONSTANTS
  bank = bank  a1 = a1  a2 = a2
  Absent = Absent  Undated = Undated  Other = Other
  Accounts <- MCAccounts
  Bank = bank
  Opening <- MCOpening
  MaxCents = 5
  Movements <- MCMovements
  Queries <- MCQueries
  Categories = {}
  Owned <- MCOwned
  Pages = {"dashboard", "summary"}
  DaysPerMonth = 2
  StatsLimit = 3
  RecentLimit = 2
  RecentShown = 2
  TicksPerSecond = 2
  TicksPerDay = 4
  DefaultLimit = 2
  MaxRows = 3
  Writers = {w1, w2}
  FirstClock = 6
  MaxClock = 8
  Backends = {"C", "Rust"}
SYMMETRY WriterSymmetry
INVARIANTS
  DashboardTypeOK
  Explained
  Paged
  WholeDaysInC
  StartExplained
  PageAgrees
  RecentActivity

\* Arrays of the C service that cannot grow.
SPECIFICATION Spec
CONSTANTS
  bank = bank  a1 = a1  a2 = a2  food = food
  Other = Other  Absent = Absent
  NoCall = NoCall  Pending = Pending  Failed = Failed  Free = Free
  Accounts <- MCAccounts
  Bank = bank
  Opening <- MCOpening
  MaxCents = 9
  TicksPerDay = 2
  Categories = {food}
  Threads = {1, 2, 3}
  SizeT = 16
  DayRoom = 2
  CategoryRoom = 1
  Calls <- ShortCalls
INVARIANT SuccessIsWhole

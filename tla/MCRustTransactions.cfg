\* Two requests and a reader over a pool of two connections, deadlocks included.
SPECIFICATION FairSpec
CONSTANTS
  bank = bank  a1 = a1  a2 = a2  b1 = b1
  u0 = u0  u1 = u1  u2 = u2  eur = eur
  NoRequest = NoRequest
  Unwritten = Unwritten
  Accounts <- MCAccounts
  Bank = bank
  Opening <- MCOpening
  MaxCents = 3
  Slots = {t1, t2}
  Sessions = {t1, t2, reader}
  PoolSize = 2
  Users = {u0, u1, u2}
  Owner <- MCOwner
  Currency <- MCCurrency
  Regular = {bank, a1, b1}
  Affiliates <- MCAffiliates
  Requests <- RacingRequests
  CentsPerUnit = 1
  MaxRows = 2
INVARIANTS
  TypeOK
  NoOverdraft
  PoolSound
  AnswerHonest
  UnracedReconciled
PROPERTIES CommitsTogether Served

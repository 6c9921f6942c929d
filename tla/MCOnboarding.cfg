\* A C process and a Rust task after one tag, over one database.
SPECIFICATION FairSpec
CONSTANTS
  c1 = c1  c2 = c2  r1 = r1  r2 = r2
  bank = bank  t1 = t1  t2 = t2  e0 = e0  e1 = e1  e2 = e2
  Regular = Regular  Savings = Savings  RON = RON  EUR = EUR
  i0 = i0  i1 = i1  i2 = i2  i3 = i3  i4 = i4  i5 = i5
  Tags = {bank, t1, t2}
  Emails = {e0, e1, e2}
  Types = {Regular, Savings}
  Currencies = {RON, EUR}
  Ibans = {i0, i1, i2, i3}
  FirstUsers <- MCFirstUsers
  FirstAccounts <- MCFirstAccounts
  Backend <- MCBackend
  MaxRetries = 2
  Servers = {c1, r1}
  Requests <- MCRequests
INVARIANTS
  TypeOK
  Provisioned
  OneOfEach
  AnswerHonest
  Inductive
PROPERTY Served

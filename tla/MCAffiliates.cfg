\* Two backends on one table of links.
SPECIFICATION Spec
CONSTANTS
  c1 = c1  r1 = r1  ann = ann  bob = bob  cai = cai
  Savings = Savings  RON = RON  EUR = EUR
  alex = alex  Alex = Alex  zed = zed
  Regular = Regular  Blank = Blank  Absent = Absent  NoCall = NoCall
  Servers = {c1, r1}
  Backend <- MCBackend
  Users = {ann, bob, cai}
  Accounts = {1, 2, 3, 4, 5, 6}
  UserOf <- MCUserOf
  TypeOf <- MCTypeOf
  CurrencyOf <- MCCurrencyOf
  Currencies = {RON, EUR}
  Opened <- MCOpened
  Nicknames = {alex, Alex, zed}
  Key <- MCKey
  MaxPageSize = 2
  U32 = 16
  Calls <- MCCalls
  MaxVersions = 3
INVARIANTS
  TypeOK
  AnswersTrue
  PickerAllows

------------------------------ MODULE Directory ------------------------------
(****************************************************************************)
(* The tables `users` and `accounts` while rows are added to them, with the *)
(* UNIQUE constraints of the migrations as PostgreSQL enforces them: an     *)
(* INSERT whose key is in a committed row is refused, and one whose key is  *)
(* in a row another open transaction has inserted waits for its end.        *)
(*                                                                          *)
(* A user is named by its tag, which never changes and, like the e-mail, is *)
(* unique.  No operation of either backend deletes a user or an account.    *)
(****************************************************************************)
EXTENDS Integers

CONSTANTS
  Servers,        \* the sessions
  Tags, Emails, Types, Currencies, Ibans,
  Regular, RON,   \* the account every user is given at registration
  FirstUsers,     \* who is registered to begin with: the bank
  FirstAccounts

User == [tag : Tags, email : Emails]
Account == [user : Tags, type : Types, currency : Currencies, iban : Ibans]

\* The default account of user u.
IsDefault(a, u) == a.user = u.tag /\ a.type = Regular /\ a.currency = RON

SameUser(u, v) == u.tag = v.tag \/ u.email = v.email

SamePair(a, b) ==
  a.user = b.user /\ a.type = b.type /\ a.currency = b.currency

ASSUME DirectoryAssumption ==
  /\ Regular \in Types /\ RON \in Currencies
  /\ FirstUsers \subseteq User /\ FirstAccounts \subseteq Account
  /\ \A u, v \in FirstUsers : SameUser(u, v) => u = v
  /\ \A a, b \in FirstAccounts :
       SamePair(a, b) \/ a.iban = b.iban => a = b
  /\ \A u \in FirstUsers : \E a \in FirstAccounts : IsDefault(a, u)
  /\ \A a \in FirstAccounts : \E u \in FirstUsers : u.tag = a.user

VARIABLES
  users,          \* committed
  accounts,       \* committed
  pending         \* rows inserted by the open transaction of each session

dir == <<users, accounts, pending>>

Nothing == [users |-> {}, accounts |-> {}]

DirectoryTypeOK ==
  /\ users \subseteq User
  /\ accounts \subseteq Account
  /\ pending \in [Servers -> [users : SUBSET User, accounts : SUBSET Account]]

DirectoryInit ==
  /\ users = FirstUsers
  /\ accounts = FirstAccounts
  /\ pending = [s \in Servers |-> Nothing]

\* The sessions whose uncommitted rows an INSERT of s has to wait for.
UserBlockers(s, u) ==
  {t \in Servers \ {s} : \E v \in pending[t].users : SameUser(u, v)}

AccountBlockers(s, a) ==
  {t \in Servers \ {s} :
     \E b \in pending[t].accounts : SamePair(a, b) \/ a.iban = b.iban}

UserTaken(u) == \E v \in users : SameUser(u, v)
PairTaken(a) == \E b \in accounts : SamePair(a, b)
IbanTaken(i) == \E b \in accounts : b.iban = i

\* Mutant: the INSERT commits by itself.
AddUserAlone(s, u) ==
  /\ UserBlockers(s, u) = {} /\ ~UserTaken(u)
  /\ users' = users \cup {u}
  /\ UNCHANGED <<accounts, pending>>

\* INSERT INTO users, inside a transaction.
AddUser(s, u) ==
  /\ UserBlockers(s, u) = {} /\ ~UserTaken(u)
  /\ pending' = [pending EXCEPT ![s].users = @ \cup {u}]
  /\ UNCHANGED <<users, accounts>>

\* Mutant: the migration that adds the index on (user_id, account_type,
\* currency) has not been run.
AccountFitsUnindexed(s, a) == AccountBlockers(s, a) = {} /\ ~IbanTaken(a.iban)

AccountFits(s, a) ==
  AccountBlockers(s, a) = {} /\ ~PairTaken(a) /\ ~IbanTaken(a.iban)

\* INSERT INTO accounts, inside a transaction and on its own.
AddAccount(s, a) ==
  /\ AccountFits(s, a)
  /\ pending' = [pending EXCEPT ![s].accounts = @ \cup {a}]
  /\ UNCHANGED <<users, accounts>>

AddAccountAlone(s, a) ==
  /\ AccountFits(s, a)
  /\ accounts' = accounts \cup {a}
  /\ UNCHANGED <<users, pending>>

CommitRows(s) ==
  /\ users' = users \cup pending[s].users
  /\ accounts' = accounts \cup pending[s].accounts
  /\ pending' = [pending EXCEPT ![s] = Nothing]

DropRows(s) ==
  /\ pending' = [pending EXCEPT ![s] = Nothing]
  /\ UNCHANGED <<users, accounts>>
=============================================================================

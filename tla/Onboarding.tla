------------------------------ MODULE Onboarding ------------------------------
(****************************************************************************)
(* POST /users (registration) and POST /accounts of both backends, one      *)
(* server process or task per element of Servers.  Each checks with SELECTs *)
(* that nothing like the new row exists and inserts it later, so two of     *)
(* them can pass the same check.  Only the UNIQUE constraints decide.       *)
(*                                                                          *)
(* A server is a C process, which serves one request after another, or a    *)
(* task of a Rust process; the two backends differ in what they look up and *)
(* in what they make of an INSERT that is refused.                          *)
(****************************************************************************)
EXTENDS Directory

CONSTANTS
  Backend,        \* "C" or "Rust", of each server
  MaxRetries,     \* 5: INSERTs POST /accounts tries
  Requests        \* what clients send

\* `padded`: the fields sent with white space around them.  `flaw`: a field
\* that is refused before ("early") or after ("late") the first SELECTs.
Registration ==
  [op : {"register"}, tag : Tags, email : Emails,
   padded : SUBSET {"tag", "email"}, flaw : {"none", "early", "late"}]

Opening ==
  [op : {"open"}, user : Tags, type : Types, currency : Currencies,
   flaw : {"none", "early"}]

NoRequest == [op |-> "none"]
NoIban == "none"

ASSUME OnboardingAssumption ==
  /\ Backend \in [Servers -> {"C", "Rust"}]
  /\ MaxRetries \in Nat \ {0}
  /\ Requests \subseteq Registration \cup Opening

VARIABLES
  pc,             \* the statement the server is about to send
  req,            \* the request it is serving, or has served last
  iban,           \* the IBAN it has generated for its next INSERT
  attempt,        \* how many INSERTs of an account it has begun
  reply,          \* its answer, if it has one
  entered         \* history: the rows of the request are committed

own == <<pc, req, iban, attempt, reply, entered>>
vars == <<users, accounts, pending, pc, req, iban, attempt, reply, entered>>

Labels == {"idle", "email", "tag", "reserve", "insertUser", "insertAccount",
           "commit", "rollback", "pair", "iban", "open", "load"}

Replies == {"none", "ok", "invalid", "conflict", "failed"}

TypeOK ==
  /\ DirectoryTypeOK
  /\ pc \in [Servers -> Labels]
  /\ req \in [Servers -> Requests \cup {NoRequest}]
  /\ iban \in [Servers -> Ibans \cup {NoIban}]
  /\ attempt \in [Servers -> 0..MaxRetries]
  /\ reply \in [Servers -> Replies]
  /\ entered \in [Servers -> BOOLEAN]

Init ==
  /\ DirectoryInit
  /\ pc = [s \in Servers |-> "idle"]
  /\ req = [s \in Servers |-> NoRequest]
  /\ iban = [s \in Servers |-> NoIban]
  /\ attempt = [s \in Servers |-> 0]
  /\ reply = [s \in Servers |-> "none"]
  /\ entered = [s \in Servers |-> FALSE]

-----------------------------------------------------------------------------
\* The rows a request asks for, and the ways it goes on.

NewUser(s) == [tag |-> req[s].tag, email |-> req[s].email]

NewAccount(s, i) ==
  IF req[s].op = "register"
  THEN [user |-> req[s].tag, type |-> Regular, currency |-> RON, iban |-> i]
  ELSE [user |-> req[s].user, type |-> req[s].type,
        currency |-> req[s].currency, iban |-> i]

GoTo(s, label) ==
  /\ pc' = [pc EXCEPT ![s] = label]
  /\ UNCHANGED <<req, iban, reply, entered>>

GoWith(s, label, i) ==
  /\ pc' = [pc EXCEPT ![s] = label]
  /\ iban' = [iban EXCEPT ![s] = i]
  /\ UNCHANGED <<req, reply, entered>>

\* `label` is "rollback" when a transaction is left open behind the answer: the
\* C service rolls it back before it returns, the Rust pool when the dropped
\* guard gives the connection back.
Leave(s, label, answer) ==
  /\ pc' = [pc EXCEPT ![s] = label]
  /\ reply' = [reply EXCEPT ![s] = answer]
  /\ iban' = [iban EXCEPT ![s] = NoIban]
  /\ UNCHANGED req

Refuse(s, answer) == Leave(s, "idle", answer) /\ UNCHANGED entered

Accept(s) ==
  /\ pc[s] = "idle"
  /\ \E q \in Requests :
       /\ q.op = "open" => \E u \in users : u.tag = q.user
       /\ req' = [req EXCEPT ![s] = q]
       /\ pc' = [pc EXCEPT ![s] = IF q.op = "open" THEN "pair" ELSE "email"]
  /\ attempt' = [attempt EXCEPT ![s] = 0]
  /\ reply' = [reply EXCEPT ![s] = "none"]
  /\ entered' = [entered EXCEPT ![s] = FALSE]
  /\ UNCHANGED <<dir, iban>>

-----------------------------------------------------------------------------
\* Registration.

\* The C service looks the e-mail up as it was sent, the Rust service as it
\* will be stored; both look the tag up as it was sent.
EmailFound(s) ==
  /\ ~(Backend[s] = "C" /\ "email" \in req[s].padded)
  /\ \E u \in users : u.email = req[s].email

TagFound(s) ==
  "tag" \notin req[s].padded /\ \E u \in users : u.tag = req[s].tag

CheckEmail(s) ==
  /\ pc[s] = "email"
  /\ \/ req[s].flaw = "early" /\ Refuse(s, "invalid")
     \/ req[s].flaw # "early" /\ EmailFound(s) /\ Refuse(s, "conflict")
     \/ req[s].flaw # "early" /\ ~EmailFound(s) /\ GoTo(s, "tag")
  /\ UNCHANGED <<dir, attempt>>

\* The password is hashed and the User built in between.
CheckTag(s) ==
  /\ pc[s] = "tag"
  /\ \/ TagFound(s) /\ Refuse(s, "conflict")
     \/ ~TagFound(s) /\ req[s].flaw = "late" /\ Refuse(s, "invalid")
     \/ ~TagFound(s) /\ req[s].flaw # "late" /\ GoTo(s, "reserve")
  /\ UNCHANGED <<dir, attempt>>

\* One turn of the loop that looks for an unused IBAN; it has no bound.
ReserveIban(s) ==
  /\ pc[s] = "reserve"
  /\ \E i \in Ibans :
       \/ IbanTaken(i) /\ GoTo(s, "reserve")
       \/ ~IbanTaken(i) /\ GoWith(s, "insertUser", i)
  /\ UNCHANGED <<dir, attempt>>

\* BEGIN and INSERT INTO users.
InsertUser(s) ==
  /\ pc[s] = "insertUser"
  /\ \/ /\ AddUser(s, NewUser(s))
        /\ GoTo(s, "insertAccount")
     \/ /\ UserBlockers(s, NewUser(s)) = {} /\ UserTaken(NewUser(s))
        /\ Leave(s, "rollback", "failed") /\ UNCHANGED <<dir, entered>>
  /\ UNCHANGED attempt

\* The index on iban is the older one and is looked at first.
RefusedBy(a) ==
  IF IbanTaken(a.iban) THEN "iban"
  ELSE IF PairTaken(a) THEN "pair" ELSE "none"

InsertAccount(s) ==
  /\ pc[s] = "insertAccount"
  /\ LET a == NewAccount(s, iban[s])
     IN \/ /\ AddAccount(s, a)
           /\ GoTo(s, "commit")
        \/ /\ AccountBlockers(s, a) = {} /\ RefusedBy(a) # "none"
           /\ Leave(s, "rollback", "failed") /\ UNCHANGED <<dir, entered>>
  /\ UNCHANGED attempt

Commit(s) ==
  /\ pc[s] = "commit"
  /\ CommitRows(s)
  /\ entered' = [entered EXCEPT ![s] = TRUE]
  /\ Leave(s, "idle", "ok")
  /\ UNCHANGED attempt

\* Mutant: a registration that fails leaves its transaction open.
RollbackForgotten(s) ==
  /\ pc[s] = "rollback"
  /\ Refuse(s, reply[s])
  /\ UNCHANGED <<dir, attempt>>

Rollback(s) ==
  /\ pc[s] = "rollback"
  /\ DropRows(s)
  /\ Refuse(s, reply[s])
  /\ UNCHANGED attempt

-----------------------------------------------------------------------------
\* Opening an account.

\* Mutant: the loop is left one turn late.
AnotherTurnLate(s, exhausted) ==
  IF attempt[s] <= MaxRetries
  THEN /\ GoTo(s, IF Backend[s] = "C" THEN "iban" ELSE "open")
       /\ attempt' = [attempt EXCEPT ![s] = @ + 1]
  ELSE Refuse(s, exhausted) /\ UNCHANGED attempt

\* Mutant: the turns of the loop are not counted.
AnotherTurnUncounted(s, exhausted) ==
  IF attempt[s] < MaxRetries
  THEN /\ GoTo(s, IF Backend[s] = "C" THEN "iban" ELSE "open")
       /\ UNCHANGED attempt
  ELSE Refuse(s, exhausted) /\ UNCHANGED attempt

\* The loop goes on with another IBAN, or ends.
AnotherTurn(s, exhausted) ==
  IF attempt[s] < MaxRetries
  THEN /\ GoTo(s, IF Backend[s] = "C" THEN "iban" ELSE "open")
       /\ attempt' = [attempt EXCEPT ![s] = @ + 1]
  ELSE Refuse(s, exhausted) /\ UNCHANGED attempt

CheckPair(s) ==
  /\ pc[s] = "pair"
  /\ \/ /\ req[s].flaw = "early"
        /\ Refuse(s, "invalid") /\ UNCHANGED attempt
     \/ /\ req[s].flaw # "early" /\ PairTaken(NewAccount(s, NoIban))
        /\ Refuse(s, "conflict") /\ UNCHANGED attempt
     \/ /\ req[s].flaw # "early" /\ ~PairTaken(NewAccount(s, NoIban))
        /\ AnotherTurn(s, "conflict")
  /\ UNCHANGED dir

\* Only the C service asks whether the IBAN is in use.
CheckIban(s) ==
  /\ pc[s] = "iban"
  /\ \E i \in Ibans :
       \/ IbanTaken(i) /\ AnotherTurn(s, "conflict")
       \/ ~IbanTaken(i) /\ GoWith(s, "open", i) /\ UNCHANGED attempt
  /\ UNCHANGED dir

\* INSERT INTO accounts, on its own.
OpenAccount(s, a) ==
  /\ AddAccountAlone(s, a)
  /\ pc' = [pc EXCEPT ![s] = "load"]
  /\ entered' = [entered EXCEPT ![s] = TRUE]
  /\ UNCHANGED <<req, iban, reply, attempt>>

\* The C service takes any refusal for a collision of IBANs.
OpenC(s) ==
  /\ pc[s] = "open" /\ Backend[s] = "C"
  /\ LET a == NewAccount(s, iban[s])
     IN \/ OpenAccount(s, a)
        \/ /\ AccountBlockers(s, a) = {} /\ RefusedBy(a) # "none"
           /\ AnotherTurn(s, "failed") /\ UNCHANGED dir

\* Mutant: a collision of IBANs is answered like any other duplicate.
OpenRustNoRetry(s) ==
  /\ pc[s] = "open" /\ Backend[s] = "Rust"
  /\ \E i \in Ibans : LET a == NewAccount(s, i)
     IN \/ OpenAccount(s, a)
        \/ /\ AccountBlockers(s, a) = {} /\ RefusedBy(a) # "none"
           /\ Refuse(s, "conflict") /\ UNCHANGED <<attempt, dir>>

\* The Rust service reads the name of the constraint.
OpenRust(s) ==
  /\ pc[s] = "open" /\ Backend[s] = "Rust"
  /\ \E i \in Ibans : LET a == NewAccount(s, i)
     IN \/ OpenAccount(s, a)
        \/ /\ AccountBlockers(s, a) = {} /\ RefusedBy(a) # "none"
           /\ IF RefusedBy(a) = "iban" THEN AnotherTurn(s, "conflict")
              ELSE Refuse(s, "conflict") /\ UNCHANGED attempt
           /\ UNCHANGED dir

\* The handler reads the new account back for its answer.
Load(s) ==
  /\ pc[s] = "load"
  /\ Leave(s, "idle", "ok")
  /\ UNCHANGED <<dir, attempt, entered>>

-----------------------------------------------------------------------------
\* What can go wrong.

\* A statement fails for a reason of its own.  The C service goes on to the
\* next turn of its loop after an INSERT.
StatementFails(s) ==
  /\ \/ /\ pc[s] \in {"email", "tag", "reserve", "pair", "iban", "load"}
        /\ Refuse(s, "failed") /\ UNCHANGED attempt
     \/ /\ pc[s] \in {"insertUser", "insertAccount", "commit"}
        /\ Leave(s, "rollback", "failed") /\ UNCHANGED <<attempt, entered>>
     \/ /\ pc[s] = "open" /\ Backend[s] = "C"
        /\ AnotherTurn(s, "failed")
     \/ /\ pc[s] = "open" /\ Backend[s] = "Rust"
        /\ Refuse(s, "failed") /\ UNCHANGED attempt
  /\ UNCHANGED dir

\* A COMMIT, or an INSERT on its own, takes effect.
Lands(s) ==
  /\ \/ pc[s] = "commit" /\ CommitRows(s)
     \/ /\ pc[s] = "open"
        /\ \E i \in IF Backend[s] = "C" THEN {iban[s]} ELSE Ibans :
             AddAccountAlone(s, NewAccount(s, i))
  /\ entered' = [entered EXCEPT ![s] = TRUE]

\* Its result is lost with the connection.
EffectUnseen(s) ==
  /\ Lands(s)
  /\ Leave(s, "idle", "failed")
  /\ UNCHANGED attempt

\* The process is killed or, in Rust, the client goes away: nobody is answered,
\* and what was sent may still take effect.  The transaction of a dropped
\* handler is rolled back when the pool gets round to it.
Gone(s) ==
  /\ pc[s] # "idle"
  /\ \/ DropRows(s) /\ UNCHANGED entered /\ Leave(s, "idle", "none")
     \/ Lands(s) /\ Leave(s, "idle", "none")
     \/ /\ Backend[s] = "Rust" /\ pc[s] \in {"insertAccount", "commit"}
        /\ Leave(s, "rollback", "none") /\ UNCHANGED <<dir, entered>>
  /\ UNCHANGED attempt

Serve(s) ==
  \/ CheckEmail(s) \/ CheckTag(s) \/ ReserveIban(s) \/ InsertUser(s)
  \/ InsertAccount(s) \/ Commit(s) \/ Rollback(s) \/ CheckPair(s)
  \/ CheckIban(s) \/ OpenC(s) \/ OpenRust(s) \/ Load(s)

Fault(s) == StatementFails(s) \/ EffectUnseen(s) \/ Gone(s)

Next == \E s \in Servers : Accept(s) \/ Serve(s) \/ Fault(s)

Spec == Init /\ [][Next]_vars

\* Servers run on, a waiting INSERT is queued behind the row it waits for, and
\* the random generator does not come up with used IBANs for ever.
Fairness ==
  \A s \in Servers :
    /\ SF_vars(Serve(s))
    /\ SF_vars(ReserveIban(s) /\ pc'[s] # "reserve")

FairSpec == Spec /\ Fairness

-----------------------------------------------------------------------------
\* Properties.

\* Whoever registers gets the Regular account in RON with it, in one step: no
\* failure, refusal or crash leaves a user without it.
Provisioned == \A u \in users : \E a \in accounts : IsDefault(a, u)

\* However many servers pass the same check, a tag, an e-mail, an IBAN and a
\* user's (type, currency) are given out once, uncommitted rows included.
OneOfEach ==
  LET held == UNION {pending[s].users : s \in Servers}
      opened == UNION {pending[s].accounts : s \in Servers}
  IN /\ \A u, v \in users \cup held : SameUser(u, v) => u = v
     /\ \A a, b \in accounts \cup opened :
          SamePair(a, b) \/ a.iban = b.iban => a = b

\* What a 409 answer rests on.
Duplicate(s) ==
  IF req[s].op = "register" THEN UserTaken(NewUser(s))
  ELSE PairTaken(NewAccount(s, NoIban)) \/ attempt[s] = MaxRetries

\* What the client is told is what happened: success only when the rows are
\* there, a refusal only when they are not, and a conflict only when there is
\* a duplicate, or every IBAN tried was taken.
AnswerHonest ==
  \A s \in Servers : pc[s] = "idle" =>
    /\ reply[s] = "ok" => entered[s]
    /\ reply[s] \in {"conflict", "invalid"} => ~entered[s]
    /\ reply[s] = "conflict" => Duplicate(s)

\* What makes these hold, of each server.  Past its first statement a request
\* is of the kind that statement belongs to, and has the IBAN it needs; a
\* transaction holds what has been inserted so far and is nowhere else left
\* open; what is answered rests on what happened.
RequestSound(s) ==
  /\ pc[s] \in {"email", "tag", "reserve", "insertUser", "insertAccount",
                "commit"} =>
       req[s] \in Requests /\ req[s].op = "register"
  /\ pc[s] \in {"pair", "iban", "open", "load"} =>
       req[s] \in Requests /\ req[s].op = "open"
  /\ \/ pc[s] \in {"insertUser", "insertAccount", "commit"}
     \/ pc[s] = "open" /\ Backend[s] = "C"
     => iban[s] \in Ibans

PendingSound(s) ==
  /\ pc[s] \notin {"insertAccount", "commit", "rollback"} =>
       pending[s] = Nothing
  /\ pc[s] = "insertAccount" =>
       pending[s] = [users |-> {NewUser(s)}, accounts |-> {}]
  /\ pc[s] = "commit" =>
       pending[s] = [users |-> {NewUser(s)},
                     accounts |-> {NewAccount(s, iban[s])}]

AnswerSound(s) ==
  /\ entered[s] => pc[s] \in {"idle", "load"}
  /\ pc[s] = "load" => entered[s]
  /\ pc[s] = "rollback" => reply[s] \in {"none", "failed"}
  /\ pc[s] = "idle" =>
       /\ reply[s] = "ok" => entered[s]
       /\ reply[s] \in {"conflict", "invalid"} => ~entered[s]
       /\ reply[s] = "conflict" => Duplicate(s)

Sound(s) == RequestSound(s) /\ PendingSound(s) /\ AnswerSound(s)

Inductive ==
  /\ TypeOK /\ Provisioned /\ OneOfEach
  /\ \A s \in Servers : Sound(s)

\* Every request ends: no server waits for ever for another's row.
Served == \A s \in Servers : pc[s] # "idle" ~> pc[s] = "idle"
=============================================================================

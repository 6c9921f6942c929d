-------------------------------- MODULE Journal --------------------------------
(****************************************************************************)
(* The ledger as its readers meet it: while they read, other requests post  *)
(* movements, one at a time.  A movement is dated before its transaction    *)
(* begins, so several of them may commit in another order than that of      *)
(* their dates.                                                             *)
(****************************************************************************)
EXTENDS Ledger, FiniteSets

CONSTANTS
  Movements,      \* the rows that are posted meanwhile
  Writers,        \* requests that post them
  Undated,        \* a writer without a movement
  MaxRows,                       \* bound on the rows
  FirstClock, MaxClock           \* bounds on the time

ASSUME JournalAssumption ==
  /\ Movements \subseteq Row
  /\ MaxRows \in Nat /\ MaxClock \in Nat
  /\ FirstClock \in 0..MaxClock /\ Undated \notin Nat

VARIABLES
  stamps,         \* id and recorded_on of each row
  clock,          \* in microseconds
  dated           \* the stamp of each movement under way

store == <<balance, rows, stamps>>
world == <<balance, rows, stamps, clock, dated>>

JournalInit ==
  /\ Init
  /\ stamps = <<>> /\ clock = FirstClock
  /\ dated = [w \in Writers |-> Undated]

\* Transaction::create takes the time; the id comes with the INSERT.
Date(w) ==
  /\ dated[w] = Undated
  /\ Len(rows) < MaxRows
  /\ dated' = [dated EXCEPT ![w] = clock]
  /\ UNCHANGED <<store, clock>>

Post(w) ==
  /\ dated[w] # Undated
  /\ Len(rows) < MaxRows
  /\ \E r \in Movements : Record(r)
  /\ stamps' = Append(stamps, [id |-> Len(rows) + 1, at |-> dated[w]])
  /\ dated' = [dated EXCEPT ![w] = Undated]
  /\ UNCHANGED clock

Refused(w) ==
  /\ dated[w] # Undated
  /\ dated' = [dated EXCEPT ![w] = Undated]
  /\ UNCHANGED <<store, clock>>

Tick ==
  /\ clock < MaxClock
  /\ clock' = clock + 1
  /\ UNCHANGED <<store, dated>>

JournalNext ==
  Tick \/ \E w \in Writers : Date(w) \/ Post(w) \/ Refused(w)

\* The type of the variables above, for the type invariants of the readers.
JournalTypeOK ==
  /\ balance \in [Accounts -> Cents] /\ rows \in Seq(Row)
  /\ stamps \in Seq([id : Nat, at : 0..MaxClock])
  /\ Len(stamps) = Len(rows)
  /\ clock \in 0..MaxClock
  /\ dated \in [Writers -> (0..MaxClock) \cup {Undated}]

\* What the rows with a number in I come to for the accounts A.
NetAmong(I, A) ==
  LET counted[i \in 0..Len(rows)] ==
        IF i = 0 THEN 0
        ELSE counted[i - 1] +
          (IF i \in I /\ rows[i].to \in A THEN rows[i].value ELSE 0) -
          (IF i \in I /\ rows[i].from \in A THEN rows[i].value ELSE 0)
  IN counted[Len(rows)]
=============================================================================

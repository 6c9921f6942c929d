------------------------------ MODULE MCStatistics ------------------------------
(****************************************************************************)
(* A customer with two accounts.  Four movements on three days: one between *)
(* the accounts, so that it is in both lists, two payments of different     *)
(* categories, a deposit.  Together they are more than 64 bits hold.        *)
(****************************************************************************)
EXTENDS Statistics, TLC

CONSTANTS bank, a1, a2, food

MCAccounts == {bank, a1, a2}
MCOpening == (bank :> 5) @@ (a1 :> 5) @@ (a2 :> 5)

Movement(id, at, kind, from, to, value, category) ==
  [id |-> id, at |-> at, category |-> category,
   row |-> [kind |-> kind, from |-> from, to |-> to, value |-> value]]

t1 == Movement(1, 1, "Payment", a1, bank, 2, food)
t2 == Movement(2, 2, "Transfer", a1, a2, 1, Other)
t3 == Movement(3, 2, "Payment", a2, bank, 4, Other)
t4 == Movement(4, 4, "Deposit", bank, a1, 5, Other)

Everything == [owned |-> {a1, a2}, scope |-> Absent, from |-> Absent,
               to |-> Absent, kind |-> Absent]

Filters ==
  {Everything, [Everything EXCEPT !.scope = a2],
   [Everything EXCEPT !.from = 2, !.to = 2],
   [Everything EXCEPT !.kind = "Payment"]}

Calling(backend, processors, books, limit, filter, extended) ==
  [backend |-> backend, processors |-> processors, books |-> books,
   limit |-> limit, filter |-> filter, extended |-> extended]

\* One to three threads, slices of one and of two, with and without filters,
\* lists that are cut short; and no transaction at all, on one processor.
MCCalls ==
  {Calling("C", n, {t1, t2, t3, t4}, 9, filter, TRUE) :
     n \in {1, 2}, filter \in Filters}
    \cup {Calling("C", 3, {t1, t2, t3, t4}, limit, Everything, TRUE) :
            limit \in {1, 9}}
    \cup {Calling("Rust", n, {t1, t2, t3}, 9, filter, TRUE) :
            n \in {1, 2}, filter \in Filters}
    \cup {Calling(backend, 2, {t1, t2, t3}, 2, Everything, FALSE) :
            backend \in {"C", "Rust"}}
    \cup {Calling("C", 1, {}, 9, Everything, TRUE),
          Calling("Rust", 2, {}, 9, Everything, TRUE)}

\* Two payments on two days, one thread.
ShortCalls == {Calling("C", 1, {t1, t3}, 9, Everything, TRUE)}

\* A customer without transactions, on two processors.
EmptyCalls == {Calling("C", 2, {}, 9, Everything, FALSE)}
=============================================================================

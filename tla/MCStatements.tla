----------------------------- MODULE MCStatements -----------------------------
(****************************************************************************)
(* One customer with two accounts; months of two days, days of two seconds, *)
(* seconds of two ticks.  The clock goes from the last second of one month  *)
(* to the first instant of the next.                                        *)
(****************************************************************************)
EXTENDS Dashboard

CONSTANTS bank, a1, a2

WriterSymmetry == Permutations(Writers)

MCAccounts == {bank, a1, a2}
MCOpening == (bank :> 2) @@ (a1 :> 1) @@ (a2 :> 1)

\* Both directions of a1, with values that do not cancel out, and a movement
\* of a2 that is spent.
MCMovements ==
  {[kind |-> "Deposit", from |-> bank, to |-> a1, value |-> 2],
   [kind |-> "Transfer", from |-> a1, to |-> a2, value |-> 1],
   [kind |-> "Payment", from |-> a2, to |-> bank, value |-> 1]}

MCOwned == <<a1, a2>>

Ask4(from, to, kind, newest, limit, offset) ==
  [account |-> a1, from |-> from, to |-> to, kind |-> kind,
   newest |-> newest, limit |-> limit, offset |-> offset]

\* Pages inside, across and past the end, both orders, every filter.
MCQueries ==
  {Ask4(Absent, Absent, Absent, newest, limit, 1) :
     newest \in BOOLEAN, limit \in {1, 2}}
    \cup {Ask4(Absent, Absent, Absent, TRUE, Absent, -1),
          Ask4(Absent, Absent, Absent, TRUE, -1, 3),
          Ask4(2, 1, "Deposit", FALSE, 2, 0)}
    \cup {Ask4(from, to, Absent, FALSE, 2, 0) :
            from \in {Absent, 2}, to \in {Absent, 1}}
=============================================================================

----------------------------- MODULE MCAffiliates -----------------------------
(****************************************************************************)
(* Ann's affiliates: Bob has a Regular and a Savings account in RON and can *)
(* open a Regular one in EUR, Cai has a Regular one in EUR.  Two nicknames  *)
(* differ only in case.                                                     *)
(****************************************************************************)
EXTENDS Affiliates, TLC

CONSTANTS c1, r1, ann, bob, cai, Savings, RON, EUR, alex, Alex, zed

MCBackend == (c1 :> "C") @@ (r1 :> "Rust")

\* 1, 2: Ann's.  3 to 5: Bob's.  6: Cai's.
MCUserOf == <<ann, ann, bob, bob, bob, cai>>
MCTypeOf == <<Regular, Regular, Savings, Regular, Regular, Regular>>
MCCurrencyOf == <<RON, EUR, RON, RON, EUR, EUR>>
MCOpened == {1, 2, 3, 4, 6}
MCKey == (alex :> 1) @@ (Alex :> 1) @@ (zed :> 2)

Create(a, n) == [op |-> "create", owner |-> ann, account |-> a, nickname |-> n]
Rename_(a, n) == [Create(a, n) EXCEPT !.op = "rename"]
OfLink_(o, a) == [op |-> o, owner |-> ann, account |-> a]
Send(from, to) == [op |-> "send", owner |-> ann, from |-> from, to |-> to]
Resolve(u) == [op |-> "resolve", owner |-> ann, user |-> u]

Whole == [op |-> "list", owner |-> ann, sendIn |-> Absent, search |-> Absent,
          currency |-> Absent, desc |-> FALSE, page |-> 1, size |-> 2]

\* The C server creates a link and reads links, in every way, while the Rust
\* server creates, renames and deletes them.
MCCalls ==
  (c1 :> {Create(3, alex), Create(5, Blank), OfLink_("get", 3),
          OfLink_("delete", 3),
          Send(1, 4), Send(1, 3), Send(1, 6), Resolve(bob),
          [Whole EXCEPT !.size = 1, !.page = 2],
          [Whole EXCEPT !.desc = TRUE, !.search = {bob, Alex}],
          [Whole EXCEPT !.sendIn = EUR], [Whole EXCEPT !.sendIn = "bad"]})
  @@ (r1 :> {Create(3, zed), Create(6, Alex), Rename_(3, zed), Rename_(6, Blank),
             OfLink_("delete", 3), Send(1, 5), Resolve(Absent),
             [Whole EXCEPT !.desc = TRUE],
             [Whole EXCEPT !.sendIn = RON], [Whole EXCEPT !.sendIn = "bad"],
             [Whole EXCEPT !.currency = "bad"],
             [Whole EXCEPT !.currency = RON, !.size = 0]})
=============================================================================

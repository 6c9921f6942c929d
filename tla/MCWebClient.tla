------------------------------ MODULE MCWebClient ------------------------------
(****************************************************************************)
(* A customer with two accounts and two connections to the server.          *)
(****************************************************************************)
EXTENDS WebClient, TLC

MCFirstRows == <<2, 1>>
MCAccounts == DOMAIN MCFirstRows
MCLoads == 1..2

\* Bound: strangers send bodies, and connections break, only while the customer
\* has nothing but POSTs under way.
Narrow ==
  broken > 0 \/ (\E k \in Connections : post[k] = NoPost /\ ~Idle(k)) =>
    page.tab = "form" /\ expired = {} /\ \A i \in Loads : load[i] = NoLoad

\* Bound: the list of recent transactions is on the screen only while at most
\* one POST is under way.
Single ==
  (\A k \in Connections : post[k] # NoPost) => page.tab # "Recent" /\ expired = {}

\* Bound: once the last session is over nothing is shown any more.
Last == session = NULL => signed < MaxSessions

ConnectionSymmetry == Permutations(Connections)
=============================================================================

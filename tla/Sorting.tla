-------------------------------- MODULE Sorting --------------------------------
(****************************************************************************)
(* What qsort, sort_by and ORDER BY make of a set of rows: any sequence of  *)
(* all of them that keeps to the order of their keys.                       *)
(****************************************************************************)
EXTENDS SequencesExt

\* The members of S in the order R: those it puts first come first.
Orders(S, R) ==
  {order \in SetToSeqs(S) :
     \A i, j \in DOMAIN order : i < j => <<order[i], order[j]>> \in R}
=============================================================================

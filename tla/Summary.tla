-------------------------------- MODULE Summary --------------------------------
(****************************************************************************)
(* What compute_user_statistics promises, said without threads: a customer  *)
(* who asks is told the right figures, or that it failed, or, by a service  *)
(* that found no room for all of them, figures whose days and categories    *)
(* are those of some of the transactions only.  Nothing in the answer tells *)
(* the last from the first; `short` does.                                   *)
(****************************************************************************)
CONSTANTS
  Calls,          \* what statistics are asked for, over which books
  NoCall,
  Right(_),       \* the right figures of a call, as in Figures
  FallsShort(_, _),  \* what may be told of a call for want of room
  Pending,        \* `answer`: not answered yet
  Failed          \* `answer`: an error

VARIABLES call, answer, short

Init == call = NoCall /\ answer = Failed /\ short = FALSE

Ask ==
  /\ answer # Pending
  /\ call' \in Calls /\ answer' = Pending /\ short' = FALSE

Tell ==
  /\ answer = Pending /\ answer' # Pending
  /\ \/ answer' \in {Right(call), Failed} /\ short' = FALSE
     \/ FallsShort(call, answer') /\ short' = TRUE
  /\ UNCHANGED call

Next == Ask \/ Tell

Spec == Init /\ [][Next]_<<call, answer, short>>
=============================================================================

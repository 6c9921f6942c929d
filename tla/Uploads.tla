-------------------------------- MODULE Uploads --------------------------------
(****************************************************************************)
(* Request bodies in the C server.  libmicrohttpd calls the access handler  *)
(* of one request again and again, from one thread: once with the headers,  *)
(* once for each piece of the body, once more at its end.  What has come is *)
(* kept in a heap buffer between the calls.  No completion callback is      *)
(* registered, so nobody frees the buffer of a connection that breaks.      *)
(****************************************************************************)
EXTENDS Functions, FiniteSetsExt, Naturals

CONSTANTS
  Connections,
  Lengths,        \* bodies clients send, counted in pieces
  MaxPieces,      \* HTTP_BODY_MAX_BYTES, counted in pieces
  MaxBroken       \* bound: connections that break inside a body

ASSUME UploadsAssumption ==
  /\ IsFiniteSet(Connections)
  /\ Lengths \subseteq Nat
  /\ MaxPieces \in Nat \ {0}
  /\ MaxBroken \in Nat

VARIABLES
  conn,           \* of each connection, its request
  heap,           \* the allocated body buffers, and how many pieces each holds
  broken          \* history: connections that broke inside a body

uploads == <<conn, heap, broken>>

NULL == 0
Buffers == 1..(Cardinality(Connections) + MaxBroken)

\* `cls` is con_cls, `left` the pieces still to come, `got` those the handler
\* has acknowledged.
NoRequest == [cls |-> NULL, left |-> 0, got |-> 0]

UploadsInit ==
  /\ conn = [k \in Connections |-> NoRequest]
  /\ heap = [b \in {} |-> 0]
  /\ broken = 0

-----------------------------------------------------------------------------
\* body_buffer_new, body_buffer_append, body_buffer_free

Allocated(b) ==
  heap' = [x \in DOMAIN heap \cup {b} |-> IF x = b THEN 0 ELSE heap[x]]
Appended(b) == heap' = [heap EXCEPT ![b] = @ + 1]
Freed(b) == heap' = Restrict(heap, DOMAIN heap \ {b})
Room(b) == heap[b] < MaxPieces

Idle(k) == conn[k].cls = NULL

\* The request is over: answered, or closed without an answer (MHD_NO).
Over(k) == conn' = [conn EXCEPT ![k] = NoRequest]

\* The headers are there: the first call.
Headers(k, length) ==
  /\ Idle(k)
  /\ LET b == Min(Buffers \ DOMAIN heap)
     IN  /\ Allocated(b)
         /\ conn' = [conn EXCEPT ![k] = [cls |-> b, left |-> length, got |-> 0]]
  /\ UNCHANGED broken

\* A POST that does not get beyond its first call: calloc fails, or nobody
\* answers.
NoHeaders(k) == Idle(k) /\ UNCHANGED uploads

\* Mutant: the result of body_buffer_append is not looked at.
PieceUnchecked(k) ==
  /\ conn[k].left > 0
  /\ IF Room(conn[k].cls) THEN Appended(conn[k].cls) ELSE UNCHANGED heap
  /\ conn' = [conn EXCEPT ![k].left = @ - 1, ![k].got = @ + 1]
  /\ UNCHANGED broken

\* A call with a piece that is kept.
Piece(k) ==
  /\ conn[k].left > 0
  /\ Room(conn[k].cls)
  /\ Appended(conn[k].cls)
  /\ conn' = [conn EXCEPT ![k].left = @ - 1, ![k].got = @ + 1]
  /\ UNCHANGED broken

\* The body is over-long, or realloc fails.
Refuse(k) ==
  /\ conn[k].left > 0
  /\ Freed(conn[k].cls)
  /\ Over(k)
  /\ UNCHANGED broken

\* The call at the end: dispatch_post, or dispatch_body of the affiliates, has
\* the body, and the buffer is freed.
Dispatch(k) ==
  /\ ~Idle(k) /\ conn[k].left = 0
  /\ Freed(conn[k].cls)
  /\ Over(k)
  /\ UNCHANGED broken

\* The connection breaks inside the body.
Break(k) ==
  /\ ~Idle(k)
  /\ broken < MaxBroken
  /\ broken' = broken + 1
  /\ Over(k)
  /\ UNCHANGED heap

-----------------------------------------------------------------------------
\* Each body under way has a buffer of its own that holds every piece the
\* handler has acknowledged, none over the limit, whatever the other
\* connections do; and apart from these only the buffers of connections that
\* broke inside a body stay allocated (http_transactions_dispatch and
\* http_affiliates_dispatch: con_cls, body_buffer_free).
BodySound ==
  LET open == {k \in Connections : ~Idle(k)}
      used == {conn[k].cls : k \in open}
  IN  /\ used \subseteq DOMAIN heap
      /\ Cardinality(used) = Cardinality(open)
      /\ \A k \in open : heap[conn[k].cls] = conn[k].got
                         /\ conn[k].got <= MaxPieces
      /\ Cardinality(DOMAIN heap) = Cardinality(open) + broken

\* What makes it hold.  The buffers of broken connections are counted only:
\* nobody knows which they are.
Open == {k \in Connections : ~Idle(k)}

BodyOf(k) ==
  /\ Idle(k) => conn[k] = NoRequest
  /\ ~Idle(k) => /\ conn[k].cls \in DOMAIN heap
                 /\ heap[conn[k].cls] = conn[k].got
                 /\ conn[k].got <= MaxPieces
                 /\ \A j \in Connections : conn[j].cls = conn[k].cls => j = k

UploadsInductive ==
  /\ conn \in [Connections -> [cls : Nat, left : Nat, got : Nat]]
  /\ DOMAIN heap \subseteq Buffers /\ heap \in [DOMAIN heap -> Nat]
  /\ broken \in 0..MaxBroken
  /\ \A k \in Connections : BodyOf(k)
  /\ Cardinality(DOMAIN heap) = Cardinality(Open) + broken
=============================================================================

---------------------------- MODULE WebClientProof ----------------------------
(****************************************************************************)
(* What holds of WebClient, and of the uploads it sends, for every number   *)
(* of connections, loads, accounts, movements and sessions, and every order *)
(* of the answers.                                                          *)
(****************************************************************************)
EXTENDS WebClient, FiniteSetTheorems, WellFoundedInduction, TLAPS

\* The least of a set of numbers is one of them.
LEMMA MinIsMember ==
  ASSUME NEW S \in SUBSET Nat, S # {}
  PROVE  Min(S) \in S /\ \A n \in S : Min(S) <= n
<1>1. IsWellFoundedOn(OpToRel(<, Nat), Nat)
  BY ONLY NatLessThanWellFounded, Zenon
<1>2. PICK x \in S : \A y \in S : ~ (<<y, x>> \in OpToRel(<, Nat))
  BY <1>1, WFMin, Zenon
<1>3. \A y \in S : ~ (y < x)
  BY <1>2 DEF OpToRel
<1>4. \A y \in S : x <= y
  BY <1>3
<1> QED
  BY <1>4 DEF Min

(***************************************************************************)
(* The bodies under way.                                                   *)
(***************************************************************************)

LEMMA BuffersFinite ==
  /\ IsFiniteSet(Buffers)
  /\ Cardinality(Connections) \in Nat
  /\ Cardinality(Buffers) = Cardinality(Connections) + MaxBroken
<1>1. Cardinality(Connections) \in Nat /\ MaxBroken \in Nat
  BY UploadsAssumption, FS_CardinalityType
<1> DEFINE n == Cardinality(Connections) + MaxBroken
<1>2. n \in Nat /\ 1 \in Int /\ n \in Int
  BY <1>1
<1> HIDE DEF n
<1>3. IsFiniteSet(1..n) /\ Cardinality(1..n) = n
  BY <1>2, FS_Interval
<1> QED
  BY <1>1, <1>3 DEF Buffers, n

\* What is open, and what is allocated, are finite sets.
LEMMA OpenFinite ==
  ASSUME UploadsInductive
  PROVE  /\ IsFiniteSet(Open) /\ Cardinality(Open) \in Nat
         /\ IsFiniteSet(DOMAIN heap) /\ Cardinality(DOMAIN heap) \in Nat
<1>1. Open \in SUBSET Connections /\ DOMAIN heap \in SUBSET Buffers
  BY DEF Open, UploadsInductive
<1>2. IsFiniteSet(Open) /\ IsFiniteSet(DOMAIN heap)
  BY <1>1, BuffersFinite, UploadsAssumption, FS_Subset
<1> QED
  BY <1>2, FS_CardinalityType

\* There is a buffer left for a connection that has none, and calloc does not
\* hand out one that is in use.
LEMMA BufferLeft ==
  ASSUME UploadsInductive, NEW k \in Connections, Idle(k)
  PROVE  /\ Min(Buffers \ DOMAIN heap) \in Buffers
         /\ Min(Buffers \ DOMAIN heap) \notin DOMAIN heap
<1>1. Open \in SUBSET (Connections \ {k})
  BY DEF Open
<1>2. /\ IsFiniteSet(Connections \ {k})
      /\ Cardinality(Connections \ {k}) = Cardinality(Connections) - 1
  BY UploadsAssumption, FS_RemoveElement
<1>3. Cardinality(Open) <= Cardinality(Connections) - 1
  BY <1>1, <1>2, FS_Subset
<1>4. Cardinality(DOMAIN heap) < Cardinality(Buffers)
  BY <1>3, OpenFinite, BuffersFinite, UploadsAssumption
  DEF UploadsInductive
<1>5. Buffers \ DOMAIN heap # {}
  <2> SUFFICES ASSUME Buffers \in SUBSET DOMAIN heap PROVE FALSE
    OBVIOUS
  <2>1. Cardinality(Buffers) <= Cardinality(DOMAIN heap)
    BY OpenFinite, FS_Subset
  <2> QED
    BY <1>4, <2>1, OpenFinite, BuffersFinite, UploadsAssumption
<1>6. Buffers \ DOMAIN heap \in SUBSET Nat
  BY DEF Buffers
<1> QED
  BY <1>5, <1>6, MinIsMember

\* Of the bodies the others send nothing changes.
LEMMA OtherBodies ==
  ASSUME UploadsInductive, NEW k \in Connections,
         conn' \in [Connections -> [cls : Nat, left : Nat, got : Nat]],
         \A j \in Connections \ {k} : conn'[j] = conn[j],
         \A j \in Open \ {k} : /\ conn[j].cls \in DOMAIN heap'
                               /\ heap'[conn[j].cls] = heap[conn[j].cls]
                               /\ conn'[k].cls # conn[j].cls
  PROVE  \A j \in Connections \ {k} : BodyOf(j)'
BY DEF UploadsInductive, BodyOf, Open, Idle

\* A connection that opens or closes adds or takes one.
LEMMA OneMoreOpen ==
  ASSUME UploadsInductive, NEW k \in Connections, Idle(k), ~Idle(k)',
         \A j \in Connections \ {k} : conn'[j] = conn[j]
  PROVE  Cardinality(Open)' = Cardinality(Open) + 1
<1>1. Open' = Open \cup {k} /\ k \notin Open
  BY DEF Open, Idle
<1> QED
  BY <1>1, OpenFinite, FS_AddElement

LEMMA OneLessOpen ==
  ASSUME UploadsInductive, NEW k \in Connections, ~Idle(k), Idle(k)',
         \A j \in Connections \ {k} : conn'[j] = conn[j]
  PROVE  Cardinality(Open)' = Cardinality(Open) - 1
<1>1. Open' = Open \ {k} /\ k \in Open
  BY DEF Open, Idle
<1> QED
  BY <1>1, OpenFinite, FS_RemoveElement

LEMMA HeadersInductive ==
  ASSUME UploadsInductive, NEW k \in Connections, NEW length \in Nat,
         Headers(k, length)
  PROVE  UploadsInductive'
<1> DEFINE b == Min(Buffers \ DOMAIN heap)
<1>1. b \in Buffers /\ b \notin DOMAIN heap /\ b \in Nat /\ b # NULL
  BY BufferLeft DEF Headers, Buffers, NULL
<1>2. /\ Idle(k) /\ broken' = broken
      /\ heap' = [x \in DOMAIN heap \cup {b} |-> IF x = b THEN 0 ELSE heap[x]]
      /\ conn' = [conn EXCEPT ![k] = [cls |-> b, left |-> length, got |-> 0]]
  BY DEF Headers, Allocated
<1> HIDE DEF b
<1>3. conn' \in [Connections -> [cls : Nat, left : Nat, got : Nat]]
  BY <1>1, <1>2 DEF UploadsInductive
<1>4. /\ conn'[k] = [cls |-> b, left |-> length, got |-> 0]
      /\ \A j \in Connections \ {k} : conn'[j] = conn[j]
  BY <1>2 DEF UploadsInductive
<1>5. /\ DOMAIN heap' = DOMAIN heap \cup {b} /\ heap' \in [DOMAIN heap' -> Nat]
      /\ heap'[b] = 0 /\ \A x \in DOMAIN heap : heap'[x] = heap[x]
      /\ DOMAIN heap' \subseteq Buffers
  BY <1>1, <1>2 DEF UploadsInductive
<1>6. \A j \in Connections \ {k} : BodyOf(j)'
  BY <1>1, <1>3, <1>4, <1>5, OtherBodies DEF UploadsInductive, BodyOf, Open
<1>7. BodyOf(k)'
  <2>1. ~Idle(k)' /\ conn'[k].cls = b /\ conn'[k].got = 0
    BY <1>1, <1>4 DEF Idle
  <2>2. \A j \in Connections : conn'[j].cls = b => j = k
    BY <1>1, <1>4 DEF UploadsInductive, BodyOf, Idle
  <2> QED
    BY <1>5, <2>1, <2>2, UploadsAssumption DEF BodyOf
<1>8. Cardinality(DOMAIN heap)' = Cardinality(Open)' + broken'
  <2>1. Cardinality(DOMAIN heap') = Cardinality(DOMAIN heap) + 1
    BY <1>1, <1>5, OpenFinite, FS_AddElement
  <2>2. Cardinality(Open)' = Cardinality(Open) + 1
    BY <1>1, <1>2, <1>4, OneMoreOpen DEF Idle
  <2> QED
    BY <1>2, <2>1, <2>2, OpenFinite DEF UploadsInductive
<1> QED
  BY <1>2, <1>3, <1>5, <1>6, <1>7, <1>8 DEF UploadsInductive

LEMMA PieceInductive ==
  ASSUME UploadsInductive, NEW k \in Connections, Piece(k)
  PROVE  UploadsInductive'
<1> DEFINE b == conn[k].cls
<1>1. /\ conn[k].left > 0 /\ heap[b] < MaxPieces /\ broken' = broken
      /\ heap' = [heap EXCEPT ![b] = @ + 1]
      /\ conn' = [conn EXCEPT ![k].left = @ - 1, ![k].got = @ + 1]
  BY DEF Piece, Room, Appended
<1>2. /\ ~Idle(k) /\ b \in DOMAIN heap /\ heap[b] = conn[k].got
      /\ conn[k] \in [cls : Nat, left : Nat, got : Nat]
      /\ \A j \in Connections : conn[j].cls = b => j = k
  BY <1>1 DEF UploadsInductive, BodyOf, NoRequest
<1>3. /\ conn'[k] = [cls |-> b, left |-> conn[k].left - 1,
                     got |-> conn[k].got + 1]
      /\ \A j \in Connections \ {k} : conn'[j] = conn[j]
      /\ conn' \in [Connections -> [cls : Nat, left : Nat, got : Nat]]
  BY <1>1, <1>2 DEF UploadsInductive
<1>4. /\ DOMAIN heap' = DOMAIN heap /\ heap' \in [DOMAIN heap' -> Nat]
      /\ heap'[b] = heap[b] + 1
      /\ \A x \in DOMAIN heap \ {b} : heap'[x] = heap[x]
  BY <1>1, <1>2 DEF UploadsInductive
<1>5. \A j \in Connections \ {k} : BodyOf(j)'
  BY <1>2, <1>3, <1>4, OtherBodies DEF UploadsInductive, BodyOf, Open
<1>6. BodyOf(k)'
  <2>1. heap[b] + 1 <= MaxPieces
    BY <1>1, <1>2, UploadsAssumption
  <2> QED
    BY <1>2, <1>3, <1>4, <2>1 DEF BodyOf, Idle
<1>7. Open' = Open
  BY <1>2, <1>3 DEF Open, Idle
<1> QED
  BY <1>1, <1>3, <1>4, <1>5, <1>6, <1>7 DEF UploadsInductive

\* The end of a body, with or without an answer, frees the buffer it is in.
LEMMA EndInductive ==
  ASSUME UploadsInductive, NEW k \in Connections, ~Idle(k),
         Freed(conn[k].cls), Over(k), broken' = broken
  PROVE  UploadsInductive'
<1> DEFINE b == conn[k].cls
<1>1. /\ b \in DOMAIN heap
      /\ \A j \in Connections : conn[j].cls = b => j = k
  BY DEF UploadsInductive, BodyOf
<1>2. /\ DOMAIN heap' = DOMAIN heap \ {b} /\ heap' \in [DOMAIN heap' -> Nat]
      /\ \A x \in DOMAIN heap \ {b} : heap'[x] = heap[x]
      /\ DOMAIN heap' \subseteq Buffers
  BY DEF UploadsInductive, Freed, Restrict
<1>3. NoRequest \in [cls : Nat, left : Nat, got : Nat]
  BY DEF NoRequest, NULL
<1>4. /\ conn'[k] = NoRequest /\ \A j \in Connections \ {k} : conn'[j] = conn[j]
      /\ conn' \in [Connections -> [cls : Nat, left : Nat, got : Nat]]
  BY <1>3 DEF UploadsInductive, Over
<1>5. Idle(k)'
  BY <1>4 DEF Idle, NoRequest
<1>6. \A j \in Connections \ {k} : BodyOf(j)'
  BY <1>1, <1>2, <1>4, <1>5, OtherBodies
  DEF UploadsInductive, BodyOf, Open, Idle
<1>7. BodyOf(k)'
  BY <1>4, <1>5 DEF BodyOf
<1>8. Cardinality(DOMAIN heap)' = Cardinality(Open)' + broken'
  <2>1. Cardinality(DOMAIN heap') = Cardinality(DOMAIN heap) - 1
    BY <1>1, <1>2, OpenFinite, FS_RemoveElement
  <2>2. Cardinality(Open)' = Cardinality(Open) - 1
    BY <1>4, <1>5, OneLessOpen
  <2> QED
    BY <2>1, <2>2, OpenFinite DEF UploadsInductive
<1> QED
  BY <1>2, <1>4, <1>6, <1>7, <1>8 DEF UploadsInductive

\* A connection that breaks leaves its buffer behind.
LEMMA BreakInductive ==
  ASSUME UploadsInductive, NEW k \in Connections, Break(k)
  PROVE  UploadsInductive'
<1>1. /\ ~Idle(k) /\ broken < MaxBroken /\ broken' = broken + 1
      /\ heap' = heap /\ conn' = [conn EXCEPT ![k] = NoRequest]
  BY DEF Break, Over
<1>2. NoRequest \in [cls : Nat, left : Nat, got : Nat]
  BY DEF NoRequest, NULL
<1>3. /\ conn'[k] = NoRequest /\ \A j \in Connections \ {k} : conn'[j] = conn[j]
      /\ conn' \in [Connections -> [cls : Nat, left : Nat, got : Nat]]
  BY <1>1, <1>2 DEF UploadsInductive
<1>4. Idle(k)'
  BY <1>3 DEF Idle, NoRequest
<1>5. \A j \in Connections \ {k} : BodyOf(j)'
  BY <1>1, <1>3, <1>4, OtherBodies DEF UploadsInductive, BodyOf, Open, Idle
<1>6. BodyOf(k)'
  BY <1>3, <1>4 DEF BodyOf
<1>7. Cardinality(Open)' = Cardinality(Open) - 1
  BY <1>1, <1>3, <1>4, OneLessOpen
<1> QED
  BY <1>1, <1>3, <1>5, <1>6, <1>7, OpenFinite, UploadsAssumption
  DEF UploadsInductive

LEMMA UploadsStartInductive == UploadsInit => UploadsInductive
<1> SUFFICES ASSUME UploadsInit PROVE UploadsInductive
  OBVIOUS
<1>1. /\ conn \in [Connections -> [cls : Nat, left : Nat, got : Nat]]
      /\ DOMAIN heap = {} /\ heap \in [DOMAIN heap -> Nat]
      /\ broken = 0 /\ broken \in 0..MaxBroken
      /\ \A k \in Connections : conn[k] = NoRequest
  BY UploadsAssumption DEF UploadsInit, NoRequest, NULL
<1>2. \A k \in Connections : Idle(k)
  BY <1>1 DEF Idle, NoRequest
<1>3. Open = {}
  BY <1>2 DEF Open
<1> QED
  BY <1>1, <1>2, <1>3, FS_EmptySet DEF UploadsInductive, BodyOf

\* The invariant says of the bodies what BodySound says.
LEMMA BodiesAreSound == UploadsInductive => BodySound
<1> SUFFICES ASSUME UploadsInductive PROVE BodySound
  OBVIOUS
<1> DEFINE used == {conn[k].cls : k \in Open}
           buffer == [k \in Open |-> conn[k].cls]
<1>1. buffer \in Bijection(Open, used)
  BY DEF Bijection, Injection, Surjection, IsInjective, UploadsInductive,
         BodyOf, Open
<1>2. ExistsBijection(Open, used)
  BY <1>1 DEF ExistsBijection
<1>3. Cardinality(used) = Cardinality(Open)
  BY <1>2, OpenFinite, FS_Bijection
<1>4. used \subseteq DOMAIN heap
      /\ \A k \in Open : heap[conn[k].cls] = conn[k].got
                         /\ conn[k].got <= MaxPieces
  BY DEF UploadsInductive, BodyOf, Open
<1> QED
  BY <1>3, <1>4 DEF BodySound, UploadsInductive, Open

LEMMA IdleInductive == UploadsInductive /\ UNCHANGED uploads => UploadsInductive'
BY DEF UploadsInductive, BodyOf, Open, Idle, uploads

LEMMA NextUploads == UploadsInductive /\ [Next]_vars => UploadsInductive'
<1> SUFFICES ASSUME UploadsInductive, [Next]_vars PROVE UploadsInductive'
  OBVIOUS
<1>1. CASE UNCHANGED uploads
  BY <1>1, IdleInductive
<1>2. CASE Submit
  <2>1. PICK k \in Connections : Headers(k, 1) \/ NoHeaders(k)
    BY <1>2 DEF Submit
  <2> QED
    BY <2>1, HeadersInductive, IdleInductive DEF NoHeaders
<1>3. ASSUME NEW k \in Connections, Upload(k) PROVE UploadsInductive'
  <2>1. CASE UNCHANGED uploads
    BY <2>1, IdleInductive
  <2>2. ASSUME NEW length \in Lengths, Headers(k, length)
        PROVE  UploadsInductive'
    BY <2>2, HeadersInductive, UploadsAssumption
  <2>3. CASE Piece(k)
    BY <2>3, PieceInductive
  <2>4. CASE Refuse(k)
    <3>1. ~Idle(k)
      BY <2>4 DEF Refuse, UploadsInductive, BodyOf, NoRequest
    <3> QED
      BY <2>4, <3>1, EndInductive DEF Refuse
  <2>5. CASE Break(k)
    BY <2>5, BreakInductive
  <2> QED
    BY <1>3, <2>1, <2>2, <2>3, <2>4, <2>5 DEF Upload
<1>4. ASSUME NEW k \in Connections, ServePost(k) PROVE UploadsInductive'
  BY <1>4, EndInductive DEF ServePost, Dispatch
<1>5. ASSUME NEW k \in Connections, PostReturns(k) PROVE UNCHANGED uploads
  BY <1>5 DEF PostReturns
<1>6. ASSUME NEW i \in Loads, ServeLoad(i) \/ Arrive(i) PROVE UNCHANGED uploads
  BY <1>6 DEF ServeLoad, Arrive
<1>7. CASE \/ SignIn \/ SignOut \/ Expire \/ Reload
           \/ OpenPage \/ LeavePage \/ SwitchTab \/ ChooseAccount
           \/ Scroll \/ Retry
  BY <1>1, <1>7 DEF SignIn, SignOut, Expire, Reload, OpenPage, LeavePage,
                    SwitchTab, ChooseAccount, Scroll, Retry, OnlyPanel
<1>8. UNCHANGED vars => UNCHANGED uploads
  BY DEF vars
<1> QED
  BY <1>1, <1>2, <1>3, <1>4, <1>5, <1>6, <1>7, <1>8 DEF Next

\* However many connections send bodies, and break off, at once: a body under
\* way is in a buffer of its own that holds what has come of it, and nothing
\* but it and the bodies broken off is allocated.
THEOREM BodySoundHolds == Spec => []BodySound
<1>1. Init => UploadsInductive
  BY UploadsStartInductive DEF Init
<1> QED
  BY <1>1, NextUploads, BodiesAreSound, PTL DEF Spec

(***************************************************************************)
(* What the values are.                                                    *)
(***************************************************************************)

LEMMA Constants ==
  /\ Accounts \subseteq Nat \ {0} /\ Accounts # {} /\ Min(Accounts) \in Accounts
  /\ FirstRows \in [Accounts -> Nat]
<1>1. Len(FirstRows) \in Nat /\ Len(FirstRows) # 0
  BY WebClientAssumption
<1>2. Accounts \in SUBSET Nat /\ 1 \in Accounts /\ Accounts \subseteq Nat \ {0}
  BY <1>1, WebClientAssumption
<1>3. FirstRows \in [Accounts -> Nat]
  BY WebClientAssumption
<1> QED
  BY <1>2, <1>3, MinIsMember

LEMMA Empties ==
  /\ NULL \in Nat /\ NULL \notin Accounts /\ NULL \notin Loads
  /\ NoList \in Lists /\ NoList \in Items /\ <<>> \in Items /\ <<>> \in Lists
  /\ NoLoad \in LoadType /\ NoPost \in PostType /\ NoPanel \in PanelType
  /\ NoContext \in [latest : Loads \cup {NULL}, list : Lists, error : BOOLEAN]
  /\ NoPage \in [tab : {"away", "Recent", "form"},
                 account : Accounts \cup {NULL}, busy : BOOLEAN]
BY Constants, WebClientAssumption
DEF NULL, NoList, NoLoad, NoPost, NoPanel, NoContext, NoPage, Lists, Items,
    LoadType, PostType, PanelType

\* A request goes into a free place.
LEMMA FreePlace ==
  ASSUME NEW l, HasRoom(l)
  PROVE  Min(Slots(l)) \in Loads /\ l[Min(Slots(l))] = NoLoad
<1>1. Slots(l) \in SUBSET Nat /\ Slots(l) # {}
  BY WebClientAssumption DEF Slots, HasRoom
<1> QED
  BY <1>1, MinIsMember DEF Slots

LEMMA SentLoad ==
  ASSUME NEW l \in [Loads -> LoadType], HasRoom(l), NEW r \in LoadType
  PROVE  /\ Sent(l, r) \in [Loads -> LoadType]
         /\ \A i \in Loads :
              Sent(l, r)[i] = IF i = Min(Slots(l)) THEN r ELSE l[i]
<1>1. Sent(l, r) = [l EXCEPT ![Min(Slots(l))] = r]
  BY DEF Sent
<1> QED
  BY <1>1, FreePlace

LEMMA OrphanLoad ==
  ASSUME NEW r \in LoadType
  PROVE  Orphan(r) \in LoadType /\ Orphan(r).kind \in {"none", "orphan"}
<1>1. CASE r.kind = "none" \/ (r.after = "nothing" /\ r.answer = "ok")
  BY <1>1, Empties DEF Orphan, NoLoad
<1>2. CASE ~(r.kind = "none" \/ (r.after = "nothing" /\ r.answer = "ok"))
  <2>1. Orphan(r) =
          [kind |-> "orphan", offset |-> 0, account |-> r.account,
           append |-> FALSE, token |-> r.token,
           after |-> IF r.after = "page" THEN "left" ELSE r.after,
           answer |-> r.answer, data |-> <<>>]
    BY <1>2 DEF Orphan, NoLoad
  <2> QED
    BY <2>1, Empties DEF LoadType
<1> QED
  BY <1>1, <1>2

LEMMA NewAccountsLoad ==
  ASSUME NEW t \in Nat, NEW x \in {"nothing", "page", "left"},
         NEW a \in Accounts \cup {NULL}
  PROVE  /\ AccountsLoad(t, x, a) \in LoadType
         /\ AccountsLoad(t, x, a).kind = "accounts"
         /\ AccountsLoad(t, x, a).answer = "none"
         /\ AccountsLoad(t, x, a).data = <<>>
<1>1. ASSUME NEW r \in LoadType, r.answer = "none", r.data = <<>>,
             NEW s, s = [r EXCEPT !.kind = "accounts", !.token = t,
                                  !.after = x, !.account = a]
      PROVE  s \in LoadType /\ s.kind = "accounts" /\ s.answer = "none"
             /\ s.data = <<>>
  BY <1>1 DEF LoadType
<1>2. NoLoad.answer = "none" /\ NoLoad.data = <<>>
  BY DEF NoLoad
<1> QED
  BY <1>1, <1>2, Empties DEF AccountsLoad

LEMMA NewRecentLoad ==
  ASSUME apiToken \in Nat, NEW a \in Accounts \cup {NULL},
         NEW n \in Nat, NEW more \in BOOLEAN
  PROVE  /\ RecentLoad(a, n, more) \in LoadType
         /\ RecentLoad(a, n, more).kind = "recent"
         /\ RecentLoad(a, n, more).offset = n
         /\ RecentLoad(a, n, more).account = a
         /\ RecentLoad(a, n, more).append = more
         /\ RecentLoad(a, n, more).data = <<>>
<1>1. ASSUME NEW r \in LoadType, r.data = <<>>,
             NEW s, s = [r EXCEPT !.kind = "recent", !.offset = n,
                                  !.account = a, !.append = more,
                                  !.token = apiToken]
      PROVE  /\ s \in LoadType
             /\ s.kind = "recent" /\ s.offset = n /\ s.account = a
             /\ s.append = more /\ s.data = <<>>
  BY <1>1 DEF LoadType
<1>2. NoLoad.data = <<>>
  BY DEF NoLoad
<1> QED
  BY <1>1, <1>2, Empties DEF RecentLoad

\* Only the GET of recent transactions that loadPage sends is new.
LEMMA LoadPageLoads ==
  ASSUME apiToken \in Nat,
         NEW p \in PanelType, NEW l \in [Loads -> LoadType], HasRoom(l),
         NEW a \in Accounts \cup {NULL}, NEW n \in Nat,
         NEW more \in BOOLEAN, LoadPage(p, l, a, n, more)
  PROVE  /\ panel' \in PanelType /\ load' \in [Loads -> LoadType]
         /\ panel'.items = p.items
         /\ \A i \in Loads : load'[i] # l[i] =>
              l[i] = NoLoad /\ load'[i].kind = "recent"
<1>1. CASE a = NULL \/ p.busy
  BY <1>1 DEF LoadPage
<1>2. CASE ~(a = NULL \/ p.busy)
  <2>1. /\ load' = Sent(l, RecentLoad(a, n, more))
        /\ panel' = [p EXCEPT !.busy = TRUE, !.error = FALSE,
                              !.offset = IF more THEN @ ELSE 0]
    BY <1>2 DEF LoadPage
  <2>2. panel' \in PanelType /\ panel'.items = p.items
    BY <2>1 DEF PanelType
  <2> DEFINE r == RecentLoad(a, n, more)
  <2>3. r \in LoadType /\ r.kind = "recent"
    BY NewRecentLoad, SMTT(40)
  <2> HIDE DEF r
  <2>4. /\ load' \in [Loads -> LoadType]
        /\ \A i \in Loads : load'[i] = IF i = Min(Slots(l)) THEN r ELSE l[i]
    BY <2>1, <2>3, SentLoad DEF r
  <2>5. l[Min(Slots(l))] = NoLoad
    BY FreePlace
  <2> QED
    BY <2>2, <2>3, <2>4, <2>5
<1> QED
  BY <1>1, <1>2

LEMMA ResetPanelLoads ==
  ASSUME apiToken \in Nat,
         NEW p \in PanelType, NEW l \in [Loads -> LoadType], HasRoom(l),
         NEW a \in Accounts \cup {NULL}, ResetPanel(p, l, a)
  PROVE  /\ panel' \in PanelType /\ load' \in [Loads -> LoadType]
         /\ \A i \in Loads : load'[i] # l[i] =>
              l[i] = NoLoad /\ load'[i].kind = "recent"
<1> DEFINE q == [p EXCEPT !.items = <<>>, !.more = a # NULL]
<1>1. q \in PanelType
  BY Empties DEF PanelType
<1>2. LoadPage(q, l, a, 0, FALSE)
  BY DEF ResetPanel
<1> QED
  BY <1>1, <1>2, LoadPageLoads

(***************************************************************************)
(* What keeps the accounts fresh and the list unbroken.                    *)
(***************************************************************************)

RowsGrow == \A a \in Accounts : rows'[a] >= rows[a]

SameAccounts ==
  \A i \in Loads : load[i].kind = "accounts" \/ load'[i].kind = "accounts" =>
    load'[i].kind = load[i].kind /\ load'[i].answer = load[i].answer
      /\ load'[i].data = load[i].data

SameRecent ==
  \A i \in Loads : load[i].kind = "recent" \/ load'[i].kind = "recent" =>
    load'[i] = load[i]

LEMMA FreshKept ==
  ASSUME ClientTypeOK, Fresh, ClientTypeOK', RowsGrow, SameAccounts,
         \A k \in Connections : PostSound(k)',
         session' = session, ctx' = ctx, told' = told
  PROVE  Fresh'
<1>1. \A a \in Accounts : told'[a] <= rows'[a]
  BY DEF Fresh, RowsGrow, ClientTypeOK
<1>2. \A i \in Loads : load'[i].kind = "accounts" => load'[i].data \in Lists
  BY DEF Fresh, SameAccounts
<1>3. ContextSound'
  <2>1. ctx.latest # NULL => ctx.latest \in Loads
    BY DEF ClientTypeOK
  <2> QED
    BY <2>1 DEF Fresh, ContextSound, SameAccounts
<1>4. AccountsFresh'
  BY DEF Fresh, AccountsFresh
<1> QED
  BY <1>1, <1>2, <1>3, <1>4 DEF Fresh

\* Growing books, and the type of a list.
LEMMA ContinuesKept ==
  ASSUME ClientTypeOK, ClientTypeOK', RowsGrow,
         NEW items \in Items, NEW n \in Nat, Continues(items, n)
  PROVE  Continues(items, n)'
<1> SUFFICES ASSUME items # <<>> PROVE Continues(items, n)'
  BY DEF Continues
<1> DEFINE last == items[Len(items)]
<1>1. last \in Accounts \X Int
  BY DEF Items
<1>2. last[1] \in Accounts /\ last[2] \in Int
  BY <1>1
<1>3. rows[last[1]] \in Nat /\ rows'[last[1]] \in Nat
      /\ rows'[last[1]] >= rows[last[1]]
  BY <1>2 DEF ClientTypeOK, RowsGrow
<1>4. rows[last[1]] - n >= last[2] - 1
  BY DEF Continues
<1>5. rows'[last[1]] - n >= last[2] - 1
  BY <1>2, <1>3, <1>4
<1> QED
  BY <1>5 DEF Continues

LEMMA UnbrokenKept ==
  ASSUME ClientTypeOK, Unbroken, ClientTypeOK', RowsGrow, SameRecent,
         panel' = panel, page'.tab = "Recent" \/ panel = NoPanel
  PROVE  Unbroken'
<1>1. Continues(panel.items, panel.offset)'
  <2>1. panel.items \in Items /\ panel.offset \in Nat
    BY DEF ClientTypeOK, PanelType
  <2> QED
    BY <2>1, ContinuesKept DEF Unbroken, Continues
<1>2. ASSUME NEW i \in Loads, load'[i].kind = "recent"
      PROVE  /\ panel'.busy /\ PageSound(load[i])'
             /\ \A j \in Loads : load'[j].kind = "recent" => j = i
  <2>1. load'[i] = load[i] /\ load[i].kind = "recent"
    BY <1>2 DEF SameRecent
  <2>2. PageSound(load[i]) /\ panel.busy
    BY <2>1 DEF Unbroken
  <2>3. load[i].offset + Len(load[i].data) \in Nat
    <3>1. load[i] \in LoadType /\ load[i].data \in Items
      BY <2>2 DEF ClientTypeOK, PageSound
    <3>2. Len(load[i].data) \in Nat
      BY <3>1 DEF Items
    <3> QED
      BY <3>1, <3>2 DEF LoadType
  <2>4. Continues(load[i].data, load[i].offset + Len(load[i].data))'
    BY <2>1, <2>2, <2>3, ContinuesKept DEF PageSound, Continues
  <2>5. PageSound(load[i])'
    BY <2>1, <2>2, <2>4 DEF PageSound
  <2> QED
    BY <2>1, <2>2, <2>5 DEF SameRecent, Unbroken
<1>3. \A i \in Loads : load'[i].kind = "recent" => PageSound(load[i])'
  BY <1>2
<1> QED
  BY <1>1, <1>2, <1>3 DEF Unbroken, RecentUnbroken

LEMMA UnbrokenWithoutPanel ==
  ASSUME panel' = NoPanel, \A i \in Loads : load'[i].kind # "recent"
  PROVE  Unbroken'
BY DEF Unbroken, RecentUnbroken, NoPanel, Continues

\* loadPage waits for the page it asks for, and asks for none while it waits.
LEMMA LoadPageUnbroken ==
  ASSUME ClientTypeOK, Unbroken, rows' = rows, page'.tab = "Recent",
         NEW p \in PanelType, p.busy = panel.busy, p.offset = panel.offset,
         p.items = panel.items \/ p.items = <<>>,
         NEW l \in [Loads -> LoadType], HasRoom(l),
         \A i \in Loads : l[i].kind = "recent" => load[i] = l[i],
         NEW a \in Accounts \cup {NULL}, NEW n \in Nat, NEW more \in BOOLEAN,
         more => n = panel.offset,
         LoadPage(p, l, a, n, more)
  PROVE  Unbroken'
<1>0. \A i \in Loads : l[i].kind = "recent" => panel.busy /\ PageSound(l[i])
  BY DEF Unbroken
<1>1. CASE a = NULL \/ p.busy
  <2>1. panel' = p /\ load' = l
    BY <1>1 DEF LoadPage
  <2>2. Continues(panel.items, panel.offset)'
    BY <2>1 DEF Unbroken, Continues
  <2>3. RecentUnbroken'
    BY <2>1 DEF Unbroken, RecentUnbroken
  <2>4. ASSUME NEW i \in Loads, load'[i].kind = "recent"
        PROVE  PageSound(load[i])'
    <3>1. load'[i] = l[i] /\ PageSound(l[i])
      BY <1>0, <2>1, <2>4
    <3> QED
      BY <2>1, <3>1 DEF PageSound, Continues
  <2>5. \A i \in Loads : load'[i].kind = "recent" => PageSound(load[i])'
    BY <2>4
  <2> QED
    BY <1>0, <2>1, <2>2, <2>3, <2>5 DEF Unbroken
<1>2. CASE ~(a = NULL \/ p.busy)
  <2> DEFINE s == Min(Slots(l))
  <2>1. /\ load' = Sent(l, RecentLoad(a, n, more))
        /\ panel' = [p EXCEPT !.busy = TRUE, !.error = FALSE,
                              !.offset = IF more THEN @ ELSE 0]
    BY <1>2 DEF LoadPage
  <2>2. /\ panel'.busy = TRUE /\ panel'.items = p.items
        /\ panel'.offset = IF more THEN panel.offset ELSE 0
    BY <2>1 DEF PanelType
  <2>3. PICK r \in LoadType :
          /\ r = RecentLoad(a, n, more) /\ r.kind = "recent" /\ r.offset = n
          /\ r.account = a /\ r.append = more /\ r.data = <<>>
    <3>1. apiToken \in Nat
      BY DEF ClientTypeOK
    <3> DEFINE q == RecentLoad(a, n, more)
    <3>2. /\ q \in LoadType /\ q.kind = "recent" /\ q.offset = n
          /\ q.account = a /\ q.append = more /\ q.data = <<>>
      BY <3>1, NewRecentLoad, SMTT(40)
    <3> HIDE DEF q
    <3>3. PICK r \in LoadType :
            /\ r = q /\ r.kind = "recent" /\ r.offset = n
            /\ r.account = a /\ r.append = more /\ r.data = <<>>
      BY <3>2
    <3> QED
      BY <3>3 DEF q
  <2>4. \A i \in Loads : load'[i] = IF i = s THEN r ELSE l[i]
    BY <2>1, <2>3, SentLoad
  <2>5. \A i \in Loads : load'[i].kind = "recent" => i = s /\ load'[i] = r
    BY <1>0, <1>2, <2>4
  <2>6. PageSound(r)'
    <3>1. a \in Accounts
      BY <1>2
    <3> QED
      BY <2>2, <2>3, <3>1, Empties DEF PageSound, Continues
  <2>7. Continues(panel.items, panel.offset)'
    <3> SUFFICES ASSUME panel'.items # <<>>
                 PROVE  Continues(panel.items, panel.offset)'
      BY DEF Continues
    <3>1. panel'.items = panel.items /\ panel.items \in Items
          /\ panel.offset \in Nat
      BY <2>2 DEF ClientTypeOK, PanelType
    <3> DEFINE last == panel.items[Len(panel.items)]
    <3>2. last[1] \in Accounts /\ last[2] \in Int
      BY <3>1 DEF Items
    <3>3. rows[last[1]] \in Nat
      BY <3>2 DEF ClientTypeOK
    <3>4. rows[last[1]] - panel.offset >= last[2] - 1
      BY <3>1 DEF Unbroken, Continues
    <3>5. rows[last[1]] - panel'.offset >= last[2] - 1
      BY <2>2, <3>1, <3>2, <3>3, <3>4
    <3> QED
      BY <3>1, <3>5 DEF Continues
  <2>8. RecentUnbroken'
    BY <2>2 DEF Unbroken, RecentUnbroken
  <2>9. \A i \in Loads : load'[i].kind = "recent" =>
          panel'.busy /\ PageSound(load[i])'
            /\ \A j \in Loads : load'[j].kind = "recent" => j = i
    <3> SUFFICES ASSUME NEW i \in Loads, load'[i].kind = "recent"
                 PROVE  /\ panel'.busy /\ PageSound(load[i])'
                        /\ \A j \in Loads : load'[j].kind = "recent" => j = i
      OBVIOUS
    <3>1. i = s /\ load'[i] = r
      BY <2>5
    <3>2. PageSound(load[i])'
      BY <2>6, <3>1 DEF PageSound
    <3> QED
      BY <2>2, <2>5, <3>1, <3>2
  <2> QED
    BY <2>7, <2>8, <2>9 DEF Unbroken
<1> QED
  BY <1>1, <1>2

LEMMA ResetUnbroken ==
  ASSUME ClientTypeOK, Unbroken, rows' = rows, page'.tab = "Recent",
         NEW l \in [Loads -> LoadType], HasRoom(l),
         \A i \in Loads : l[i].kind = "recent" => load[i] = l[i],
         NEW a \in Accounts \cup {NULL}, ResetPanel(panel, l, a)
  PROVE  Unbroken'
<1> DEFINE q == [panel EXCEPT !.items = <<>>, !.more = a # NULL]
<1>1. /\ q \in PanelType /\ q.busy = panel.busy /\ q.offset = panel.offset
      /\ q.items = <<>>
  BY Empties DEF PanelType, ClientTypeOK
<1>2. LoadPage(q, l, a, 0, FALSE)
  BY DEF ResetPanel
<1> HIDE DEF q
<1> QED
  BY <1>1, <1>2, LoadPageUnbroken

\* A load of the accounts sent last is the one that counts.
LEMMA ReloadingFresh ==
  ASSUME ClientTypeOK, Fresh, NEW t \in Nat, NEW x \in {"nothing", "page", "left"},
         NEW b \in Accounts \cup {NULL}, Reloading(t, x, b), rows' = rows,
         told' \in [Accounts -> Nat], \A a \in Accounts : told'[a] <= rows[a],
         \A k \in Connections : PostSound(k)'
  PROVE  /\ load' \in [Loads -> LoadType] /\ apiToken' = t
         /\ ctx' \in [latest : Loads \cup {NULL}, list : Lists, error : BOOLEAN]
         /\ Fresh' /\ SameRecent
<1> DEFINE s == Min(Slots(load))
<1>1. /\ HasRoom(load) /\ apiToken' = t
      /\ ctx' = [ctx EXCEPT !.latest = s, !.error = FALSE]
      /\ load' = Sent(load, AccountsLoad(t, x, b))
  BY DEF Reloading
<1>2. s \in Loads /\ load[s] = NoLoad
  BY <1>1, FreePlace
<1>3. PICK r \in LoadType :
        /\ r = AccountsLoad(t, x, b) /\ r.kind = "accounts"
        /\ r.answer = "none" /\ r.data = <<>>
  <2> DEFINE q == AccountsLoad(t, x, b)
  <2>1. q \in LoadType /\ q.kind = "accounts" /\ q.answer = "none"
        /\ q.data = <<>>
    BY NewAccountsLoad
  <2> HIDE DEF q
  <2>2. PICK r \in LoadType :
          r = q /\ r.kind = "accounts" /\ r.answer = "none" /\ r.data = <<>>
    BY <2>1
  <2> QED
    BY <2>2 DEF q
<1>4. /\ load' \in [Loads -> LoadType]
      /\ \A i \in Loads : load'[i] = IF i = s THEN r ELSE load[i]
  <2>1. load \in [Loads -> LoadType] /\ load' = Sent(load, r)
    BY <1>1, <1>3 DEF ClientTypeOK
  <2> QED
    BY <1>1, <2>1, SentLoad
<1> HIDE DEF s
<1>5. ctx' \in [latest : Loads \cup {NULL}, list : Lists, error : BOOLEAN]
      /\ ctx'.latest = s
  BY <1>1, <1>2 DEF ClientTypeOK
<1>6. \A i \in Loads : load'[i].kind = "accounts" => load'[i].data \in Lists
  BY <1>3, <1>4, Empties DEF Fresh
<1>7. ContextSound'
  BY <1>2, <1>3, <1>4, <1>5 DEF ContextSound
<1>8. AccountsFresh'
  BY <1>2, <1>5, Empties DEF AccountsFresh
<1>9. SameRecent
  <2>1. NoLoad.kind = "none"
    BY DEF NoLoad
  <2> QED
    BY <1>2, <1>3, <1>4, <2>1 DEF SameRecent
<1>10. Fresh'
  BY <1>6, <1>7, <1>8 DEF Fresh
<1> QED
  BY <1>1, <1>4, <1>5, <1>9, <1>10

\* Without a context that loads or shows anything there is nothing to be stale.
LEMMA FreshWithoutContext ==
  ASSUME ClientTypeOK, Fresh, rows' = rows, told' = told, ctx' = NoContext,
         \A k \in Connections : PostSound(k)',
         \A i \in Loads : load'[i].kind # "accounts"
  PROVE  Fresh'
BY DEF Fresh, ContextSound, AccountsFresh, NoContext

LEMMA SamePosts ==
  ASSUME Fresh, post' = post, rows' = rows
  PROVE  \A k \in Connections : PostSound(k)'
BY DEF Fresh, PostSound

\* A page that is left takes the answer of no request any more.
LEMMA LeftPostsSound ==
  ASSUME ClientTypeOK, Fresh, post' = LeftPosts, rows' = rows
  PROVE  /\ post' \in [Connections -> PostType]
         /\ \A k \in Connections : PostSound(k)'
<1> SUFFICES ASSUME NEW k \in Connections
             PROVE  post'[k] \in PostType /\ PostSound(k)'
  BY DEF LeftPosts
<1>1. post'[k] = [post[k] EXCEPT !.page = FALSE] /\ post[k] \in PostType
  BY DEF LeftPosts, ClientTypeOK
<1>2. /\ post'[k] \in PostType /\ post'[k].account = post[k].account
      /\ post'[k].row = post[k].row
  BY <1>1 DEF PostType
<1>3. post[k] = NoPost => post'[k] = NoPost
  <2>1. ASSUME NEW r \in PostType, r.page = FALSE
        PROVE  [r EXCEPT !.page = FALSE] = r
    BY <2>1 DEF PostType
  <2>2. NoPost \in PostType /\ NoPost.page = FALSE
    BY Empties DEF NoPost
  <2> QED
    BY <1>1, <2>1, <2>2
<1> QED
  BY <1>2, <1>3 DEF Fresh, PostSound

(***************************************************************************)
(* The steps, one by one.                                                  *)
(***************************************************************************)

ClientInductive == ClientTypeOK /\ Fresh /\ Unbroken

LEMMA StartClient == Init => ClientInductive
<1> SUFFICES ASSUME Init PROVE ClientInductive
  OBVIOUS
<1>1. /\ session = NULL /\ signed = 0 /\ expired = {} /\ apiToken = NULL
      /\ ctx = NoContext /\ page = NoPage /\ panel = NoPanel
      /\ load = [i \in Loads |-> NoLoad]
      /\ post = [k \in Connections |-> NoPost]
      /\ rows = FirstRows /\ told = [a \in Accounts |-> 0]
  BY DEF Init
<1>2. ClientTypeOK
  BY <1>1, Empties, Constants DEF ClientTypeOK
<1>3. NoLoad.kind = "none"
  BY DEF NoLoad
<1>4. Fresh
  <2>1. \A a \in Accounts : told[a] <= rows[a]
    BY <1>1, Constants
  <2> QED
    BY <1>1, <1>3, <2>1
    DEF Fresh, PostSound, ContextSound, AccountsFresh, NoContext
<1>5. Unbroken
  BY <1>1, <1>3 DEF Unbroken, RecentUnbroken, NoPanel, Continues
<1> QED
  BY <1>2, <1>4, <1>5 DEF ClientInductive

LEMMA SameBooks == ClientTypeOK /\ rows' = rows => RowsGrow
BY DEF ClientTypeOK, RowsGrow

LEMMA SamePage ==
  Unbroken /\ page' = page => page'.tab = "Recent" \/ panel = NoPanel
BY DEF Unbroken

LEMMA SignInInductive ==
  ASSUME ClientInductive, SignIn PROVE ClientInductive'
<1>1. /\ ClientTypeOK /\ Fresh /\ Unbroken
      /\ Reloading(signed + 1, "nothing", NULL)
      /\ session' = signed + 1 /\ signed' = signed + 1
      /\ expired' = expired /\ page' = page /\ panel' = panel /\ post' = post
      /\ rows' = rows /\ told' = told
  BY DEF ClientInductive, SignIn
<1>2. signed + 1 \in Nat /\ told' \in [Accounts -> Nat]
      /\ \A a \in Accounts : told'[a] <= rows[a]
  BY <1>1 DEF ClientTypeOK, Fresh
<1>3. /\ load' \in [Loads -> LoadType] /\ apiToken' = signed + 1
      /\ ctx' \in [latest : Loads \cup {NULL}, list : Lists, error : BOOLEAN]
      /\ Fresh' /\ SameRecent
  BY <1>1, <1>2, SamePosts, ReloadingFresh
<1>4. ClientTypeOK'
  BY <1>1, <1>2, <1>3 DEF ClientTypeOK
<1> QED
  BY <1>1, <1>3, <1>4, SameBooks, SamePage, UnbrokenKept DEF ClientInductive

LEMMA ReloadInductive ==
  ASSUME ClientInductive, Reload PROVE ClientInductive'
<1>1. /\ ClientTypeOK /\ Fresh /\ Unbroken
      /\ Reloading(session, "nothing", NULL)
      /\ session' = session /\ signed' = signed
      /\ expired' = expired /\ page' = page /\ panel' = panel /\ post' = post
      /\ rows' = rows /\ told' = told
  BY DEF ClientInductive, Reload
<1>2. session \in Nat /\ told' \in [Accounts -> Nat]
      /\ \A a \in Accounts : told'[a] <= rows[a]
  BY <1>1 DEF ClientTypeOK, Fresh
<1>3. /\ load' \in [Loads -> LoadType] /\ apiToken' = session
      /\ ctx' \in [latest : Loads \cup {NULL}, list : Lists, error : BOOLEAN]
      /\ Fresh' /\ SameRecent
  BY <1>1, <1>2, SamePosts, ReloadingFresh
<1>4. ClientTypeOK'
  BY <1>1, <1>2, <1>3 DEF ClientTypeOK
<1> QED
  BY <1>1, <1>3, <1>4, SameBooks, SamePage, UnbrokenKept DEF ClientInductive

LEMMA SignOutInductive ==
  ASSUME ClientInductive, SignOut PROVE ClientInductive'
<1>1. /\ ClientTypeOK /\ Fresh /\ Unbroken
      /\ session' = NULL /\ apiToken' = NULL /\ signed' = signed
      /\ expired' = expired /\ ctx' = NoContext /\ page' = NoPage
      /\ panel' = NoPanel /\ post' = LeftPosts
      /\ load' = [i \in Loads |-> Orphan(load[i])]
      /\ rows' = rows /\ told' = told
  BY DEF ClientInductive, SignOut
<1>2. /\ load' \in [Loads -> LoadType]
      /\ \A i \in Loads : load'[i].kind \in {"none", "orphan"}
  <2>1. \A i \in Loads : Orphan(load[i]) \in LoadType
                         /\ Orphan(load[i]).kind \in {"none", "orphan"}
    BY <1>1, OrphanLoad DEF ClientTypeOK
  <2> QED
    BY <1>1, <2>1
<1>3. /\ post' \in [Connections -> PostType]
      /\ \A k \in Connections : PostSound(k)'
  BY <1>1, LeftPostsSound
<1>4. ClientTypeOK'
  BY <1>1, <1>2, <1>3, Empties DEF ClientTypeOK
<1>5. Fresh'
  BY <1>1, <1>2, <1>3, FreshWithoutContext
<1>6. Unbroken'
  BY <1>1, <1>2, UnbrokenWithoutPanel
<1> QED
  BY <1>4, <1>5, <1>6 DEF ClientInductive

LEMMA ExpelInductive ==
  ASSUME ClientInductive, Expel, rows' = rows, told' = told,
         signed' = signed, expired' = expired
  PROVE  ClientInductive'
<1>1. /\ ClientTypeOK /\ Fresh /\ Unbroken
      /\ session' = NULL /\ apiToken' = NULL
      /\ ctx' = NoContext /\ page' = NoPage /\ panel' = NoPanel
      /\ load' = [i \in Loads |-> NoLoad]
      /\ post' = [k \in Connections |-> NoPost]
  BY DEF ClientInductive, Expel
<1>2. NoLoad.kind = "none"
  BY DEF NoLoad
<1>3. \A i \in Loads : load'[i].kind = "none"
  BY <1>1, <1>2
<1>4. ClientTypeOK'
  BY <1>1, Empties DEF ClientTypeOK
<1>5. \A k \in Connections : PostSound(k)'
  BY <1>1 DEF PostSound
<1>6. Fresh'
  BY <1>1, <1>3, <1>5, FreshWithoutContext
<1>7. Unbroken'
  BY <1>1, <1>3, UnbrokenWithoutPanel
<1> QED
  BY <1>4, <1>6, <1>7 DEF ClientInductive

LEMMA ExpireInductive ==
  ASSUME ClientInductive, Expire PROVE ClientInductive'
<1>1. /\ ClientTypeOK /\ Fresh /\ Unbroken
      /\ session' = session /\ signed' = signed /\ apiToken' = apiToken
      /\ ctx' = ctx /\ page' = page /\ panel' = panel /\ load' = load
      /\ post' = post /\ rows' = rows /\ told' = told
  BY DEF ClientInductive, Expire
<1>2. expired' \subseteq Nat
  <2>1. PICK t \in 1..signed : expired' = expired \cup {t}
    BY DEF Expire
  <2> QED
    BY <1>1, <2>1 DEF ClientTypeOK
<1>3. ClientTypeOK'
  BY <1>1, <1>2 DEF ClientTypeOK
<1>4. SameAccounts /\ SameRecent
  BY <1>1 DEF SameAccounts, SameRecent
<1>5. Fresh'
  BY <1>1, <1>3, <1>4, SameBooks, SamePosts, FreshKept
<1>6. Unbroken'
  BY <1>1, <1>3, <1>4, SameBooks, SamePage, UnbrokenKept
<1> QED
  BY <1>3, <1>5, <1>6 DEF ClientInductive

LEMMA OnlyRecentSent ==
  ASSUME \A i \in Loads : load'[i] # load[i] =>
           load[i] = NoLoad /\ load'[i].kind = "recent"
  PROVE  SameAccounts
<1>1. NoLoad.kind = "none"
  BY DEF NoLoad
<1> QED
  BY <1>1 DEF SameAccounts

\* The steps of the page that leave the session and the accounts alone.
LEMMA PageStep ==
  ASSUME ClientInductive, session' = session, signed' = signed,
         expired' = expired, apiToken' = apiToken, ctx' = ctx, rows' = rows,
         told' = told,
         page' \in [tab : {"away", "Recent", "form"},
                    account : Accounts \cup {NULL}, busy : BOOLEAN],
         panel' \in PanelType, load' \in [Loads -> LoadType], SameAccounts,
         post' \in [Connections -> PostType],
         \A k \in Connections : PostSound(k)'
  PROVE  ClientTypeOK' /\ Fresh'
<1>1. ClientTypeOK /\ Fresh
  BY DEF ClientInductive
<1>2. ClientTypeOK'
  BY <1>1 DEF ClientTypeOK
<1> QED
  BY <1>1, <1>2, SameBooks, FreshKept

LEMMA OpenPageInductive ==
  ASSUME ClientInductive, OpenPage PROVE ClientInductive'
<1>1. /\ ClientTypeOK /\ Fresh /\ Unbroken
      /\ session' = session /\ signed' = signed /\ expired' = expired
      /\ apiToken' = apiToken /\ ctx' = ctx /\ post' = post /\ rows' = rows
      /\ told' = told /\ HasRoom(load) /\ page.tab = "away"
  BY DEF ClientInductive, OpenPage
<1>2. panel = NoPanel
  BY <1>1 DEF Unbroken
<1>3. PICK tab \in {"Recent", "form"}, a \in Accounts \cup {NULL} :
        /\ page' = [NoPage EXCEPT !.tab = tab, !.account = a]
        /\ IF tab = "Recent" THEN ResetPanel(panel, load, a)
           ELSE UNCHANGED <<panel, load>>
  BY <1>2, Constants DEF OpenPage
<1>4. page' \in [tab : {"away", "Recent", "form"},
                 account : Accounts \cup {NULL}, busy : BOOLEAN]
      /\ page'.tab = tab
  BY <1>3, Empties
<1>5. apiToken \in Nat /\ panel \in PanelType /\ load \in [Loads -> LoadType]
      /\ post' \in [Connections -> PostType]
  BY <1>1 DEF ClientTypeOK
<1>6. /\ panel' \in PanelType /\ load' \in [Loads -> LoadType]
      /\ \A i \in Loads : load'[i] # load[i] =>
           load[i] = NoLoad /\ load'[i].kind = "recent"
  BY <1>1, <1>3, <1>5, ResetPanelLoads
<1>7. ClientTypeOK' /\ Fresh'
  BY <1>1, <1>4, <1>5, <1>6, SamePosts, OnlyRecentSent, PageStep
<1>8. CASE tab = "Recent"
  <2>1. Unbroken'
    BY <1>1, <1>3, <1>4, <1>5, <1>8, ResetUnbroken
  <2> QED
    BY <1>7, <2>1 DEF ClientInductive
<1>9. CASE tab # "Recent"
  <2>1. SameRecent /\ panel' = panel
    BY <1>3, <1>9 DEF SameRecent
  <2>2. Unbroken'
    BY <1>1, <1>2, <1>7, <2>1, SameBooks, UnbrokenKept
  <2> QED
    BY <1>7, <2>2 DEF ClientInductive
<1> QED
  BY <1>8, <1>9

LEMMA LeavePageInductive ==
  ASSUME ClientInductive, LeavePage PROVE ClientInductive'
<1>1. /\ ClientTypeOK /\ Fresh /\ Unbroken
      /\ session' = session /\ signed' = signed /\ expired' = expired
      /\ apiToken' = apiToken /\ ctx' = ctx /\ rows' = rows /\ told' = told
      /\ page' = NoPage /\ panel' = NoPanel /\ load' = Left(load)
      /\ post' = LeftPosts
  BY DEF ClientInductive, LeavePage
<1>2. ASSUME NEW i \in Loads
      PROVE  /\ load'[i] \in LoadType /\ load'[i].kind # "recent"
             /\ load'[i].kind = "accounts" \/ load[i].kind = "accounts" =>
                  /\ load'[i].kind = load[i].kind
                  /\ load'[i].answer = load[i].answer
                  /\ load'[i].data = load[i].data
  <2>1. load[i] \in LoadType
    BY <1>1 DEF ClientTypeOK
  <2>2. CASE load[i].kind = "recent"
    BY <1>1, <2>1, <2>2, OrphanLoad DEF Left
  <2>3. CASE load[i].kind # "recent" /\ load[i].after = "page"
    <3>1. load'[i] = [load[i] EXCEPT !.after = "left"]
      BY <1>1, <2>3 DEF Left
    <3> QED
      BY <2>1, <2>3, <3>1 DEF LoadType
  <2>4. CASE load[i].kind # "recent" /\ load[i].after # "page"
    BY <1>1, <2>1, <2>4 DEF Left
  <2> QED
    BY <2>2, <2>3, <2>4
<1>3. load' \in [Loads -> LoadType] /\ SameAccounts
  BY <1>1, <1>2 DEF Left, SameAccounts
<1>4. /\ post' \in [Connections -> PostType]
      /\ \A k \in Connections : PostSound(k)'
  BY <1>1, LeftPostsSound
<1>5. ClientTypeOK' /\ Fresh'
  BY <1>1, <1>3, <1>4, Empties, PageStep
<1>6. Unbroken'
  BY <1>1, <1>2, UnbrokenWithoutPanel
<1> QED
  BY <1>5, <1>6 DEF ClientInductive

LEMMA SwitchTabInductive ==
  ASSUME ClientInductive, SwitchTab PROVE ClientInductive'
<1>1. /\ ClientTypeOK /\ Fresh /\ Unbroken
      /\ session' = session /\ signed' = signed /\ expired' = expired
      /\ apiToken' = apiToken /\ ctx' = ctx /\ post' = post /\ rows' = rows
      /\ told' = told /\ HasRoom(load)
  BY DEF ClientInductive, SwitchTab
<1>2. apiToken \in Nat /\ panel \in PanelType /\ load \in [Loads -> LoadType]
      /\ post' \in [Connections -> PostType]
      /\ page \in [tab : {"away", "Recent", "form"},
                   account : Accounts \cup {NULL}, busy : BOOLEAN]
  BY <1>1 DEF ClientTypeOK
<1>3. CASE page.tab = "Recent"
  <2>1. /\ page' = [page EXCEPT !.tab = "form"] /\ panel' = NoPanel
        /\ load' = [i \in Loads |-> IF load[i].kind = "recent"
                                    THEN Orphan(load[i]) ELSE load[i]]
    BY <1>3 DEF SwitchTab
  <2>2. ASSUME NEW i \in Loads
        PROVE  /\ load'[i] \in LoadType /\ load'[i].kind # "recent"
               /\ load'[i].kind = "accounts" \/ load[i].kind = "accounts" =>
                    load'[i] = load[i]
    BY <1>2, <2>1, OrphanLoad
  <2>3. load' \in [Loads -> LoadType] /\ SameAccounts
    BY <2>1, <2>2 DEF SameAccounts
  <2>4. page' \in [tab : {"away", "Recent", "form"},
                   account : Accounts \cup {NULL}, busy : BOOLEAN]
    BY <1>2, <2>1
  <2>5. ClientTypeOK' /\ Fresh'
    BY <1>1, <1>2, <2>1, <2>3, <2>4, Empties, SamePosts, PageStep
  <2>6. Unbroken'
    BY <2>1, <2>2, UnbrokenWithoutPanel
  <2> QED
    BY <2>5, <2>6 DEF ClientInductive
<1>4. CASE page.tab # "Recent"
  <2>1. /\ page' = [page EXCEPT !.tab = "Recent"] /\ panel = NoPanel
        /\ ResetPanel(panel, load, page.account)
    BY <1>1, <1>4 DEF SwitchTab, Unbroken
  <2>2. page' \in [tab : {"away", "Recent", "form"},
                   account : Accounts \cup {NULL}, busy : BOOLEAN]
        /\ page'.tab = "Recent" /\ page.account \in Accounts \cup {NULL}
    BY <1>2, <2>1
  <2>3. /\ panel' \in PanelType /\ load' \in [Loads -> LoadType]
        /\ \A i \in Loads : load'[i] # load[i] =>
             load[i] = NoLoad /\ load'[i].kind = "recent"
    BY <1>1, <1>2, <2>1, <2>2, ResetPanelLoads
  <2>4. ClientTypeOK' /\ Fresh'
    BY <1>1, <1>2, <2>2, <2>3, SamePosts, OnlyRecentSent, PageStep
  <2>5. Unbroken'
    BY <1>1, <1>2, <2>1, <2>2, ResetUnbroken
  <2> QED
    BY <2>4, <2>5 DEF ClientInductive
<1> QED
  BY <1>3, <1>4

LEMMA ChooseAccountInductive ==
  ASSUME ClientInductive, ChooseAccount PROVE ClientInductive'
<1>1. /\ ClientTypeOK /\ Fresh /\ Unbroken
      /\ session' = session /\ signed' = signed /\ expired' = expired
      /\ apiToken' = apiToken /\ ctx' = ctx /\ post' = post /\ rows' = rows
      /\ told' = told /\ HasRoom(load)
  BY DEF ClientInductive, ChooseAccount
<1>2. apiToken \in Nat /\ panel \in PanelType /\ load \in [Loads -> LoadType]
      /\ post' \in [Connections -> PostType]
      /\ page \in [tab : {"away", "Recent", "form"},
                   account : Accounts \cup {NULL}, busy : BOOLEAN]
  BY <1>1 DEF ClientTypeOK
<1>3. PICK a \in Accounts :
        /\ page' = [page EXCEPT !.account = a]
        /\ IF page.tab = "Recent" THEN ResetPanel(panel, load, a)
           ELSE UNCHANGED <<panel, load>>
  BY DEF ChooseAccount
<1>4. page' \in [tab : {"away", "Recent", "form"},
                 account : Accounts \cup {NULL}, busy : BOOLEAN]
      /\ page'.tab = page.tab
  BY <1>2, <1>3
<1>5. /\ panel' \in PanelType /\ load' \in [Loads -> LoadType]
      /\ \A i \in Loads : load'[i] # load[i] =>
           load[i] = NoLoad /\ load'[i].kind = "recent"
  BY <1>1, <1>2, <1>3, ResetPanelLoads
<1>6. ClientTypeOK' /\ Fresh'
  BY <1>1, <1>2, <1>4, <1>5, SamePosts, OnlyRecentSent, PageStep
<1>7. CASE page.tab = "Recent"
  <2>1. Unbroken'
    BY <1>1, <1>2, <1>3, <1>4, <1>7, ResetUnbroken
  <2> QED
    BY <1>6, <2>1 DEF ClientInductive
<1>8. CASE page.tab # "Recent"
  <2>1. SameRecent /\ panel' = panel /\ panel = NoPanel
    BY <1>1, <1>3, <1>8 DEF SameRecent, Unbroken
  <2>2. Unbroken'
    BY <1>1, <1>6, <2>1, SameBooks, UnbrokenKept
  <2> QED
    BY <1>6, <2>2 DEF ClientInductive
<1> QED
  BY <1>7, <1>8

\* Scroll and Retry.
LEMMA MoreInductive ==
  ASSUME ClientInductive, page.tab = "Recent", HasRoom(load), OnlyPanel,
         NEW n \in Nat, NEW more \in BOOLEAN, more => n = panel.offset,
         LoadPage(panel, load, page.account, n, more)
  PROVE  ClientInductive'
<1>1. /\ ClientTypeOK /\ Fresh /\ Unbroken
      /\ session' = session /\ signed' = signed /\ expired' = expired
      /\ apiToken' = apiToken /\ ctx' = ctx /\ post' = post /\ rows' = rows
      /\ told' = told /\ page' = page
  BY DEF ClientInductive, OnlyPanel
<1>2. apiToken \in Nat /\ panel \in PanelType /\ load \in [Loads -> LoadType]
      /\ post' \in [Connections -> PostType]
      /\ page' \in [tab : {"away", "Recent", "form"},
                    account : Accounts \cup {NULL}, busy : BOOLEAN]
      /\ page.account \in Accounts \cup {NULL}
  BY <1>1 DEF ClientTypeOK
<1>3. /\ panel' \in PanelType /\ load' \in [Loads -> LoadType]
      /\ \A i \in Loads : load'[i] # load[i] =>
           load[i] = NoLoad /\ load'[i].kind = "recent"
  BY <1>2, LoadPageLoads
<1>4. ClientTypeOK' /\ Fresh'
  BY <1>1, <1>2, <1>3, SamePosts, OnlyRecentSent, PageStep
<1>5. /\ page'.tab = "Recent" /\ panel.busy = panel.busy
      /\ panel.offset = panel.offset /\ panel.items = panel.items
      /\ \A i \in Loads : load[i].kind = "recent" => load[i] = load[i]
  BY <1>1
<1>6. Unbroken'
  BY <1>1, <1>2, <1>5, LoadPageUnbroken, SMTT(60)
<1> QED
  BY <1>4, <1>6 DEF ClientInductive

LEMMA ScrollInductive ==
  ASSUME ClientInductive, Scroll PROVE ClientInductive'
<1>1. panel.offset \in Nat
  BY DEF ClientInductive, ClientTypeOK, PanelType
<1> QED
  BY <1>1, MoreInductive DEF Scroll

LEMMA RetryInductive ==
  ASSUME ClientInductive, Retry PROVE ClientInductive'
BY MoreInductive DEF Retry

\* The steps in which a POST goes its way.
LEMMA PostStep ==
  ASSUME ClientInductive, session' = session, signed' = signed,
         expired' = expired, apiToken' = apiToken, ctx' = ctx,
         panel' = panel, load' = load, told' = told, RowsGrow,
         page' = [page EXCEPT !.busy = page'.busy], page'.busy \in BOOLEAN,
         rows' \in [Accounts -> Nat], post' \in [Connections -> PostType],
         \A k \in Connections : PostSound(k)'
  PROVE  ClientInductive'
<1>1. ClientTypeOK /\ Fresh /\ Unbroken
  BY DEF ClientInductive
<1>2. page' \in [tab : {"away", "Recent", "form"},
                 account : Accounts \cup {NULL}, busy : BOOLEAN]
      /\ page'.tab = page.tab
  BY <1>1 DEF ClientTypeOK
<1>3. ClientTypeOK'
  BY <1>1, <1>2 DEF ClientTypeOK
<1>4. SameAccounts /\ SameRecent
  BY DEF SameAccounts, SameRecent
<1>5. Fresh'
  BY <1>1, <1>3, <1>4, FreshKept
<1>6. page'.tab = "Recent" \/ panel = NoPanel
  BY <1>1, <1>2 DEF Unbroken
<1>7. Unbroken'
  BY <1>1, <1>3, <1>4, <1>6, UnbrokenKept
<1> QED
  BY <1>3, <1>5, <1>7 DEF ClientInductive

LEMMA SubmitInductive ==
  ASSUME ClientInductive, Submit PROVE ClientInductive'
<1>1. /\ ClientTypeOK /\ Fresh /\ Unbroken
      /\ session' = session /\ signed' = signed /\ expired' = expired
      /\ apiToken' = apiToken /\ ctx' = ctx /\ panel' = panel /\ load' = load
      /\ rows' = rows /\ told' = told /\ page' = [page EXCEPT !.busy = TRUE]
      /\ page.account # NULL
  BY DEF ClientInductive, Submit
<1>2. PICK k \in Connections, answer \in {"none", "lost"} :
        post' = [post EXCEPT ![k] =
          [session |-> session, token |-> apiToken, page |-> TRUE,
           account |-> page.account, answer |-> answer, row |-> 0]]
  BY DEF Submit
<1> DEFINE q == [session |-> session, token |-> apiToken, page |-> TRUE,
                 account |-> page.account, answer |-> answer, row |-> 0]
<1>3. page.account \in Accounts /\ session \in Nat /\ apiToken \in Nat
      /\ rows \in [Accounts -> Nat] /\ post \in [Connections -> PostType]
  BY <1>1 DEF ClientTypeOK
<1>4. q \in PostType /\ q.account \in Accounts /\ q.row = 0
  BY <1>3 DEF PostType
<1> HIDE DEF q
<1>5. /\ post' \in [Connections -> PostType]
      /\ \A j \in Connections : post'[j] = IF j = k THEN q ELSE post[j]
  BY <1>2, <1>3, <1>4 DEF q
<1>6. \A j \in Connections : PostSound(j)'
  BY <1>1, <1>3, <1>4, <1>5 DEF Fresh, PostSound
<1>7. page' = [page EXCEPT !.busy = page'.busy] /\ page'.busy \in BOOLEAN
  BY <1>1 DEF ClientTypeOK
<1> QED
  BY <1>1, <1>3, <1>5, <1>6, <1>7, SameBooks, PostStep

LEMMA SamePageBusy ==
  ASSUME ClientTypeOK, page' = page
  PROVE  page' = [page EXCEPT !.busy = page'.busy] /\ page'.busy \in BOOLEAN
BY DEF ClientTypeOK

LEMMA AnsweredSound ==
  ASSUME ClientTypeOK, Fresh, NEW k \in Connections,
         NEW answer \in {"lost", "refused", "401"}, Answered(k, answer),
         rows' = rows
  PROVE  /\ post' \in [Connections -> PostType]
         /\ \A j \in Connections : PostSound(j)'
<1>1. /\ post \in [Connections -> PostType]
      /\ post' = [post EXCEPT ![k] =
           IF post[k] = NoPost THEN post[k] ELSE [post[k] EXCEPT !.answer = answer]]
  BY DEF ClientTypeOK, Answered
<1>2. PICK q \in PostType :
        /\ q = IF post[k] = NoPost THEN post[k]
               ELSE [post[k] EXCEPT !.answer = answer]
        /\ q # NoPost => post[k] # NoPost
        /\ q.account = post[k].account /\ q.row = post[k].row
  <2>1. ASSUME NEW r \in PostType, NEW q, q = [r EXCEPT !.answer = answer]
        PROVE  q \in PostType /\ q.account = r.account /\ q.row = r.row
    BY <2>1 DEF PostType
  <2>2. post[k] \in PostType
    BY <1>1
  <2> QED
    BY <2>1, <2>2
<1>3. /\ post' \in [Connections -> PostType]
      /\ \A j \in Connections : post'[j] = IF j = k THEN q ELSE post[j]
  BY <1>1, <1>2
<1> SUFFICES ASSUME NEW j \in Connections PROVE PostSound(j)'
  BY <1>3
<1>4. PostSound(j) /\ PostSound(k)
  BY DEF Fresh
<1>5. CASE j = k
  BY <1>2, <1>3, <1>4, <1>5 DEF PostSound
<1>6. CASE j # k
  BY <1>3, <1>4, <1>6 DEF PostSound
<1> QED
  BY <1>5, <1>6

LEMMA UploadInductive ==
  ASSUME ClientInductive, NEW k \in Connections, Upload(k)
  PROVE  ClientInductive'
<1>1. /\ ClientTypeOK /\ Fresh /\ rows' = rows /\ rows' \in [Accounts -> Nat]
      /\ session' = session /\ signed' = signed /\ expired' = expired
      /\ apiToken' = apiToken /\ ctx' = ctx /\ panel' = panel /\ load' = load
      /\ told' = told /\ page' = page
  BY DEF ClientInductive, Upload, ClientTypeOK
<1>2. post' = post \/ Answered(k, "lost")
  BY DEF Upload
<1>3. /\ post' \in [Connections -> PostType]
      /\ \A j \in Connections : PostSound(j)'
  <2>1. CASE post' = post
    <3>1. post' \in [Connections -> PostType]
      BY <1>1, <2>1 DEF ClientTypeOK
    <3> QED
      BY <1>1, <2>1, <3>1, SamePosts
  <2>2. CASE Answered(k, "lost")
    BY <1>1, <2>2, AnsweredSound
  <2> QED
    BY <1>2, <2>1, <2>2
<1> QED
  BY <1>1, <1>3, SameBooks, SamePageBusy, PostStep

\* A movement that is recorded is the last of its account.
LEMMA RecordedRows ==
  ASSUME ClientTypeOK, NEW a \in Accounts, Recorded(a)
  PROVE  /\ rows' \in [Accounts -> Nat] /\ RowsGrow
         /\ rows'[a] \in Nat
<1>1. rows' = [rows EXCEPT ![a] = @ + 1]
  BY Zenon DEF Recorded
<1> QED
  BY <1>1 DEF ClientTypeOK, RowsGrow

LEMMA GrowingPosts ==
  ASSUME ClientTypeOK, Fresh, RowsGrow, rows' \in [Accounts -> Nat],
         NEW j \in Connections, post'[j] = post[j]
  PROVE  PostSound(j)'
<1> SUFFICES ASSUME post[j] # NoPost
             PROVE  /\ post[j].account \in Accounts
                    /\ post[j].row <= rows'[post[j].account]
  BY DEF PostSound
<1>1. post[j].account \in Accounts /\ post[j].row <= rows[post[j].account]
      /\ post[j].row \in Nat
  BY DEF Fresh, PostSound, ClientTypeOK, PostType
<1>2. rows'[post[j].account] >= rows[post[j].account]
      /\ rows[post[j].account] \in Nat /\ rows'[post[j].account] \in Nat
  BY <1>1 DEF RowsGrow, ClientTypeOK
<1> QED
  BY <1>1, <1>2

LEMMA ServePostInductive ==
  ASSUME ClientInductive, NEW k \in Connections, ServePost(k)
  PROVE  ClientInductive'
<1>1. /\ ClientTypeOK /\ Fresh
      /\ session' = session /\ signed' = signed /\ expired' = expired
      /\ apiToken' = apiToken /\ ctx' = ctx /\ panel' = panel /\ load' = load
      /\ told' = told /\ page' = page
      /\ rows \in [Accounts -> Nat] /\ post \in [Connections -> PostType]
  BY DEF ClientInductive, ServePost, ClientTypeOK
<1>2. CASE post' = post /\ rows' = rows
  BY <1>1, <1>2, SamePosts, SameBooks, SamePageBusy, PostStep
<1>3. ASSUME post' = post, NEW a \in Accounts, Recorded(a)
      PROVE  ClientInductive'
  <2>1. rows' \in [Accounts -> Nat] /\ RowsGrow
    BY <1>1, <1>3, RecordedRows
  <2>2. \A j \in Connections : PostSound(j)'
    BY <1>1, <1>3, <2>1, GrowingPosts
  <2> QED
    BY <1>1, <1>3, <2>1, <2>2, SamePageBusy, PostStep
<1>4. CASE /\ post[k] # NoPost
           /\ Recorded(post[k].account)
           /\ post' = [post EXCEPT ![k].row = rows'[post[k].account],
                                   ![k].answer = "recorded"]
  <2> DEFINE a == post[k].account
  <2>1. a \in Accounts
    BY <1>1, <1>4 DEF Fresh, PostSound
  <2>2. rows' \in [Accounts -> Nat] /\ RowsGrow /\ rows'[a] \in Nat
    BY <1>1, <1>4, <2>1, RecordedRows
  <2> HIDE DEF a
  <2>3. post'[k] = [post[k] EXCEPT !.row = rows'[a], !.answer = "recorded"]
        /\ \A j \in Connections \ {k} : post'[j] = post[j]
    BY <1>1, <1>4 DEF a
  <2>4. /\ post'[k] \in PostType /\ post'[k].account = a
        /\ post'[k].row = rows'[a]
    <3>1. PICK r, n, q :
            /\ r \in PostType /\ n \in Nat
            /\ r = post[k] /\ n = rows'[a] /\ q = post'[k]
      BY <1>1, <2>2
    <3>2. q = [r EXCEPT !.row = n, !.answer = "recorded"]
      BY <2>3, <3>1
    <3>3. q \in PostType /\ q.account = r.account /\ q.row = n
      BY <3>1, <3>2 DEF PostType
    <3> QED
      BY <3>1, <3>3 DEF a
  <2>5. post' \in [Connections -> PostType]
    BY <1>1, <1>4, <2>3, <2>4
  <2>6. PostSound(k)'
    BY <2>1, <2>2, <2>4 DEF PostSound
  <2>7. \A j \in Connections : PostSound(j)'
    BY <1>1, <2>2, <2>3, <2>6, GrowingPosts
  <2> QED
    BY <1>1, <2>2, <2>5, <2>7, SamePageBusy, PostStep
<1>5. ASSUME NEW answer \in {"refused", "401"}, Answered(k, answer), rows' = rows
      PROVE  ClientInductive'
  <2>1. /\ post' \in [Connections -> PostType]
        /\ \A j \in Connections : PostSound(j)'
    BY <1>1, <1>5, AnsweredSound
  <2> QED
    BY <1>1, <1>5, <2>1, SameBooks, SamePageBusy, PostStep
<1>6. CASE post[k] = NoPost
  <2>1. post' = post /\ (rows' = rows \/ \E a \in Accounts : Recorded(a))
    BY <1>6 DEF ServePost
  <2> QED
    BY <1>2, <1>3, <2>1
<1>7. CASE post[k] # NoPost
  BY <1>4, <1>5, <1>7 DEF ServePost
<1> QED
  BY <1>6, <1>7

LEMMA MaxOfTwo ==
  ASSUME NEW m \in Nat, NEW n \in Nat
  PROVE  Max({m, n}) \in {m, n} /\ Max({m, n}) >= m /\ Max({m, n}) >= n
<1>1. \E x \in {m, n} : \A y \in {m, n} : x >= y
  <2>1. CASE m >= n
    BY <2>1
  <2>2. CASE ~(m >= n)
    BY <2>2
  <2> QED
    BY <2>1, <2>2
<1> QED
  BY <1>1 DEF Max

LEMMA ReturnedPosts ==
  ASSUME ClientTypeOK, Fresh, rows' = rows, NEW k \in Connections,
         post' = [post EXCEPT ![k] = NoPost]
  PROVE  /\ post' \in [Connections -> PostType]
         /\ \A j \in Connections : PostSound(j)'
<1>1. /\ post' \in [Connections -> PostType] /\ post'[k] = NoPost
      /\ \A j \in Connections \ {k} : post'[j] = post[j]
  BY Empties DEF ClientTypeOK
<1> SUFFICES ASSUME NEW j \in Connections PROVE PostSound(j)'
  BY <1>1
<1>2. CASE j = k
  BY <1>1, <1>2 DEF PostSound
<1>3. CASE j # k
  BY <1>1, <1>3 DEF PostSound, Fresh
<1> QED
  BY <1>2, <1>3

LEMMA PostReturnsInductive ==
  ASSUME ClientInductive, NEW k \in Connections, PostReturns(k)
  PROVE  ClientInductive'
<1> DEFINE q == post[k]
<1>1. /\ ClientTypeOK /\ Fresh /\ Unbroken
      /\ signed' = signed /\ expired' = expired /\ rows' = rows
      /\ q # NoPost /\ q \in PostType
  BY DEF ClientInductive, PostReturns, ClientTypeOK
<1>2. /\ rows' \in [Accounts -> Nat] /\ told \in [Accounts -> Nat]
      /\ q.account \in Accounts /\ q.row <= rows[q.account] /\ q.row \in Nat
      /\ q.session \in Nat /\ q.page \in BOOLEAN /\ session \in Nat
      /\ load \in [Loads -> LoadType]
  BY <1>1 DEF ClientTypeOK, Fresh, PostSound, PostType
<1>3. CASE q.answer = "401" /\ apiToken # NULL /\ session # NULL
  <2>1. Expel /\ told' = told
    BY <1>3 DEF PostReturns
  <2> QED
    BY <1>1, <2>1, ExpelInductive
<1>4. CASE ~(q.answer = "401" /\ apiToken # NULL /\ session # NULL)
  <2>1. /\ post' = [post EXCEPT ![k] = NoPost]
        /\ session' = session /\ panel' = panel
    BY <1>4 DEF PostReturns
  <2>2. /\ post' \in [Connections -> PostType]
        /\ \A j \in Connections : PostSound(j)'
    BY <1>1, <2>1, ReturnedPosts
  <2>3. CASE q.answer # "recorded"
    <3>1. /\ page' = [page EXCEPT !.busy = @ /\ ~q.page]
          /\ apiToken' = apiToken /\ ctx' = ctx /\ load' = load
          /\ told' = told
      BY <1>4, <2>3, Zenon DEF PostReturns
    <3>2. page' = [page EXCEPT !.busy = page'.busy] /\ page'.busy \in BOOLEAN
      <4>1. ASSUME NEW g \in [tab : {"away", "Recent", "form"},
                              account : Accounts \cup {NULL}, busy : BOOLEAN],
                   NEW b \in BOOLEAN, NEW h, h = [g EXCEPT !.busy = b]
            PROVE  h = [g EXCEPT !.busy = h.busy] /\ h.busy \in BOOLEAN
        BY <4>1
      <4>2. page.busy \in BOOLEAN
        BY <1>1 DEF ClientTypeOK
      <4> QED
        BY <1>1, <1>2, <3>1, <4>1, <4>2 DEF ClientTypeOK
    <3> QED
      BY <1>1, <1>2, <2>1, <2>2, <3>1, <3>2, SameBooks, PostStep
  <2>4. CASE q.answer = "recorded" /\ q.session = session
    <3> DEFINE x == IF q.page THEN "page" ELSE "left"
    <3>1. /\ Reloading(session, x, q.account) /\ page' = page
          /\ told' = [told EXCEPT ![q.account] = Max({@, q.row})]
      BY <1>4, <2>4 DEF PostReturns
    <3>2. x \in {"nothing", "page", "left"}
      OBVIOUS
    <3> HIDE DEF x
    <3>3. /\ told' \in [Accounts -> Nat]
          /\ \A a \in Accounts : told'[a] <= rows[a]
      <4>1. /\ Max({told[q.account], q.row}) \in Nat
            /\ Max({told[q.account], q.row}) <= rows[q.account]
        <5>1. told[q.account] \in Nat /\ told[q.account] <= rows[q.account]
          BY <1>1, <1>2 DEF Fresh
        <5>2. Max({told[q.account], q.row}) \in {told[q.account], q.row}
          BY <1>2, <5>1, MaxOfTwo
        <5> QED
          BY <1>2, <5>1, <5>2
      <4> QED
        BY <1>1, <1>2, <3>1, <4>1 DEF Fresh
    <3>4. /\ load' \in [Loads -> LoadType] /\ apiToken' = session
          /\ ctx' \in [latest : Loads \cup {NULL}, list : Lists, error : BOOLEAN]
          /\ Fresh' /\ SameRecent
      BY <1>1, <1>2, <2>2, <3>1, <3>2, <3>3, ReloadingFresh
    <3>5. ClientTypeOK'
      BY <1>1, <1>2, <2>1, <2>2, <3>1, <3>3, <3>4 DEF ClientTypeOK
    <3> QED
      BY <1>1, <2>1, <3>1, <3>4, <3>5, SameBooks, SamePage, UnbrokenKept
      DEF ClientInductive
  <2>5. CASE q.answer = "recorded" /\ q.session # session
    <3> DEFINE s == Min(Slots(load))
    <3>1. /\ HasRoom(load) /\ apiToken' = q.session
          /\ load' = Sent(load,
               Orphan(AccountsLoad(q.session, "left", q.account)))
          /\ ctx' = ctx /\ page' = page /\ told' = told
      BY <1>4, <2>5 DEF PostReturns
    <3>2. AccountsLoad(q.session, "left", q.account) \in LoadType
      BY <1>2, NewAccountsLoad
    <3>3. PICK r \in LoadType :
            /\ r = Orphan(AccountsLoad(q.session, "left", q.account))
            /\ r.kind \in {"none", "orphan"}
      BY <3>2, OrphanLoad
    <3>4. /\ load' \in [Loads -> LoadType]
          /\ \A i \in Loads : load'[i] = IF i = s THEN r ELSE load[i]
      <4>1. load' = Sent(load, r)
        BY <3>1, <3>3
      <4> QED
        BY <1>2, <3>1, <4>1, SentLoad
    <3>5. load[s].kind = "none"
      BY <3>1, FreePlace DEF NoLoad
    <3>6. SameAccounts /\ SameRecent
      BY <3>3, <3>4, <3>5 DEF SameAccounts, SameRecent
    <3>7. ClientTypeOK'
      BY <1>1, <1>2, <2>1, <2>2, <3>1, <3>4 DEF ClientTypeOK
    <3>8. Fresh'
      BY <1>1, <2>1, <2>2, <3>1, <3>6, <3>7, SameBooks, FreshKept
    <3> QED
      BY <1>1, <2>1, <3>1, <3>6, <3>7, <3>8, SameBooks, SamePage, UnbrokenKept
      DEF ClientInductive
  <2> QED
    BY <2>3, <2>4, <2>5
<1> QED
  BY <1>3, <1>4

\* A page of recent transactions: neighbours in the books, and the books go on
\* where it ends.
LEMMA RecentPage ==
  ASSUME ClientTypeOK, NEW a \in Accounts, NEW n \in Nat,
         NEW data, data = Recent(a, n)
  PROVE  /\ data \in Items
         /\ \A j \in DOMAIN data : data[j] = <<a, data[1][2] + 1 - j>>
         /\ Continues(data, n + Len(data))
         /\ data # <<>> => data[1][2] = rows[a] - n
<1> DEFINE left == IF n > rows[a] THEN 0 ELSE rows[a] - n
           m == Min({PageSize, left})
<1>1. rows[a] \in Nat /\ left \in Nat /\ PageSize \in Nat
  BY WebClientAssumption DEF ClientTypeOK
<1>2. m \in Nat /\ m <= left
  BY <1>1, MinIsMember
<1>3. data = [i \in 1..m |-> <<a, left + 1 - i>>]
  BY DEF Recent
<1> HIDE DEF m
<1>4. data \in Seq(Accounts \X Int) /\ Len(data) = m
  BY <1>1, <1>2, <1>3
<1>5. \A j \in 1..m : data[j] = <<a, left + 1 - j>>
  BY <1>3
<1>6. DOMAIN data = 1..m
  BY <1>3
<1> HIDE DEF left
<1>7. \A j \in 1..m : data[j][1] = a /\ data[j][2] = left + 1 - j
  BY <1>5
<1>8. m > 0 => left = rows[a] - n
  BY <1>1, <1>2 DEF left
<1>9. m > 0 => data[1][2] = left
  BY <1>1, <1>2, <1>7
<1>10. \A j \in DOMAIN data : data[j] = <<a, data[1][2] + 1 - j>>
  BY <1>2, <1>5, <1>6, <1>9
<1>11. Continues(data, n + Len(data))
  <2> SUFFICES ASSUME data # <<>>
               PROVE  LET last == data[Len(data)]
                      IN  rows[last[1]] - (n + Len(data)) >= last[2] - 1
    BY DEF Continues
  <2>1. m > 0
    BY <1>2, <1>4
  <2>2. data[m][1] = a /\ data[m][2] = left + 1 - m
    BY <1>2, <1>7, <2>1
  <2> QED
    BY <1>1, <1>2, <1>4, <1>8, <2>1, <2>2
<1>12. data # <<>> => m > 0
  BY <1>2, <1>4
<1> QED
  BY <1>4, <1>8, <1>9, <1>10, <1>11, <1>12 DEF Items

LEMMA ServeLoadInductive ==
  ASSUME ClientInductive, NEW i \in Loads, ServeLoad(i)
  PROVE  ClientInductive'
<1> DEFINE r == load[i]
           data == IF r.token \in expired THEN <<>>
                   ELSE IF r.kind = "accounts" THEN rows
                   ELSE IF r.kind = "recent" THEN Recent(r.account, r.offset)
                   ELSE <<>>
           answer == IF r.token \in expired THEN "401" ELSE "ok"
<1>1. /\ ClientTypeOK /\ Fresh /\ Unbroken
      /\ session' = session /\ signed' = signed /\ expired' = expired
      /\ apiToken' = apiToken /\ ctx' = ctx /\ page' = page /\ panel' = panel
      /\ post' = post /\ rows' = rows /\ told' = told
      /\ load \in [Loads -> LoadType] /\ r \in LoadType
      /\ rows \in [Accounts -> Nat] /\ r.answer = "none"
  BY DEF ClientInductive, ServeLoad, ClientTypeOK
<1>2. \/ load' = [load EXCEPT ![i] = NoLoad] /\ r.kind = "orphan"
      \/ load' = [load EXCEPT ![i] = [r EXCEPT !.answer = answer, !.data = data]]
  BY DEF ServeLoad
<1>3. r.kind = "recent" => r.account \in Accounts /\ r.offset \in Nat
  BY <1>1 DEF Unbroken, PageSound, LoadType
<1>4. /\ r.kind = "accounts" => data \in Lists
      /\ r.kind = "recent" => data \in Items
      /\ data \in Lists \cup Items
  BY <1>1, <1>3, RecentPage, Empties DEF Lists
<1>5. answer \in {"ok", "401"}
  OBVIOUS
<1> HIDE DEF data, answer
<1>6. /\ load'[i] \in LoadType
      /\ \/ load'[i].kind = "none" /\ r.kind = "orphan"
         \/ /\ load'[i].kind = r.kind /\ load'[i].answer = answer
            /\ load'[i].data = data /\ load'[i].account = r.account
            /\ load'[i].offset = r.offset /\ load'[i].append = r.append
  <2>1. CASE load' = [load EXCEPT ![i] = NoLoad] /\ r.kind = "orphan"
    BY <1>1, <2>1, Empties DEF NoLoad
  <2>2. CASE load' = [load EXCEPT ![i] =
                        [r EXCEPT !.answer = answer, !.data = data]]
    <3>1. load'[i] = [r EXCEPT !.answer = answer, !.data = data]
      BY <1>1, <2>2
    <3> QED
      BY <1>1, <1>4, <1>5, <3>1 DEF LoadType
  <2> QED
    BY <1>2, <2>1, <2>2
<1>7. /\ load' \in [Loads -> LoadType]
      /\ \A j \in Loads \ {i} : load'[j] = load[j]
  BY <1>1, <1>2, <1>6
<1>8. ClientTypeOK'
  BY <1>1, <1>7 DEF ClientTypeOK
<1>9. Fresh'
  <2>1. \A j \in Loads : load'[j].kind = "accounts" => load'[j].data \in Lists
    BY <1>1, <1>4, <1>6, <1>7 DEF Fresh
  <2>2. ContextSound'
    <3>1. r.kind = "accounts" /\ answer = "ok" =>
            \A a \in Accounts : data[a] >= told[a]
      BY <1>1 DEF data, answer, Fresh, ClientTypeOK
    <3> QED
      BY <1>1, <1>6, <1>7, <3>1 DEF ContextSound, Fresh, ClientTypeOK
  <2>3. AccountsFresh'
    BY <1>1 DEF AccountsFresh, Fresh
  <2> QED
    BY <1>1, <2>1, <2>2, <2>3, SamePosts DEF Fresh
<1>10. Unbroken'
  <2>1. CASE r.kind # "recent"
    <3>1. SameRecent
      BY <1>6, <1>7, <2>1 DEF SameRecent
    <3> QED
      BY <1>1, <1>8, <3>1, SameBooks, SamePage, UnbrokenKept
  <2>2. CASE r.kind = "recent"
    <3>1. PageSound(r) /\ panel.busy
      BY <1>1, <2>2 DEF Unbroken
    <3>2. PICK d \in Items, b \in Accounts, n \in Nat :
            d = data /\ b = r.account /\ n = r.offset
      BY <1>3, <1>4, <2>2
    <3>3. /\ load'[i].data = d /\ load'[i].account = b /\ load'[i].offset = n
          /\ load'[i].append = r.append
      BY <1>6, <2>2, <3>2
    <3>4. PageSound(load[i])'
      <4>1. CASE d = <<>>
        BY <1>1, <3>1, <3>2, <3>3, <4>1 DEF PageSound, Continues
      <4>2. CASE d # <<>>
        <5>1. d = Recent(b, n)
          BY <2>2, <3>2, <4>2 DEF data
        <5>2. /\ \A j \in DOMAIN d : d[j] = <<b, d[1][2] + 1 - j>>
              /\ Continues(d, n + Len(d))
              /\ d[1][2] = rows[b] - n
          BY <1>1, <4>2, <5>1, RecentPage
        <5>3. Continues(d, n + Len(d))'
          BY <1>1, <5>2 DEF Continues
        <5>4. r.append /\ panel.items # <<>>
                /\ panel.items[Len(panel.items)][1] = b =>
                  d[1][2] >= panel.items[Len(panel.items)][2] - 1
          BY <1>1, <3>1, <3>2, <5>2 DEF PageSound, Unbroken, Continues
        <5> QED
          BY <1>1, <3>1, <3>2, <3>3, <5>2, <5>3, <5>4 DEF PageSound, Continues
      <4> QED
        BY <4>1, <4>2
    <3>5. \A j \in Loads : load'[j].kind = "recent" => j = i
      BY <1>1, <1>7, <2>2 DEF Unbroken
    <3>6. \A j \in Loads : load'[j].kind = "recent" => PageSound(load[j])'
      BY <3>4, <3>5
    <3>7. Continues(panel.items, panel.offset)' /\ RecentUnbroken'
      BY <1>1 DEF Unbroken, Continues, RecentUnbroken
    <3> QED
      BY <1>1, <3>1, <3>5, <3>6, <3>7 DEF Unbroken
  <2> QED
    BY <2>1, <2>2
<1> QED
  BY <1>8, <1>9, <1>10 DEF ClientInductive

LEMMA Joined ==
  ASSUME NEW T, NEW x \in Seq(T), NEW y \in Seq(T)
  PROVE  /\ x \o y \in Seq(T) /\ Len(x \o y) = Len(x) + Len(y)
         /\ Len(x) \in Nat /\ Len(y) \in Nat
         /\ \A j \in 1..Len(x) : (x \o y)[j] = x[j]
         /\ \A j \in 1..Len(y) : (x \o y)[Len(x) + j] = y[j]
OBVIOUS

LEMMA NothingJoined ==
  ASSUME NEW T, NEW y \in Seq(T)
  PROVE  <<>> \o y = y
OBVIOUS

\* A page that comes goes on where the list ends, or begins it.
LEMMA PageComesUnbroken ==
  ASSUME ClientTypeOK, Unbroken, NEW r, r.kind = "recent", PageSound(r),
         r.offset \in Nat, r.append \in BOOLEAN,
         panel' = PageComes(r), rows' = rows, page' = page, page.tab = "Recent",
         \A j \in Loads : load'[j].kind # "recent"
  PROVE  panel' \in PanelType /\ Unbroken'
<1> DEFINE items == panel.items
           data == r.data
<1>1. /\ panel \in PanelType /\ items \in Items /\ panel.offset \in Nat
      /\ data \in Items /\ Continues(items, panel.offset)
      /\ r.append => r.offset = panel.offset
  BY DEF ClientTypeOK, PanelType, Unbroken, PageSound
<1>2. CASE r.answer # "ok"
  <2>1. panel' = [panel EXCEPT !.items = IF r.append THEN @ ELSE <<>>,
                               !.error = TRUE, !.busy = FALSE]
    BY <1>2 DEF PageComes
  <2>2. /\ panel' \in PanelType /\ panel'.offset = panel.offset
        /\ panel'.items = IF r.append THEN items ELSE <<>>
    BY <1>1, <2>1, Empties DEF PanelType
  <2>3. Continues(panel.items, panel.offset)' /\ RecentUnbroken'
    BY <2>2 DEF Continues, Unbroken, RecentUnbroken
  <2> QED
    BY <2>2, <2>3 DEF Unbroken
<1>3. CASE r.answer = "ok"
  <2>1. panel' = [panel EXCEPT !.items = IF r.append THEN @ \o r.data ELSE r.data,
                     !.offset = r.offset + Len(r.data),
                     !.more = Len(r.data) >= PageSize, !.busy = FALSE]
    BY <1>3, Zenon DEF PageComes
  <2>2. PICK x \in Items : x = IF r.append THEN items ELSE <<>>
    BY <1>1, Empties
  <2>3. PICK y \in Items : y = data
    BY <1>1
  <2>4. PICK all \in Items : all = x \o y
    BY Joined DEF Items
  <2>5. /\ Len(all) = Len(x) + Len(y) /\ Len(x) \in Nat /\ Len(y) \in Nat
        /\ \A j \in 1..Len(x) : all[j] = x[j]
        /\ \A j \in 1..Len(y) : all[Len(x) + j] = y[j]
    BY <2>4, Joined DEF Items
  <2>6. /\ panel' \in PanelType /\ panel'.items = all
        /\ panel'.offset = r.offset + Len(y)
    <3>1. (IF r.append THEN items \o data ELSE data) = all
      BY <2>2, <2>3, <2>4, NothingJoined DEF Items
    <3>2. PICK n \in Nat : n = r.offset + Len(data)
      BY <2>3, <2>5
    <3>3. (Len(data) >= PageSize) \in BOOLEAN
      OBVIOUS
    <3>4. PICK b \in BOOLEAN : b = (Len(data) >= PageSize)
      BY <3>3, Zenon
    <3>5. panel' = [panel EXCEPT !.items = all, !.offset = n, !.more = b,
                                 !.busy = FALSE]
      BY <2>1, <3>1, <3>2, <3>4, Zenon
    <3> QED
      BY <1>1, <2>3, <3>2, <3>5 DEF PanelType
  <2>7. Continues(all, r.offset + Len(y))
    <3>1. CASE y = <<>>
      <4>1. Len(y) = 0 /\ all = x
        BY <2>4, <3>1 DEF Items
      <4> QED
        BY <1>1, <2>2, <4>1 DEF Continues
    <3>2. CASE y # <<>>
      <4>1. Len(y) \in 1..Len(y) /\ Len(all) = Len(x) + Len(y)
        BY <2>5, <3>2 DEF Items
      <4>2. all[Len(all)] = y[Len(y)]
        BY <2>5, <4>1
      <4> QED
        BY <2>3, <3>2, <4>2 DEF PageSound, Continues
    <3> QED
      BY <3>1, <3>2
  <2>8. ASSUME NEW j \in 2..Len(all), all[j - 1][1] = all[j][1]
        PROVE  all[j][2] >= all[j - 1][2] - 1
    <3> DEFINE n == Len(x)
    <3>1. n \in Nat /\ Len(y) \in Nat /\ Len(all) = n + Len(y)
      BY <2>5
    <3> HIDE DEF n
    <3>2. CASE j <= n
      <4>1. all[j] = x[j] /\ all[j - 1] = x[j - 1] /\ j \in 2..Len(x)
        BY <2>5, <3>1, <3>2 DEF n
      <4>2. x = items
        BY <2>2, <4>1
      <4> QED
        BY <2>8, <4>1, <4>2 DEF Unbroken, RecentUnbroken
    <3>3. CASE j > n + 1
      <4>1. PICK k \in 2..Len(y) : j = n + k
        <5>1. j - n \in 2..Len(y) /\ j = n + (j - n)
          BY <3>1, <3>3
        <5> QED
          BY <5>1
      <4>2. k \in 1..Len(y) /\ k - 1 \in 1..Len(y) /\ 1 \in 1..Len(y)
        BY <3>1, <4>1
      <4>3. all[j] = y[k] /\ all[j - 1] = y[k - 1]
        <5>1. n + (k - 1) = j - 1
          BY <3>1, <4>1
        <5>2. all[n + k] = y[k] /\ all[n + (k - 1)] = y[k - 1]
          BY <2>5, <4>2 DEF n
        <5> QED
          BY <4>1, <5>1, <5>2
      <4>4. DOMAIN y = 1..Len(y) /\ y[1] \in Accounts \X Int
        BY <4>2 DEF Items
      <4>5. y[k] = <<r.account, y[1][2] + 1 - k>>
            /\ y[k - 1] = <<r.account, y[1][2] + 1 - (k - 1)>>
        BY <2>3, <4>2, <4>4 DEF PageSound
      <4>6. y[1][2] \in Int
        BY <4>4
      <4> QED
        BY <3>1, <4>1, <4>3, <4>5, <4>6
    <3>4. CASE j = n + 1
      <4>1. 1 \in 1..Len(y) /\ n \in 1..Len(x) /\ j - 1 = n
        BY <3>1, <3>4 DEF n
      <4>2. all[j] = y[1] /\ all[j - 1] = x[n]
        BY <2>5, <3>4, <4>1 DEF n
      <4>3. x = items /\ r.append /\ items # <<>> /\ y # <<>>
            /\ x[n] = items[Len(items)]
        BY <2>2, <4>1, Empties DEF n, Items
      <4>4. y[1][1] = r.account
        <5>1. 1 \in DOMAIN y
          BY <4>1 DEF Items
        <5>2. y[1] = <<r.account, y[1][2] + 1 - 1>>
          BY <2>3, <5>1 DEF PageSound
        <5> QED
          BY <5>2
      <4> QED
        BY <2>3, <2>8, <4>2, <4>3, <4>4 DEF PageSound
    <3> QED
      BY <3>1, <3>2, <3>3, <3>4
  <2>9. Continues(panel.items, panel.offset)'
    <3>1. PICK n \in Nat : n = r.offset + Len(y) /\ Continues(all, n)
      BY <2>5, <2>7
    <3> QED
      BY <2>6, <3>1 DEF Continues
  <2>10. RecentUnbroken'
    BY <2>6, <2>8 DEF RecentUnbroken
  <2> QED
    BY <2>6, <2>9, <2>10 DEF Unbroken
<1> QED
  BY <1>2, <1>3

\* Where the transactions page is after a load of accounts has ended.
LEMMA PageAfterType ==
  ASSUME ClientTypeOK, NEW r, r.account \in Accounts \cup {NULL}, NEW list,
         page' = PageAfter(r, list)
  PROVE  /\ page' \in [tab : {"away", "Recent", "form"},
                       account : Accounts \cup {NULL}, busy : BOOLEAN]
         /\ page'.tab # "Recent" => page'.tab = page.tab
<1> DEFINE account == IF page.tab # "away" /\ page.account = NULL /\ list # NoList
                      THEN Min(Accounts) ELSE page.account
<1>1. page \in [tab : {"away", "Recent", "form"},
                account : Accounts \cup {NULL}, busy : BOOLEAN]
      /\ account \in Accounts \cup {NULL}
  BY Constants DEF ClientTypeOK
<1>2. CASE r.after = "page"
  <2>1. page' = [tab |-> "Recent", account |-> account, busy |-> FALSE]
    BY <1>2 DEF PageAfter
  <2> QED
    BY <1>1, <2>1
<1>3. CASE r.after # "page" /\ r.after = "left" /\ page.tab = "away"
           /\ session # NULL
  <2>1. page' = [tab |-> "Recent", account |-> r.account, busy |-> FALSE]
    BY <1>3 DEF PageAfter
  <2> QED
    BY <1>1, <2>1
<1>4. CASE r.after # "page" /\ ~(r.after = "left" /\ page.tab = "away"
                                 /\ session # NULL)
  <2>1. page' = [page EXCEPT !.account = account]
    BY <1>4 DEF PageAfter
  <2> HIDE DEF account
  <2> QED
    BY <1>1, <2>1
<1> QED
  BY <1>2, <1>3, <1>4

LEMMA ArriveInductive ==
  ASSUME ClientInductive, NEW i \in Loads, Arrive(i)
  PROVE  ClientInductive'
<1> DEFINE others == [load EXCEPT ![i] = NoLoad]
<1>0. PICK answer \in {load[i].answer, "failed"} \ {"none"} :
        LET r == [load[i] EXCEPT !.answer = answer,
                                 !.data = IF answer = "ok" THEN @ ELSE <<>>]
        IN  /\ r.kind # "none"
            /\ IF answer = "401" /\ apiToken # NULL /\ session # NULL
               THEN Expel
               ELSE /\ UNCHANGED <<session, apiToken, post>>
                    /\ IF r.kind = "recent"
                       THEN panel' = PageComes(r) /\ load' = others
                            /\ UNCHANGED <<ctx, page>>
                       ELSE /\ ctx' = AccountsCome(i, r)
                            /\ page' = PageAfter(r, ctx'.list)
                            /\ IF page'.tab = "Recent"
                                  /\ (r.after = "page"
                                      \/ <<page'.tab, page'.account>>
                                           # <<page.tab, page.account>>)
                               THEN ResetPanel(panel, others, page'.account)
                               ELSE panel' = panel /\ load' = others
            /\ UNCHANGED <<signed, expired, rows, told, uploads>>
  BY DEF Arrive
<1>1. PICK r :
        /\ r = [load[i] EXCEPT !.answer = answer,
                               !.data = IF answer = "ok" THEN @ ELSE <<>>]
        /\ r.kind # "none"
        /\ IF answer = "401" /\ apiToken # NULL /\ session # NULL
           THEN Expel
           ELSE /\ UNCHANGED <<session, apiToken, post>>
                /\ IF r.kind = "recent"
                   THEN panel' = PageComes(r) /\ load' = others
                        /\ UNCHANGED <<ctx, page>>
                   ELSE /\ ctx' = AccountsCome(i, r)
                        /\ page' = PageAfter(r, ctx'.list)
                        /\ IF page'.tab = "Recent"
                              /\ (r.after = "page"
                                  \/ <<page'.tab, page'.account>>
                                       # <<page.tab, page.account>>)
                           THEN ResetPanel(panel, others, page'.account)
                           ELSE panel' = panel /\ load' = others
        /\ UNCHANGED <<signed, expired, rows, told, uploads>>
  BY <1>0, Zenon
<1>2. /\ ClientTypeOK /\ Fresh /\ Unbroken
      /\ signed' = signed /\ expired' = expired /\ rows' = rows /\ told' = told
      /\ load \in [Loads -> LoadType] /\ load[i] \in LoadType
      /\ panel \in PanelType /\ apiToken \in Nat
      /\ page \in [tab : {"away", "Recent", "form"},
                   account : Accounts \cup {NULL}, busy : BOOLEAN]
      /\ ctx \in [latest : Loads \cup {NULL}, list : Lists, error : BOOLEAN]
      /\ session \in Nat /\ post \in [Connections -> PostType]
  BY <1>1 DEF ClientInductive, ClientTypeOK
<1>3. /\ r.kind = load[i].kind /\ r.account = load[i].account
      /\ r.offset = load[i].offset /\ r.append = load[i].append
      /\ r.answer = answer /\ r.after = load[i].after
      /\ r.data = IF answer = "ok" THEN load[i].data ELSE <<>>
      /\ answer = "ok" => load[i].answer = "ok"
  BY <1>1, <1>2 DEF LoadType
<1>4. /\ others \in [Loads -> LoadType] /\ others[i] = NoLoad
      /\ \A j \in Loads \ {i} : others[j] = load[j]
      /\ HasRoom(others) /\ NoLoad.kind = "none"
  BY <1>2, Empties DEF HasRoom, Slots, NoLoad
<1> HIDE DEF others
<1>5. CASE answer = "401" /\ apiToken # NULL /\ session # NULL
  BY <1>1, <1>2, <1>5, ExpelInductive
<1>6. CASE /\ ~(answer = "401" /\ apiToken # NULL /\ session # NULL)
           /\ r.kind = "recent"
  <2>1. /\ session' = session /\ apiToken' = apiToken /\ post' = post
        /\ panel' = PageComes(r) /\ load' = others /\ ctx' = ctx
        /\ page' = page
    BY <1>1, <1>6
  <2>2. PageSound(load[i]) /\ panel.busy
        /\ \A j \in Loads : load[j].kind = "recent" => j = i
    BY <1>2, <1>3, <1>6 DEF Unbroken
  <2>3. page.tab = "Recent"
    BY <1>2, <2>2 DEF Unbroken, NoPanel
  <2>4. PageSound(r) /\ r.offset \in Nat /\ r.append \in BOOLEAN
    <3>1. PICK d : d = r.data /\ (d = <<>> \/ d = load[i].data)
      BY <1>3
    <3>2. CASE d = <<>>
      BY <1>2, <1>3, <2>2, <3>1, <3>2, Empties DEF PageSound, Continues, LoadType
    <3>3. CASE d = load[i].data
      BY <1>2, <1>3, <2>2, <3>1, <3>3 DEF PageSound, LoadType
    <3> QED
      BY <3>1, <3>2, <3>3
  <2>5. \A j \in Loads : load'[j].kind # "recent"
    BY <1>4, <2>1, <2>2
  <2>6. panel' \in PanelType /\ Unbroken'
    BY <1>2, <1>6, <2>1, <2>3, <2>4, <2>5, PageComesUnbroken
  <2>7. SameAccounts
    BY <1>3, <1>4, <1>6, <2>1 DEF SameAccounts
  <2>8. ClientTypeOK' /\ Fresh'
    BY <1>2, <1>4, <2>1, <2>6, <2>7, SamePosts, PageStep
  <2> QED
    BY <2>6, <2>8 DEF ClientInductive
<1>7. CASE /\ ~(answer = "401" /\ apiToken # NULL /\ session # NULL)
           /\ r.kind # "recent"
  <2>1. /\ session' = session /\ apiToken' = apiToken /\ post' = post
        /\ ctx' = AccountsCome(i, r) /\ page' = PageAfter(r, ctx'.list)
        /\ \/ page'.tab = "Recent" /\ ResetPanel(panel, others, page'.account)
           \/ panel' = panel /\ load' = others
    BY <1>1, <1>7
  <2>2. /\ page' \in [tab : {"away", "Recent", "form"},
                      account : Accounts \cup {NULL}, busy : BOOLEAN]
        /\ page'.tab # "Recent" => page'.tab = page.tab
    <3>1. r.account \in Accounts \cup {NULL}
      BY <1>2, <1>3 DEF LoadType
    <3> QED
      BY <1>2, <2>1, <3>1, PageAfterType
  <2>3. /\ panel' \in PanelType /\ load' \in [Loads -> LoadType]
        /\ \A j \in Loads : load'[j] # others[j] =>
             others[j] = NoLoad /\ load'[j].kind = "recent"
    <3>1. CASE page'.tab = "Recent" /\ ResetPanel(panel, others, page'.account)
      <4>1. page'.account \in Accounts \cup {NULL}
        BY <2>2
      <4> QED
        BY <1>2, <1>4, <3>1, <4>1, ResetPanelLoads
    <3>2. CASE panel' = panel /\ load' = others
      BY <1>2, <1>4, <3>2
    <3> QED
      BY <2>1, <3>1, <3>2
  <2>4. /\ \A j \in Loads : load'[j].kind = "accounts" =>
             j # i /\ load'[j] = load[j]
        /\ \A j \in Loads \ {i} : load[j].kind = "accounts" => load'[j] = load[j]
    BY <1>4, <2>3
  <2>5. /\ r.kind = "accounts" => r.data \in Lists
        /\ r.answer # "ok" => r.data = NoList
    BY <1>2, <1>3, Empties DEF Fresh, NoList
  <2>6. ASSUME r.kind = "accounts", ctx.latest = i
        PROVE  ClientTypeOK' /\ Fresh'
    <3>1. /\ ctx' = [latest |-> NULL, list |-> r.data, error |-> r.answer # "ok"]
      BY <2>1, <2>6, Zenon DEF AccountsCome
    <3>2. ctx'.latest = NULL /\ ctx'.list = r.data /\ ctx'.error \in BOOLEAN
          /\ ctx' \in [latest : Loads \cup {NULL}, list : Lists, error : BOOLEAN]
      <4>1. PICK b \in BOOLEAN : b = (r.answer # "ok")
        BY Zenon
      <4>2. ctx' = [latest |-> NULL, list |-> r.data, error |-> b]
        BY <3>1, <4>1, Zenon
      <4> QED
        BY <2>5, <2>6, <4>2
    <3>3. AccountsFresh'
      <4>1. answer = "ok" => \A a \in Accounts : r.data[a] >= told[a]
        BY <1>2, <1>3, <2>6, Empties DEF Fresh, ContextSound
      <4> QED
        BY <1>2, <1>3, <2>5, <3>2, <4>1 DEF AccountsFresh
    <3>4. ContextSound'
      BY <3>2 DEF ContextSound
    <3>5. Fresh'
      BY <1>2, <2>1, <2>4, <3>3, <3>4, SamePosts DEF Fresh
    <3>6. ClientTypeOK'
      BY <1>2, <2>1, <2>2, <2>3, <3>2 DEF ClientTypeOK
    <3> QED
      BY <3>5, <3>6
  <2>7. ASSUME ~(r.kind = "accounts" /\ ctx.latest = i)
        PROVE  ClientTypeOK' /\ Fresh'
    <3>1. ctx' = ctx
      BY <2>1, <2>7, Zenon DEF AccountsCome
    <3>2. ClientTypeOK'
      BY <1>2, <2>1, <2>2, <2>3, <3>1 DEF ClientTypeOK
    <3>3. ContextSound'
      <4>1. ctx.latest # NULL => ctx.latest \in Loads \ {i}
        BY <1>2, <1>3, <2>7 DEF Fresh, ContextSound
      <4> QED
        BY <1>2, <2>4, <3>1, <4>1 DEF Fresh, ContextSound
    <3>4. AccountsFresh'
      BY <1>2, <2>1, <3>1 DEF Fresh, AccountsFresh
    <3>5. Fresh'
      BY <1>2, <2>1, <2>4, <3>3, <3>4, SamePosts DEF Fresh
    <3> QED
      BY <3>2, <3>5
  <2>8. ClientTypeOK' /\ Fresh'
    BY <2>6, <2>7
  <2>9. CASE page'.tab = "Recent" /\ ResetPanel(panel, others, page'.account)
    <3>1. \A j \in Loads : others[j].kind = "recent" => load[j] = others[j]
      BY <1>4
    <3>2. PICK a \in Accounts \cup {NULL} : a = page'.account
      BY <2>2
    <3>3. Unbroken'
      BY <1>2, <1>4, <2>9, <3>1, <3>2, ResetUnbroken
    <3> QED
      BY <2>8, <3>3 DEF ClientInductive
  <2>10. CASE panel' = panel /\ load' = others
    <3>1. SameRecent
      BY <1>3, <1>4, <1>7, <2>10 DEF SameRecent
    <3>2. page'.tab = "Recent" \/ panel = NoPanel
      BY <1>2, <2>2 DEF Unbroken
    <3>3. Unbroken'
      BY <1>2, <2>8, <2>10, <3>1, <3>2, SameBooks, UnbrokenKept
    <3> QED
      BY <2>8, <3>3 DEF ClientInductive
  <2> QED
    BY <2>1, <2>9, <2>10
<1> QED
  BY <1>5, <1>6, <1>7

(***************************************************************************)
(* The theorems.                                                           *)
(***************************************************************************)

LEMMA StutterClient ==
  ASSUME ClientInductive, UNCHANGED vars PROVE ClientInductive'
<1>1. /\ ClientTypeOK /\ Fresh /\ Unbroken
      /\ session' = session /\ signed' = signed /\ expired' = expired
      /\ apiToken' = apiToken /\ ctx' = ctx /\ page' = page /\ panel' = panel
      /\ load' = load /\ post' = post /\ rows' = rows /\ told' = told
  BY DEF ClientInductive, vars, client
<1>2. rows' \in [Accounts -> Nat] /\ post' \in [Connections -> PostType]
  BY <1>1 DEF ClientTypeOK
<1> QED
  BY <1>1, <1>2, SamePosts, SameBooks, SamePageBusy, PostStep

LEMMA NextClient == ClientInductive /\ [Next]_vars => ClientInductive'
<1> SUFFICES ASSUME ClientInductive, [Next]_vars PROVE ClientInductive'
  OBVIOUS
<1>1. CASE \/ SignIn \/ SignOut \/ Expire \/ Reload
           \/ OpenPage \/ LeavePage \/ SwitchTab \/ ChooseAccount
           \/ Scroll \/ Retry \/ Submit
  BY <1>1, SignInInductive, SignOutInductive, ExpireInductive, ReloadInductive,
     OpenPageInductive, LeavePageInductive, SwitchTabInductive,
     ChooseAccountInductive, ScrollInductive, RetryInductive, SubmitInductive
<1>2. ASSUME NEW k \in Connections, Upload(k) \/ ServePost(k) \/ PostReturns(k)
      PROVE  ClientInductive'
  BY <1>2, UploadInductive, ServePostInductive, PostReturnsInductive
<1>3. ASSUME NEW i \in Loads, ServeLoad(i) \/ Arrive(i)
      PROVE  ClientInductive'
  BY <1>3, ServeLoadInductive, ArriveInductive
<1>4. CASE UNCHANGED vars
  BY <1>4, StutterClient
<1> QED
  BY <1>1, <1>2, <1>3, <1>4 DEF Next

\* The whole invariant: the types, the bodies, and what keeps the two lists.
THEOREM InductiveHolds == Spec => []Inductive
<1>1. Init => UploadsInductive /\ ClientInductive
  BY UploadsStartInductive, StartClient DEF Init
<1>2. UploadsInductive /\ ClientInductive => Inductive
  BY DEF ClientInductive, Inductive
<1> QED
  BY <1>1, <1>2, NextUploads, NextClient, PTL DEF Spec

\* In whatever order the answers to any number of loads and POSTs arrive, over
\* any number of sessions: when no load of the accounts counts any more, the
\* accounts shown contain every movement the page was told is recorded.
THEOREM AccountsFreshHolds == Spec => []AccountsFresh
<1>1. Inductive => AccountsFresh
  BY DEF Inductive, Fresh
<1> QED
  BY <1>1, InductiveHolds, PTL

\* For pages of any size: whatever is recorded while the list of recent
\* transactions is scrolled, and whichever pages fail and are asked for again,
\* no movement is missing between two neighbours of one account.
THEOREM RecentUnbrokenHolds == Spec => []RecentUnbroken
<1>1. Inductive => RecentUnbroken
  BY DEF Inductive, Unbroken
<1> QED
  BY <1>1, InductiveHolds, PTL
=============================================================================

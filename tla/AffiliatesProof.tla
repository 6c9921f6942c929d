---------------------------- MODULE AffiliatesProof ----------------------------
(****************************************************************************)
(* What is proved of the affiliates, whatever the number of servers, users, *)
(* accounts, links and versions of the tables.                              *)
(****************************************************************************)
EXTENDS Affiliates, FiniteSetTheorems, SequenceTheorems, TLAPS

(***************************************************************************)
(* Orders.                                                                 *)
(***************************************************************************)

LEMMA OrderHas ==
  ASSUME NEW S, IsFiniteSet(S), NEW R, NEW o \in Orders(S, R)
  PROVE  /\ o \in Seq(S) /\ Len(o) = Cardinality(S) /\ Len(o) \in Nat
         /\ DOMAIN o = 1..Len(o) /\ \A i \in 1..Len(o) : o[i] \in S
         /\ \A i, j \in 1..Len(o) : o[i] = o[j] => i = j
         /\ \A i, j \in 1..Len(o) : i < j => <<o[i], o[j]>> \in R
         /\ \A x \in S : \E i \in 1..Len(o) : o[i] = x
<1> DEFINE n == Cardinality(S)
<1>1. n \in Nat
  BY FS_CardinalityType
<1>2. /\ o \in [1..n -> S]
      /\ \A i, j \in 1..n : i # j => o[i] # o[j]
      /\ \A i, j \in DOMAIN o : i < j => <<o[i], o[j]>> \in R
  BY DEF Orders, SetToSeqs
<1> HIDE DEF n
<1>3. o \in Seq(S) /\ Len(o) = n /\ DOMAIN o = 1..n
  BY <1>1, <1>2
<1>4. ASSUME NEW x \in S
      PROVE  \E i \in 1..n : o[i] = x
  <2> SUFFICES ASSUME \A i \in 1..n : o[i] # x
               PROVE  FALSE
    OBVIOUS
  <2> DEFINE T == S \ {x}
  <2>1. o \in [1..n -> T]
    BY <1>2
  <2>2. IsFiniteSet(T) /\ Cardinality(T) = n - 1
    BY FS_RemoveElement DEF n
  <2>3. IsFiniteSet(1..n) /\ Cardinality(1..n) = n
    <3>1. 1 \in Int /\ n \in Int
      BY <1>1
    <3>2. IsFiniteSet(1..n) /\ Cardinality(1..n) = IF 1 > n THEN 0 ELSE n - 1 + 1
      BY <3>1, FS_Interval
    <3> QED
      BY <1>1, <3>2
  <2>4. \E i, j \in 1..n : i # j /\ o[i] = o[j]
    <3> HIDE DEF T
    <3> QED
      BY <1>1, <2>1, <2>2, <2>3, FS_PigeonHole
  <2> QED
    BY <1>2, <2>4
<1> QED
  BY <1>1, <1>2, <1>3, <1>4 DEF n

\* T: the values of f at the members of P that come before the ith in order o.
Precede(T, P, R, f, o, i) ==
  /\ IsFiniteSet(P) /\ o \in Orders(P, R) /\ i \in 1..Len(o)
  /\ \A x, y \in P : <<x, y>> \in R => <<y, x>> \notin R
  /\ \A x, y \in P : f[x] = f[y] => x = y
  /\ \A t : t \in T <=>
              \E p \in P : p # o[i] /\ <<p, o[i]>> \in R /\ t = f[p]

\* As many come before a member of an order as its place says.
LEMMA Placed ==
  ASSUME NEW T, NEW P, NEW R, NEW f, NEW o, NEW i, Precede(T, P, R, f, o, i)
  PROVE  Cardinality(T) = i - 1
<1> USE DEF Precede
<1>1. /\ o \in Seq(P) /\ Len(o) \in Nat
      /\ \A j \in 1..Len(o) : o[j] \in P
      /\ \A j, k \in 1..Len(o) : o[j] = o[k] => j = k
      /\ \A j, k \in 1..Len(o) : j < k => <<o[j], o[k]>> \in R
      /\ \A x \in P : \E j \in 1..Len(o) : o[j] = x
  BY OrderHas
<1> DEFINE n == i - 1
           g == [j \in 1..n |-> f[o[j]]]
<1>2. n \in Nat /\ \A j \in 1..n : j \in 1..Len(o) /\ j < i
  BY <1>1
<1>3. ASSUME NEW j \in 1..n
      PROVE  g[j] \in T
  <2>1. o[j] \in P /\ o[j] # o[i] /\ <<o[j], o[i]>> \in R
    BY <1>1, <1>2, <1>3
  <2> QED
    BY <2>1
<1>4. ASSUME NEW t \in T
      PROVE  \E j \in 1..n : g[j] = t
  <2>1. PICK p \in P : p # o[i] /\ <<p, o[i]>> \in R /\ t = f[p]
    OBVIOUS
  <2>2. PICK j \in 1..Len(o) : o[j] = p
    BY <1>1
  <2>3. j # i /\ ~(i < j)
    BY <1>1, <2>1, <2>2
  <2>4. j \in 1..n
    BY <1>1, <2>3
  <2> QED
    BY <2>1, <2>2, <2>4
<1>5. \A j, k \in 1..n : g[j] = g[k] => j = k
  BY <1>1, <1>2
<1>6. g \in Bijection(1..n, T)
  <2>1. g \in [1..n -> T]
    BY <1>3
  <2>2. DOMAIN g = 1..n
    OBVIOUS
  <2> HIDE DEF g
  <2> QED
    BY <1>4, <1>5, <2>1, <2>2
       DEF Bijection, Injection, Surjection, IsInjective
<1>7. ExistsBijection(1..n, T)
  BY <1>6 DEF ExistsBijection
<1> HIDE DEF n, g
<1>8. Cardinality(T) = n
  BY <1>2, <1>7, FS_CountingElements
<1> QED
  BY <1>8 DEF n

(***************************************************************************)
(* The frame.                                                              *)
(***************************************************************************)

Reply ==
  [kind : {"none", "ok", "invalid", "conflict", "notfound", "failed"},
   items : Seq(Row), total : Nat]

LEMMA NoAnswerIsReply ==
  /\ NoAnswer \in Reply /\ NoAnswer.kind = "none"
  /\ \A k \in {"ok", "invalid", "conflict", "notfound", "failed"} :
       /\ Said(k) \in Reply /\ Said(k).kind = k /\ Said(k).items = <<>>
<1>1. <<>> \in Seq(Row) /\ 0 \in Nat
  OBVIOUS
<1>2. NoAnswer \in Reply /\ NoAnswer.kind = "none" /\ NoAnswer.items = <<>>
  BY <1>1 DEF NoAnswer, Reply
<1>3. ASSUME NEW k \in {"ok", "invalid", "conflict", "notfound", "failed"}
      PROVE  Said(k) \in Reply /\ Said(k).kind = k /\ Said(k).items = <<>>
  BY <1>2, <1>3 DEF Said, Reply
<1> QED
  BY <1>2, <1>3

\* What a server knows stays true while the tables grow new versions.
LEMMA ServingGrows ==
  ASSUME NEW q, NEW label, NEW left, NEW made, NEW seen, NEW more,
         Serving(q, label, left, made, seen),
         seen \subseteq more, opened \subseteq opened'
  PROVE  Serving(q, label, left, made, more)'
<1>1. Picking(q, left, made, seen) => Picking(q, left, made, more)
  BY DEF Picking
<1>2. Picking(q, <<>>, made, seen) => Picking(q, <<>>, made, more)
  BY DEF Picking
<1>3. Plain(q, made, seen) => Plain(q, made, more)
  BY DEF Plain
<1> QED
  BY <1>1, <1>2, <1>3 DEF Serving

\* The parts of Inductive that are about the tables and about one server.
TablesOK ==
  /\ VersionOK(<<links, opened>>)
  /\ pc \in [Servers -> Steps \cup {"idle"}]
  /\ req \in [Servers -> Request \cup {NoCall}]
  /\ DOMAIN rows = Servers
  /\ view \in [Servers -> Seq(Row)]
  /\ reply \in [Servers -> Reply]
  /\ during \in [Servers -> SUBSET Version]

HereOK(s) ==
  /\ req[s] \in Calls[s] \cup {NoCall}
  /\ \A v \in during[s] : VersionOK(v) /\ v[2] \subseteq opened
  /\ At(s, "idle") => rows[s] = <<>> /\ view[s] = <<>>
  /\ ~At(s, "idle") =>
       /\ <<links, opened>> \in during[s]
       /\ req[s] \in Calls[s] /\ reply[s] = NoAnswer
       /\ Serving(req[s], pc[s], rows[s], view[s], during[s])
  /\ reply[s].kind # "none" => req[s] \in Calls[s]
  /\ reply[s].kind # "none" /\ PageFits(Backend[s], req[s]) =>
       AnswerTrue(Backend[s], req[s], reply[s], during[s])
  /\ PickerTrue(req[s], reply[s], during[s])

LEMMA InductiveParts == Inductive <=> TablesOK /\ \A s \in Servers : HereOK(s)
<1>1. TablesOK => /\ links \subseteq Link
                  /\ \A l, m \in links :
                       l.owner = m.owner /\ l.account = m.account => l = m
                  /\ opened \subseteq Accounts
                  /\ \A l \in links : l.account \in opened
                  /\ \A s \in Servers :
                       /\ view[s] \in Seq(Row) /\ reply[s].items \in Seq(Row)
                       /\ reply[s].kind \in {"none", "ok", "invalid", "conflict",
                                             "notfound", "failed"}
  BY DEF TablesOK, VersionOK, Version, Reply
<1>2. StateOK <=> TablesOK
  BY DEF StateOK, TablesOK, Reply
<1> QED
  BY <1>1, <1>2
     DEF Inductive, TypeOK, HistoryOK, ServingOK, AnswersFit, PickerAllows, HereOK

LEMMA InductivePartsNext ==
  Inductive' <=> TablesOK' /\ \A s \in Servers : HereOK(s)'
<1>1. Inductive' <=> (TablesOK /\ \A s \in Servers : HereOK(s))'
  BY InductiveParts, PTL
<1> QED
  BY <1>1

\* A server that is not touched.
LEMMA HereKept ==
  ASSUME NEW t \in Servers, HereOK(t), opened' = opened, links' = links,
         pc'[t] = pc[t], req'[t] = req[t], rows'[t] = rows[t],
         view'[t] = view[t], reply'[t] = reply[t], during'[t] = during[t]
  PROVE  HereOK(t)'
<1>1. ASSUME Serving(req[t], pc[t], rows[t], view[t], during[t])
      PROVE  Serving(req[t], pc[t], rows[t], view[t], during[t])'
  <2>1. PICK q, label, left, made, seen :
          /\ q = req[t] /\ label = pc[t] /\ left = rows[t]
          /\ made = view[t] /\ seen = during[t]
    OBVIOUS
  <2>2. Serving(q, label, left, made, seen)'
    BY <1>1, <2>1, ServingGrows
  <2> QED
    BY <2>1, <2>2
<1>2. At(t, "idle")' <=> At(t, "idle")
  BY DEF At
<1>3. PickerTrue(req[t], reply[t], during[t])'
  <2>1. PICK q, answer, seen :
          q = req[t] /\ answer = reply[t] /\ seen = during[t]
    OBVIOUS
  <2>2. PickerTrue(q, answer, seen)'
    BY <2>1 DEF HereOK, PickerTrue
  <2> QED
    BY <2>1, <2>2
<1>4. reply[t].kind # "none" /\ PageFits(Backend[t], req[t]) =>
        AnswerTrue(Backend[t], req[t], reply[t], during[t])'
  <2>1. PICK q, answer, seen :
          q = req[t] /\ answer = reply[t] /\ seen = during[t]
    OBVIOUS
  <2>2. AnswerTrue(Backend[t], q, answer, seen)
          => AnswerTrue(Backend[t], q, answer, seen)'
    BY DEF AnswerTrue, TrueOfSend, TrueOfOptions, TrueOfList, TrueOfLink
  <2> QED
    BY <2>1, <2>2 DEF HereOK
<1> QED
  BY <1>1, <1>2, <1>3, <1>4 DEF HereOK, PageFits

\* A server that sees a new version of the tables, and does nothing.
LEMMA HereGrows ==
  ASSUME NEW t \in Servers, HereOK(t), opened \subseteq opened',
         pc'[t] = pc[t], req'[t] = req[t], rows'[t] = rows[t],
         view'[t] = view[t], reply'[t] = reply[t],
         VersionOK(<<links', opened'>>),
         during'[t] = IF At(t, "idle") THEN during[t]
                      ELSE during[t] \cup {<<links', opened'>>}
  PROVE  HereOK(t)'
<1>1. At(t, "idle")' <=> At(t, "idle")
  BY DEF At
<1>2. \A v \in during'[t] : VersionOK(v) /\ v[2] \subseteq opened'
  <2> SUFFICES ASSUME NEW v \in during'[t]
               PROVE  VersionOK(v) /\ v[2] \subseteq opened'
    OBVIOUS
  <2>1. CASE v \in during[t]
    BY <2>1 DEF HereOK
  <2>2. CASE v = <<links', opened'>>
    BY <2>2
  <2> QED
    BY <2>1, <2>2
<1>3. CASE At(t, "idle")
  <2>1. PICK q, answer, seen :
          q = req[t] /\ answer = reply[t] /\ seen = during[t]
    OBVIOUS
  <2>2. PickerTrue(q, answer, seen)' <=> PickerTrue(q, answer, seen)
    BY DEF PickerTrue
  <2>3. AnswerTrue(Backend[t], q, answer, seen)
          <=> AnswerTrue(Backend[t], q, answer, seen)'
    BY DEF AnswerTrue, TrueOfSend, TrueOfOptions, TrueOfList, TrueOfLink
  <2>4. /\ q = req'[t] /\ answer = reply'[t] /\ seen = during'[t]
    BY <1>3, <2>1
  <2> QED
    BY <1>1, <1>2, <1>3, <2>1, <2>2, <2>3, <2>4 DEF HereOK, PageFits
<1>4. CASE ~At(t, "idle")
  <2>1. PICK q, label, left, made, seen, more :
          /\ q = req[t] /\ label = pc[t] /\ left = rows[t]
          /\ made = view[t] /\ seen = during[t] /\ more = during'[t]
    OBVIOUS
  <2>2. Serving(q, label, left, made, more)'
    BY <1>4, <2>1, ServingGrows DEF HereOK
  <2>3. Serving(req[t], pc[t], rows[t], view[t], during[t])'
    BY <2>1, <2>2
  <2>4. reply'[t].kind = "none" /\ reply'[t] = NoAnswer
    BY <1>4, NoAnswerIsReply DEF HereOK
  <2>5. PickerTrue(req[t], reply[t], during[t])'
    BY <2>4 DEF PickerTrue
  <2>6. <<links', opened'>> \in during'[t] /\ req'[t] \in Calls[t]
    BY <1>4 DEF HereOK
  <2> QED
    BY <1>1, <1>2, <1>4, <2>3, <2>4, <2>5, <2>6 DEF HereOK
<1> QED
  BY <1>3, <1>4

\* A request goes on.
LEMMA GoOnKeeps ==
  ASSUME Inductive, NEW s \in Servers, ~At(s, "idle"),
         NEW label \in Steps, NEW left, NEW made \in Seq(Row),
         GoOn(s, label, left, made), Reads,
         Serving(req[s], label, left, made, during[s])
  PROVE  Inductive'
<1> USE InductiveParts, InductivePartsNext
<1>1. /\ links' = links /\ opened' = opened /\ during' = during
      /\ pc' = [pc EXCEPT ![s] = label] /\ rows' = [rows EXCEPT ![s] = left]
      /\ view' = [view EXCEPT ![s] = made] /\ req' = req /\ reply' = reply
  BY DEF GoOn, Reads
<1>2. TablesOK'
  BY <1>1 DEF TablesOK
<1>3. ASSUME NEW t \in Servers, t # s
      PROVE  HereOK(t)'
  <2>1. pc'[t] = pc[t] /\ rows'[t] = rows[t] /\ view'[t] = view[t]
    BY <1>1, <1>3 DEF TablesOK
  <2> QED
    BY <1>1, <2>1, HereKept
<1>4. HereOK(s)'
  <2>1. pc'[s] = label /\ rows'[s] = left /\ view'[s] = made
    BY <1>1 DEF TablesOK
  <2>2. PICK q, seen, answer :
          q = req[s] /\ seen = during[s] /\ answer = reply[s]
    OBVIOUS
  <2>3. Serving(q, label, left, made, seen)'
    BY <1>1, <2>2, ServingGrows
  <2>4. Serving(req[s], pc[s], rows[s], view[s], during[s])'
    BY <1>1, <2>1, <2>2, <2>3
  <2>5. ~At(s, "idle")'
    BY <2>1 DEF At, Steps
  <2>6. reply'[s] = NoAnswer /\ reply'[s].kind = "none"
    BY <1>1, NoAnswerIsReply DEF HereOK
  <2>7. PickerTrue(req[s], reply[s], during[s])'
    BY <2>6 DEF PickerTrue
  <2>8. \A v \in during'[s] : VersionOK(v) /\ v[2] \subseteq opened'
    BY <1>1 DEF HereOK
  <2>9. <<links', opened'>> \in during'[s] /\ req'[s] \in Calls[s]
    BY <1>1 DEF HereOK
  <2> QED
    BY <2>4, <2>5, <2>6, <2>7, <2>8, <2>9 DEF HereOK
<1> QED
  BY <1>2, <1>3, <1>4

\* What the client is told in the same step as a version is committed, or none.
LEMMA HereAnswered ==
  ASSUME TablesOK, NEW s \in Servers, HereOK(s), ~At(s, "idle"),
         NEW answer \in Reply, Answer(s, answer), opened' = opened,
         NEW seen, during'[s] = seen,
         \A v \in seen : VersionOK(v) /\ v[2] \subseteq opened,
         answer.kind # "none" /\ PageFits(Backend[s], req[s])
           => AnswerTrue(Backend[s], req[s], answer, seen),
         PickerTrue(req[s], answer, seen)
  PROVE  HereOK(s)'
<1>1. /\ pc'[s] = "idle" /\ rows'[s] = <<>> /\ view'[s] = <<>>
      /\ reply'[s] = answer /\ req' = req
  BY DEF Answer, TablesOK
<1>2. PICK q : q = req[s]
  OBVIOUS
<1>3. PickerTrue(q, answer, seen)' <=> PickerTrue(q, answer, seen)
  BY DEF PickerTrue
<1>4. AnswerTrue(Backend[s], q, answer, seen)
        <=> AnswerTrue(Backend[s], q, answer, seen)'
  BY DEF AnswerTrue, TrueOfSend, TrueOfOptions, TrueOfList, TrueOfLink
<1>5. At(s, "idle")'
  BY <1>1 DEF At
<1>6. req[s] \in Calls[s]
  BY DEF HereOK
<1> QED
  BY <1>1, <1>2, <1>3, <1>4, <1>5, <1>6 DEF HereOK, PageFits

LEMMA TablesAnswered ==
  ASSUME TablesOK, NEW s \in Servers, NEW answer \in Reply,
         Answer(s, answer), VersionOK(<<links', opened'>>),
         during' \in [Servers -> SUBSET Version]
  PROVE  TablesOK'
<1>1. <<>> \in Seq(Row)
  OBVIOUS
<1> QED
  BY <1>1 DEF TablesOK, Answer

LEMMA AnswerKeeps ==
  ASSUME Inductive, NEW s \in Servers, ~At(s, "idle"),
         NEW answer \in Reply, Answer(s, answer), Reads,
         answer.kind # "none" /\ PageFits(Backend[s], req[s])
           => AnswerTrue(Backend[s], req[s], answer, during[s]),
         PickerTrue(req[s], answer, during[s])
  PROVE  Inductive'
<1> USE InductiveParts, InductivePartsNext
<1>1. links' = links /\ opened' = opened /\ during' = during
  BY DEF Reads
<1>2. TablesOK'
  BY <1>1, TablesAnswered DEF TablesOK
<1>3. ASSUME NEW t \in Servers, t # s
      PROVE  HereOK(t)'
  <2>1. /\ pc'[t] = pc[t] /\ rows'[t] = rows[t] /\ view'[t] = view[t]
        /\ reply'[t] = reply[t] /\ req' = req
    BY <1>3 DEF TablesOK, Answer
  <2> QED
    BY <1>1, <2>1, HereKept
<1>4. HereOK(s)'
  <2>1. \A v \in during[s] : VersionOK(v) /\ v[2] \subseteq opened
    BY DEF HereOK
  <2> QED
    BY <1>1, <2>1, HereAnswered
<1> QED
  BY <1>2, <1>3, <1>4

\* An answer that says nothing of the tables.
LEMMA SayKeeps ==
  ASSUME Inductive, NEW s \in Servers, ~At(s, "idle"),
         NEW kind \in {"ok", "invalid", "conflict", "notfound", "failed"},
         Say(s, kind), Reads,
         PageFits(Backend[s], req[s])
           => AnswerTrue(Backend[s], req[s], Said(kind), during[s]),
         PickerTrue(req[s], Said(kind), during[s])
  PROVE  Inductive'
<1>1. Said(kind) \in Reply /\ Answer(s, Said(kind))
  BY NoAnswerIsReply DEF Say
<1> QED
  BY <1>1, AnswerKeeps

(***************************************************************************)
(* Answers.                                                                *)
(***************************************************************************)

AnswerKinds == {"ok", "invalid", "conflict", "notfound", "failed"}

LEMMA NotPicked ==
  ASSUME NEW q, NEW seen, NEW answer, answer.kind # "ok" \/ q.op # "list"
  PROVE  PickerTrue(q, answer, seen)
BY DEF PickerTrue

LEMMA AnswerCases ==
  ASSUME NEW b, NEW q, NEW answer, NEW seen,
         q.op = "send" => TrueOfSend(q, answer.kind, seen),
         q.op = "resolve" => TrueOfOptions(q, answer, seen),
         q.op = "list" /\ answer.kind = "ok" /\ q.sendIn = Absent =>
           TrueOfList(b, q, answer, seen),
         q.op \notin {"send", "resolve", "list"} =>
           TrueOfLink(q, answer.kind, seen)
  PROVE  AnswerTrue(b, q, answer, seen)
<1>1. CASE q.op = "send"
  BY <1>1 DEF AnswerTrue
<1>2. CASE q.op = "resolve"
  BY <1>2 DEF AnswerTrue
<1>3. CASE q.op = "list"
  BY <1>3 DEF AnswerTrue
<1>4. CASE q.op \notin {"send", "resolve", "list"}
  BY <1>4 DEF AnswerTrue
<1> QED
  BY <1>1, <1>2, <1>3, <1>4

HasLink(q, v) == \E l \in v[1] : l.owner = q.owner /\ l.account = q.account

HasNamed(q, v) ==
  [owner |-> q.owner, account |-> q.account, nickname |-> q.nickname] \in v[1]

LEMMA LinkCases ==
  ASSUME NEW q, NEW kind, NEW seen,
         kind = "ok" /\ q.op = "create" =>
           (\E v \in seen : HasNamed(q, v)) /\ (\E v \in seen : ~HasLink(q, v)),
         kind = "ok" /\ q.op = "rename" => \E v \in seen : HasNamed(q, v),
         kind = "ok" /\ q.op = "delete" =>
           (\E v \in seen : HasLink(q, v)) /\ (\E v \in seen : ~HasLink(q, v)),
         kind = "conflict" => \E v \in seen : HasLink(q, v),
         kind = "notfound" => \E v \in seen : ~HasLink(q, v)
  PROVE  TrueOfLink(q, kind, seen)
<1>1. CASE kind = "ok" /\ q.op = "create"
  BY <1>1 DEF TrueOfLink, HasNamed, HasLink
<1>2. CASE kind = "ok" /\ q.op = "rename"
  BY <1>2 DEF TrueOfLink, HasNamed, HasLink
<1>3. CASE kind = "ok" /\ q.op = "delete"
  BY <1>3 DEF TrueOfLink, HasNamed, HasLink
<1>4. CASE kind = "conflict"
  BY <1>4 DEF TrueOfLink, HasNamed, HasLink
<1>5. CASE kind = "notfound"
  BY <1>5 DEF TrueOfLink, HasNamed, HasLink
<1>6. CASE /\ kind \notin {"conflict", "notfound"}
           /\ ~(kind = "ok" /\ q.op \in {"create", "rename", "delete"})
  BY <1>6 DEF TrueOfLink
<1> QED
  BY <1>1, <1>2, <1>3, <1>4, <1>5, <1>6

\* What Inductive says of a server that serves a request.
LEMMA Known ==
  ASSUME Inductive, NEW s \in Servers, ~At(s, "idle")
  PROVE  /\ req[s] \in Calls[s] /\ req[s] \in Request
         /\ <<links, opened>> \in during[s] /\ VersionOK(<<links, opened>>)
         /\ \A v \in during[s] : VersionOK(v) /\ v[2] \subseteq opened
         /\ Serving(req[s], pc[s], rows[s], view[s], during[s])
         /\ view[s] \in Seq(Row) /\ reply[s] = NoAnswer
         /\ links \in SUBSET Link /\ opened \in SUBSET Accounts
         /\ IsFiniteSet(links) /\ IsFiniteSet(opened)
<1>1. HereOK(s) /\ TablesOK
  BY InductiveParts
<1>2. /\ links \in SUBSET Link /\ opened \in SUBSET Accounts
      /\ IsFiniteSet(links) /\ IsFiniteSet(opened)
  BY <1>1 DEF TablesOK, VersionOK, Version
<1> QED
  BY <1>1, <1>2, AffiliatesAssumption DEF HereOK, TablesOK

LEMMA FailKeeps ==
  ASSUME Inductive, NEW s \in Servers, Fail(s)
  PROVE  Inductive'
<1>1. ~At(s, "idle") /\ Say(s, "failed") /\ Reads
  BY DEF Fail
<1>2. Said("failed").kind = "failed"
  BY NoAnswerIsReply
<1>3. AnswerTrue(Backend[s], req[s], Said("failed"), during[s])
  <2>1. TrueOfSend(req[s], Said("failed").kind, during[s])
    BY <1>2 DEF TrueOfSend
  <2>2. TrueOfOptions(req[s], Said("failed"), during[s])
    BY <1>2 DEF TrueOfOptions
  <2>3. TrueOfLink(req[s], Said("failed").kind, during[s])
    BY <1>2, LinkCases
  <2> QED
    BY <1>2, <2>1, <2>2, <2>3, AnswerCases
<1>4. PickerTrue(req[s], Said("failed"), during[s])
  BY <1>2, NotPicked
<1> QED
  BY <1>1, <1>3, <1>4, SayKeeps

\* Answers to the requests about one link.
LEMMA SayOfLink ==
  ASSUME Inductive, NEW s \in Servers, ~At(s, "idle"),
         req[s].op \in {"create", "rename", "delete", "get"},
         NEW kind \in {"invalid", "conflict", "notfound", "failed"},
         Say(s, kind), Reads,
         kind = "conflict" => HasLink(req[s], <<links, opened>>),
         kind = "notfound" => ~HasLink(req[s], <<links, opened>>)
  PROVE  Inductive'
<1>1. Said(kind).kind = kind
  BY NoAnswerIsReply
<1>2. <<links, opened>> \in during[s]
  BY Known
<1>3. TrueOfLink(req[s], kind, during[s])
  BY <1>2, LinkCases
<1>4. AnswerTrue(Backend[s], req[s], Said(kind), during[s])
  BY <1>1, <1>3, AnswerCases
<1>5. PickerTrue(req[s], Said(kind), during[s])
  BY <1>1, NotPicked
<1> QED
  BY <1>4, <1>5, SayKeeps

LEMMA FindAccountKeeps ==
  ASSUME Inductive, NEW s \in Servers, FindAccount(s)
  PROVE  Inductive'
<1>1. ~At(s, "idle") /\ pc[s] = "account" /\ Reads
  BY DEF FindAccount, At
<1>2. req[s].op = "create" /\ view[s] \in Seq(Row)
  BY <1>1, Known DEF Serving
<1>3. CASE req[s].account \in opened
  <2>1. GoOn(s, "exists", rows[s], view[s])
    BY <1>3 DEF FindAccount, GoTo
  <2>2. Serving(req[s], "exists", rows[s], view[s], during[s])
    BY <1>2, <1>3 DEF Serving
  <2> QED
    BY <1>1, <1>2, <2>1, <2>2, GoOnKeeps DEF Steps
<1>4. CASE req[s].account \notin opened
  <2>1. Say(s, "invalid")
    BY <1>4 DEF FindAccount
  <2> QED
    BY <1>1, <1>2, <2>1, SayOfLink
<1> QED
  BY <1>3, <1>4

LEMMA LookForLinkKeeps ==
  ASSUME Inductive, NEW s \in Servers, LookForLink(s)
  PROVE  Inductive'
<1>1. ~At(s, "idle") /\ pc[s] = "exists" /\ Reads
  BY DEF LookForLink, At
<1>2. req[s].op = "create" /\ view[s] \in Seq(Row) /\ req[s].account \in opened
  BY <1>1, Known DEF Serving
<1>3. CASE Linked(req[s].owner, req[s].account)
  <2>1. Say(s, "conflict")
    BY <1>3 DEF LookForLink
  <2>2. HasLink(req[s], <<links, opened>>)
    BY <1>3 DEF Linked, HasLink
  <2> QED
    BY <1>1, <1>2, <2>1, <2>2, SayOfLink
<1>4. CASE ~Linked(req[s].owner, req[s].account) /\ req[s].nickname = Blank
  <2>1. Say(s, "invalid")
    BY <1>4 DEF LookForLink
  <2> QED
    BY <1>1, <1>2, <2>1, SayOfLink
<1>5. CASE ~Linked(req[s].owner, req[s].account) /\ req[s].nickname # Blank
  <2>1. GoOn(s, "insert", rows[s], view[s])
    BY <1>5 DEF LookForLink, GoTo
  <2>2. Serving(req[s], "insert", rows[s], view[s], during[s])
    BY <1>2, <1>5 DEF Serving
  <2> QED
    BY <1>1, <1>2, <2>1, <2>2, GoOnKeeps DEF Steps
<1> QED
  BY <1>3, <1>4, <1>5

(***************************************************************************)
(* New versions of the tables.                                             *)
(***************************************************************************)

LEMMA WatchedSees ==
  ASSUME TablesOK, NEW version \in Version, Watched(version)
  PROVE  /\ during' \in [Servers -> SUBSET Version]
         /\ \A t \in Servers : during'[t] = IF At(t, "idle") THEN during[t]
                                            ELSE during[t] \cup {version}
<1>1. during' = [t \in Servers |->
                   IF At(t, "idle") THEN during[t] ELSE during[t] \cup {version}]
  BY DEF Watched
<1>2. \A t \in Servers : during[t] \in SUBSET Version
  BY DEF TablesOK
<1> QED
  BY <1>1, <1>2

\* A statement that changes the links of one owner to one account.
LEMMA WriteKeeps ==
  ASSUME Inductive, NEW s \in Servers, ~At(s, "idle"),
         req[s].op \in {"create", "rename", "delete"},
         NEW table, Write(s, table, "ok"), VersionOK(<<table, opened>>),
         TrueOfLink(req[s], "ok", during[s] \cup {<<table, opened>>})
  PROVE  Inductive'
<1> USE InductiveParts, InductivePartsNext
<1>1. /\ links' = table /\ opened' = opened /\ Watched(<<table, opened>>)
      /\ \E kind \in {"ok", "failed"} : Say(s, kind)
  BY DEF Write
<1>2. PICK kind \in {"ok", "failed"} : Say(s, kind)
  BY <1>1
<1>3. PICK answer : answer = Said(kind)
  OBVIOUS
<1>4. answer \in Reply /\ answer.kind = kind /\ Answer(s, answer)
  BY <1>2, <1>3, NoAnswerIsReply DEF Say
<1>5. <<table, opened>> \in Version
  BY DEF VersionOK
<1>6. /\ during' \in [Servers -> SUBSET Version]
      /\ \A t \in Servers : during'[t] = IF At(t, "idle") THEN during[t]
                                         ELSE during[t] \cup {<<table, opened>>}
  BY <1>1, <1>5, WatchedSees
<1>7. VersionOK(<<links', opened'>>) /\ <<links', opened'>> = <<table, opened>>
  BY <1>1
<1>8. TablesOK'
  BY <1>4, <1>6, <1>7, TablesAnswered
<1>9. ASSUME NEW t \in Servers, t # s
      PROVE  HereOK(t)'
  <2>1. /\ pc'[t] = pc[t] /\ rows'[t] = rows[t] /\ view'[t] = view[t]
        /\ reply'[t] = reply[t] /\ req' = req
    BY <1>4, <1>9 DEF TablesOK, Answer
  <2> QED
    BY <1>1, <1>6, <1>7, <2>1, HereGrows
<1>10. HereOK(s)'
  <2>1. PICK seen : seen = during[s] \cup {<<table, opened>>}
    OBVIOUS
  <2>2. \A v \in seen : VersionOK(v) /\ v[2] \subseteq opened
    BY <1>5, <2>1 DEF HereOK
  <2>3. TrueOfLink(req[s], kind, seen)
    BY <1>2, <2>1, LinkCases
  <2>4. AnswerTrue(Backend[s], req[s], answer, seen)
    BY <1>4, <2>3, AnswerCases
  <2>5. PickerTrue(req[s], answer, seen)
    BY NotPicked
  <2>6. during'[s] = seen
    BY <1>6, <2>1
  <2> QED
    BY <1>1, <1>4, <2>2, <2>4, <2>5, <2>6, HereAnswered
<1> QED
  BY <1>8, <1>9, <1>10

\* The request is about a link.
LEMMA LinkRequest ==
  ASSUME NEW q \in Request
  PROVE  /\ q.op \in {"create", "rename"} =>
              /\ q.owner \in Users /\ q.account \in Accounts
              /\ q.nickname \in Nicknames \cup {Blank}
         /\ q.op \in {"delete", "get"} => q.owner \in Users /\ q.account \in Accounts
BY DEF Request, Named, OfLink, Listing, Resolving, Sending

LEMMA InsertKeeps ==
  ASSUME Inductive, NEW s \in Servers, Insert(s)
  PROVE  Inductive'
<1>1. ~At(s, "idle") /\ pc[s] = "insert"
  BY DEF Insert, At
<1>2. PICK q : q = req[s]
  OBVIOUS
<1>3. /\ q \in Request /\ q.op = "create" /\ q.account \in opened
      /\ q.nickname # Blank
  BY <1>1, <1>2, Known DEF Serving
<1>4. /\ q.owner \in Users /\ q.account \in Accounts /\ q.nickname \in Nicknames
  BY <1>3, LinkRequest
<1>5. CASE Linked(q.owner, q.account)
  <2>1. Say(s, "failed") /\ Reads
    BY <1>2, <1>5 DEF Insert
  <2> QED
    BY <1>1, <2>1, FailKeeps DEF Fail
<1>6. CASE ~Linked(q.owner, q.account)
  <2>1. PICK new : new = [owner |-> q.owner, account |-> q.account,
                          nickname |-> q.nickname]
    OBVIOUS
  <2>2. /\ new \in Link /\ new.owner = q.owner /\ new.account = q.account
    BY <1>4, <2>1 DEF Link
  <2>3. PICK table : table = links \cup {new}
    OBVIOUS
  <2>4. Write(s, table, "ok")
    BY <1>2, <1>6, <2>1, <2>3 DEF Insert
  <2>5. VersionOK(<<table, opened>>)
    <3>1. /\ VersionOK(<<links, opened>>) /\ IsFiniteSet(links)
          /\ links \in SUBSET Link
      BY <1>1, Known
    <3>2. IsFiniteSet(table)
      BY <2>3, <3>1, FS_AddElement
    <3>3. \A l, m \in table : l.owner = m.owner /\ l.account = m.account => l = m
      BY <1>6, <2>2, <2>3, <3>1 DEF VersionOK, Linked
    <3> QED
      BY <1>3, <2>2, <2>3, <3>1, <3>2, <3>3 DEF VersionOK, Version
  <2>6. TrueOfLink(q, "ok", during[s] \cup {<<table, opened>>})
    <3>1. <<links, opened>> \in during[s]
      BY <1>1, Known
    <3>2. ~HasLink(q, <<links, opened>>)
      BY <1>6 DEF HasLink, Linked
    <3>3. HasNamed(q, <<table, opened>>)
      BY <2>1, <2>3 DEF HasNamed
    <3> QED
      BY <1>3, <3>1, <3>2, <3>3, LinkCases
  <2> QED
    BY <1>1, <1>2, <1>3, <2>4, <2>5, <2>6, WriteKeeps
<1> QED
  BY <1>5, <1>6

\* The other links, and the one that is meant, if there is one.
LEMMA OthersKept ==
  ASSUME NEW s \in Servers, VersionOK(<<links, opened>>)
  PROVE  /\ VersionOK(<<Others(s), opened>>) /\ Others(s) \subseteq links
         /\ ~HasLink(req[s], <<Others(s), opened>>)
         /\ \A l \in links \ Others(s) :
              l.owner = req[s].owner /\ l.account = req[s].account
         /\ links = Others(s) <=> ~HasLink(req[s], <<links, opened>>)
<1>1. Others(s) \in SUBSET links /\ IsFiniteSet(links)
  BY DEF Others, VersionOK
<1>2. IsFiniteSet(Others(s))
  BY <1>1, FS_Subset
<1>3. VersionOK(<<Others(s), opened>>)
  BY <1>1, <1>2 DEF VersionOK, Version
<1>4. \A l \in links : l \in Others(s) <=>
        l.owner # req[s].owner \/ l.account # req[s].account
  BY DEF Others
<1> QED
  BY <1>1, <1>3, <1>4 DEF HasLink

LEMMA DeleteKeeps ==
  ASSUME Inductive, NEW s \in Servers, Delete(s)
  PROVE  Inductive'
<1>1. ~At(s, "idle") /\ pc[s] = "delete"
  BY DEF Delete, At
<1>2. /\ req[s].op = "delete" /\ VersionOK(<<links, opened>>)
      /\ <<links, opened>> \in during[s]
  BY <1>1, Known DEF Serving
<1>3. CASE links = Others(s)
  <2>1. Say(s, "notfound") /\ Reads
    BY <1>3 DEF Delete
  <2> QED
    BY <1>1, <1>2, <1>3, <2>1, OthersKept, SayOfLink
<1>4. CASE links # Others(s)
  <2>1. Write(s, Others(s), "ok")
    BY <1>4 DEF Delete
  <2>2. TrueOfLink(req[s], "ok", during[s] \cup {<<Others(s), opened>>})
    BY <1>2, <1>4, OthersKept, LinkCases
  <2> QED
    BY <1>1, <1>2, <2>1, <2>2, OthersKept, WriteKeeps
<1> QED
  BY <1>3, <1>4

LEMMA RenameKeeps ==
  ASSUME Inductive, NEW s \in Servers, Rename(s)
  PROVE  Inductive'
<1>1. ~At(s, "idle") /\ pc[s] = "rename"
  BY DEF Rename, At
<1>2. PICK q : q = req[s]
  OBVIOUS
<1>3. /\ q \in Request /\ q.op = "rename" /\ VersionOK(<<links, opened>>)
      /\ <<links, opened>> \in during[s] /\ links \in SUBSET Link
  BY <1>1, <1>2, Known DEF Serving
<1>4. /\ q.owner \in Users /\ q.account \in Accounts
      /\ q.nickname \in Nicknames \cup {Blank}
  BY <1>3, LinkRequest
<1>5. CASE q.nickname = Blank
  <2>1. (Say(s, "invalid") \/ Say(s, "failed")) /\ Reads
    BY <1>2, <1>5 DEF Rename
  <2> QED
    BY <1>1, <1>2, <1>3, <2>1, SayOfLink
<1>6. CASE q.nickname # Blank /\ links = Others(s)
  <2>1. Say(s, "notfound") /\ Reads
    BY <1>2, <1>6 DEF Rename
  <2> QED
    BY <1>1, <1>2, <1>3, <1>6, <2>1, OthersKept, SayOfLink
<1>7. CASE q.nickname # Blank /\ links # Others(s)
  <2>1. PICK old \in links : old.owner = q.owner /\ old.account = q.account
    BY <1>2, <1>3, <1>7, OthersKept DEF HasLink
  <2>2. links \ Others(s) = {old}
    BY <1>2, <1>3, <2>1, OthersKept DEF VersionOK, Others
  <2>3. PICK new : new = [old EXCEPT !.nickname = q.nickname]
    OBVIOUS
  <2>4. /\ new \in Link /\ new.owner = q.owner /\ new.account = q.account
        /\ new.nickname = q.nickname
    BY <1>3, <1>4, <1>7, <2>1, <2>3 DEF Link
  <2>5. PICK table : table = Others(s) \cup {new}
    OBVIOUS
  <2>6. Write(s, table, "ok")
    <3>1. {[l EXCEPT !.nickname = req[s].nickname] : l \in links \ Others(s)}
            = {new}
      BY <1>2, <2>2, <2>3
    <3> QED
      BY <1>2, <1>7, <2>5, <3>1 DEF Rename
  <2>7. VersionOK(<<table, opened>>)
    <3>1. VersionOK(<<Others(s), opened>>) /\ Others(s) \in SUBSET Link
      BY <1>3, OthersKept
    <3>2. IsFiniteSet(table)
      BY <2>5, <3>1, FS_AddElement DEF VersionOK
    <3>3. \A l \in Others(s) : l.owner # q.owner \/ l.account # q.account
      BY <1>2 DEF Others
    <3>4. \A l, m \in table : l.owner = m.owner /\ l.account = m.account => l = m
      BY <2>4, <2>5, <3>1, <3>3 DEF VersionOK
    <3>5. new.account \in opened
      BY <1>3, <2>1, <2>4 DEF VersionOK
    <3> QED
      BY <2>4, <2>5, <3>1, <3>2, <3>4, <3>5 DEF VersionOK, Version
  <2>8. TrueOfLink(q, "ok", during[s] \cup {<<table, opened>>})
    <3>1. new = [owner |-> q.owner, account |-> q.account,
                 nickname |-> q.nickname]
      BY <2>4 DEF Link
    <3>2. HasNamed(q, <<table, opened>>)
      BY <2>5, <3>1 DEF HasNamed
    <3> QED
      BY <1>3, <3>2, LinkCases
  <2> QED
    BY <1>1, <1>2, <1>3, <2>6, <2>7, <2>8, WriteKeeps
<1> QED
  BY <1>5, <1>6, <1>7

LEMMA OpenAccountKeeps ==
  ASSUME Inductive, NEW a \in Accounts, OpenAccount(a)
  PROVE  Inductive'
<1> USE InductiveParts, InductivePartsNext
<1>1. /\ links' = links /\ opened' = opened \cup {a}
      /\ Watched(<<links, opened \cup {a}>>)
      /\ UNCHANGED <<pc, req, rows, view, reply>>
  BY DEF OpenAccount
<1>2. PICK version : version = <<links, opened \cup {a}>>
  OBVIOUS
<1>3. VersionOK(version)
  <2>1. VersionOK(<<links, opened>>)
    BY DEF TablesOK
  <2>2. IsFiniteSet(opened \cup {a})
    BY <2>1, FS_AddElement DEF VersionOK
  <2> QED
    BY <1>2, <2>1, <2>2 DEF VersionOK, Version
<1>4. version \in Version /\ version = <<links', opened'>>
  BY <1>1, <1>2, <1>3 DEF VersionOK
<1>5. /\ during' \in [Servers -> SUBSET Version]
      /\ \A t \in Servers : during'[t] = IF At(t, "idle") THEN during[t]
                                         ELSE during[t] \cup {version}
  BY <1>1, <1>2, <1>4, WatchedSees
<1>6. TablesOK'
  BY <1>1, <1>3, <1>4, <1>5 DEF TablesOK
<1>7. ASSUME NEW t \in Servers
      PROVE  HereOK(t)'
  BY <1>1, <1>3, <1>4, <1>5, HereGrows
<1> QED
  BY <1>6, <1>7

LEMMA AcceptKeeps ==
  ASSUME Inductive, NEW s \in Servers, NEW q \in Calls[s], Accept(s, q)
  PROVE  Inductive'
<1> USE InductiveParts, InductivePartsNext
<1>1. /\ At(s, "idle") /\ req' = [req EXCEPT ![s] = q]
      /\ pc' = [pc EXCEPT ![s] = FirstStatement(q)]
      /\ reply' = [reply EXCEPT ![s] = NoAnswer]
      /\ during' = [during EXCEPT ![s] = {<<links, opened>>}]
      /\ UNCHANGED <<links, opened, rows, view>>
  BY DEF Accept
<1>2. q \in Request
  BY AffiliatesAssumption
<1>3. q.op \in {"create", "rename", "delete", "get", "list", "resolve", "send"}
  BY <1>2 DEF Request, Named, OfLink, Listing, Resolving, Sending
<1>4. PICK label : label = FirstStatement(q)
  OBVIOUS
<1>5. /\ q.op = "create" => label = "account"
      /\ q.op = "send" => label = "target"
      /\ q.op = "list" => label = "links"
      /\ q.op = "resolve" => label = "tag"
      /\ q.op \in {"rename", "delete", "get"} => label = q.op
  BY <1>4 DEF FirstStatement
<1>6. label \in Steps /\ label # "idle"
  BY <1>3, <1>5 DEF Steps
<1>7. VersionOK(<<links, opened>>) /\ <<links, opened>> \in Version
  BY DEF TablesOK, VersionOK
<1>8. TablesOK'
  BY <1>1, <1>2, <1>4, <1>6, <1>7, NoAnswerIsReply DEF TablesOK
<1>9. ASSUME NEW t \in Servers, t # s
      PROVE  HereOK(t)'
  <2>1. /\ pc'[t] = pc[t] /\ req'[t] = req[t] /\ reply'[t] = reply[t]
        /\ during'[t] = during[t]
    BY <1>1, <1>9 DEF TablesOK
  <2> QED
    BY <1>1, <2>1, HereKept
<1>10. HereOK(s)'
  <2>1. /\ pc'[s] = label /\ req'[s] = q /\ reply'[s] = NoAnswer
        /\ during'[s] = {<<links, opened>>}
        /\ links' = links /\ opened' = opened
        /\ rows'[s] = rows[s] /\ view'[s] = view[s]
    BY <1>1, <1>4 DEF TablesOK
  <2>2. PICK left, made, seen :
          left = rows[s] /\ made = view[s] /\ seen = {<<links, opened>>}
    OBVIOUS
  <2>3. Serving(q, label, left, made, seen)'
    BY <1>3, <1>5 DEF Serving
  <2>4. Serving(req[s], pc[s], rows[s], view[s], during[s])'
    BY <2>1, <2>2, <2>3
  <2>5. ~At(s, "idle")'
    BY <1>6, <2>1 DEF At
  <2>6. PickerTrue(req[s], reply[s], during[s])'
    BY <2>1, NoAnswerIsReply DEF PickerTrue
  <2>7. \A v \in during'[s] : VersionOK(v) /\ v[2] \subseteq opened'
    BY <1>7, <2>1
  <2> QED
    BY <2>1, <2>4, <2>5, <2>6, <2>7, NoAnswerIsReply DEF HereOK
<1> QED
  BY <1>8, <1>9, <1>10

(***************************************************************************)
(* Sending.                                                                *)
(***************************************************************************)

\* Answers to a send and to a search by tag.
LEMMA SayOfSend ==
  ASSUME Inductive, NEW s \in Servers, ~At(s, "idle"), req[s].op = "send",
         NEW kind \in {"ok", "invalid", "notfound", "failed"}, Say(s, kind), Reads,
         TrueOfSend(req[s], kind, during[s])
  PROVE  Inductive'
<1>1. Said(kind).kind = kind
  BY NoAnswerIsReply
<1>2. AnswerTrue(Backend[s], req[s], Said(kind), during[s])
  BY <1>1, AnswerCases
<1>3. PickerTrue(req[s], Said(kind), during[s])
  BY NotPicked
<1> QED
  BY <1>2, <1>3, SayKeeps

LEMMA TargetKeeps ==
  ASSUME Inductive, NEW s \in Servers, Target(s)
  PROVE  Inductive'
<1>1. ~At(s, "idle") /\ pc[s] = "target" /\ Reads
  BY DEF Target, At
<1>2. PICK q : q = req[s]
  OBVIOUS
<1>3. q.op = "send" /\ view[s] \in Seq(Row)
  BY <1>1, <1>2, Known DEF Serving
<1>4. CASE ~({q.from, q.to} \subseteq opened)
  <2>1. PICK kind \in {"notfound", "failed"} : Say(s, kind)
    BY <1>2, <1>4 DEF Target
  <2>2. TrueOfSend(q, kind, during[s])
    BY DEF TrueOfSend
  <2> QED
    BY <1>1, <1>2, <1>3, <2>1, <2>2, SayOfSend
<1>5. CASE {q.from, q.to} \subseteq opened /\ ~Fits(q)
  <2>1. Say(s, "invalid")
    BY <1>2, <1>5 DEF Target, Fits
  <2>2. TrueOfSend(q, "invalid", during[s])
    BY <1>5 DEF TrueOfSend, Fits
  <2> QED
    BY <1>1, <1>2, <1>3, <2>1, <2>2, SayOfSend
<1>6. CASE {q.from, q.to} \subseteq opened /\ Fits(q)
  <2>1. GoOn(s, "recipients", rows[s], view[s])
    BY <1>2, <1>6 DEF Target, GoTo, Fits
  <2>2. Serving(req[s], "recipients", rows[s], view[s], during[s])
    BY <1>2, <1>3, <1>6 DEF Serving
  <2> QED
    BY <1>1, <1>3, <2>1, <2>2, GoOnKeeps DEF Steps
<1> QED
  BY <1>4, <1>5, <1>6

LEMMA RecipientsKeeps ==
  ASSUME Inductive, NEW s \in Servers, Recipients(s)
  PROVE  Inductive'
<1>1. ~At(s, "idle") /\ pc[s] = "recipients" /\ Reads
  BY DEF Recipients, At
<1>2. PICK q : q = req[s]
  OBVIOUS
<1>3. /\ q.op = "send" /\ Fits(q) /\ view[s] \in Seq(Row)
      /\ <<links, opened>> \in during[s] /\ links \in SUBSET Link
  BY <1>1, <1>2, Known DEF Serving
<1>4. CASE \E l \in links : l.owner = q.owner
                            /\ UserOf[l.account] = UserOf[q.to]
  <2>1. GoOn(s, "record", rows[s], view[s])
    BY <1>2, <1>4 DEF Recipients, GoTo
  <2>2. \E v \in during[s], l \in Link :
          l \in v[1] /\ l.owner = q.owner /\ UserOf[l.account] = UserOf[q.to]
    BY <1>3, <1>4
  <2>3. Serving(req[s], "record", rows[s], view[s], during[s])
    BY <1>2, <1>3, <2>2 DEF Serving
  <2> QED
    BY <1>1, <1>3, <2>1, <2>3, GoOnKeeps DEF Steps
<1>5. CASE ~\E l \in links : l.owner = q.owner
                             /\ UserOf[l.account] = UserOf[q.to]
  <2>1. Say(s, "invalid")
    BY <1>2, <1>5 DEF Recipients
  <2>2. TrueOfSend(q, "invalid", during[s])
    <3>1. <<links, opened>>[1] = links
      OBVIOUS
    <3> QED
      BY <1>3, <1>5, <3>1 DEF TrueOfSend
  <2> QED
    BY <1>1, <1>2, <1>3, <2>1, <2>2, SayOfSend
<1> QED
  BY <1>4, <1>5

LEMMA RecordKeeps ==
  ASSUME Inductive, NEW s \in Servers, Record(s)
  PROVE  Inductive'
<1>1. ~At(s, "idle") /\ pc[s] = "record" /\ Reads /\ Say(s, "ok")
  BY DEF Record, At
<1>2. PICK q : q = req[s]
  OBVIOUS
<1>3. /\ q.op = "send" /\ Fits(q)
      /\ \E v \in during[s], l \in Link :
           l \in v[1] /\ l.owner = q.owner /\ UserOf[l.account] = UserOf[q.to]
  BY <1>1, <1>2, Known DEF Serving
<1>4. TrueOfSend(q, "ok", during[s])
  BY <1>3 DEF TrueOfSend, Fits
<1> QED
  BY <1>1, <1>2, <1>3, <1>4, SayOfSend

LEMMA FindTagKeeps ==
  ASSUME Inductive, NEW s \in Servers, FindTag(s)
  PROVE  Inductive'
<1>1. ~At(s, "idle") /\ pc[s] = "tag" /\ Reads
  BY DEF FindTag, At
<1>2. PICK q : q = req[s]
  OBVIOUS
<1>3. /\ q.op = "resolve" /\ view[s] \in Seq(Row)
      /\ \A v \in during[s] : VersionOK(v)
  BY <1>1, <1>2, Known DEF Serving
<1>4. CASE q.user = Absent
  <2>1. Say(s, "invalid")
    BY <1>2, <1>4 DEF FindTag
  <2>2. Said("invalid").kind = "invalid" /\ Said("invalid").items = <<>>
    BY NoAnswerIsReply
  <2>3. TrueOfOptions(q, Said("invalid"), during[s])
    <3>1. PICK answer : answer = Said("invalid")
      OBVIOUS
    <3>2. \A v \in during[s] : \A a \in v[2] : UserOf[a] # q.user
      BY <1>3, <1>4, AffiliatesAssumption DEF VersionOK, Version
    <3>3. \A a : a \notin {answer.items[i].account : i \in DOMAIN answer.items}
      BY <2>2, <3>1
    <3>4. during[s] # {}
      BY <1>1, Known
    <3> QED
      BY <3>1, <3>2, <3>3, <3>4 DEF TrueOfOptions
  <2>4. AnswerTrue(Backend[s], q, Said("invalid"), during[s])
    BY <1>3, <2>3, AnswerCases
  <2>5. PickerTrue(req[s], Said("invalid"), during[s])
    BY <2>2, NotPicked
  <2> QED
    BY <1>1, <1>2, <2>1, <2>4, <2>5, SayKeeps
<1>5. CASE q.user # Absent
  <2>1. GoOn(s, "mine", rows[s], view[s])
    BY <1>2, <1>5 DEF FindTag, GoTo
  <2>2. Serving(req[s], "mine", rows[s], view[s], during[s])
    BY <1>2, <1>3, <1>5 DEF Serving
  <2> QED
    BY <1>1, <1>3, <2>1, <2>2, GoOnKeeps DEF Steps
<1> QED
  BY <1>4, <1>5

\* The members of a finite set, in some order.
LEMMA Listed ==
  ASSUME NEW S, IsFiniteSet(S)
  PROVE  /\ DOMAIN SetToSeq(S) = 1..Cardinality(S)
         /\ \A i \in DOMAIN SetToSeq(S) : SetToSeq(S)[i] \in S
         /\ \A x \in S : \E i \in DOMAIN SetToSeq(S) : SetToSeq(S)[i] = x
<1> DEFINE n == Cardinality(S)
<1>1. n \in Nat /\ ExistsBijection(1..n, S)
  BY FS_CardinalityType
<1>2. \E f \in [1..n -> S] : IsInjective(f)
  BY <1>1 DEF ExistsBijection, Bijection, Injection
<1>3. SetToSeq(S) \in [1..n -> S] /\ IsInjective(SetToSeq(S))
  BY <1>2 DEF SetToSeq
<1> HIDE DEF n
<1>4. PICK o : o = SetToSeq(S)
  OBVIOUS
<1>5. o \in Orders(S, S \X S)
  BY <1>3, <1>4 DEF Orders, SetToSeqs, IsInjective, n
<1> QED
  BY <1>3, <1>4, <1>5, OrderHas DEF n

LEMMA OwnAccountsKeeps ==
  ASSUME Inductive, NEW s \in Servers, OwnAccounts(s)
  PROVE  Inductive'
<1>1. ~At(s, "idle") /\ pc[s] = "mine" /\ Reads
  BY DEF OwnAccounts, At
<1>2. PICK q : q = req[s]
  OBVIOUS
<1>3. /\ q.op = "resolve" /\ q.user # Absent
      /\ <<links, opened>> \in during[s] /\ IsFiniteSet(opened)
  BY <1>1, <1>2, Known DEF Serving
<1>4. PICK own : own = {a \in opened : UserOf[a] = q.owner}
  OBVIOUS
<1>5. IsFiniteSet(own)
  <2>1. own \in SUBSET opened
    BY <1>4
  <2> QED
    BY <1>3, <2>1, FS_Subset
<1>6. PICK left : left = SetToSeq(own)
  OBVIOUS
<1>7. /\ \A i \in DOMAIN left : left[i] \in own
      /\ \A a \in own : \E i \in DOMAIN left : left[i] = a
  BY <1>5, <1>6, Listed
<1>8. GoOn(s, "theirs", left, <<>>)
  BY <1>2, <1>4, <1>6 DEF OwnAccounts
<1>9. \E v \in during[s] :
        /\ \A i \in DOMAIN left : left[i] \in v[2] /\ UserOf[left[i]] = q.owner
        /\ \A a \in v[2] : UserOf[a] = q.owner => \E i \in DOMAIN left : left[i] = a
  <2>1. <<links, opened>>[2] = opened
    OBVIOUS
  <2> QED
    BY <1>3, <1>4, <1>7, <2>1
<1>10. Serving(req[s], "theirs", left, <<>>, during[s])
  BY <1>2, <1>3, <1>9 DEF Serving
<1>11. <<>> \in Seq(Row)
  OBVIOUS
<1> QED
  BY <1>1, <1>8, <1>10, <1>11, GoOnKeeps DEF Steps

\* What the options come to.
LEMMA OptionsTrue ==
  ASSUME NEW q, NEW answer, NEW seen, NEW v \in seen, NEW own,
         \A w \in seen : w[2] \subseteq v[2], v[2] \subseteq Accounts,
         NEW u \in seen,
         \A b \in own : b \in u[2] /\ UserOf[b] = q.owner,
         \A b \in u[2] : UserOf[b] = q.owner => b \in own,
         \A a : a \in {answer.items[i].account : i \in DOMAIN answer.items} <=>
                  /\ a \in v[2] /\ UserOf[a] = q.user /\ TypeOf[a] = Regular
                  /\ \E b \in own : CurrencyOf[b] = CurrencyOf[a]
  PROVE  TrueOfOptions(q, answer, seen)
<1> DEFINE Offer(w) ==
             {a \in w[2] : /\ UserOf[a] = q.user /\ TypeOf[a] = Regular
                           /\ \E b \in w[2] : UserOf[b] = q.owner
                                              /\ CurrencyOf[b] = CurrencyOf[a]}
           given == {answer.items[i].account : i \in DOMAIN answer.items}
<1>1. ASSUME NEW a \in Accounts, \A w \in seen : a \in Offer(w)
      PROVE  a \in given
  <2>1. a \in Offer(v) /\ a \in Offer(u)
    BY <1>1
  <2> QED
    BY <2>1
<1>2. ASSUME NEW a \in given
      PROVE  a \in Offer(v)
  <2>1. /\ a \in v[2] /\ UserOf[a] = q.user /\ TypeOf[a] = Regular
        /\ \E b \in own : CurrencyOf[b] = CurrencyOf[a]
    BY <1>2
  <2> QED
    BY <2>1
<1> QED
  BY <1>1, <1>2 DEF TrueOfOptions

LEMMA OptionRow ==
  ASSUME NEW a \in Accounts
  PROVE  Option(a) \in Row /\ Option(a).account = a
<1>1. UserOf[a] \in Users /\ CurrencyOf[a] \in Currencies
  BY AffiliatesAssumption
<1> QED
  BY <1>1 DEF Option, Row

LEMMA TheirAccountsKeeps ==
  ASSUME Inductive, NEW s \in Servers, TheirAccounts(s)
  PROVE  Inductive'
<1>1. ~At(s, "idle") /\ pc[s] = "theirs" /\ Reads
  BY DEF TheirAccounts, At
<1>2. PICK q, left : q = req[s] /\ left = rows[s]
  OBVIOUS
<1>3. /\ q.op = "resolve" /\ <<links, opened>> \in during[s]
      /\ opened \in SUBSET Accounts /\ IsFiniteSet(opened)
      /\ \A v \in during[s] : v[2] \subseteq opened
  BY <1>1, <1>2, Known DEF Serving
<1>4. PICK u \in during[s] :
        /\ \A i \in DOMAIN left : left[i] \in u[2] /\ UserOf[left[i]] = q.owner
        /\ \A a \in u[2] : UserOf[a] = q.owner => \E i \in DOMAIN left : left[i] = a
  BY <1>1, <1>2, Known DEF Serving
<1>5. PICK own : own = {left[i] : i \in DOMAIN left}
  OBVIOUS
<1>6. /\ \A b \in own : b \in u[2] /\ UserOf[b] = q.owner
      /\ \A b \in u[2] : UserOf[b] = q.owner => b \in own
  BY <1>4, <1>5
<1>7. PICK targets : targets = {a \in opened : UserOf[a] = q.user
                                   /\ TypeOf[a] = Regular
                                   /\ CurrencyOf[a] \in {CurrencyOf[left[i]] :
                                                           i \in DOMAIN left}}
  OBVIOUS
<1>8. \A a : a \in targets <=>
        /\ a \in opened /\ UserOf[a] = q.user /\ TypeOf[a] = Regular
        /\ \E b \in own : CurrencyOf[b] = CurrencyOf[a]
  BY <1>5, <1>7
<1>9. IsFiniteSet(targets) /\ targets \subseteq Accounts
  <2>1. targets \in SUBSET opened
    BY <1>7
  <2> QED
    BY <1>3, <2>1, FS_Subset
<1>10. ASSUME NEW answer,
              \A a : a \in {answer.items[i].account : i \in DOMAIN answer.items}
                       <=> a \in targets
       PROVE  AnswerTrue(Backend[s], q, answer, during[s])
  <2>1. PICK v : v = <<links, opened>>
    OBVIOUS
  <2>2. v \in during[s] /\ v[2] = opened
    BY <1>3, <2>1
  <2>3. PICK seen : seen = during[s]
    OBVIOUS
  <2>4. TrueOfOptions(q, answer, seen)
    <3>1. /\ v \in seen /\ u \in seen /\ \A w \in seen : w[2] \subseteq v[2]
          /\ v[2] \subseteq Accounts
      BY <1>3, <2>2, <2>3
    <3>2. \A a : a \in {answer.items[i].account : i \in DOMAIN answer.items} <=>
                   /\ a \in v[2] /\ UserOf[a] = q.user /\ TypeOf[a] = Regular
                   /\ \E b \in own : CurrencyOf[b] = CurrencyOf[a]
      BY <1>8, <1>10, <2>2
    <3> QED
      BY <1>6, <3>1, <3>2, OptionsTrue
  <2> QED
    BY <1>3, <2>3, <2>4, AnswerCases
<1>11. CASE targets = {}
  <2>1. Say(s, "invalid")
    BY <1>2, <1>7, <1>11 DEF TheirAccounts
  <2>2. Said("invalid").kind = "invalid" /\ Said("invalid").items = <<>>
    BY NoAnswerIsReply
  <2>3. PICK answer : answer = Said("invalid")
    OBVIOUS
  <2>4. \A a : a \notin {answer.items[i].account : i \in DOMAIN answer.items}
    BY <2>2, <2>3
  <2>5. AnswerTrue(Backend[s], req[s], Said("invalid"), during[s])
    BY <1>2, <1>10, <1>11, <2>3, <2>4
  <2>6. PickerTrue(req[s], Said("invalid"), during[s])
    BY <2>2, NotPicked
  <2> QED
    BY <1>1, <2>1, <2>5, <2>6, SayKeeps
<1>12. CASE targets # {}
  <2>1. PICK found \in Orders(targets, Ascending(targets)) :
          Answer(s, [kind |-> "ok", total |-> Len(found),
                     items |-> [i \in DOMAIN found |-> Option(found[i])]])
    <3>1. targets = {a \in opened : UserOf[a] = req[s].user
                                    /\ TypeOf[a] = Regular
                                    /\ CurrencyOf[a] \in {CurrencyOf[rows[s][i]] :
                                                            i \in DOMAIN rows[s]}}
      BY <1>2, <1>7, Zenon
    <3> QED
      BY <1>12, <3>1, Zenon DEF TheirAccounts
  <2>2. /\ Len(found) \in Nat /\ DOMAIN found = 1..Len(found)
        /\ \A i \in 1..Len(found) : found[i] \in targets
        /\ \A a \in targets : \E i \in 1..Len(found) : found[i] = a
    BY <1>9, OrderHas
  <2>3. PICK items : items = [i \in DOMAIN found |-> Option(found[i])]
    OBVIOUS
  <2>4. /\ DOMAIN items = 1..Len(found) /\ items \in Seq(Row)
        /\ \A i \in DOMAIN items : items[i].account = found[i]
    <3>1. \A i \in 1..Len(found) :
            Option(found[i]) \in Row /\ Option(found[i]).account = found[i]
      BY <1>9, <2>2, OptionRow
    <3> QED
      BY <2>2, <2>3, <3>1
  <2>5. PICK answer : answer = [kind |-> "ok", total |-> Len(found),
                                items |-> items]
    OBVIOUS
  <2>6. /\ answer \in Reply /\ answer.items = items /\ Answer(s, answer)
    BY <2>1, <2>2, <2>3, <2>4, <2>5 DEF Reply
  <2>7. \A a : a \in {answer.items[i].account : i \in DOMAIN answer.items}
                 <=> a \in targets
    BY <2>2, <2>4, <2>6
  <2>8. AnswerTrue(Backend[s], req[s], answer, during[s])
    BY <1>2, <1>10, <2>7
  <2>9. PickerTrue(req[s], answer, during[s])
    BY <1>2, <1>3, NotPicked
  <2> QED
    BY <1>1, <2>6, <2>8, <2>9, AnswerKeeps
<1> QED
  BY <1>11, <1>12

(***************************************************************************)
(* Viewing.                                                                *)
(***************************************************************************)

LEMMA ViewRow ==
  ASSUME NEW l \in Link
  PROVE  /\ ViewOf(l) \in Row /\ ViewOf(l).account = l.account
         /\ ViewOf(l).nickname = l.nickname /\ l.nickname \in Nicknames
         /\ l.account \in Accounts /\ ViewOf(l).user = UserOf[l.account]
<1>1. /\ l.account \in Accounts /\ l.nickname \in Nicknames
      /\ UserOf[l.account] \in Users /\ CurrencyOf[l.account] \in Currencies
  BY AffiliatesAssumption DEF Link
<1> QED
  BY <1>1 DEF ViewOf, Row

LEMMA GetKeeps ==
  ASSUME Inductive, NEW s \in Servers, Get(s)
  PROVE  Inductive'
<1>1. ~At(s, "idle") /\ pc[s] = "get" /\ Reads
  BY DEF Get, At
<1>2. /\ req[s].op = "get" /\ VersionOK(<<links, opened>>)
      /\ links \in SUBSET Link
  BY <1>1, Known DEF Serving
<1>3. CASE links = Others(s)
  <2>1. Say(s, "notfound")
    BY <1>3 DEF Get
  <2> QED
    BY <1>1, <1>2, <1>3, <2>1, OthersKept, SayOfLink
<1>4. CASE links # Others(s)
  <2>1. PICK l \in links \ Others(s) :
          Answer(s, [kind |-> "ok", items |-> <<ViewOf(l)>>, total |-> 1])
    BY <1>4 DEF Get
  <2>2. PICK answer : answer = [kind |-> "ok", items |-> <<ViewOf(l)>>, total |-> 1]
    OBVIOUS
  <2>3. ViewOf(l) \in Row
    BY <1>2, <2>1, ViewRow
  <2>4. answer \in Reply /\ answer.kind = "ok"
    BY <2>2, <2>3 DEF Reply
  <2>5. TrueOfLink(req[s], "ok", during[s])
    BY <1>2, LinkCases
  <2>6. AnswerTrue(Backend[s], req[s], answer, during[s])
    BY <1>2, <2>4, <2>5, AnswerCases
  <2>7. PickerTrue(req[s], answer, during[s])
    BY <1>2, NotPicked
  <2> QED
    BY <1>1, <2>1, <2>2, <2>4, <2>6, <2>7, AnswerKeeps
<1> QED
  BY <1>3, <1>4

LEMMA ListLinksKeeps ==
  ASSUME Inductive, NEW s \in Servers, ListLinks(s)
  PROVE  Inductive'
<1>1. ~At(s, "idle") /\ pc[s] = "links" /\ Reads
  BY DEF ListLinks, At
<1>2. PICK q : q = req[s]
  OBVIOUS
<1>3. /\ q.op = "list" /\ q \in Request /\ <<links, opened>> \in during[s]
      /\ links \in SUBSET Link /\ IsFiniteSet(links)
  BY <1>1, <1>2, Known DEF Serving
<1>4. PICK v : v = <<links, opened>>
  OBVIOUS
<1>5. v[1] = links
  BY <1>4
<1>6. PICK mine : mine = MineOf(q, v)
  OBVIOUS
<1>7. mine = {l \in links : l.owner = q.owner} /\ mine \in SUBSET links
  BY <1>5, <1>6 DEF MineOf
<1>8. IsFiniteSet(mine) /\ mine \subseteq Link
  BY <1>3, <1>7, FS_Subset
<1>9. PICK found \in Orders(mine, ByAccount(mine)) :
        LET refused == q.sendIn = "bad" /\ (Backend[s] = "C" \/ found # <<>>)
        IN IF refused THEN Say(s, "invalid")
           ELSE IF q.sendIn = Absent
           THEN GoOn(s, "page", <<>>, [i \in DOMAIN found |-> ViewOf(found[i])])
           ELSE GoOn(s, "row", found, <<>>)
  BY <1>2, <1>7 DEF ListLinks, LinksOf
<1>10. /\ Len(found) \in Nat /\ DOMAIN found = 1..Len(found)
       /\ found \in Seq(mine)
       /\ \A i \in 1..Len(found) : found[i] \in mine
       /\ \A l \in mine : \E i \in 1..Len(found) : found[i] = l
  BY <1>8, OrderHas
<1>11. CASE Say(s, "invalid")
  <2>1. Said("invalid").kind = "invalid"
    BY NoAnswerIsReply
  <2>2. AnswerTrue(Backend[s], req[s], Said("invalid"), during[s])
    BY <1>2, <1>3, <2>1, AnswerCases
  <2>3. PickerTrue(req[s], Said("invalid"), during[s])
    BY <2>1, NotPicked
  <2> QED
    BY <1>1, <1>11, <2>2, <2>3, SayKeeps
<1>12. ASSUME q.sendIn = Absent,
              GoOn(s, "page", <<>>, [i \in DOMAIN found |-> ViewOf(found[i])])
       PROVE  Inductive'
  <2>1. PICK made : made = [i \in DOMAIN found |-> ViewOf(found[i])]
    OBVIOUS
  <2>2. made \in Seq(Row)
    BY <1>8, <1>10, <2>1, ViewRow
  <2>3. Plain(q, made, during[s])
    BY <1>3, <1>4, <1>6, <2>1 DEF Plain
  <2>4. Serving(req[s], "page", <<>>, made, during[s])
    BY <1>2, <1>3, <1>12, <2>3 DEF Serving
  <2> QED
    BY <1>1, <1>12, <2>1, <2>2, <2>4, GoOnKeeps DEF Steps
<1>13. ASSUME q.sendIn # Absent, GoOn(s, "row", found, <<>>),
              ~(q.sendIn = "bad" /\ found # <<>>)
       PROVE  Inductive'
  <2>1. found # <<>> => q.sendIn \in Currencies
    BY <1>3, <1>13
       DEF Request, Named, OfLink, Listing, Resolving, Sending
  <2>2. Picking(q, found, <<>>, during[s])
    <3>1. \A l \in MineOf(q, v) : \E i \in DOMAIN found : found[i] = l
      BY <1>6, <1>10
    <3>2. \A i \in DOMAIN found : found[i] \in MineOf(q, v)
      BY <1>6, <1>10
    <3> QED
      BY <1>3, <1>4, <3>1, <3>2 DEF Picking
  <2>3. found \in Seq(Link)
    BY <1>8, <1>10
  <2>4. Serving(req[s], "row", found, <<>>, during[s])
    BY <1>2, <1>3, <1>13, <2>1, <2>2, <2>3 DEF Serving
  <2>5. <<>> \in Seq(Row)
    OBVIOUS
  <2> QED
    BY <1>1, <1>13, <2>4, <2>5, GoOnKeeps DEF Steps
<1> QED
  BY <1>9, <1>11, <1>12, <1>13

\* The link looked at is left out of the send picker.
LEMMA PickingDrops ==
  ASSUME NEW q, NEW left \in Seq(Link), left # <<>>, NEW made, NEW seen,
         Picking(q, left, made, seen),
         \/ NickIn(made, Head(left))
         \/ \A a \in Accounts :
              IsTarget(q, Head(left), a) => \E w \in seen : a \notin w[2]
  PROVE  Picking(q, Tail(left), made, seen)
<1>1. PICK rest : rest = Tail(left)
  OBVIOUS
<1>2. /\ Len(left) \in Nat \ {0} /\ DOMAIN left = 1..Len(left)
      /\ Head(left) = left[1] /\ DOMAIN rest = 1..(Len(left) - 1)
      /\ \A i \in 1..(Len(left) - 1) : rest[i] = left[i + 1]
  BY <1>1
<1>3. PICK v \in seen :
       /\ \A i \in DOMAIN made : \E l \in MineOf(q, v) :
            l.nickname = made[i].nickname /\ IsTarget(q, l, made[i].account)
       /\ \A i \in DOMAIN left : left[i] \in MineOf(q, v)
       /\ \A l \in MineOf(q, v) :
            \/ \E i \in DOMAIN left : left[i] = l
            \/ NickIn(made, l)
            \/ \A a \in Accounts :
                 IsTarget(q, l, a) => \E w \in seen : a \notin w[2]
  BY DEF Picking
<1>4. \A i \in DOMAIN rest : rest[i] \in MineOf(q, v)
  BY <1>2, <1>3
<1>5. ASSUME NEW l \in MineOf(q, v)
      PROVE  \/ \E i \in DOMAIN rest : rest[i] = l
             \/ NickIn(made, l)
             \/ \A a \in Accounts :
                  IsTarget(q, l, a) => \E w \in seen : a \notin w[2]
  <2>1. CASE \E i \in DOMAIN left : left[i] = l
    <3>1. PICK i \in 1..Len(left) : left[i] = l
      BY <1>2, <2>1
    <3>2. CASE i = 1
      BY <1>2, <3>1, <3>2
    <3>3. CASE i # 1
      <4>1. i - 1 \in 1..(Len(left) - 1) /\ i - 1 + 1 = i
        BY <1>2, <3>3
      <4> QED
        BY <1>2, <3>1, <4>1
    <3> QED
      BY <3>2, <3>3
  <2> QED
    BY <1>3, <2>1
<1> QED
  BY <1>1, <1>3, <1>4, <1>5 DEF Picking

\* It is given a row.
LEMMA PickingAdds ==
  ASSUME NEW q, NEW left \in Seq(Link), left # <<>>, NEW made \in Seq(Row),
         NEW seen, Picking(q, left, made, seen), ~NickIn(made, Head(left)),
         NEW row \in Row, row.nickname = Head(left).nickname,
         IsTarget(q, Head(left), row.account)
  PROVE  Picking(q, Tail(left), Append(made, row), seen)
<1>1. PICK more : more = Append(made, row)
  OBVIOUS
<1>2. /\ Len(made) \in Nat /\ DOMAIN made = 1..Len(made)
      /\ DOMAIN more = 1..(Len(made) + 1) /\ more[Len(made) + 1] = row
      /\ \A i \in 1..Len(made) : more[i] = made[i]
  BY <1>1
<1>3. \A i \in DOMAIN more : i \in DOMAIN made \/ i = Len(made) + 1
  BY <1>2
<1>4. Head(left) = left[1] /\ 1 \in DOMAIN left
  OBVIOUS
<1>5. Picking(q, left, more, seen)
  <2>1. PICK v \in seen :
         /\ \A i \in DOMAIN made : \E l \in MineOf(q, v) :
              l.nickname = made[i].nickname /\ IsTarget(q, l, made[i].account)
         /\ \A i \in DOMAIN left : left[i] \in MineOf(q, v)
         /\ \A l \in MineOf(q, v) :
              \/ \E i \in DOMAIN left : left[i] = l
              \/ NickIn(made, l)
              \/ \A a \in Accounts :
                   IsTarget(q, l, a) => \E w \in seen : a \notin w[2]
    BY DEF Picking
  <2>2. ASSUME NEW i \in DOMAIN more
        PROVE  \E l \in MineOf(q, v) :
                 l.nickname = more[i].nickname /\ IsTarget(q, l, more[i].account)
    <3>1. CASE i \in DOMAIN made
      BY <1>2, <2>1, <3>1
    <3>2. CASE i = Len(made) + 1
      <4>1. Head(left) \in MineOf(q, v)
        BY <1>4, <2>1
      <4> QED
        BY <1>2, <3>2, <4>1
    <3> QED
      BY <1>3, <3>1, <3>2
  <2>3. \A l : NickIn(made, l) => NickIn(more, l)
    BY <1>2 DEF NickIn
  <2>4. ASSUME NEW i \in DOMAIN more, NEW j \in DOMAIN more,
               Key[more[i].nickname] = Key[more[j].nickname]
        PROVE  i = j
    <3>1. \A k \in DOMAIN made : Key[made[k].nickname] # Key[row.nickname]
      BY DEF NickIn
    <3>2. CASE i \in DOMAIN made /\ j \in DOMAIN made
      BY <1>2, <2>4, <3>2 DEF Picking
    <3>3. CASE i \in DOMAIN made /\ j = Len(made) + 1
      BY <1>2, <2>4, <3>1, <3>3
    <3>4. CASE j \in DOMAIN made /\ i = Len(made) + 1
      BY <1>2, <2>4, <3>1, <3>4
    <3> QED
      BY <1>3, <3>2, <3>3, <3>4
  <2> QED
    BY <2>1, <2>2, <2>3, <2>4 DEF Picking
<1>6. NickIn(more, Head(left))
  <2>1. Len(made) + 1 \in DOMAIN more
    BY <1>2
  <2> QED
    BY <1>2, <2>1 DEF NickIn
<1> QED
  BY <1>1, <1>5, <1>6, PickingDrops

LEMMA PickRowKeeps ==
  ASSUME Inductive, NEW s \in Servers, PickRow(s)
  PROVE  Inductive'
<1>1. ~At(s, "idle") /\ pc[s] = "row" /\ Reads
  BY DEF PickRow, At
<1>2. PICK q, left, made, seen :
        q = req[s] /\ left = rows[s] /\ made = view[s] /\ seen = during[s]
  OBVIOUS
<1>3. /\ q.op = "list" /\ q.sendIn # Absent /\ Picking(q, left, made, seen)
      /\ left \in Seq(Link) /\ (left # <<>> => q.sendIn \in Currencies)
      /\ made \in Seq(Row) /\ <<links, opened>> \in seen
      /\ opened \in SUBSET Accounts
  BY <1>1, <1>2, Known DEF Serving
<1>4. CASE left = <<>>
  <2>1. GoOn(s, "page", left, made)
    BY <1>2, <1>4 DEF PickRow, GoTo
  <2>2. Serving(q, "page", left, made, seen)
    BY <1>3, <1>4 DEF Serving
  <2> QED
    BY <1>1, <1>2, <1>3, <2>1, <2>2, GoOnKeeps DEF Steps
<1>5. CASE left # <<>>
  <2>1. PICK l : l = Head(left)
    OBVIOUS
  <2>2. l \in Link
    BY <1>3, <1>5, <2>1
  <2>3. PICK saved : saved = ViewOf(l)
    OBVIOUS
  <2>4. PICK targets : targets = {a \in opened : UserOf[a] = saved.user
                                     /\ TypeOf[a] = Regular
                                     /\ CurrencyOf[a] = q.sendIn}
    OBVIOUS
  <2>5. \A a : a \in targets <=> a \in opened /\ IsTarget(q, l, a)
    BY <2>2, <2>3, <2>4, ViewRow DEF IsTarget
  <2>6. Seen(s) <=> NickIn(made, l)
    BY <1>2, <2>1 DEF Seen, NickIn
  <2>7. IF Seen(s) \/ targets = {} THEN GoOn(s, "row", Tail(left), made)
        ELSE \E a \in targets :
               GoOn(s, "row", Tail(left),
                    Append(made, [saved EXCEPT !.account = a,
                                               !.currency = q.sendIn]))
    BY <1>2, <1>5, <2>1, <2>3, <2>4, Zenon DEF PickRow
  <2>8. /\ Tail(left) \in Seq(Link)
        /\ (Tail(left) # <<>> => q.sendIn \in Currencies)
    BY <1>3, <1>5
  <2>9. CASE Seen(s) \/ targets = {}
    <3>1. GoOn(s, "row", Tail(left), made)
      BY <2>7, <2>9
    <3>2. NickIn(made, l) \/ \A a \in Accounts :
            IsTarget(q, l, a) => \E w \in seen : a \notin w[2]
      <4>1. <<links, opened>>[2] = opened
        OBVIOUS
      <4> QED
        BY <1>3, <2>5, <2>6, <2>9, <4>1
    <3>3. Picking(q, Tail(left), made, seen)
      BY <1>3, <1>5, <2>1, <3>2, PickingDrops
    <3>4. Serving(q, "row", Tail(left), made, seen)
      BY <1>3, <2>8, <3>3 DEF Serving
    <3> QED
      BY <1>1, <1>2, <1>3, <3>1, <3>4, GoOnKeeps DEF Steps
  <2>10. CASE ~(Seen(s) \/ targets = {})
    <3>1. PICK a \in targets :
            GoOn(s, "row", Tail(left),
                 Append(made, [saved EXCEPT !.account = a,
                                            !.currency = q.sendIn]))
      BY <2>7, <2>10
    <3>2. PICK row : row = [saved EXCEPT !.account = a, !.currency = q.sendIn]
      OBVIOUS
    <3>3. a \in Accounts /\ q.sendIn \in Currencies
      BY <1>3, <1>5, <2>5
    <3>4. /\ row \in Row /\ row.nickname = l.nickname /\ row.account = a
      BY <2>2, <2>3, <3>2, <3>3, ViewRow DEF Row
    <3>5. PICK more : more = Append(made, row)
      OBVIOUS
    <3>6. more \in Seq(Row)
      BY <1>3, <3>4, <3>5
    <3>7. Picking(q, Tail(left), more, seen)
      BY <1>3, <1>5, <2>1, <2>5, <2>6, <2>10, <3>4, <3>5, PickingAdds
    <3>8. Serving(q, "row", Tail(left), more, seen)
      BY <1>3, <2>8, <3>7 DEF Serving
    <3> QED
      BY <1>1, <1>2, <3>1, <3>2, <3>5, <3>6, <3>8, GoOnKeeps DEF Steps
  <2> QED
    BY <2>9, <2>10
<1> QED
  BY <1>4, <1>5

(***************************************************************************)
(* Pages.                                                                  *)
(***************************************************************************)

LEMMA SmallerOf ==
  ASSUME NEW a \in Int, NEW b \in Int
  PROVE  Min({a, b}) = IF a <= b THEN a ELSE b
<1> DEFINE m == IF a <= b THEN a ELSE b
<1>1. m \in {a, b} /\ \A y \in {a, b} : m <= y
  OBVIOUS
<1>2. \A x \in {a, b} : (\A y \in {a, b} : x <= y) => x = m
  OBVIOUS
<1> QED
  BY <1>1, <1>2 DEF Min

\* Where a page begins, and how long it may be.
LEMMA PageRange ==
  ASSUME NEW q \in Listing, NEW b
  PROVE  /\ SizeOf(q) \in Nat \ {0} /\ Start(q) \in Nat
         /\ FirstRow(b, q) \in Nat
<1>1. q.size \in Nat /\ q.page \in Nat
  BY DEF Listing
<1>2. SizeOf(q) \in Nat \ {0}
  BY <1>1, AffiliatesAssumption DEF SizeOf
<1> DEFINE p == (IF q.page < 1 THEN 1 ELSE q.page) - 1
           n == SizeOf(q)
<1>3. p \in Nat
  BY <1>1
<1> HIDE DEF p, n
<1>4. p * n \in Nat
  BY <1>2, <1>3 DEF n
<1>5. Start(q) \in Nat
  BY <1>4 DEF Start, p, n
<1>6. Start(q) % U32 \in Nat
  BY <1>5, AffiliatesAssumption
<1> QED
  BY <1>2, <1>5, <1>6 DEF FirstRow

LEMMA Between ==
  ASSUME NEW S, NEW s, NEW m \in Int, NEW n \in Int,
         \A i \in m..n : s[i] \in S
  PROVE  /\ SubSeq(s, m, n) \in Seq(S)
         /\ Len(SubSeq(s, m, n)) = IF m <= n THEN n - m + 1 ELSE 0
         /\ \A i \in 1..(n - m + 1) : SubSeq(s, m, n)[i] = s[m + i - 1]
BY SubSeqProperties

\* `items` are the rows that `order` names after the first `first`.
IsPage(items, made, order, first, size) ==
  LET n == Len(order)
      last == IF first + size <= n THEN first + size ELSE n
  IN /\ items \in Seq(Row) /\ DOMAIN items = 1..Len(items)
     /\ Len(items) = IF first < last THEN last - first ELSE 0
     /\ \A i \in 1..Len(items) :
          first + i \in 1..n /\ items[i] = made[order[first + i]]

LEMMA PageRows ==
  ASSUME NEW made \in Seq(Row), NEW P, P \subseteq DOMAIN made,
         NEW R, NEW order \in Orders(P, R), NEW first \in Nat,
         NEW size \in Nat \ {0}
  PROVE  /\ IsFiniteSet(P) /\ Len(order) \in Nat
         /\ \A last, sorted, items :
              /\ last = Min({first + size, Len(order)})
              /\ sorted = [i \in DOMAIN order |-> made[order[i]]]
              /\ items = SubSeq(sorted, first + 1, last)
              => IsPage(items, made, order, first, size)
<1>1. IsFiniteSet(P)
  <2>1. Len(made) \in Nat /\ DOMAIN made = 1..Len(made)
    OBVIOUS
  <2>2. 1 \in Int /\ Len(made) \in Int
    BY <2>1
  <2>3. IsFiniteSet(1..Len(made))
    BY <2>2, FS_Interval
  <2>4. P \in SUBSET (1..Len(made))
    BY <2>1
  <2> QED
    BY <2>3, <2>4, FS_Subset
<1>2. /\ Len(order) \in Nat /\ DOMAIN order = 1..Len(order)
      /\ \A i \in 1..Len(order) : order[i] \in P
  BY <1>1, OrderHas
<1>3. PICK n : n = Len(order)
  OBVIOUS
<1>4. n \in Nat /\ DOMAIN order = 1..n
  BY <1>2, <1>3
<1>5. ASSUME NEW last, last = Min({first + size, n}),
             NEW sorted, sorted = [i \in 1..n |-> made[order[i]]],
             NEW items, items = SubSeq(sorted, first + 1, last)
      PROVE  IsPage(items, made, order, first, size)
  <2>1. \A i \in 1..n : sorted[i] \in Row /\ sorted[i] = made[order[i]]
    BY <1>2, <1>3, <1>5
  <2>2. last = IF first + size <= n THEN first + size ELSE n
    <3>1. first + size \in Int /\ n \in Int
      BY <1>4
    <3> QED
      BY <1>5, <3>1, SmallerOf
  <2>3. last \in Nat /\ last <= n
    BY <1>4, <2>2
  <2>4. PICK m : m = first + 1
    OBVIOUS
  <2>5. m \in Int /\ last \in Int
    BY <2>3, <2>4
  <2>6. \A i \in m..last : sorted[i] \in Row
    BY <1>4, <2>1, <2>3, <2>4
  <2>7. items = SubSeq(sorted, m, last)
    BY <1>5, <2>4
  <2>8. /\ items \in Seq(Row)
        /\ Len(items) = IF m <= last THEN last - m + 1 ELSE 0
        /\ \A i \in 1..(last - m + 1) : items[i] = sorted[m + i - 1]
    BY <2>5, <2>6, <2>7, Between
  <2>9. PICK k : k = Len(items)
    OBVIOUS
  <2>10. k = IF first < last THEN last - first ELSE 0
    BY <2>3, <2>4, <2>8, <2>9
  <2>11. ASSUME NEW i \in 1..k
         PROVE  first + i \in 1..n /\ items[i] = made[order[first + i]]
    <3>1. i \in 1..(last - m + 1) /\ m + i - 1 = first + i
      BY <2>3, <2>4, <2>10
    <3>2. first + i \in 1..n
      BY <1>4, <2>3, <2>10
    <3> QED
      BY <2>1, <2>8, <3>1, <3>2
  <2>12. DOMAIN items = 1..k
    BY <2>8, <2>9
  <2> QED
    BY <1>3, <2>2, <2>8, <2>9, <2>10, <2>11, <2>12 DEF IsPage
<1> QED
  BY <1>1, <1>2, <1>3, <1>5

\* The rows of the send picker that are on a page; on the only page, all.
LEMMA PagePicks ==
  ASSUME NEW q, q.sendIn # Absent, NEW made \in Seq(Row), NEW seen,
         Picking(q, <<>>, made, seen), NEW b,
         NEW order \in Sorted(b, q, made), NEW first \in Nat,
         NEW size \in Nat \ {0}, NEW items,
         IsPage(items, made, order, first, size)
  PROVE  Allowed(q, items, q.search = Absent /\ Len(order) = Len(items), seen)
<1>1. PICK P : P = {i \in DOMAIN made : Kept(q, made[i])}
  OBVIOUS
<1>2. PICK R : R = Before(b, q, made)
  OBVIOUS
<1>3. order \in Orders(P, R) /\ P \subseteq DOMAIN made
  BY <1>1, <1>2 DEF Sorted
<1>4. /\ IsFiniteSet(P) /\ Len(order) \in Nat
      /\ DOMAIN items = 1..Len(items)
      /\ \A i \in 1..Len(items) :
           first + i \in 1..Len(order) /\ items[i] = made[order[first + i]]
  BY <1>3, PageRows DEF IsPage
<1>5. /\ \A i \in 1..Len(order) : order[i] \in P
      /\ \A i, j \in 1..Len(order) : order[i] = order[j] => i = j
      /\ \A p \in P : \E i \in 1..Len(order) : order[i] = p
  <2>1. IsFiniteSet(P) /\ order \in Orders(P, R)
    BY <1>3, <1>4
  <2> QED
    BY <2>1, OrderHas
<1>6. /\ \A i, j \in DOMAIN made :
           Key[made[i].nickname] = Key[made[j].nickname] => i = j
      /\ \E v \in seen :
           /\ \A i \in DOMAIN made : \E l \in MineOf(q, v) :
                l.nickname = made[i].nickname /\ IsTarget(q, l, made[i].account)
           /\ \A l \in MineOf(q, v) :
                \/ NickIn(made, l)
                \/ \A a \in Accounts :
                     IsTarget(q, l, a) => \E w \in seen : a \notin w[2]
  BY DEF Picking
<1>7. ASSUME NEW i \in DOMAIN items, NEW j \in DOMAIN items,
             Key[items[i].nickname] = Key[items[j].nickname]
      PROVE  i = j
  <2>1. PICK k, m : k = first + i /\ m = first + j
    OBVIOUS
  <2>2. /\ k \in 1..Len(order) /\ m \in 1..Len(order)
        /\ items[i] = made[order[k]] /\ items[j] = made[order[m]]
    BY <1>4, <2>1
  <2>3. order[k] \in DOMAIN made /\ order[m] \in DOMAIN made
    BY <1>3, <1>5, <2>2
  <2>4. order[k] = order[m]
    BY <1>6, <1>7, <2>2, <2>3
  <2>5. k = m
    BY <1>5, <2>2, <2>4
  <2>6. i \in 1..Len(items) /\ j \in 1..Len(items) /\ first \in Nat
    BY <1>4
  <2> QED
    BY <2>1, <2>5, <2>6
<1>8. ASSUME NEW v, NEW i \in DOMAIN items,
             \A k \in DOMAIN made : \E l \in MineOf(q, v) :
               l.nickname = made[k].nickname /\ IsTarget(q, l, made[k].account)
      PROVE  \E l \in MineOf(q, v) :
               l.nickname = items[i].nickname /\ IsTarget(q, l, items[i].account)
  <2>1. order[first + i] \in DOMAIN made /\ items[i] = made[order[first + i]]
    BY <1>3, <1>4, <1>5
  <2> QED
    BY <1>8, <2>1
<1>9. ASSUME q.search = Absent, Len(order) = Len(items), NEW k \in DOMAIN made
      PROVE  \E i \in DOMAIN items : items[i] = made[k]
  <2>1. k \in P
    BY <1>1, <1>9 DEF Kept
  <2>2. PICK i \in 1..Len(order) : order[i] = k
    BY <1>5, <2>1
  <2>3. PICK n, m : n = Len(order) /\ m = Len(items)
    OBVIOUS
  <2>4. /\ n \in Nat /\ n = m /\ i \in 1..n
        /\ LET last == IF first + size <= n THEN first + size ELSE n
           IN m = IF first < last THEN last - first ELSE 0
    BY <1>4, <1>9, <2>2, <2>3 DEF IsPage
  <2>5. first = 0
    BY <2>4
  <2>6. i \in 1..Len(items) /\ first + i = i
    <3>1. i \in 1..m /\ first + i = i
      BY <2>4, <2>5
    <3> QED
      BY <2>3, <3>1
  <2> QED
    BY <1>4, <2>2, <2>6
<1>10. ASSUME q.search = Absent, Len(order) = Len(items), NEW l, NickIn(made, l)
       PROVE  NickIn(items, l)
  <2>1. PICK k \in DOMAIN made : Key[made[k].nickname] = Key[l.nickname]
    BY <1>10 DEF NickIn
  <2>2. PICK i \in DOMAIN items : items[i] = made[k]
    BY <1>9, <1>10
  <2> QED
    BY <2>1, <2>2 DEF NickIn
<1>11. PICK v \in seen :
         /\ \A i \in DOMAIN made : \E l \in MineOf(q, v) :
              l.nickname = made[i].nickname /\ IsTarget(q, l, made[i].account)
         /\ \A l \in MineOf(q, v) :
              \/ NickIn(made, l)
              \/ \A a \in Accounts :
                   IsTarget(q, l, a) => \E w \in seen : a \notin w[2]
  BY <1>6
<1>12. \A i \in DOMAIN items : \E l \in MineOf(q, v) :
         l.nickname = items[i].nickname /\ IsTarget(q, l, items[i].account)
  BY <1>8, <1>11
<1>13. ASSUME q.search = Absent, Len(order) = Len(items),
              NEW l \in MineOf(q, v),
              \E a \in Accounts : IsTarget(q, l, a) /\ \A w \in seen : a \in w[2]
       PROVE  NickIn(items, l)
  BY <1>10, <1>11, <1>13
<1> QED
  BY <1>7, <1>11, <1>12, <1>13 DEF Allowed

\* The rows of a plain list: one for each link, by account.
PlainOf(q, v, found, made) ==
  /\ VersionOK(v) /\ found \in Orders(MineOf(q, v), ByAccount(MineOf(q, v)))
  /\ made = [i \in DOMAIN found |-> ViewOf(found[i])]

RowsOf(q, v) == {ViewOf(l) : l \in MineOf(q, v)}

LEMMA PlainRows ==
  ASSUME NEW q, NEW v, NEW found, NEW made, PlainOf(q, v, found, made)
  PROVE  /\ made \in Seq(Row)
         /\ \A i \in DOMAIN made :
              /\ made[i].account \in Nat /\ made[i].nickname \in Nicknames
              /\ Key[made[i].nickname] \in Nat
         /\ \A i, j \in DOMAIN made :
              i < j <=> made[i].account < made[j].account
         /\ \A r : r \in RowsOf(q, v) <=> \E i \in DOMAIN made : r = made[i]
<1>1. PICK mine : mine = MineOf(q, v)
  OBVIOUS
<1>2. mine \in SUBSET v[1] /\ IsFiniteSet(v[1]) /\ v[1] \subseteq Link
  BY <1>1 DEF MineOf, VersionOK, Version, PlainOf
<1>3. IsFiniteSet(mine) /\ \A l \in mine : l \in Link
  BY <1>2, FS_Subset
<1>4. found \in Orders(mine, ByAccount(mine))
  BY <1>1 DEF PlainOf
<1>5. /\ Len(found) \in Nat /\ DOMAIN found = 1..Len(found)
      /\ \A i \in 1..Len(found) : found[i] \in mine
      /\ \A i, j \in 1..Len(found) :
           i < j => <<found[i], found[j]>> \in ByAccount(mine)
      /\ \A l \in mine : \E i \in 1..Len(found) : found[i] = l
  BY <1>3, <1>4, OrderHas
<1>6. PICK n : n = Len(found)
  OBVIOUS
<1>7. /\ n \in Nat /\ DOMAIN made = 1..n
      /\ \A i \in 1..n : found[i] \in Link /\ made[i] = ViewOf(found[i])
  BY <1>3, <1>5, <1>6 DEF PlainOf
<1>8. ASSUME NEW i \in 1..n
      PROVE  /\ made[i] \in Row /\ made[i].account \in Nat
             /\ made[i].nickname \in Nicknames /\ Key[made[i].nickname] \in Nat
             /\ made[i].account = found[i].account
  <2>1. /\ made[i] \in Row /\ made[i].account = found[i].account
        /\ made[i].nickname \in Nicknames /\ found[i].account \in Accounts
    BY <1>7, ViewRow
  <2> QED
    BY <2>1, AffiliatesAssumption
<1>9. made \in Seq(Row)
  <2>1. made \in [1..n -> Row]
    BY <1>7, <1>8 DEF PlainOf
  <2> QED
    BY <1>7, <2>1
<1>10. ASSUME NEW i \in 1..n, NEW j \in 1..n, i < j
       PROVE  made[i].account < made[j].account
  <2>1. <<found[i], found[j]>> \in ByAccount(mine)
    BY <1>5, <1>6, <1>10
  <2>2. found[i].account < found[j].account
    BY <2>1 DEF ByAccount
  <2> QED
    BY <1>8, <2>2
<1>11. \A i, j \in 1..n : i < j <=> made[i].account < made[j].account
  <2>1. \A i \in 1..n : i \in Nat /\ made[i].account \in Nat
    BY <1>8
  <2>2. \A i, j \in 1..n : i < j \/ i = j \/ j < i
    OBVIOUS
  <2>3. \A i, j \in 1..n : i < j => made[i].account < made[j].account
    BY <1>10
  <2> QED
    BY <2>1, <2>2, <2>3
<1>12. \A r : r \in RowsOf(q, v) <=> \E i \in 1..n : r = made[i]
  <2>1. \A r : r \in RowsOf(q, v) <=> \E l \in mine : r = ViewOf(l)
    BY <1>1 DEF RowsOf
  <2>2. \A l \in mine : \E i \in 1..n : ViewOf(l) = made[i]
    BY <1>5, <1>6, <1>7
  <2>3. \A i \in 1..n : \E l \in mine : ViewOf(l) = made[i]
    BY <1>5, <1>6, <1>7
  <2> QED
    BY <2>1, <2>2, <2>3
<1> QED
  BY <1>1, <1>7, <1>8, <1>9, <1>11, <1>12

\* A row comes before another in the list shown.
Shown(b, q, r, t) ==
  IF Key[r.nickname] = Key[t.nickname]
  THEN IF q.desc /\ b = "C" THEN t.account < r.account
                            ELSE r.account < t.account
  ELSE IF q.desc THEN Key[t.nickname] < Key[r.nickname]
                 ELSE Key[r.nickname] < Key[t.nickname]

Ahead(b, q, kept, r) == {t \in kept \ {r} : Shown(b, q, t, r)}

\* The order of the places is that of the rows there.
LEMMA ShownBefore ==
  ASSUME NEW b, NEW q, q.desc \in BOOLEAN, NEW made,
         NEW i \in DOMAIN made, NEW j \in DOMAIN made,
         i \in Nat, j \in Nat,
         made[i].account \in Nat, made[j].account \in Nat,
         Key[made[i].nickname] \in Nat, Key[made[j].nickname] \in Nat,
         i < j <=> made[i].account < made[j].account,
         j < i <=> made[j].account < made[i].account
  PROVE  /\ <<i, j>> \in Before(b, q, made) <=> Shown(b, q, made[i], made[j])
         /\ ~(Shown(b, q, made[i], made[j]) /\ Shown(b, q, made[j], made[i]))
<1>1. <<i, j>> \in (DOMAIN made) \X (DOMAIN made)
  OBVIOUS
<1>2. <<i, j>>[1] = i /\ <<i, j>>[2] = j
  OBVIOUS
<1>3. <<i, j>> \in Before(b, q, made) <=>
        IF Key[made[i].nickname] = Key[made[j].nickname]
        THEN IF q.desc /\ b = "C" THEN j < i ELSE i < j
        ELSE IF q.desc THEN Key[made[j].nickname] < Key[made[i].nickname]
                       ELSE Key[made[i].nickname] < Key[made[j].nickname]
  BY <1>1, <1>2 DEF Before
<1> QED
  BY <1>3 DEF Shown

KeptRows(q, v) == {r \in RowsOf(q, v) : Kept(q, r)}

\* A page of a plain list shows each row at its place.
LEMMA PageLists ==
  ASSUME NEW q, q.desc \in BOOLEAN, Start(q) \in Nat, SizeOf(q) \in Nat \ {0},
         NEW b, NEW seen, \A v \in seen : VersionOK(v),
         NEW made, Plain(q, made, seen), NEW order \in Sorted(b, q, made),
         NEW answer, answer.total = Len(order),
         IsPage(answer.items, made, order, Start(q), SizeOf(q))
  PROVE  TrueOfList(b, q, answer, seen)
<1>1. PICK v, found :
        /\ v \in seen /\ found \in Orders(MineOf(q, v), ByAccount(MineOf(q, v)))
        /\ made = [i \in DOMAIN found |-> ViewOf(found[i])]
  BY DEF Plain
<1>2. /\ made \in Seq(Row)
      /\ \A i \in DOMAIN made :
           /\ made[i].account \in Nat /\ made[i].nickname \in Nicknames
           /\ Key[made[i].nickname] \in Nat
      /\ \A i, j \in DOMAIN made : i < j <=> made[i].account < made[j].account
      /\ \A r : r \in RowsOf(q, v) <=> \E i \in DOMAIN made : r = made[i]
  <2>1. PlainOf(q, v, found, made)
    BY <1>1 DEF PlainOf
  <2> QED
    BY <2>1, PlainRows
<1>3. PICK P : P = {i \in DOMAIN made : Kept(q, made[i])}
  OBVIOUS
<1>4. PICK R : R = Before(b, q, made)
  OBVIOUS
<1>5. /\ order \in Orders(P, R) /\ P \subseteq DOMAIN made
      /\ IsFiniteSet(P) /\ Len(order) \in Nat
  <2>1. order \in Orders(P, R) /\ P \subseteq DOMAIN made
    BY <1>3, <1>4 DEF Sorted
  <2>2. 0 \in Nat /\ 1 \in Nat \ {0}
    OBVIOUS
  <2> QED
    BY <1>2, <2>1, <2>2, PageRows
<1>6. /\ \A i \in 1..Len(order) : order[i] \in P
      /\ \A i, j \in 1..Len(order) : order[i] = order[j] => i = j
      /\ \A p \in P : \E i \in 1..Len(order) : order[i] = p
  BY <1>5, OrderHas
<1>7. \A i \in P : i \in Nat /\ i \in DOMAIN made
  BY <1>2, <1>5
<1>8. ASSUME NEW i \in P, NEW j \in P, made[i] = made[j]
      PROVE  i = j
  <2>1. i \in Nat /\ j \in Nat /\ i \in DOMAIN made /\ j \in DOMAIN made
    BY <1>7
  <2>2. ~(made[i].account < made[j].account) /\ ~(made[j].account < made[i].account)
    BY <1>2, <1>8, <2>1
  <2>3. ~(i < j) /\ ~(j < i)
    BY <1>2, <2>1, <2>2
  <2> QED
    BY <2>1, <2>3
<1>9. ASSUME NEW i \in P, NEW j \in P
      PROVE  /\ <<i, j>> \in R <=> Shown(b, q, made[i], made[j])
             /\ ~(Shown(b, q, made[i], made[j]) /\ Shown(b, q, made[j], made[i]))
  <2>1. i \in Nat /\ j \in Nat /\ i \in DOMAIN made /\ j \in DOMAIN made
    BY <1>7
  <2>2. /\ made[i].account \in Nat /\ made[j].account \in Nat
        /\ Key[made[i].nickname] \in Nat /\ Key[made[j].nickname] \in Nat
        /\ i < j <=> made[i].account < made[j].account
        /\ j < i <=> made[j].account < made[i].account
    BY <1>2, <2>1
  <2> QED
    BY <1>4, <2>1, <2>2, ShownBefore
<1>10. PICK kept : kept = KeptRows(q, v)
  OBVIOUS
<1>11. \A r : r \in kept <=> \E p \in P : r = made[p]
  <2>1. \A r : r \in kept <=> /\ \E i \in DOMAIN made : r = made[i]
                              /\ Kept(q, r)
    BY <1>2, <1>10 DEF KeptRows
  <2> QED
    BY <1>3, <2>1
<1>12. PICK n : n = Len(order)
  OBVIOUS
<1>13. n \in Nat
  BY <1>5, <1>12
<1>14. Cardinality(kept) = n
  <2>1. PICK g : g = [i \in 1..n |-> made[order[i]]]
    OBVIOUS
  <2>2. g \in [1..n -> kept] /\ DOMAIN g = 1..n
    BY <1>6, <1>11, <1>12, <2>1
  <2>3. \A i, j \in 1..n : g[i] = g[j] => i = j
    BY <1>6, <1>8, <1>12, <2>1
  <2>4. \A r \in kept : \E i \in 1..n : g[i] = r
    BY <1>6, <1>11, <1>12, <2>1
  <2>5. ExistsBijection(1..n, kept)
    BY <2>2, <2>3, <2>4
       DEF ExistsBijection, Bijection, Injection, Surjection, IsInjective
  <2> QED
    BY <1>13, <2>5, FS_CountingElements
<1>15. ASSUME NEW k \in 1..n
       PROVE  Cardinality(Ahead(b, q, kept, made[order[k]])) = k - 1
  <2>1. PICK T : T = Ahead(b, q, kept, made[order[k]])
    OBVIOUS
  <2>2. order[k] \in P
    BY <1>6, <1>12
  <2>3. \A t : t \in T <=> \E p \in P : p # order[k] /\ <<p, order[k]>> \in R
                                       /\ t = made[p]
    <3>1. \A t : t \in T <=> \E p \in P : /\ t = made[p] /\ t # made[order[k]]
                                         /\ Shown(b, q, t, made[order[k]])
      BY <1>11, <2>1 DEF Ahead
    <3>2. \A p \in P : made[p] # made[order[k]] <=> p # order[k]
      BY <1>8, <2>2
    <3>3. \A p \in P : Shown(b, q, made[p], made[order[k]])
                        <=> <<p, order[k]>> \in R
      BY <1>9, <2>2
    <3>4. ASSUME NEW t \in T
          PROVE  \E p \in P : p # order[k] /\ <<p, order[k]>> \in R
                               /\ t = made[p]
      BY <3>1, <3>2, <3>3
    <3>5. ASSUME NEW p \in P, p # order[k], <<p, order[k]>> \in R
          PROVE  made[p] \in T
      BY <3>1, <3>2, <3>3, <3>5
    <3> QED
      BY <3>4, <3>5
  <2>4. \A x, y \in P : <<x, y>> \in R => <<y, x>> \notin R
    BY <1>9
  <2>5. \A x, y \in P : made[x] = made[y] => x = y
    BY <1>8
  <2>6. k \in 1..Len(order) /\ IsFiniteSet(P) /\ order \in Orders(P, R)
    BY <1>5, <1>12
  <2>7. Precede(T, P, R, made, order, k)
    BY <2>3, <2>4, <2>5, <2>6 DEF Precede
  <2>8. Cardinality(T) = k - 1
    BY <2>7, Placed
  <2> QED
    BY <2>1, <2>8
<1>16. ASSUME NEW r \in kept, NEW i \in 1..SizeOf(q)
       PROVE  Cardinality(Ahead(b, q, kept, r)) = Start(q) + i - 1
                <=> i \in DOMAIN answer.items /\ answer.items[i] = r
  <2>1. PICK k \in 1..n : r = made[order[k]]
    BY <1>6, <1>11, <1>12
  <2>2. Cardinality(Ahead(b, q, kept, r)) = k - 1
    BY <1>15, <2>1
  <2>3. PICK first, size, m :
          first = Start(q) /\ size = SizeOf(q) /\ m = Len(answer.items)
    OBVIOUS
  <2>4. /\ first \in Nat /\ size \in Nat \ {0} /\ i \in 1..size
        /\ DOMAIN answer.items = 1..m
        /\ LET last == IF first + size <= n THEN first + size ELSE n
           IN m = IF first < last THEN last - first ELSE 0
        /\ \A j \in 1..m : /\ first + j \in 1..n
                           /\ answer.items[j] = made[order[first + j]]
    BY <1>12, <2>3 DEF IsPage
  <2>5. ASSUME k = first + i
        PROVE  i \in 1..m /\ answer.items[i] = r
    <3>1. i \in 1..m
      BY <1>13, <2>1, <2>4, <2>5
    <3> QED
      BY <2>1, <2>4, <2>5, <3>1
  <2>6. ASSUME i \in 1..m, answer.items[i] = r
        PROVE  k = first + i
    <3>1. PICK j : j = first + i
      OBVIOUS
    <3>2. j \in 1..n /\ made[order[j]] = made[order[k]]
      BY <2>1, <2>4, <2>6, <3>1
    <3>3. order[j] = order[k]
      BY <1>6, <1>8, <1>12, <2>1, <3>2
    <3> QED
      BY <1>6, <1>12, <2>1, <3>1, <3>2, <3>3
  <2>7. k - 1 = first + i - 1 <=> k = first + i
    BY <2>1, <2>4
  <2> QED
    BY <2>2, <2>3, <2>4, <2>5, <2>6, <2>7
<1>17. /\ answer.total = Cardinality(KeptRows(q, v))
       /\ \A r \in KeptRows(q, v), i \in 1..SizeOf(q) :
            Cardinality(Ahead(b, q, KeptRows(q, v), r)) = Start(q) + i - 1
              <=> i \in DOMAIN answer.items /\ answer.items[i] = r
  BY <1>10, <1>12, <1>14, <1>16
<1> QED
  BY <1>1, <1>17, Zenon DEF TrueOfList, KeptRows, RowsOf, Ahead, Shown

LEMMA PageKeeps ==
  ASSUME Inductive, NEW s \in Servers, Page(s)
  PROVE  Inductive'
<1>1. ~At(s, "idle") /\ pc[s] = "page" /\ Reads
  BY DEF Page, At
<1>2. PICK q, made, seen : q = req[s] /\ made = view[s] /\ seen = during[s]
  OBVIOUS
<1>3. /\ q.op = "list" /\ q \in Request /\ made \in Seq(Row)
      /\ \A v \in seen : VersionOK(v)
      /\ IF q.sendIn = Absent THEN Plain(q, made, seen)
         ELSE Picking(q, <<>>, made, seen)
  BY <1>1, <1>2, Known DEF Serving
<1>4. q \in Listing /\ q.desc \in BOOLEAN
  BY <1>3 DEF Request, Named, OfLink, Listing, Resolving, Sending
<1>5. PICK b, first, size :
        b = Backend[s] /\ first = FirstRow(b, q) /\ size = SizeOf(q)
  OBVIOUS
<1>6. first \in Nat /\ size \in Nat \ {0} /\ Start(q) \in Nat
  BY <1>4, <1>5, PageRange
<1>7. CASE Say(s, "invalid")
  <2>1. Said("invalid").kind = "invalid"
    BY NoAnswerIsReply
  <2>2. AnswerTrue(Backend[s], req[s], Said("invalid"), during[s])
    BY <1>2, <1>3, <2>1, AnswerCases
  <2>3. PickerTrue(req[s], Said("invalid"), during[s])
    BY <2>1, NotPicked
  <2> QED
    BY <1>1, <1>7, <2>2, <2>3, SayKeeps
<1>8. ASSUME NEW order \in Sorted(b, q, made), NEW last, NEW sorted, NEW items,
             last = Min({first + size, Len(order)}),
             sorted = [i \in DOMAIN order |-> made[order[i]]],
             items = SubSeq(sorted, first + 1, last),
             NEW answer,
             answer = [kind |-> "ok", total |-> Len(order), items |-> items],
             Answer(s, answer)
      PROVE  Inductive'
  <2>1. PICK P : P = {i \in DOMAIN made : Kept(q, made[i])}
    OBVIOUS
  <2>2. PICK R : R = Before(b, q, made)
    OBVIOUS
  <2>3. order \in Orders(P, R) /\ P \subseteq DOMAIN made
    BY <1>8, <2>1, <2>2 DEF Sorted
  <2>4. Len(order) \in Nat /\ IsPage(items, made, order, first, size)
    BY <1>3, <1>6, <1>8, <2>3, PageRows
  <2>5. items \in Seq(Row)
    BY <2>4 DEF IsPage
  <2>6. /\ answer.kind = "ok" /\ answer.total = Len(order)
        /\ answer.items = items
    BY <1>8
  <2>7. answer \in Reply
    BY <1>8, <2>4, <2>5 DEF Reply
  <2>8. ASSUME PageFits(b, q), q.sendIn = Absent
        PROVE  TrueOfList(b, q, answer, seen)
    <3>1. first = Start(q)
      BY <1>3, <1>5, <2>8 DEF PageFits
    <3>2. IsPage(answer.items, made, order, Start(q), SizeOf(q))
      BY <1>5, <2>4, <2>6, <3>1
    <3>3. Plain(q, made, seen)
      BY <1>3, <2>8
    <3>4. SizeOf(q) \in Nat \ {0}
      BY <1>5, <1>6
    <3> QED
      BY <1>3, <1>4, <1>6, <2>6, <3>2, <3>3, <3>4, PageLists
  <2>9. PageFits(b, q) => AnswerTrue(b, q, answer, seen)
    BY <1>3, <2>8, AnswerCases
  <2>10. PickerTrue(q, answer, seen)
    <3>1. ASSUME q.sendIn # Absent
          PROVE  Allowed(q, items,
                         q.search = Absent /\ Len(order) = Len(items), seen)
      <4>1. Picking(q, <<>>, made, seen)
        BY <1>3, <3>1
      <4> QED
        BY <1>3, <1>6, <2>4, <3>1, <4>1, PagePicks
    <3> QED
      BY <2>6, <3>1 DEF PickerTrue
  <2> QED
    BY <1>1, <1>2, <1>5, <1>8, <2>6, <2>7, <2>9, <2>10, AnswerKeeps
<1>9. \/ Say(s, "invalid")
      \/ \E order \in Sorted(b, q, made) :
           Answer(s, [kind |-> "ok", total |-> Len(order),
                      items |-> SubSeq([i \in DOMAIN order |-> made[order[i]]],
                                       first + 1,
                                       Min({first + size, Len(order)}))])
  BY <1>2, <1>5, Zenon DEF Page
<1> QED
  BY <1>7, <1>8, <1>9, Zenon

(***************************************************************************)
(* What holds whenever the affiliates are used.                            *)
(***************************************************************************)

LEMMA InductiveInit == Init => Inductive
<1> SUFFICES ASSUME Init
             PROVE  Inductive
  OBVIOUS
<1>1. VersionOK(<<links, opened>>)
  <2>1. links \in SUBSET Link /\ opened \in SUBSET Accounts
    BY AffiliatesAssumption DEF Init
  <2>2. IsFiniteSet(links) /\ IsFiniteSet(opened)
    BY AffiliatesAssumption, FS_EmptySet DEF Init
  <2> QED
    BY <2>1, <2>2 DEF VersionOK, Version, Init
<1>2. <<>> \in Seq(Row)
  OBVIOUS
<1>3. TablesOK
  BY <1>1, <1>2, NoAnswerIsReply DEF TablesOK, Init
<1>4. ASSUME NEW s \in Servers
      PROVE  HereOK(s)
  <2>1. /\ pc[s] = "idle" /\ req[s] = NoCall /\ rows[s] = <<>> /\ view[s] = <<>>
        /\ reply[s] = NoAnswer /\ during[s] = {}
    BY DEF Init
  <2> QED
    BY <2>1, NoAnswerIsReply DEF HereOK, At, PickerTrue
<1> QED
  BY <1>3, <1>4, InductiveParts

LEMMA IdleKeeps ==
  ASSUME Inductive, UNCHANGED vars
  PROVE  Inductive'
<1>1. TablesOK /\ \A s \in Servers : HereOK(s)
  BY InductiveParts
<1>2. TablesOK'
  BY <1>1 DEF TablesOK, vars
<1>3. ASSUME NEW s \in Servers
      PROVE  HereOK(s)'
  BY <1>1, HereKept DEF vars
<1> QED
  BY <1>2, <1>3, InductivePartsNext

LEMMA InductiveNext == Inductive /\ [Next]_vars => Inductive'
<1> SUFFICES ASSUME Inductive, [Next]_vars
             PROVE  Inductive'
  OBVIOUS
<1>1. ASSUME NEW s \in Servers, Writing(s)
      PROVE  Inductive'
  BY <1>1, FindAccountKeeps, LookForLinkKeeps, InsertKeeps, RenameKeeps,
     DeleteKeeps DEF Writing
<1>2. ASSUME NEW s \in Servers, Viewing(s)
      PROVE  Inductive'
  BY <1>2, GetKeeps, ListLinksKeeps, PickRowKeeps, PageKeeps DEF Viewing
<1>3. ASSUME NEW s \in Servers, Choosing(s)
      PROVE  Inductive'
  BY <1>3, TargetKeeps, RecipientsKeeps, RecordKeeps, FindTagKeeps,
     OwnAccountsKeeps, TheirAccountsKeeps DEF Choosing
<1> QED
  BY <1>1, <1>2, <1>3, AcceptKeeps, FailKeeps, OpenAccountKeeps, IdleKeeps
     DEF Next

\* Whatever the servers do to the tables between each other's statements, what
\* a server has read stays true of a version that it has seen.
THEOREM InductiveHolds == Spec => []Inductive
BY InductiveInit, InductiveNext, PTL DEF Spec

\* The primary key holds: an owner has at most one link to an account, and only
\* to accounts that have been opened (affiliate_service.c:231).
THEOREM TypeCorrect == Spec => []TypeOK
<1>1. Inductive => TypeOK
  BY DEF Inductive
<1> QED
  BY <1>1, InductiveHolds, PTL

\* The send picker lists only accounts that the check of a send accepts, one for
\* each nickname, and leaves none out that was there all the time
\* (affiliate_service.c:640).
THEOREM PickerAllowsHolds == Spec => []PickerAllows
<1>1. Inductive => PickerAllows
  BY DEF Inductive
<1> QED
  BY <1>1, InductiveHolds, PTL

\* Answers are true of the links as they were at some moment of the request, as
\* long as the page asked for begins within a u32 (affiliate_service.c:231).
THEOREM AnswersFitHolds == Spec => []AnswersFit
<1>1. Inductive => AnswersFit
  BY DEF Inductive
<1> QED
  BY <1>1, InductiveHolds, PTL

\* And so are all answers, if no Rust server is asked for a page that begins
\* beyond its u32: a C server finds the first row in a size_t, which none does.
THEOREM AnswersTrueHolds ==
  ASSUME \A s \in Servers : Backend[s] = "Rust" =>
           \A q \in Calls[s] : q.op = "list" => Start(q) < U32
  PROVE  Spec => []AnswersTrue
<1>1. ASSUME NEW s \in Servers, NEW q \in Calls[s]
      PROVE  PageFits(Backend[s], q)
  <2>1. q \in Request /\ Backend[s] \in {"C", "Rust"}
    BY AffiliatesAssumption
  <2>2. CASE Backend[s] = "Rust" /\ q.op = "list"
    <3>1. q \in Listing
      BY <2>1, <2>2 DEF Request, Named, OfLink, Resolving, Sending
    <3>2. Start(q) \in Nat /\ Start(q) < U32
      BY <2>2, <3>1, PageRange
    <3>3. Start(q) % U32 = Start(q)
      BY <3>2, AffiliatesAssumption
    <3> QED
      BY <2>2, <3>3 DEF PageFits, FirstRow
  <2>3. CASE Backend[s] = "C" \/ q.op # "list"
    BY <2>3 DEF PageFits, FirstRow
  <2> QED
    BY <2>1, <2>2, <2>3
<1>2. Inductive => AnswersTrue
  BY <1>1 DEF Inductive, AnswersFit, AnswersTrue
<1> QED
  BY <1>2, InductiveHolds, PTL
=============================================================================

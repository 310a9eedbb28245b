----------------------------- MODULE QueryProofs -----------------------------
(***************************************************************************)
(* The two things the server keeps of a query.                             *)
(*                                                                         *)
(* The live query, for any rows, callers, capacity of the change channel   *)
(* and bounds: what the server has stored of it reaches the client with    *)
(* the frames on the wire, and every subscription is accounted for.        *)
(*                                                                         *)
(* The cached result, for any types, queries, handlers, capacity and       *)
(* number of writes: one that was current when it was stored does not      *)
(* outlive the handler of a later invalidating write.                      *)
(***************************************************************************)
EXTENDS QuerySubscriptions, QueryCache, WellFoundedInduction, TLAPS

CONSTANTS Queries, Readers, MaxEntries
VARIABLE reader

Handlers == INSTANCE QueryHandlers

-----------------------------------------------------------------------------
(* The inductive invariant *)

Request == [type : {"sub", "unsub"}, call : Calls]

Answer == [type : {"sub-ok"}, call : Calls, rows : Result]
Refusal == [type : {"sub-err"}, call : Calls]

\* A diff gives a value to every row it adds or updates.
Diffs ==
    {d \in [added : SUBSET Ids, removed : SUBSET Ids, updated : SUBSET Ids, new : Result] :
        \A i \in d.added \cup d.updated : d.new[i] \in Vals}

Change == [type : {"sub"}, call : Calls, diff : Diffs]

Frame == Answer \cup Refusal \cup Change

\* Frames and counters.  Every reconnect follows a fault, so there is a number
\* for every call.
Typed ==
    /\ TypeOK
    /\ inbox \in Seq(Request)
    /\ outbox \in Seq(Frame)
    /\ opens \in Nat /\ writes \in 0 .. MaxWrites /\ faults \in 0 .. MaxFaults
    /\ unsent <= writes
    /\ opens <= MaxOpens + faults
    /\ ~up => faults > 0 /\ opens < MaxOpens + faults /\ DOMAIN snap = {}

Asks(p, c) == inbox[p].type = "sub" /\ inbox[p].call = c

About(q, c) == outbox[q].call = c
Answers(q, c) == About(q, c) /\ outbox[q].type = "sub-ok"
Refuses(q, c) == About(q, c) /\ outbox[q].type = "sub-err"
Changes(q, c) == About(q, c) /\ outbox[q].type = "sub"

\* Calls are numbered in the order they are made.
Numbered ==
    /\ epoch <= opens /\ subId <= opens
    /\ subs \cup pend \cup DOMAIN snap \subseteq 1 .. opens
    /\ \A c \in Calls :
        /\ \A p \in 1 .. Len(inbox) : Asks(p, c) => c <= opens
        /\ \A q \in 1 .. Len(outbox) : About(q, c) => c <= opens

\* The client uses a subscription only under its last call.
Current ==
    /\ cbs = {} => epoch = None
    /\ subId # None => subId = epoch

\* The server has not come to call c yet.
Unanswered(c) ==
    /\ c \in pend \cup abandoned
    /\ c \notin subs \cup DOMAIN snap
    /\ c # subId
    /\ \A q \in 1 .. Len(outbox) : ~About(q, c)

\* A call is asked once.
InboxInv ==
    \A p \in 1 .. Len(inbox), c \in Calls : Asks(p, c) =>
        /\ Unanswered(c)
        /\ \A r \in 1 .. Len(inbox) : Asks(r, c) => r = p

\* It is answered once, before any diff, and what is refused is not kept.
OutboxInv ==
    \A q \in 1 .. Len(outbox), c \in Calls :
        /\ Refuses(q, c) => c \notin subs
        /\ Answers(q, c) =>
            /\ c # subId
            /\ \A r \in 1 .. Len(outbox) : Answers(r, c) => r = q
        /\ Changes(q, c) /\ c \in pend => \E r \in 1 .. (q - 1) : Answers(r, c)

\* The answer to a call that is waited for and has a subscription is on its way.
SubsInv == \A c \in subs \cap pend : \E q \in 1 .. Len(outbox) : Answers(q, c)

IInv ==
    /\ Typed /\ Numbered /\ Current
    /\ InboxInv /\ OutboxInv /\ SubsInv
    /\ SubscriptionsAccountedFor /\ SnapshotReachesClient

-----------------------------------------------------------------------------
(* Sequences, and what a sequence of frames makes of the rows *)

LEMMA AppendIs ==
    ASSUME NEW S, NEW q \in Seq(S), NEW m \in S
    PROVE  /\ Append(q, m) \in Seq(S) /\ Len(q) \in Nat /\ Len(Append(q, m)) = Len(q) + 1
           /\ \A n \in 1 .. Len(q) : Append(q, m)[n] = q[n]
           /\ Append(q, m)[Len(q) + 1] = m
           /\ ToSet(Append(q, m)) = ToSet(q) \cup {m}
<1>1. /\ Append(q, m) \in Seq(S) /\ Len(q) \in Nat /\ Len(Append(q, m)) = Len(q) + 1
      /\ \A n \in 1 .. Len(q) : Append(q, m)[n] = q[n]
      /\ Append(q, m)[Len(q) + 1] = m
      /\ DOMAIN q = 1 .. Len(q) /\ DOMAIN Append(q, m) = 1 .. (Len(q) + 1)
  OBVIOUS
<1>2. ToSet(Append(q, m)) = ToSet(q) \cup {m}
  BY <1>1 DEF ToSet
<1> QED BY <1>1, <1>2

LEMMA TailIs ==
    ASSUME NEW S, NEW q \in Seq(S), q # <<>>
    PROVE  /\ Tail(q) \in Seq(S) /\ Len(q) \in Nat \ {0} /\ Len(Tail(q)) = Len(q) - 1
           /\ \A n \in 1 .. (Len(q) - 1) : Tail(q)[n] = q[n + 1]
           /\ Head(q) = q[1] /\ Head(q) \in S
           /\ ToSet(q) = ToSet(Tail(q)) \cup {Head(q)}
<1>1. /\ Tail(q) \in Seq(S) /\ Len(q) \in Nat \ {0} /\ Len(Tail(q)) = Len(q) - 1
      /\ \A n \in 1 .. (Len(q) - 1) : Tail(q)[n] = q[n + 1]
      /\ Head(q) = q[1] /\ Head(q) \in S
      /\ DOMAIN q = 1 .. Len(q) /\ DOMAIN Tail(q) = 1 .. (Len(q) - 1)
  OBVIOUS
<1>2. ToSet(q) \subseteq ToSet(Tail(q)) \cup {Head(q)}
  <2> SUFFICES ASSUME NEW n \in 1 .. Len(q), q[n] # Head(q) PROVE q[n] \in ToSet(Tail(q))
    BY <1>1 DEF ToSet
  <2>1. n - 1 \in 1 .. (Len(q) - 1)
    BY <1>1
  <2>2. Tail(q)[n - 1] = q[n]
    BY <1>1, <2>1
  <2> QED BY <1>1, <2>1, <2>2 DEF ToSet
<1>3. ToSet(Tail(q)) \cup {Head(q)} \subseteq ToSet(q)
  BY <1>1 DEF ToSet
<1> QED BY <1>1, <1>2, <1>3

LEMMA LeastNat ==
    ASSUME NEW S \in SUBSET Nat, S # {}
    PROVE  \E x \in S : \A y \in S : x <= y
<1>1. PICK x \in S : \A y \in S : ~ (<<y, x>> \in OpToRel(<, Nat))
  BY NatLessThanWellFounded, WFMin
<1>2. \A y \in S : ~(y < x)
  <2> SUFFICES ASSUME NEW y \in S, y < x PROVE FALSE
    OBVIOUS
  <2>1. <<y, x>> \in Nat \X Nat
    OBVIOUS
  <2>2. <<y, x>> \in OpToRel(<, Nat)
    BY <2>1 DEF OpToRel
  <2> QED BY <2>2, <1>1
<1>3. \A y \in S : x <= y
  BY <1>2
<1> QED BY <1>3

IsFold(h, r, q, s, m) == h = [n \in 0 .. m |-> IF n = 0 THEN r ELSE Shown(h[n - 1], q[n], s)]

LEMMA FoldExists ==
    ASSUME NEW r, NEW q, NEW s, NEW m \in Nat
    PROVE  \E h : IsFold(h, r, q, s, m)
<1> DEFINE Bad == {n \in Nat : ~ \E h : IsFold(h, r, q, s, n)}
<1> SUFFICES ASSUME Bad # {} PROVE FALSE
  OBVIOUS
<1>1. PICK n \in Bad : \A k \in Bad : n <= k
  BY LeastNat
<1>2. CASE n = 0
  <2>1. IsFold([k \in 0 .. 0 |-> r], r, q, s, 0)
    BY DEF IsFold
  <2> QED BY <2>1, <1>2, <1>1
<1>3. CASE n # 0
  <2>1. n - 1 \in Nat /\ n - 1 \notin Bad
    BY <1>1, <1>3
  <2>2. PICK h : IsFold(h, r, q, s, n - 1)
    BY <2>1
  <2> DEFINE g == [k \in 0 .. n |-> IF k <= n - 1 THEN h[k] ELSE Shown(h[n - 1], q[n], s)]
  <2>3. \A k \in 0 .. n : g[k] = IF k = 0 THEN r ELSE Shown(g[k - 1], q[k], s)
    <3> SUFFICES ASSUME NEW k \in 0 .. n
                 PROVE  g[k] = IF k = 0 THEN r ELSE Shown(g[k - 1], q[k], s)
      OBVIOUS
    <3>1. CASE k <= n - 1
      <4>1. g[k] = h[k] /\ (k # 0 => g[k - 1] = h[k - 1])
        BY <2>1, <3>1
      <4>2. h[k] = IF k = 0 THEN r ELSE Shown(h[k - 1], q[k], s)
        BY <2>2, <2>1, <3>1 DEF IsFold
      <4> QED BY <4>1, <4>2
    <3>2. CASE k = n
      BY <2>1, <3>2
    <3> QED BY <2>1, <3>1, <3>2
  <2>4. IsFold(g, r, q, s, n)
    BY <2>3 DEF IsFold
  <2> HIDE DEF g
  <2> QED BY <2>4, <1>1
<1> QED BY <1>2, <1>3

LEMMA FoldUnique ==
    ASSUME NEW r, NEW q, NEW s, NEW m \in Nat, NEW h, NEW g, IsFold(h, r, q, s, m), IsFold(g, r, q, s, m)
    PROVE  h = g
<1>1. ASSUME NEW k \in 0 .. m PROVE h[k] = g[k]
  <2> DEFINE Bad == {n \in 0 .. m : h[n] # g[n]}
  <2> SUFFICES ASSUME Bad # {} PROVE FALSE
    OBVIOUS
  <2>0. Bad \in SUBSET Nat
    OBVIOUS
  <2>1. PICK n \in Bad : \A i \in Bad : n <= i
    BY <2>0, LeastNat
  <2>2. h[0] = r /\ g[0] = r
    BY DEF IsFold
  <2>3. n - 1 \in 0 .. m /\ h[n - 1] = g[n - 1]
    BY <2>1, <2>2
  <2>4. h[n] = Shown(h[n - 1], q[n], s) /\ g[n] = Shown(g[n - 1], q[n], s)
    BY <2>1, <2>2 DEF IsFold
  <2> QED BY <2>1, <2>3, <2>4
<1> QED BY <1>1 DEF IsFold

LEMMA ReceivedIsFold ==
    ASSUME NEW r, NEW q, NEW s, Len(q) \in Nat
    PROVE  \E h : IsFold(h, r, q, s, Len(q)) /\ Received(r, q, s) = h[Len(q)]
<1> DEFINE f == CHOOSE h : IsFold(h, r, q, s, Len(q))
<1>1. IsFold(f, r, q, s, Len(q))
  BY FoldExists, Zenon
<1>2. Received(r, q, s) = f[Len(q)]
  BY DEF IsFold, Received
<1> QED BY <1>1, <1>2

LEMMA ReceivedAppend ==
    ASSUME NEW S, NEW r, NEW q \in Seq(S), NEW m \in S, NEW s
    PROVE  Received(r, Append(q, m), s) = Shown(Received(r, q, s), m, s)
<1> DEFINE p == Append(q, m)
           n == Len(q)
<1>1. n \in Nat /\ Len(p) = n + 1 /\ p[n + 1] = m /\ \A k \in 1 .. n : p[k] = q[k]
  OBVIOUS
<1>2. PICK h : IsFold(h, r, q, s, n) /\ Received(r, q, s) = h[n]
  BY <1>1, ReceivedIsFold
<1>3. PICK g : IsFold(g, r, p, s, n + 1) /\ Received(r, p, s) = g[n + 1]
  <2> HIDE DEF p, n
  <2>1. Len(p) \in Nat
    BY <1>1
  <2>2. \E g : IsFold(g, r, p, s, Len(p)) /\ Received(r, p, s) = g[Len(p)]
    BY <2>1, ReceivedIsFold
  <2> QED BY <1>1, <2>2
<1> DEFINE f == [k \in 0 .. n |-> g[k]]
<1>4. IsFold(f, r, q, s, n)
  <2>1. \A k \in 0 .. n : g[k] = IF k = 0 THEN r ELSE Shown(g[k - 1], p[k], s)
    BY <1>1, <1>3 DEF IsFold
  <2>2. \A k \in 0 .. n : f[k] = IF k = 0 THEN r ELSE Shown(f[k - 1], q[k], s)
    BY <1>1, <2>1
  <2> QED BY <2>2 DEF IsFold
<1> HIDE DEF f, p, n
<1>5. f = h
  BY <1>1, <1>2, <1>4, FoldUnique
<1>6. f[n] = g[n]
  BY <1>1 DEF f
<1>7. g[n + 1] = Shown(g[n], p[n + 1], s)
  BY <1>1, <1>3 DEF IsFold
<1> QED BY <1>1, <1>2, <1>3, <1>5, <1>6, <1>7 DEF p

LEMMA ReceivedHead ==
    ASSUME NEW S, NEW r, NEW q \in Seq(S), q # <<>>, NEW s
    PROVE  Received(r, q, s) = Received(Shown(r, Head(q), s), Tail(q), s)
<1> DEFINE t == Tail(q)
           n == Len(t)
           b == Shown(r, Head(q), s)
<1>1. n \in Nat /\ Len(q) = n + 1 /\ q[1] = Head(q) /\ \A k \in 1 .. n : t[k] = q[k + 1]
  OBVIOUS
<1>2. PICK h : IsFold(h, b, t, s, n) /\ Received(b, t, s) = h[n]
  BY <1>1, ReceivedIsFold
<1>3. PICK g : IsFold(g, r, q, s, n + 1) /\ Received(r, q, s) = g[n + 1]
  BY <1>1, ReceivedIsFold
<1> DEFINE f == [k \in 0 .. n |-> g[k + 1]]
<1>4. IsFold(f, b, t, s, n)
  <2>1. \A k \in 0 .. n + 1 : g[k] = IF k = 0 THEN r ELSE Shown(g[k - 1], q[k], s)
    BY <1>1, <1>3 DEF IsFold
  <2>2. \A k \in 0 .. n : f[k] = IF k = 0 THEN b ELSE Shown(f[k - 1], t[k], s)
    <3> SUFFICES ASSUME NEW k \in 0 .. n
                 PROVE  f[k] = IF k = 0 THEN b ELSE Shown(f[k - 1], t[k], s)
      OBVIOUS
    <3> HIDE DEF t, n
    <3>1. CASE k = 0
      <4>1. g[1] = Shown(g[0], q[1], s) /\ g[0] = r
        BY <1>1, <2>1
      <4> QED BY <1>1, <3>1, <4>1
    <3>2. CASE k # 0
      <4>1. g[k + 1] = Shown(g[k], q[k + 1], s)
        BY <1>1, <2>1
      <4>2. f[k - 1] = g[k] /\ t[k] = q[k + 1]
        BY <1>1, <3>2
      <4> QED BY <3>2, <4>1, <4>2
    <3> QED BY <3>1, <3>2
  <2> QED BY <2>2 DEF IsFold
<1> HIDE DEF f, t, n, b
<1>5. f = h
  BY <1>1, <1>2, <1>4, FoldUnique
<1>6. f[n] = g[n + 1]
  BY <1>1 DEF f
<1> QED BY <1>2, <1>3, <1>5, <1>6 DEF b, t

LEMMA ReceivedNothing ==
    ASSUME NEW r, NEW s
    PROVE  Received(r, <<>>, s) = r
<1>1. Len(<<>>) = 0
  OBVIOUS
<1>2. PICK h : IsFold(h, r, <<>>, s, 0) /\ Received(r, <<>>, s) = h[0]
  BY <1>1, ReceivedIsFold
<1> QED BY <1>2 DEF IsFold

RowLists == [Ids -> Seq(Vals)]

LEMMA ListedType == ASSUME NEW r \in Result PROVE Listed(r) \in RowLists
<1>1. ASSUME NEW i \in Ids PROVE Listed(r)[i] \in Seq(Vals)
  <2>1. r[i] \in Vals \cup {None}
    BY DEF Result
  <2> QED BY <2>1 DEF Listed
<1> QED BY <1>1 DEF Listed, RowLists

LEMMA ApplyType == ASSUME NEW r \in RowLists, NEW d \in Diffs PROVE Apply(r, d) \in RowLists
<1>1. ASSUME NEW i \in Ids PROVE Apply(r, d)[i] \in Seq(Vals)
  <2> DEFINE kept == IF i \in d.removed THEN <<>> ELSE r[i]
             current == IF i \in d.updated THEN [n \in DOMAIN kept |-> d.new[i]] ELSE kept
  <2>1. kept \in Seq(Vals)
    BY DEF RowLists
  <2>2. i \in d.added \cup d.updated => d.new[i] \in Vals
    BY DEF Diffs
  <2>3. current \in Seq(Vals)
    <3>1. DOMAIN kept = 1 .. Len(kept) /\ Len(kept) \in Nat
      BY <2>1
    <3> HIDE DEF kept
    <3>2. CASE i \in d.updated
      <4>1. [n \in 1 .. Len(kept) |-> d.new[i]] \in Seq(Vals)
        BY <2>2, <3>1, <3>2
      <4> QED BY <3>1, <3>2, <4>1
    <3>3. CASE i \notin d.updated
      BY <2>1, <3>3
    <3> QED BY <3>2, <3>3
  <2>4. Apply(r, d)[i] = IF i \in d.added THEN Append(current, d.new[i]) ELSE current
    BY DEF Apply
  <2> HIDE DEF current
  <2> QED BY <2>2, <2>3, <2>4
<1> QED BY <1>1 DEF Apply, RowLists

LEMMA ShownType ==
    ASSUME NEW r \in RowLists, NEW m \in Frame, NEW s
    PROVE  Shown(r, m, s) \in RowLists
<1>1. m.type = "sub" => m.diff \in Diffs
  BY DEF Frame, Answer, Refusal, Change
<1>2. m.type = "sub-ok" => m.rows \in Result
  BY DEF Frame, Answer, Refusal, Change
<1> QED BY <1>1, <1>2, ListedType, ApplyType DEF Shown

LEMMA ReceivedType ==
    ASSUME NEW r \in RowLists, NEW q \in Seq(Frame), NEW s
    PROVE  Received(r, q, s) \in RowLists
<1>1. Len(q) \in Nat /\ \A n \in 1 .. Len(q) : q[n] \in Frame
  OBVIOUS
<1>2. PICK h : IsFold(h, r, q, s, Len(q)) /\ Received(r, q, s) = h[Len(q)]
  BY <1>1, ReceivedIsFold
<1>3. \A n \in 0 .. Len(q) : h[n] = IF n = 0 THEN r ELSE Shown(h[n - 1], q[n], s)
  BY <1>1, <1>2 DEF IsFold
<1> DEFINE Bad == {n \in 0 .. Len(q) : h[n] \notin RowLists}
<1>4. Bad = {}
  <2> SUFFICES ASSUME Bad # {} PROVE FALSE
    OBVIOUS
  <2>1. Bad \in SUBSET Nat
    OBVIOUS
  <2>2. PICK n \in Bad : \A k \in Bad : n <= k
    BY <2>1, LeastNat
  <2>3. n # 0
    BY <1>1, <1>3
  <2>4. n \in 1 .. Len(q) /\ n - 1 \in 0 .. Len(q) /\ n - 1 \notin Bad
    BY <1>1, <2>2, <2>3
  <2>5. h[n - 1] \in RowLists /\ q[n] \in Frame /\ h[n] = Shown(h[n - 1], q[n], s)
    BY <1>1, <1>3, <2>3, <2>4
  <2> QED BY <2>5, ShownType
<1> QED BY <1>1, <1>2, <1>4

-----------------------------------------------------------------------------
(* Steps *)

LEMMA NoneIsNoCall == None \notin Calls
BY DEF None, Calls

LEMMA InitIInv == Init => IInv
<1> SUFFICES ASSUME Init PROVE IInv
  OBVIOUS
<1>1. /\ <<>> \in Seq(Request) /\ <<>> \in Seq(Frame) /\ Len(<<>>) = 0 /\ DOMAIN <<>> = {}
      /\ \A i \in Ids : <<>> \in Seq(Vals)
  OBVIOUS
<1>2. NoRows \in RowLists
  BY <1>1 DEF NoRows, RowLists
<1>3. TypeOK
  <2>1. unsent \in 0 .. MaxWrites /\ events \in 0 .. Capacity
    BY BoundsAssumption, CapacityAssumption DEF Init
  <2>2. DOMAIN snap = {} /\ rows \in RowLists
    BY <1>1, <1>2 DEF Init
  <2>3. up \in BOOLEAN /\ lagged \in BOOLEAN /\ up
    BY DEF Init
  <2> QED BY <2>1, <2>2, <2>3 DEF Init, TypeOK, RowLists
<1>4. Typed /\ Numbered /\ Current
  BY <1>1, <1>3, BoundsAssumption DEF Init, Typed, Numbered, Current, None
<1>5. InboxInv /\ OutboxInv /\ SubsInv
  BY <1>1 DEF Init, InboxInv, OutboxInv, SubsInv
<1>6. SubscriptionsAccountedFor /\ SnapshotReachesClient
  BY <1>1 DEF Init, SubscriptionsAccountedFor, SnapshotReachesClient
<1> QED BY <1>4, <1>5, <1>6 DEF IInv

\* A step that sends nothing and changes no subscription: a write, its
\* announcement, and the start of a refresh.
LEMMA QuietStep ==
    ASSUME IInv, UNCHANGED <<up, subs, snap, inbox, outbox, client, faults>>,
           db' \in Result, unsent' \in Nat, unsent' <= writes', writes' \in 0 .. MaxWrites,
           events' \in 0 .. Capacity, lagged' \in BOOLEAN, todo' \subseteq subs
    PROVE  IInv'
<1>1. Typed'
  BY BoundsAssumption DEF IInv, Typed, TypeOK, client
<1>2. Numbered' /\ Current'
  BY DEF IInv, Numbered, Current, Asks, About, client
<1>3. \A c : Unanswered(c)' = Unanswered(c)
  BY DEF Unanswered, About, client
<1>4. \A p, c : /\ Asks(p, c)' = Asks(p, c) /\ Answers(p, c)' = Answers(p, c)
                 /\ Refuses(p, c)' = Refuses(p, c) /\ Changes(p, c)' = Changes(p, c)
  BY DEF Asks, About, Answers, Refuses, Changes
<1>5. InboxInv' /\ OutboxInv' /\ SubsInv'
  BY <1>3, <1>4 DEF IInv, InboxInv, OutboxInv, SubsInv, client
<1>6. SubscriptionsAccountedFor' /\ SnapshotReachesClient'
  BY DEF IInv, SubscriptionsAccountedFor, SnapshotReachesClient, Arriving, client
<1> QED BY <1>1, <1>2, <1>5, <1>6 DEF IInv

LEMMA QuietSteps ==
    ASSUME IInv,
           \/ \E i \in Ids, v \in Vals \cup {None}, local \in BOOLEAN : Write(i, v, local)
           \/ Announce \/ HandleChange \/ HandleLagged \/ AuthTick
    PROVE  IInv'
<1>1. /\ db \in Result /\ unsent \in 0 .. MaxWrites /\ writes \in 0 .. MaxWrites /\ unsent <= writes
      /\ events \in 0 .. Capacity /\ lagged \in BOOLEAN /\ todo \subseteq subs /\ up \in BOOLEAN
  BY DEF IInv, Typed, TypeOK
<1>2. ASSUME NEW i \in Ids, NEW v \in Vals \cup {None}, NEW local \in BOOLEAN, Write(i, v, local)
      PROVE  IInv'
  <2>1. db' \in Result
    BY <1>1, <1>2 DEF Write, Result
  <2>2. unsent' \in Nat /\ writes' \in 0 .. MaxWrites /\ unsent' <= writes'
    BY <1>1, <1>2, BoundsAssumption DEF Write
  <2>3. UNCHANGED <<up, events, lagged, subs, snap, todo, inbox, outbox, client, faults>>
    BY <1>2 DEF Write, server
  <2> QED BY <1>1, <2>1, <2>2, <2>3, QuietStep
<1>3. CASE Announce
  <2>1. unsent' \in Nat /\ unsent' <= writes' /\ writes' \in 0 .. MaxWrites
    BY <1>1, <1>3, BoundsAssumption DEF Announce
  <2>2. events' \in 0 .. Capacity /\ lagged' \in BOOLEAN
    BY <1>1, <1>3, CapacityAssumption DEF Announce
  <2>3. UNCHANGED <<db, up, subs, snap, todo, inbox, outbox, client, faults>>
    BY <1>3 DEF Announce
  <2> QED BY <1>1, <2>1, <2>2, <2>3, QuietStep
<1>4. CASE HandleChange
  BY <1>1, <1>4, CapacityAssumption, BoundsAssumption, QuietStep DEF HandleChange
<1>5. CASE HandleLagged
  <2>1. lagged' \in BOOLEAN
    BY <1>5 DEF HandleLagged
  <2>2. UNCHANGED <<db, unsent, up, events, subs, snap, todo, inbox, outbox, client, writes, faults>>
    BY <1>5 DEF HandleLagged
  <2>3. unsent \in Nat
    BY <1>1, BoundsAssumption
  <2> QED BY <1>1, <2>1, <2>2, <2>3, QuietStep
<1>6. CASE AuthTick
  BY <1>1, <1>6, BoundsAssumption, QuietStep DEF AuthTick
<1> QED BY <1>2, <1>3, <1>4, <1>5, <1>6

LEMMA FramesAreTyped ==
    ASSUME IInv
    PROVE  /\ inbox \in Seq(Request) /\ Len(inbox) \in Nat
           /\ outbox \in Seq(Frame) /\ Len(outbox) \in Nat
           /\ rows \in RowLists
BY DEF IInv, Typed, TypeOK, RowLists

\* The server takes a frame.
LEMMA InboxTail ==
    ASSUME IInv, inbox # <<>>, inbox' = Tail(inbox)
    PROVE  /\ inbox' \in Seq(Request) /\ Len(inbox) \in Nat \ {0} /\ Len(inbox') = Len(inbox) - 1
           /\ \A p \in 1 .. Len(inbox') :
                p + 1 \in 1 .. Len(inbox) /\ \A c : Asks(p, c)' <=> Asks(p + 1, c)
           /\ Head(inbox) = inbox[1] /\ Head(inbox) \in Request
           /\ ToSet(inbox) = ToSet(inbox') \cup {Head(inbox)}
<1>1. /\ inbox' \in Seq(Request) /\ Len(inbox) \in Nat \ {0} /\ Len(inbox') = Len(inbox) - 1
      /\ \A n \in 1 .. (Len(inbox) - 1) : inbox'[n] = inbox[n + 1]
      /\ Head(inbox) = inbox[1] /\ Head(inbox) \in Request
      /\ ToSet(inbox) = ToSet(inbox') \cup {Head(inbox)}
  BY FramesAreTyped, TailIs
<1>2. \A p \in 1 .. Len(inbox') :
          p + 1 \in 1 .. Len(inbox) /\ \A c : Asks(p, c)' <=> Asks(p + 1, c)
  BY <1>1 DEF Asks
<1> QED BY <1>1, <1>2

\* The client sends one.
LEMMA InboxAppend ==
    ASSUME IInv, NEW m \in Request, inbox' = Append(inbox, m)
    PROVE  /\ inbox' \in Seq(Request) /\ Len(inbox') = Len(inbox) + 1
           /\ \A p \in 1 .. Len(inbox) : \A c : Asks(p, c)' <=> Asks(p, c)
           /\ \A p \in 1 .. Len(inbox') : p \notin 1 .. Len(inbox) =>
                p = Len(inbox') /\ \A c : Asks(p, c)' <=> m.type = "sub" /\ m.call = c
           /\ ToSet(inbox') = ToSet(inbox) \cup {m}
<1>1. /\ inbox' \in Seq(Request) /\ Len(inbox) \in Nat /\ Len(inbox') = Len(inbox) + 1
      /\ \A n \in 1 .. Len(inbox) : inbox'[n] = inbox[n]
      /\ inbox'[Len(inbox) + 1] = m
      /\ ToSet(inbox') = ToSet(inbox) \cup {m}
  BY FramesAreTyped, AppendIs
<1> QED BY <1>1 DEF Asks

\* The client receives a frame.
LEMMA OutboxTail ==
    ASSUME IInv, outbox # <<>>, outbox' = Tail(outbox)
    PROVE  /\ outbox' \in Seq(Frame) /\ Len(outbox) \in Nat \ {0} /\ Len(outbox') = Len(outbox) - 1
           /\ \A q \in 1 .. Len(outbox') :
                /\ q + 1 \in 1 .. Len(outbox)
                /\ \A c : /\ About(q, c)' <=> About(q + 1, c)
                          /\ Answers(q, c)' <=> Answers(q + 1, c)
                          /\ Refuses(q, c)' <=> Refuses(q + 1, c)
                          /\ Changes(q, c)' <=> Changes(q + 1, c)
           /\ Head(outbox) = outbox[1] /\ Head(outbox) \in Frame
<1>1. /\ outbox' \in Seq(Frame) /\ Len(outbox) \in Nat \ {0} /\ Len(outbox') = Len(outbox) - 1
      /\ \A n \in 1 .. (Len(outbox) - 1) : outbox'[n] = outbox[n + 1]
      /\ Head(outbox) = outbox[1] /\ Head(outbox) \in Frame
  BY FramesAreTyped, TailIs
<1> QED BY <1>1 DEF About, Answers, Refuses, Changes

\* The server sends one.
LEMMA OutboxAppend ==
    ASSUME IInv, NEW m \in Frame, outbox' = Append(outbox, m)
    PROVE  /\ outbox' \in Seq(Frame) /\ Len(outbox') = Len(outbox) + 1
           /\ \A q \in 1 .. Len(outbox) : \A c :
                /\ About(q, c)' <=> About(q, c)
                /\ Answers(q, c)' <=> Answers(q, c)
                /\ Refuses(q, c)' <=> Refuses(q, c)
                /\ Changes(q, c)' <=> Changes(q, c)
           /\ \A q \in 1 .. Len(outbox') : q \notin 1 .. Len(outbox) =>
                /\ q = Len(outbox')
                /\ \A c : /\ About(q, c)' <=> m.call = c
                          /\ Answers(q, c)' <=> m.type = "sub-ok" /\ m.call = c
                          /\ Refuses(q, c)' <=> m.type = "sub-err" /\ m.call = c
                          /\ Changes(q, c)' <=> m.type = "sub" /\ m.call = c
<1>1. /\ outbox' \in Seq(Frame) /\ Len(outbox) \in Nat /\ Len(outbox') = Len(outbox) + 1
      /\ \A n \in 1 .. Len(outbox) : outbox'[n] = outbox[n]
      /\ outbox'[Len(outbox) + 1] = m
  BY FramesAreTyped, AppendIs
<1>2. \A q \in 1 .. Len(outbox') : q \notin 1 .. Len(outbox) => q = Len(outbox') /\ outbox'[q] = m
  BY <1>1
<1> QED BY <1>1, <1>2 DEF About, Answers, Refuses, Changes

\* The server comes to a request and answers it with m: an answer, or a
\* refusal, and then the call is not registered.
LEMMA AnswerStep ==
    ASSUME IInv, up, todo = {}, inbox # <<>>, Head(inbox).type = "sub",
           NEW c, c = Head(inbox).call, NEW m \in Answer \cup Refusal, m.call = c,
           inbox' = Tail(inbox), outbox' = Append(outbox, m),
           m.type = "sub-ok" => subs' = subs \cup {c},
           m.type = "sub-err" => subs' = subs,
           faults' \in faults .. MaxFaults,
           UNCHANGED <<db, unsent, up, events, lagged, snap, todo, client, writes>>
    PROVE  IInv'
<1>1. /\ Len(inbox) \in Nat /\ outbox \in Seq(Frame) /\ Len(outbox) \in Nat /\ rows \in RowLists
  BY FramesAreTyped
<1>2. m \in Frame /\ m.type \in {"sub-ok", "sub-err"}
  BY DEF Frame, Answer, Refusal
<1>3. /\ inbox' \in Seq(Request) /\ Len(inbox) \in Nat \ {0} /\ Len(inbox') = Len(inbox) - 1
      /\ \A p \in 1 .. Len(inbox') :
            p + 1 \in 1 .. Len(inbox) /\ \A d : Asks(p, d)' <=> Asks(p + 1, d)
      /\ Head(inbox) = inbox[1] /\ Head(inbox) \in Request
      /\ ToSet(inbox) = ToSet(inbox') \cup {Head(inbox)}
  BY InboxTail
<1>4. /\ outbox' \in Seq(Frame) /\ Len(outbox') = Len(outbox) + 1
      /\ \A q \in 1 .. Len(outbox) : \A d :
            /\ About(q, d)' <=> About(q, d)
            /\ Answers(q, d)' <=> Answers(q, d)
            /\ Refuses(q, d)' <=> Refuses(q, d)
            /\ Changes(q, d)' <=> Changes(q, d)
      /\ \A q \in 1 .. Len(outbox') : q \notin 1 .. Len(outbox) =>
            /\ q = Len(outbox')
            /\ \A d : /\ About(q, d)' <=> c = d
                      /\ Answers(q, d)' <=> m.type = "sub-ok" /\ c = d
                      /\ Refuses(q, d)' <=> m.type = "sub-err" /\ c = d
                      /\ ~Changes(q, d)'
  BY <1>2, OutboxAppend
<1>5. c \in Calls /\ Asks(1, c) /\ 1 \in 1 .. Len(inbox)
  BY <1>3 DEF Request, Asks
<1>6. Unanswered(c) /\ \A p \in 1 .. Len(inbox) : Asks(p, c) => p = 1
  BY <1>5 DEF IInv, InboxInv
<1>7. c \in 1 .. opens /\ subs' \subseteq subs \cup {c}
  BY <1>2, <1>5 DEF IInv, Numbered, Calls
<1>8. Typed'
  <2>1. subs' \subseteq Calls /\ faults' \in 0 .. MaxFaults /\ faults <= faults' /\ faults \in Nat
    BY <1>5, <1>7, BoundsAssumption DEF IInv, Typed, TypeOK
  <2>2. TypeOK'
    BY <2>1 DEF IInv, Typed, TypeOK, client
  <2>3. opens' <= MaxOpens + faults' /\ opens' \in Nat
    BY <2>1, BoundsAssumption DEF IInv, Typed, client
  <2> QED BY <1>3, <1>4, <2>1, <2>2, <2>3 DEF IInv, Typed, client
<1>9. Numbered' /\ Current'
  <2>1. \A d \in Calls, p \in 1 .. Len(inbox') : Asks(p, d)' => d <= opens
    BY <1>3 DEF IInv, Numbered
  <2>2. \A d \in Calls, q \in 1 .. Len(outbox') : About(q, d)' => d <= opens
    BY <1>4, <1>7 DEF IInv, Numbered
  <2>3. UNCHANGED <<epoch, subId, opens, pend, snap, cbs>>
    BY DEF client
  <2> QED BY <1>7, <2>1, <2>2, <2>3 DEF IInv, Numbered, Current
<1>10. InboxInv'
  <2> SUFFICES ASSUME NEW p \in 1 .. Len(inbox'), NEW d \in Calls, Asks(p, d)'
               PROVE  Unanswered(d)' /\ \A r \in 1 .. Len(inbox') : Asks(r, d)' => r = p
    BY DEF InboxInv
  <2>1. p + 1 \in 1 .. Len(inbox) /\ Asks(p + 1, d) /\ p + 1 # 1
    BY <1>3
  <2>2. d # c /\ Unanswered(d) /\ \A r \in 1 .. Len(inbox) : Asks(r, d) => r = p + 1
    BY <1>6, <2>1 DEF IInv, InboxInv
  <2>3. Unanswered(d)'
    BY <1>4, <1>7, <2>2 DEF Unanswered, client
  <2>4. ASSUME NEW r \in 1 .. Len(inbox'), Asks(r, d)' PROVE r = p
    <3>1. r + 1 = p + 1
      BY <1>3, <2>2, <2>4
    <3> QED BY <1>3, <3>1
  <2> QED BY <2>3, <2>4
<1>11. OutboxInv'
  <2> SUFFICES ASSUME NEW q \in 1 .. Len(outbox'), NEW d \in Calls
               PROVE  /\ Refuses(q, d)' => d \notin subs'
                      /\ Answers(q, d)' =>
                          /\ d # subId'
                          /\ \A r \in 1 .. Len(outbox') : Answers(r, d)' => r = q
                      /\ Changes(q, d)' /\ d \in pend' => \E r \in 1 .. (q - 1) : Answers(r, d)'
    BY DEF OutboxInv
  <2>1. \A r \in 1 .. Len(outbox) : ~About(r, c) /\ ~Answers(r, c) /\ ~Refuses(r, c)
    BY <1>6 DEF Unanswered, Answers, Refuses
  <2>2. CASE q \in 1 .. Len(outbox)
    <3>1. /\ Refuses(q, d) => d \notin subs
          /\ Answers(q, d) => d # subId /\ \A r \in 1 .. Len(outbox) : Answers(r, d) => r = q
          /\ Changes(q, d) /\ d \in pend => \E r \in 1 .. (q - 1) : Answers(r, d)
      BY <2>2 DEF IInv, OutboxInv
    <3>2. \A r \in 1 .. (q - 1) : r \in 1 .. Len(outbox)
      BY <1>1, <2>2
    <3>3. subId' = subId /\ pend' = pend
      BY DEF client
    <3>4. Refuses(q, d)' => d \notin subs'
      BY <1>4, <1>7, <2>1, <2>2, <3>1
    <3>5. Answers(q, d)' => d # subId' /\ \A r \in 1 .. Len(outbox') : Answers(r, d)' => r = q
      BY <1>4, <2>1, <2>2, <3>1, <3>3
    <3>6. Changes(q, d)' /\ d \in pend' => \E r \in 1 .. (q - 1) : Answers(r, d)'
      BY <1>4, <2>2, <3>1, <3>2, <3>3
    <3> QED BY <3>4, <3>5, <3>6
  <2>3. CASE q \notin 1 .. Len(outbox)
    <3>1. c # subId' /\ c \notin subs
      BY <1>6 DEF Unanswered, client
    <3>2. \A r \in 1 .. Len(outbox') : Answers(r, c)' => r = q
      BY <1>4, <2>1, <2>3
    <3> QED BY <1>4, <2>3, <3>1, <3>2
  <2> QED BY <1>4, <2>2, <2>3
<1>12. SubsInv'
  <2> SUFFICES ASSUME NEW d \in subs', d \in pend'
               PROVE  \E q \in 1 .. Len(outbox') : Answers(q, d)'
    BY DEF SubsInv
  <2>1. /\ Len(outbox) + 1 \in 1 .. Len(outbox') /\ Len(outbox) + 1 \notin 1 .. Len(outbox)
        /\ \A q \in 1 .. Len(outbox) : q \in 1 .. Len(outbox')
    BY <1>1, <1>4
  <2>2. CASE d \in subs
    <3>1. PICK q \in 1 .. Len(outbox) : Answers(q, d)
      BY <2>2 DEF IInv, SubsInv, client
    <3> QED BY <1>4, <2>1, <3>1
  <2>3. CASE d \notin subs
    <3>1. m.type = "sub-ok" /\ d = c
      BY <1>2, <1>7, <2>3
    <3> QED BY <1>4, <2>1, <3>1
  <2> QED BY <2>2, <2>3
<1>13. SubscriptionsAccountedFor'
  <2> SUFFICES ASSUME NEW s \in subs'
               PROVE  \/ s \in ({subId} \cup pend \cup abandoned)'
                      \/ [type |-> "unsub", call |-> s] \in ToSet(inbox')
    BY DEF SubscriptionsAccountedFor
  <2>1. [type |-> "unsub", call |-> s] # Head(inbox)
    OBVIOUS
  <2>2. CASE s \in subs
    BY <1>3, <2>1, <2>2 DEF IInv, SubscriptionsAccountedFor, client
  <2>3. CASE s = c
    BY <1>6, <2>3 DEF Unanswered, client
  <2> QED BY <1>7, <2>2, <2>3
<1>14. SnapshotReachesClient'
  <2> SUFFICES ASSUME NEW s \in DOMAIN snap, s = epoch, s = subId \/ s \in pend, NEW i \in Ids,
                      snap[s][i] # None
               PROVE  snap[s][i] \in ToSet(Received(rows, outbox', s)[i])
    BY DEF SnapshotReachesClient, Arriving, client
  <2>1. s # c
    BY <1>6 DEF Unanswered
  <2>2. Received(rows, outbox', s) = Shown(Received(rows, outbox, s), m, s)
    BY <1>1, <1>2, ReceivedAppend
  <2>3. Received(rows, outbox', s) = Received(rows, outbox, s)
    BY <2>1, <2>2 DEF Shown
  <2> QED BY <2>3 DEF IInv, SnapshotReachesClient, Arriving
<1> QED BY <1>8, <1>9, <1>10, <1>11, <1>12, <1>13, <1>14 DEF IInv

LEMMA HandleSubscribeStep == ASSUME IInv, HandleSubscribe PROVE IInv'
<1>0. PICK c : c = Head(inbox).call
  OBVIOUS
<1>1. /\ up /\ todo = {} /\ inbox # <<>> /\ Head(inbox).type = "sub" /\ inbox' = Tail(inbox)
      /\ UNCHANGED <<db, unsent, up, events, lagged, snap, todo, client, writes>>
  BY DEF HandleSubscribe, Waiting
<1>2. c \in Calls /\ db \in Result /\ NoResult \in Result /\ faults \in 0 .. MaxFaults
  <2>1. Head(inbox) \in Request
    BY <1>1, InboxTail
  <2> QED BY <1>0, <2>1 DEF Request, IInv, Typed, TypeOK, NoResult, Result
<1>3. \A r \in Result : [type |-> "sub-ok", call |-> c, rows |-> r] \in Answer
  BY <1>2 DEF Answer
<1>4. [type |-> "sub-err", call |-> c] \in Refusal
  BY <1>2 DEF Refusal
<1>5. faults' \in faults .. MaxFaults
  BY <1>2, BoundsAssumption DEF HandleSubscribe, Fault
<1>6. ASSUME NEW r \in Result, subs' = subs \cup {c},
             outbox' = Append(outbox, [type |-> "sub-ok", call |-> c, rows |-> r])
      PROVE  IInv'
  <2> DEFINE m == [type |-> "sub-ok", call |-> c, rows |-> r]
  <2>1. m \in Answer \cup Refusal /\ m.call = c /\ m.type = "sub-ok" /\ outbox' = Append(outbox, m)
    BY <1>3, <1>6
  <2> HIDE DEF m
  <2> QED BY <1>0, <1>1, <1>5, <1>6, <2>1, AnswerStep
<1>7. ASSUME subs' = subs, outbox' = Append(outbox, [type |-> "sub-err", call |-> c])
      PROVE  IInv'
  <2> DEFINE m == [type |-> "sub-err", call |-> c]
  <2>1. m \in Answer \cup Refusal /\ m.call = c /\ m.type = "sub-err" /\ outbox' = Append(outbox, m)
    BY <1>4, <1>7
  <2> HIDE DEF m
  <2> QED BY <1>0, <1>1, <1>5, <1>7, <2>1, AnswerStep
<1> QED BY <1>0, <1>2, <1>6, <1>7 DEF HandleSubscribe

LEMMA HandleUnsubscribeStep == ASSUME IInv, HandleUnsubscribe PROVE IInv'
<1>0. PICK c : c = Head(inbox).call
  OBVIOUS
<1>1. /\ up /\ todo = {} /\ inbox # <<>> /\ Head(inbox).type = "unsub" /\ inbox' = Tail(inbox)
      /\ subs' = subs \ {c}
      /\ UNCHANGED <<db, unsent, up, events, lagged, snap, todo, outbox, client, writes, faults>>
  BY <1>0 DEF HandleUnsubscribe, Waiting
<1>2. /\ inbox' \in Seq(Request) /\ Len(inbox) \in Nat \ {0} /\ Len(inbox') = Len(inbox) - 1
      /\ \A p \in 1 .. Len(inbox') :
            p + 1 \in 1 .. Len(inbox) /\ \A d : Asks(p, d)' <=> Asks(p + 1, d)
      /\ ToSet(inbox) = ToSet(inbox') \cup {Head(inbox)}
  BY <1>1, InboxTail
<1>3. \A q, d : /\ About(q, d)' <=> About(q, d)
                /\ Answers(q, d)' <=> Answers(q, d)
                /\ Refuses(q, d)' <=> Refuses(q, d)
                /\ Changes(q, d)' <=> Changes(q, d)
  BY <1>1 DEF About, Answers, Refuses, Changes
<1>4. UNCHANGED <<cbs, epoch, pend, subId, rows, abandoned, opens>>
  BY <1>1 DEF client
<1>5. Typed'
  BY <1>1, <1>2, <1>4 DEF IInv, Typed, TypeOK
<1>6. Numbered' /\ Current'
  <2>1. \A d \in Calls, p \in 1 .. Len(inbox') : Asks(p, d)' => d <= opens
    BY <1>2 DEF IInv, Numbered
  <2> QED BY <1>1, <1>3, <1>4, <2>1 DEF IInv, Numbered, Current
<1>7. InboxInv'
  <2> SUFFICES ASSUME NEW p \in 1 .. Len(inbox'), NEW d \in Calls, Asks(p, d)'
               PROVE  Unanswered(d)' /\ \A r \in 1 .. Len(inbox') : Asks(r, d)' => r = p
    BY DEF InboxInv
  <2>1. /\ p + 1 \in 1 .. Len(inbox) /\ Asks(p + 1, d) /\ Unanswered(d)
        /\ \A r \in 1 .. Len(inbox) : Asks(r, d) => r = p + 1
    BY <1>2 DEF IInv, InboxInv
  <2>2. Unanswered(d)'
    BY <1>1, <1>3, <1>4, <2>1 DEF Unanswered
  <2>3. ASSUME NEW r \in 1 .. Len(inbox'), Asks(r, d)' PROVE r = p
    <3>1. r + 1 = p + 1
      BY <1>2, <2>1, <2>3
    <3> QED BY <1>2, <3>1
  <2> QED BY <2>2, <2>3
<1>8. OutboxInv' /\ SubsInv'
  BY <1>1, <1>3, <1>4 DEF IInv, OutboxInv, SubsInv
<1>9. SubscriptionsAccountedFor'
  <2> SUFFICES ASSUME NEW s \in subs'
               PROVE  \/ s \in ({subId} \cup pend \cup abandoned)'
                      \/ [type |-> "unsub", call |-> s] \in ToSet(inbox')
    BY DEF SubscriptionsAccountedFor
  <2>1. s \in subs /\ [type |-> "unsub", call |-> s] # Head(inbox)
    BY <1>0, <1>1
  <2> QED BY <1>2, <1>4, <2>1 DEF IInv, SubscriptionsAccountedFor
<1>10. SnapshotReachesClient'
  BY <1>1, <1>4 DEF IInv, SnapshotReachesClient, Arriving
<1> QED BY <1>5, <1>6, <1>7, <1>8, <1>9, <1>10 DEF IInv

LEMMA DiffType ==
    ASSUME NEW old \in Result, NEW new \in Result
    PROVE  /\ Diff(old, new) \in Diffs
           /\ Diff(old, new).new = new
           /\ Diff(old, new).added = {i \in Ids : old[i] = None /\ new[i] # None}
           /\ Diff(old, new).removed = {i \in Ids : old[i] # None /\ new[i] = None}
           /\ Diff(old, new).updated = {i \in Ids : old[i] # None /\ new[i] # None /\ old[i] # new[i]}
BY DEF Diff, Diffs, Result

\* A diff carries the rows it starts from to the rows it leads to: if the client
\* holds every row of old, it then holds every row of new.
LEMMA DiffCarries ==
    ASSUME NEW r \in RowLists, NEW old \in Result, NEW new \in Result, NEW i \in Ids,
           old[i] # None => old[i] \in ToSet(r[i]), new[i] # None
    PROVE  new[i] \in ToSet(Apply(r, Diff(old, new))[i])
<1> DEFINE d == Diff(old, new)
           kept == IF i \in d.removed THEN <<>> ELSE r[i]
           current == IF i \in d.updated THEN [n \in DOMAIN kept |-> d.new[i]] ELSE kept
<1>1. Apply(r, d)[i] = IF i \in d.added THEN Append(current, d.new[i]) ELSE current
  BY DEF Apply
<1>2. /\ d.new = new /\ i \notin d.removed /\ new[i] \in Vals /\ r[i] \in Seq(Vals)
      /\ i \in d.added <=> old[i] = None
      /\ i \in d.updated <=> old[i] # None /\ old[i] # new[i]
  BY DiffType DEF Result, RowLists
<1> HIDE DEF d
<1>3. kept = r[i]
  BY <1>2
<1>4. CASE old[i] = None
  <2>1. Apply(r, d)[i] = Append(r[i], new[i])
    BY <1>1, <1>2, <1>3, <1>4
  <2>2. ToSet(Append(r[i], new[i])) = ToSet(r[i]) \cup {new[i]}
    BY <1>2, AppendIs
  <2> QED BY <2>1, <2>2 DEF d
<1>5. CASE old[i] # None /\ old[i] # new[i]
  <2>1. Apply(r, d)[i] = [n \in DOMAIN r[i] |-> new[i]]
    BY <1>1, <1>2, <1>3, <1>5
  <2>2. PICK n \in DOMAIN r[i] : TRUE
    BY <1>5 DEF ToSet
  <2> QED BY <2>1, <2>2 DEF ToSet, d
<1>6. CASE old[i] = new[i]
  BY <1>1, <1>2, <1>3, <1>6 DEF d
<1> QED BY <1>4, <1>5, <1>6

LEMMA EmptyDiff ==
    ASSUME NEW old \in Result, NEW new \in Result, IsEmpty(Diff(old, new))
    PROVE  old = new
<1>1. ASSUME NEW i \in Ids PROVE old[i] = new[i]
  BY DiffType DEF IsEmpty
<1> QED BY <1>1 DEF Result

LEMMA RefreshStep == ASSUME IInv, NEW s \in Calls, Refresh(s) PROVE IInv'
<1> DEFINE old == OldResult(s)
           d == Diff(old, db)
           m == [type |-> "sub", call |-> s, diff |-> d]
<1>1. /\ s \in todo /\ todo' = todo \ {s} /\ snap' = Store(s, db)
      /\ outbox' = IF IsEmpty(d) THEN outbox ELSE Append(outbox, m)
      /\ UNCHANGED <<db, unsent, up, events, lagged, subs, inbox, client, writes, faults>>
  BY DEF Refresh
<1>2. /\ s \in subs /\ up /\ db \in Result /\ \A t \in DOMAIN snap : snap[t] \in Result
      /\ outbox \in Seq(Frame) /\ Len(outbox) \in Nat /\ rows \in RowLists
  BY <1>1, FramesAreTyped DEF IInv, Typed, TypeOK
<1>3. old \in Result
  BY <1>2 DEF OldResult, NoResult, Result
<1>4. m \in Frame /\ m.type = "sub" /\ m.call = s /\ m.diff = d
  BY <1>2, <1>3, DiffType DEF Frame, Change
<1> HIDE DEF m, d, old
<1>5. /\ DOMAIN snap' = DOMAIN snap \cup {s} /\ snap'[s] = db
      /\ \A t \in DOMAIN snap \ {s} : snap'[t] = snap[t]
  BY <1>1 DEF Store
<1>6. UNCHANGED <<cbs, epoch, pend, subId, rows, abandoned, opens>>
  BY <1>1 DEF client
<1>7. /\ outbox' \in Seq(Frame) /\ Len(outbox') \in Nat /\ Len(outbox) <= Len(outbox')
      /\ \A q \in 1 .. Len(outbox) : \A c :
            /\ About(q, c)' <=> About(q, c)
            /\ Answers(q, c)' <=> Answers(q, c)
            /\ Refuses(q, c)' <=> Refuses(q, c)
            /\ Changes(q, c)' <=> Changes(q, c)
      /\ \A q \in 1 .. Len(outbox') : q \notin 1 .. Len(outbox) =>
            /\ q = Len(outbox) + 1
            /\ \A c : /\ About(q, c)' <=> s = c
                      /\ ~Answers(q, c)' /\ ~Refuses(q, c)'
                      /\ Changes(q, c)' <=> s = c
  <2>1. CASE IsEmpty(d)
    BY <1>1, <1>2, <2>1 DEF About, Answers, Refuses, Changes
  <2>2. CASE ~IsEmpty(d)
    <3>1. outbox' = Append(outbox, m)
      BY <1>1, <2>2
    <3> QED BY <1>2, <1>4, <3>1, OutboxAppend
  <2> QED BY <2>1, <2>2
<1>8. \A p, c : Asks(p, c)' <=> Asks(p, c)
  BY <1>1 DEF Asks
<1>9. Typed'
  <2>1. \A t \in DOMAIN snap' : snap'[t] \in Result
    BY <1>2, <1>5
  <2> QED BY <1>1, <1>2, <1>5, <1>6, <1>7, <2>1 DEF IInv, Typed, TypeOK
<1>10. Numbered' /\ Current'
  <2>1. s \in 1 .. opens
    BY <1>2 DEF IInv, Numbered
  <2>2. \A c \in Calls, q \in 1 .. Len(outbox') : About(q, c)' => c <= opens
    BY <1>7, <2>1 DEF IInv, Numbered
  <2>3. \A c \in Calls, p \in 1 .. Len(inbox') : Asks(p, c)' => c <= opens
    BY <1>1, <1>8 DEF IInv, Numbered
  <2>4. (subs \cup pend \cup DOMAIN snap)' \subseteq 1 .. opens
    BY <1>1, <1>5, <1>6, <2>1 DEF IInv, Numbered
  <2> QED BY <1>1, <1>6, <2>2, <2>3, <2>4 DEF IInv, Numbered, Current
<1>11. InboxInv'
  <2> SUFFICES ASSUME NEW p \in 1 .. Len(inbox'), NEW c \in Calls, Asks(p, c)'
               PROVE  Unanswered(c)' /\ \A r \in 1 .. Len(inbox') : Asks(r, c)' => r = p
    BY DEF InboxInv
  <2>1. Unanswered(c) /\ \A r \in 1 .. Len(inbox) : Asks(r, c) => r = p
    BY <1>1, <1>8 DEF IInv, InboxInv
  <2>2. c # s
    BY <1>2, <2>1 DEF Unanswered
  <2>3. \A q \in 1 .. Len(outbox') : ~About(q, c)'
    BY <1>7, <2>1, <2>2 DEF Unanswered
  <2>4. Unanswered(c)'
    BY <1>1, <1>5, <1>6, <2>1, <2>2, <2>3 DEF Unanswered
  <2> QED BY <1>1, <1>8, <2>1, <2>4
<1>12. SubsInv'
  <2>1. \A q \in 1 .. Len(outbox) : q \in 1 .. Len(outbox')
    BY <1>2, <1>7
  <2> QED BY <1>1, <1>6, <1>7, <2>1 DEF IInv, SubsInv
<1>13. OutboxInv'
  <2> SUFFICES ASSUME NEW q \in 1 .. Len(outbox'), NEW c \in Calls
               PROVE  /\ Refuses(q, c)' => c \notin subs'
                      /\ Answers(q, c)' =>
                          /\ c # subId'
                          /\ \A r \in 1 .. Len(outbox') : Answers(r, c)' => r = q
                      /\ Changes(q, c)' /\ c \in pend' => \E r \in 1 .. (q - 1) : Answers(r, c)'
    BY DEF OutboxInv
  <2>1. CASE q \in 1 .. Len(outbox)
    <3>1. /\ Refuses(q, c) => c \notin subs
          /\ Answers(q, c) => c # subId /\ \A r \in 1 .. Len(outbox) : Answers(r, c) => r = q
          /\ Changes(q, c) /\ c \in pend => \E r \in 1 .. (q - 1) : Answers(r, c)
      BY <2>1 DEF IInv, OutboxInv
    <3>2. \A r \in 1 .. (q - 1) : r \in 1 .. Len(outbox)
      BY <1>2, <2>1
    <3> QED BY <1>1, <1>6, <1>7, <2>1, <3>1, <3>2
  <2>2. CASE q \notin 1 .. Len(outbox)
    <3>1. q = Len(outbox) + 1 /\ ~Answers(q, c)' /\ ~Refuses(q, c)' /\ (Changes(q, c)' <=> s = c)
      BY <1>7, <2>2
    <3>2. s \in pend => \E r \in 1 .. Len(outbox) : Answers(r, s)
      BY <1>2 DEF IInv, SubsInv
    <3>3. \A r \in 1 .. Len(outbox) : r \in 1 .. (q - 1)
      BY <1>2, <3>1
    <3> QED BY <1>6, <1>7, <3>1, <3>2, <3>3
  <2> QED BY <2>1, <2>2
<1>14. SubscriptionsAccountedFor'
  BY <1>1, <1>6 DEF IInv, SubscriptionsAccountedFor
<1>15. SnapshotReachesClient'
  <2> SUFFICES ASSUME NEW t \in DOMAIN snap', t = epoch, t = subId \/ t \in pend, NEW i \in Ids,
                      snap'[t][i] # None
               PROVE  snap'[t][i] \in ToSet(Received(rows, outbox', t)[i])
    BY <1>6 DEF SnapshotReachesClient, Arriving
  <2>1. t \in DOMAIN snap => (snap[t][i] # None => snap[t][i] \in ToSet(Received(rows, outbox, t)[i]))
    BY DEF IInv, SnapshotReachesClient, Arriving
  <2>2. CASE t # s
    <3>1. t \in DOMAIN snap /\ snap'[t] = snap[t]
      BY <1>5, <2>2
    <3>2. Received(rows, outbox', t) = Received(rows, outbox, t)
      <4>1. CASE IsEmpty(d)
        BY <1>1, <4>1
      <4>2. CASE ~IsEmpty(d)
        <5>1. Received(rows, outbox', t) = Shown(Received(rows, outbox, t), m, t)
          BY <1>1, <1>2, <1>4, <4>2, ReceivedAppend
        <5> QED BY <1>4, <2>2, <5>1 DEF Shown
      <4> QED BY <4>1, <4>2
    <3> QED BY <2>1, <3>1, <3>2
  <2>3. CASE t = s
    <3>1. old[i] # None => old[i] \in ToSet(Received(rows, outbox, s)[i])
      BY <2>1, <2>3 DEF old, OldResult, NoResult
    <3>2. snap'[t] = db
      BY <1>5, <2>3
    <3>3. CASE IsEmpty(d)
      <4>1. old = db
        BY <1>2, <1>3, <3>3, EmptyDiff DEF d
      <4> QED BY <1>1, <2>3, <3>1, <3>2, <3>3, <4>1
    <3>4. CASE ~IsEmpty(d)
      <4>1. Received(rows, outbox', s) = Shown(Received(rows, outbox, s), m, s)
        BY <1>1, <1>2, <1>4, <3>4, ReceivedAppend
      <4>2. Received(rows, outbox', s) = Apply(Received(rows, outbox, s), Diff(old, db))
        BY <1>4, <4>1 DEF Shown, d
      <4>3. Received(rows, outbox, s) \in RowLists
        BY <1>2, ReceivedType
      <4>4. db[i] \in ToSet(Apply(Received(rows, outbox, s), Diff(old, db))[i])
        BY <1>2, <1>3, <3>1, <3>2, <4>3, DiffCarries
      <4> QED BY <2>3, <3>2, <4>2, <4>4
    <3> QED BY <3>3, <3>4
  <2> QED BY <2>2, <2>3
<1> QED BY <1>9, <1>10, <1>11, <1>12, <1>13, <1>14, <1>15 DEF IInv

\* Callers come and go while one stays.
LEMMA CallersStep ==
    ASSUME IInv, cbs' \subseteq Callers, cbs' # {},
           UNCHANGED <<db, unsent, up, events, lagged, subs, snap, todo, inbox, outbox,
                       epoch, pend, subId, rows, abandoned, opens, writes, faults>>
    PROVE  IInv'
<1>1. Typed' /\ Numbered' /\ Current'
  BY DEF IInv, Typed, TypeOK, Numbered, Current, Asks, About
<1>2. \A c : Unanswered(c)' = Unanswered(c)
  BY DEF Unanswered, About
<1>3. \A p, c : /\ Asks(p, c)' = Asks(p, c) /\ Answers(p, c)' = Answers(p, c)
                /\ Refuses(p, c)' = Refuses(p, c) /\ Changes(p, c)' = Changes(p, c)
  BY DEF Asks, About, Answers, Refuses, Changes
<1>4. InboxInv' /\ OutboxInv' /\ SubsInv'
  BY <1>2, <1>3 DEF IInv, InboxInv, OutboxInv, SubsInv
<1>5. SubscriptionsAccountedFor' /\ SnapshotReachesClient'
  BY DEF IInv, SubscriptionsAccountedFor, SnapshotReachesClient, Arriving
<1> QED BY <1>1, <1>4, <1>5 DEF IInv

\* openSubscription: a new call, sent if the socket is open.
LEMMA OpenStep ==
    ASSUME IInv, Open, subId' = None, subId = None \/ subs = {},
           cbs' \subseteq Callers, cbs' # {}, up' \in BOOLEAN, up => up',
           NEW n, n = opens + 1, n <= MaxOpens + faults, ~up' => n < MaxOpens + faults,
           \/ /\ up' /\ pend' = pend \cup {n}
              /\ inbox' = Append(inbox, [type |-> "sub", call |-> n])
           \/ ~up' /\ pend' = pend /\ inbox' = inbox,
           UNCHANGED <<db, unsent, events, lagged, subs, snap, todo, outbox,
                       rows, abandoned, writes, faults>>
    PROVE  IInv'
<1> DEFINE m == [type |-> "sub", call |-> n]
<1>1. /\ inbox \in Seq(Request) /\ Len(inbox) \in Nat /\ opens \in Nat
      /\ opens' = n /\ epoch' = n /\ n \in Nat /\ n \in Calls
  <2>1. opens \in Nat /\ faults \in 0 .. MaxFaults
    BY DEF IInv, Typed
  <2> QED BY <2>1, FramesAreTyped, BoundsAssumption DEF Open, Calls
<1>2. m \in Request /\ m.type = "sub" /\ m.call = n
  BY <1>1 DEF Request
<1> HIDE DEF m
<1>3. /\ inbox' \in Seq(Request)
      /\ ~up' => inbox' = inbox
      /\ \A p \in 1 .. Len(inbox) : \A c : Asks(p, c)' <=> Asks(p, c)
      /\ \A p \in 1 .. Len(inbox') : p \notin 1 .. Len(inbox) =>
            up' /\ p = Len(inbox') /\ \A c : Asks(p, c)' <=> n = c
      /\ ToSet(inbox) \subseteq ToSet(inbox')
  <2>1. CASE inbox' = inbox
    BY <1>1, <2>1 DEF Asks
  <2>2. CASE inbox' # inbox
    <3>1. up' /\ inbox' = Append(inbox, m)
      BY <2>2 DEF m
    <3> QED BY <1>2, <3>1, InboxAppend
  <2> QED BY <2>1, <2>2
<1>4. \A q, c : /\ About(q, c)' <=> About(q, c)
                /\ Answers(q, c)' <=> Answers(q, c)
                /\ Refuses(q, c)' <=> Refuses(q, c)
                /\ Changes(q, c)' <=> Changes(q, c)
  BY DEF About, Answers, Refuses, Changes
<1>5. /\ n \notin subs \cup pend \cup DOMAIN snap /\ n # None
      /\ \A p \in 1 .. Len(inbox) : ~Asks(p, n)
      /\ \A q \in 1 .. Len(outbox) : ~About(q, n)
  BY <1>1 DEF IInv, Numbered, None
<1>6. Typed'
  <2>1. pend' \subseteq Calls /\ (~up' => pend' = {} /\ inbox' = <<>> /\ ~up)
    BY <1>1, <1>3 DEF IInv, Typed, TypeOK
  <2>2. TypeOK'
    BY <1>1, <1>3, <2>1 DEF IInv, Typed, TypeOK
  <2> QED BY <1>1, <1>3, <2>1, <2>2 DEF IInv, Typed
<1>7. Numbered' /\ Current'
  <2>1. \A c \in Calls, p \in 1 .. Len(inbox') : Asks(p, c)' => c <= n
    BY <1>1, <1>3 DEF IInv, Numbered, Calls
  <2>2. \A c \in Calls, q \in 1 .. Len(outbox) : About(q, c) => c <= n
    BY <1>1 DEF IInv, Numbered, Calls
  <2>3. (subs \cup pend \cup DOMAIN snap)' \subseteq 1 .. n
    BY <1>1 DEF IInv, Numbered
  <2> QED BY <1>1, <1>4, <2>1, <2>2, <2>3 DEF Numbered, Current, None
<1>8. InboxInv'
  <2> SUFFICES ASSUME NEW p \in 1 .. Len(inbox'), NEW c \in Calls, Asks(p, c)'
               PROVE  Unanswered(c)' /\ \A r \in 1 .. Len(inbox') : Asks(r, c)' => r = p
    BY DEF InboxInv
  <2>1. CASE p \in 1 .. Len(inbox)
    <3>1. Asks(p, c) /\ Unanswered(c) /\ c # n /\ \A r \in 1 .. Len(inbox) : Asks(r, c) => r = p
      BY <1>3, <1>5, <2>1 DEF IInv, InboxInv
    <3>2. Unanswered(c)'
      BY <1>4, <3>1, NoneIsNoCall DEF Unanswered
    <3> QED BY <1>3, <3>1, <3>2
  <2>2. CASE p \notin 1 .. Len(inbox)
    <3>1. up' /\ c = n /\ p = Len(inbox')
      BY <1>3, <2>2
    <3>2. Unanswered(c)'
      BY <1>4, <1>5, <3>1 DEF Unanswered
    <3> QED BY <1>3, <1>5, <3>1, <3>2
  <2> QED BY <2>1, <2>2
<1>9. OutboxInv' /\ SubsInv'
  <2>1. \A q \in 1 .. Len(outbox), c \in Calls : Changes(q, c) => c # n
    BY <1>5 DEF Changes
  <2>2. \A c \in Calls : c # n /\ c \in pend' => c \in pend
    OBVIOUS
  <2>3. \A c \in subs : c \in pend' => c \in pend
    BY <1>5
  <2>4. OutboxInv'
    BY <1>4, <2>1, <2>2, NoneIsNoCall DEF IInv, OutboxInv
  <2>5. SubsInv'
    BY <1>4, <2>3 DEF IInv, SubsInv
  <2> QED BY <2>4, <2>5
<1>10. SubscriptionsAccountedFor'
  <2> SUFFICES ASSUME NEW s \in subs
               PROVE  \/ s \in ({subId} \cup pend \cup abandoned)'
                      \/ [type |-> "unsub", call |-> s] \in ToSet(inbox')
    BY DEF SubscriptionsAccountedFor
  <2>1. s # subId
    BY NoneIsNoCall DEF IInv, Typed, TypeOK
  <2>2. s \in pend \cup abandoned \/ [type |-> "unsub", call |-> s] \in ToSet(inbox)
    BY <2>1 DEF IInv, SubscriptionsAccountedFor
  <2> QED BY <1>3, <2>2
<1>11. SnapshotReachesClient'
  BY <1>1, <1>5 DEF SnapshotReachesClient
<1> QED BY <1>6, <1>7, <1>8, <1>9, <1>10, <1>11 DEF IInv

LEMMA SubscribeStep == ASSUME IInv, NEW k \in Callers, Subscribe(k) PROVE IInv'
<1>1. /\ cbs' = cbs \cup {k} /\ cbs' \subseteq Callers /\ cbs' # {}
      /\ UNCHANGED <<db, unsent, up, events, lagged, subs, snap, todo, outbox, subId, rows,
                     abandoned, writes, faults>>
  BY DEF Subscribe, server, IInv, Typed, TypeOK
<1>2. CASE cbs # {}
  <2>1. UNCHANGED <<epoch, pend, opens, inbox>>
    BY <1>2 DEF Subscribe
  <2> QED BY <1>1, <2>1, CallersStep
<1>3. CASE cbs = {}
  <2>1. subId = None
    BY <1>3 DEF IInv, Current
  <2>2. /\ opens < MaxOpens /\ Open
        /\ inbox' = Send([type |-> "sub", call |-> opens + 1])
        /\ pend' = IF up THEN pend \cup {opens + 1} ELSE pend
    BY <1>3 DEF Subscribe
  <2>3. PICK n : n = opens + 1
    OBVIOUS
  <2>4. n <= MaxOpens + faults /\ (~up => n < MaxOpens + faults)
    <3>1. opens \in Nat /\ faults \in Nat /\ (~up => faults > 0)
      BY BoundsAssumption DEF IInv, Typed
    <3> QED BY <2>2, <2>3, <3>1, BoundsAssumption
  <2>5. \/ /\ up' /\ pend' = pend \cup {n}
           /\ inbox' = Append(inbox, [type |-> "sub", call |-> n])
        \/ ~up' /\ pend' = pend /\ inbox' = inbox
    BY <1>1, <2>2, <2>3 DEF Send
  <2>6. up' \in BOOLEAN /\ (up => up') /\ (~up' => n < MaxOpens + faults) /\ subId' = None
    BY <1>1, <2>1, <2>4 DEF IInv, Typed, TypeOK
  <2> QED BY <1>1, <2>1, <2>2, <2>3, <2>4, <2>5, <2>6, OpenStep
<1> QED BY <1>2, <1>3

LEMMA ReconnectStep == ASSUME IInv, Reconnect PROVE IInv'
<1>1. /\ ~up /\ up' = TRUE
      /\ UNCHANGED <<db, unsent, events, lagged, subs, snap, todo, outbox, cbs, rows, abandoned,
                     writes, faults>>
  BY DEF Reconnect, server
<1>2. inbox = <<>> /\ subs = {} /\ pend = {} /\ opens < MaxOpens + faults
  BY <1>1 DEF IInv, Typed, TypeOK
<1>3. CASE cbs # {}
  <2>1. /\ Open /\ subId' = None /\ pend' = {opens + 1}
        /\ inbox' = <<[type |-> "sub", call |-> opens + 1]>>
    BY <1>3 DEF Reconnect
  <2>2. PICK n : n = opens + 1
    OBVIOUS
  <2>3. n <= MaxOpens + faults
    BY <1>2, <2>2, BoundsAssumption DEF IInv, Typed
  <2>4. up' /\ pend' = pend \cup {n} /\ inbox' = Append(inbox, [type |-> "sub", call |-> n])
    BY <1>1, <1>2, <2>1, <2>2
  <2>5. cbs' \subseteq Callers /\ cbs' # {} /\ up' \in BOOLEAN
    BY <1>1, <1>3 DEF IInv, Typed, TypeOK
  <2> QED BY <1>1, <1>2, <2>1, <2>2, <2>3, <2>4, <2>5, OpenStep
<1>4. CASE cbs = {}
  <2>1. UNCHANGED <<epoch, opens, subId, pend, inbox>>
    BY <1>4 DEF Reconnect
  <2>2. Typed' /\ Numbered' /\ Current'
    BY <1>1, <2>1 DEF IInv, Typed, TypeOK, Numbered, Current, Asks, About
  <2>3. \A c : Unanswered(c)' = Unanswered(c)
    BY <1>1, <2>1 DEF Unanswered, About
  <2>4. \A p, c : /\ Asks(p, c)' = Asks(p, c) /\ Answers(p, c)' = Answers(p, c)
                  /\ Refuses(p, c)' = Refuses(p, c) /\ Changes(p, c)' = Changes(p, c)
    BY <1>1, <2>1 DEF Asks, About, Answers, Refuses, Changes
  <2>5. InboxInv' /\ OutboxInv' /\ SubsInv'
    BY <1>1, <2>1, <2>3, <2>4 DEF IInv, InboxInv, OutboxInv, SubsInv
  <2>6. SubscriptionsAccountedFor' /\ SnapshotReachesClient'
    BY <1>1, <2>1 DEF IInv, SubscriptionsAccountedFor, SnapshotReachesClient, Arriving
  <2> QED BY <2>2, <2>5, <2>6 DEF IInv
<1> QED BY <1>3, <1>4

LEMMA DropStep == ASSUME IInv, Drop PROVE IInv'
<1>1. /\ up /\ ~up' /\ inbox' = <<>> /\ outbox' = <<>> /\ events' = 0 /\ lagged' = FALSE
      /\ subs' = {} /\ snap' = <<>> /\ todo' = {} /\ pend' = {}
      /\ faults < MaxFaults /\ faults' = faults + 1
      /\ UNCHANGED <<db, unsent, cbs, epoch, subId, rows, abandoned, opens, writes>>
  BY DEF Drop, Fault
<1>2. up' \in BOOLEAN /\ lagged' \in BOOLEAN
  BY DEF Drop
<1>3. /\ DOMAIN snap' = {} /\ Len(inbox') = 0 /\ Len(outbox') = 0
      /\ inbox' \in Seq(Request) /\ outbox' \in Seq(Frame)
  <2>1. /\ <<>> \in Seq(Request) /\ <<>> \in Seq(Frame) /\ Len(<<>>) = 0 /\ DOMAIN <<>> = {}
    OBVIOUS
  <2> QED BY <1>1, <2>1
<1>4. faults' \in 0 .. MaxFaults /\ faults' > 0 /\ opens' < MaxOpens + faults' /\ opens' <= MaxOpens + faults'
  BY <1>1, BoundsAssumption DEF IInv, Typed
<1>5. TypeOK'
  BY <1>1, <1>2, <1>3, CapacityAssumption DEF IInv, Typed, TypeOK
<1>6. Typed'
  BY <1>1, <1>2, <1>3, <1>4, <1>5 DEF IInv, Typed
<1>7. Numbered' /\ Current'
  BY <1>1, <1>3 DEF IInv, Numbered, Current
<1>8. InboxInv' /\ OutboxInv' /\ SubsInv' /\ SubscriptionsAccountedFor' /\ SnapshotReachesClient'
  BY <1>1, <1>3 DEF InboxInv, OutboxInv, SubsInv, SubscriptionsAccountedFor, SnapshotReachesClient
<1> QED BY <1>6, <1>7, <1>8 DEF IInv

LEMMA TimeoutStep == ASSUME IInv, NEW e \in Calls, Timeout(e) PROVE IInv'
<1>1. /\ e \in pend /\ pend' = pend \ {e} /\ abandoned' = abandoned \cup {e}
      /\ faults < MaxFaults /\ faults' = faults + 1
      /\ UNCHANGED <<db, unsent, up, events, lagged, subs, snap, todo, inbox, outbox, cbs, epoch,
                     subId, rows, opens, writes>>
  BY DEF Timeout, Fault, server
<1>2. \A q, c : /\ About(q, c)' <=> About(q, c)
                /\ Asks(q, c)' <=> Asks(q, c)
                /\ Answers(q, c)' <=> Answers(q, c)
                /\ Refuses(q, c)' <=> Refuses(q, c)
                /\ Changes(q, c)' <=> Changes(q, c)
  BY <1>1 DEF About, Asks, Answers, Refuses, Changes
<1>3. Typed'
  <2>1. TypeOK'
    BY <1>1 DEF IInv, Typed, TypeOK
  <2>2. up
    BY <1>1 DEF IInv, Typed, TypeOK
  <2> QED BY <1>1, <2>1, <2>2, BoundsAssumption DEF IInv, Typed
<1>4. Numbered' /\ Current'
  BY <1>1, <1>2 DEF IInv, Numbered, Current
<1>5. \A c : Unanswered(c) => Unanswered(c)'
  BY <1>1, <1>2 DEF Unanswered
<1>6. InboxInv' /\ OutboxInv' /\ SubsInv'
  BY <1>1, <1>2, <1>5 DEF IInv, InboxInv, OutboxInv, SubsInv
<1>7. SubscriptionsAccountedFor' /\ SnapshotReachesClient'
  BY <1>1 DEF IInv, SubscriptionsAccountedFor, SnapshotReachesClient, Arriving
<1> QED BY <1>3, <1>4, <1>6, <1>7 DEF IInv


\* The client gives a subscription back, or sends nothing.
LEMMA InboxGivesBack ==
    ASSUME IInv, NEW c \in Calls,
           inbox' = inbox \/ inbox' = Append(inbox, [type |-> "unsub", call |-> c])
    PROVE  /\ inbox' \in Seq(Request)
           /\ \A p \in 1 .. Len(inbox') : \A d : Asks(p, d)' => p \in 1 .. Len(inbox) /\ Asks(p, d)
           /\ ToSet(inbox) \subseteq ToSet(inbox')
           /\ inbox' # inbox => [type |-> "unsub", call |-> c] \in ToSet(inbox')
<1>1. CASE inbox' = inbox
  BY <1>1, FramesAreTyped DEF Asks
<1>2. CASE inbox' = Append(inbox, [type |-> "unsub", call |-> c])
  <2> DEFINE m == [type |-> "unsub", call |-> c]
  <2>1. m \in Request /\ m.type = "unsub" /\ inbox' = Append(inbox, m)
    BY <1>2 DEF Request
  <2> HIDE DEF m
  <2>2. /\ inbox' \in Seq(Request)
        /\ \A p \in 1 .. Len(inbox) : \A d : Asks(p, d)' <=> Asks(p, d)
        /\ \A p \in 1 .. Len(inbox') : p \notin 1 .. Len(inbox) => \A d : ~Asks(p, d)'
        /\ ToSet(inbox') = ToSet(inbox) \cup {m}
    BY <2>1, InboxAppend
  <2> QED BY <2>2 DEF m
<1> QED BY <1>1, <1>2

LEMMA UnsubscribeStep == ASSUME IInv, NEW k \in Callers, Unsubscribe(k) PROVE IInv'
<1>1. /\ k \in cbs /\ cbs' = cbs \ {k} /\ cbs' \subseteq Callers
      /\ UNCHANGED <<db, unsent, up, events, lagged, subs, snap, todo, outbox, pend, abandoned,
                     opens, writes, faults>>
  BY DEF Unsubscribe, server, IInv, Typed, TypeOK
<1>2. CASE cbs # {k}
  <2>1. UNCHANGED <<epoch, subId, rows, inbox>> /\ cbs' # {}
    BY <1>1, <1>2 DEF Unsubscribe
  <2> QED BY <1>1, <2>1, CallersStep
<1>3. CASE cbs = {k}
  <2>1. /\ epoch' = None /\ subId' = None /\ rows' = NoRows /\ cbs' = {}
        /\ inbox' = IF subId = None \/ ~up THEN inbox
                    ELSE Append(inbox, [type |-> "unsub", call |-> subId])
    BY <1>1, <1>3 DEF Unsubscribe, Send
  <2>2. /\ inbox' \in Seq(Request)
        /\ \A p \in 1 .. Len(inbox') : \A d : Asks(p, d)' => p \in 1 .. Len(inbox) /\ Asks(p, d)
        /\ ToSet(inbox) \subseteq ToSet(inbox')
        /\ up /\ subId # None => [type |-> "unsub", call |-> subId] \in ToSet(inbox')
    <3>1. CASE subId = None \/ ~up
      BY <2>1, <3>1, FramesAreTyped DEF Asks
    <3>2. CASE ~(subId = None \/ ~up)
      <4>1. subId \in Calls /\ inbox' = Append(inbox, [type |-> "unsub", call |-> subId])
        BY <2>1, <3>2 DEF IInv, Typed, TypeOK
      <4>2. inbox' # inbox
        <5>1. Len(Append(inbox, [type |-> "unsub", call |-> subId])) = Len(inbox) + 1 /\ Len(inbox) \in Nat
          BY FramesAreTyped
        <5> QED BY <4>1, <5>1
      <4> QED BY <4>1, <4>2, InboxGivesBack
    <3> QED BY <3>1, <3>2
  <2>3. \A q, d : /\ About(q, d)' <=> About(q, d)
                  /\ Answers(q, d)' <=> Answers(q, d)
                  /\ Refuses(q, d)' <=> Refuses(q, d)
                  /\ Changes(q, d)' <=> Changes(q, d)
    BY <1>1 DEF About, Answers, Refuses, Changes
  <2>4. Typed'
    <3>1. rows' \in RowLists
      <4>1. <<>> \in Seq(Vals)
        OBVIOUS
      <4> QED BY <2>1, <4>1 DEF NoRows, RowLists
    <3>2. ~up => inbox' = inbox
      BY <2>1
    <3>3. TypeOK'
      BY <1>1, <2>1, <3>1, <3>2 DEF IInv, Typed, TypeOK, RowLists
    <3> QED BY <1>1, <2>2, <3>3 DEF IInv, Typed
  <2>5. Numbered' /\ Current'
    <3>1. \A d \in Calls, p \in 1 .. Len(inbox') : Asks(p, d)' => d <= opens
      BY <2>2 DEF IInv, Numbered
    <3>2. None <= opens
      BY DEF IInv, Typed, None
    <3> QED BY <1>1, <2>1, <2>3, <3>1, <3>2 DEF IInv, Numbered, Current
  <2>6. \A d \in Calls : Unanswered(d) => Unanswered(d)'
    BY <1>1, <2>1, <2>3, NoneIsNoCall DEF Unanswered
  <2>7. InboxInv'
    BY <2>2, <2>6 DEF IInv, InboxInv
  <2>8. OutboxInv' /\ SubsInv'
    BY <1>1, <2>1, <2>3, NoneIsNoCall DEF IInv, OutboxInv, SubsInv
  <2>9. SubscriptionsAccountedFor'
    <3> SUFFICES ASSUME NEW s \in subs
                 PROVE  \/ s \in (pend \cup abandoned)'
                        \/ [type |-> "unsub", call |-> s] \in ToSet(inbox')
      BY <1>1 DEF SubscriptionsAccountedFor
    <3>1. up /\ s \in Calls /\ s # None
      BY NoneIsNoCall DEF IInv, Typed, TypeOK
    <3> QED BY <1>1, <2>2, <3>1 DEF IInv, SubscriptionsAccountedFor
  <2>10. SnapshotReachesClient'
    <3>1. None \notin DOMAIN snap'
      BY <1>1, NoneIsNoCall DEF IInv, Typed, TypeOK
    <3> QED BY <2>1, <3>1 DEF SnapshotReachesClient
  <2> QED BY <2>4, <2>5, <2>7, <2>8, <2>9, <2>10 DEF IInv
<1> QED BY <1>2, <1>3

\* The client takes the first frame m, about call c, off the wire.
LEMMA ReceiveStep ==
    ASSUME IInv, outbox # <<>>, outbox' = Tail(outbox), NEW m, m = Head(outbox), NEW c, c = m.call,
           inbox' = inbox \/ inbox' = Append(inbox, [type |-> "unsub", call |-> c]),
           pend' \in {pend, pend \ {c}}, m.type = "sub-ok" => c \notin pend',
           \/ subId' = subId
           \/ subId' = c /\ m.type = "sub-ok" /\ c \in pend /\ c = epoch,
           c \in pend \ pend' => subId' = c \/ inbox' # inbox \/ m.type = "sub-err",
           rows' \in RowLists,
           \A s \in Calls : s = epoch /\ (s = subId' \/ s \in pend') => rows' = Shown(rows, m, s),
           UNCHANGED <<db, unsent, up, server, cbs, epoch, abandoned, opens, writes, faults>>
    PROVE  IInv'
<1>1. UNCHANGED <<db, unsent, up, events, lagged, subs, snap, todo, cbs, epoch, abandoned, opens,
                  writes, faults>>
  BY DEF server
<1>2. /\ outbox' \in Seq(Frame) /\ Len(outbox) \in Nat \ {0} /\ Len(outbox') = Len(outbox) - 1
      /\ \A q \in 1 .. Len(outbox') :
            /\ q + 1 \in 1 .. Len(outbox)
            /\ \A d : /\ About(q, d)' <=> About(q + 1, d)
                      /\ Answers(q, d)' <=> Answers(q + 1, d)
                      /\ Refuses(q, d)' <=> Refuses(q + 1, d)
                      /\ Changes(q, d)' <=> Changes(q + 1, d)
      /\ m = outbox[1] /\ m \in Frame
  BY OutboxTail
<1>3. /\ c \in Calls /\ 1 \in 1 .. Len(outbox) /\ \A d : About(1, d) <=> d = c
      /\ \A d : Answers(1, d) <=> d = c /\ m.type = "sub-ok"
      /\ Refuses(1, c) <=> m.type = "sub-err"
  <2>1. c \in Calls
    BY <1>2 DEF Frame, Answer, Refusal, Change
  <2> QED BY <1>2, <2>1 DEF About, Answers, Refuses
<1>4. /\ inbox' \in Seq(Request)
      /\ \A p \in 1 .. Len(inbox') : \A d : Asks(p, d)' => p \in 1 .. Len(inbox) /\ Asks(p, d)
      /\ ToSet(inbox) \subseteq ToSet(inbox')
      /\ inbox' # inbox => [type |-> "unsub", call |-> c] \in ToSet(inbox')
  BY <1>3, InboxGivesBack
<1>5. up
  BY DEF IInv, Typed, TypeOK
<1>6. /\ subId' = subId \/ (subId' = c /\ Answers(1, c) /\ c \in pend /\ c = epoch)
      /\ pend' \subseteq pend /\ \A d \in pend : d # c => d \in pend'
  BY <1>3
<1>7. Typed'
  <2>1. TypeOK'
    BY <1>1, <1>3, <1>5, <1>6 DEF IInv, Typed, TypeOK, RowLists
  <2> QED BY <1>1, <1>2, <1>4, <1>5, <2>1 DEF IInv, Typed
<1>8. Numbered' /\ Current'
  <2>1. \A d \in Calls, p \in 1 .. Len(inbox') : Asks(p, d)' => d <= opens
    BY <1>4 DEF IInv, Numbered
  <2>2. \A d \in Calls, q \in 1 .. Len(outbox') : About(q, d)' => d <= opens
    BY <1>2 DEF IInv, Numbered
  <2>3. subId' <= opens /\ (subId' # None => subId' = epoch)
    BY <1>6 DEF IInv, Numbered, Current
  <2>4. subs \cup pend' \cup DOMAIN snap \subseteq 1 .. opens
    BY <1>6 DEF IInv, Numbered
  <2> QED BY <1>1, <2>1, <2>2, <2>3, <2>4 DEF IInv, Numbered, Current
<1>9. InboxInv'
  <2> SUFFICES ASSUME NEW p \in 1 .. Len(inbox'), NEW d \in Calls, Asks(p, d)'
               PROVE  Unanswered(d)' /\ \A r \in 1 .. Len(inbox') : Asks(r, d)' => r = p
    BY DEF InboxInv
  <2>1. /\ p \in 1 .. Len(inbox) /\ Asks(p, d) /\ Unanswered(d)
        /\ \A r \in 1 .. Len(inbox) : Asks(r, d) => r = p
    BY <1>4 DEF IInv, InboxInv
  <2>2. d # c
    BY <1>3, <2>1 DEF Unanswered
  <2>3. \A q \in 1 .. Len(outbox') : ~About(q, d)'
    BY <1>2, <2>1 DEF Unanswered
  <2>4. Unanswered(d)'
    BY <1>1, <1>6, <2>1, <2>2, <2>3 DEF Unanswered
  <2> QED BY <1>4, <2>1, <2>4
<1>10. \A d \in pend' : ~Answers(1, d)
  BY <1>3
<1>11. OutboxInv'
  <2> SUFFICES ASSUME NEW q \in 1 .. Len(outbox'), NEW d \in Calls
               PROVE  /\ Refuses(q, d)' => d \notin subs'
                      /\ Answers(q, d)' =>
                          /\ d # subId'
                          /\ \A r \in 1 .. Len(outbox') : Answers(r, d)' => r = q
                      /\ Changes(q, d)' /\ d \in pend' => \E r \in 1 .. (q - 1) : Answers(r, d)'
    BY DEF OutboxInv
  <2>1. /\ Refuses(q + 1, d) => d \notin subs
        /\ Answers(q + 1, d) => d # subId /\ \A r \in 1 .. Len(outbox) : Answers(r, d) => r = q + 1
        /\ Changes(q + 1, d) /\ d \in pend => \E r \in 1 .. q : Answers(r, d)
    <3>1. q + 1 \in 1 .. Len(outbox) /\ (q + 1) - 1 = q
      BY <1>2
    <3> QED BY <3>1 DEF IInv, OutboxInv
  <2>2. Refuses(q, d)' => d \notin subs'
    BY <1>1, <1>2, <2>1
  <2>3. ASSUME Answers(q, d)'
        PROVE  d # subId' /\ \A r \in 1 .. Len(outbox') : Answers(r, d)' => r = q
    <3>1. Answers(q + 1, d) /\ q + 1 # 1
      BY <1>2, <2>3
    <3>2. d # subId'
      BY <1>3, <1>6, <2>1, <3>1
    <3>3. ASSUME NEW r \in 1 .. Len(outbox'), Answers(r, d)' PROVE r = q
      <4>1. r + 1 = q + 1
        BY <1>2, <2>1, <3>1, <3>3
      <4> QED BY <1>2, <4>1
    <3> QED BY <3>2, <3>3
  <2>4. ASSUME Changes(q, d)', d \in pend' PROVE \E r \in 1 .. (q - 1) : Answers(r, d)'
    <3>1. PICK r \in 1 .. q : Answers(r, d)
      BY <1>2, <1>6, <2>1, <2>4
    <3>2. r # 1
      BY <1>10, <2>4, <3>1
    <3>3. r - 1 \in 1 .. (q - 1) /\ r - 1 \in 1 .. Len(outbox') /\ (r - 1) + 1 = r
      BY <1>2, <3>1, <3>2
    <3>4. \A n \in 1 .. Len(outbox') : Answers(n + 1, d) => Answers(n, d)'
      BY <1>2
    <3> QED BY <3>1, <3>3, <3>4
  <2> QED BY <2>2, <2>3, <2>4
<1>12. SubsInv'
  <2> SUFFICES ASSUME NEW d \in subs, d \in pend' PROVE \E q \in 1 .. Len(outbox') : Answers(q, d)'
    BY <1>1 DEF SubsInv
  <2>1. PICK r \in 1 .. Len(outbox) : Answers(r, d)
    BY <1>6 DEF IInv, SubsInv
  <2>2. r # 1
    BY <1>10, <2>1
  <2>3. r - 1 \in 1 .. Len(outbox') /\ (r - 1) + 1 = r
    BY <1>2, <2>1, <2>2
  <2>4. \A n \in 1 .. Len(outbox') : Answers(n + 1, d) => Answers(n, d)'
    BY <1>2
  <2> QED BY <2>1, <2>3, <2>4
<1>13. SubscriptionsAccountedFor'
  <2> SUFFICES ASSUME NEW s \in subs
               PROVE  \/ s \in ({subId} \cup pend \cup abandoned)'
                      \/ [type |-> "unsub", call |-> s] \in ToSet(inbox')
    BY <1>1 DEF SubscriptionsAccountedFor
  <2>1. s \in {subId} \cup pend \cup abandoned \/ [type |-> "unsub", call |-> s] \in ToSet(inbox)
    BY DEF IInv, SubscriptionsAccountedFor
  <2>2. s # None
    BY NoneIsNoCall DEF IInv, Typed, TypeOK
  <2>3. CASE s = subId
    BY <1>6, <2>2, <2>3 DEF IInv, Current
  <2>4. CASE s \in pend \ pend'
    <3>1. s = c /\ m.type # "sub-err"
      BY <1>3, <1>6, <2>4 DEF IInv, OutboxInv
    <3> QED BY <1>4, <2>4, <3>1
  <2> QED BY <1>1, <1>4, <2>1, <2>3, <2>4
<1>14. SnapshotReachesClient'
  <2> SUFFICES ASSUME NEW s \in DOMAIN snap, s = epoch, s = subId' \/ s \in pend', NEW i \in Ids,
                      snap[s][i] # None
               PROVE  snap[s][i] \in ToSet(Received(rows', outbox', s)[i])
    BY <1>1 DEF SnapshotReachesClient, Arriving
  <2>1. s \in Calls /\ (s = subId \/ s \in pend)
    BY <1>6 DEF IInv, Typed, TypeOK
  <2>2. Received(rows, outbox, s) = Received(rows', outbox', s)
    <3>1. outbox \in Seq(Frame) /\ rows' = Shown(rows, m, s)
      BY <2>1, FramesAreTyped
    <3> QED BY <3>1, ReceivedHead
  <2> QED BY <2>1, <2>2 DEF IInv, SnapshotReachesClient, Arriving
<1> QED BY <1>7, <1>8, <1>9, <1>11, <1>12, <1>13, <1>14 DEF IInv

LEMMA ClientReceivesStep == ASSUME IInv, ClientReceives PROVE IInv'
<1>0. PICK m : m = Head(outbox)
  OBVIOUS
<1>1. PICK c : c = m.call
  OBVIOUS
<1>2. /\ outbox # <<>> /\ outbox' = Tail(outbox)
      /\ \/ m.type = "sub-ok" /\ SubOk(m)
         \/ m.type = "sub-err" /\ SubErr(m)
         \/ m.type = "sub" /\ Push(m)
      /\ UNCHANGED <<db, unsent, up, server, cbs, epoch, abandoned, opens, writes, faults>>
  BY <1>0 DEF ClientReceives
<1>3. rows \in RowLists /\ m \in Frame /\ m = outbox[1] /\ 1 \in 1 .. Len(outbox) /\ c \in Calls
  <2>1. m \in Frame /\ m = outbox[1] /\ Len(outbox) \in Nat \ {0}
    BY <1>0, <1>2, OutboxTail
  <2>2. c \in Calls
    BY <1>1, <2>1 DEF Frame, Answer, Refusal, Change
  <2> QED BY <2>1, <2>2, FramesAreTyped
<1>4. CASE m.type = "sub-ok"
  <2>1. SubOk(m) /\ pend' = pend \ {c} /\ m.rows \in Result
    BY <1>1, <1>2, <1>3, <1>4 DEF SubOk, Frame, Answer, Refusal, Change
  <2>2. CASE c \in pend /\ c = epoch
    <3>1. subId' = c /\ rows' = Listed(m.rows) /\ inbox' = inbox
      BY <1>1, <2>1, <2>2 DEF SubOk
    <3>2. rows' \in RowLists /\ \A s \in Calls : s = epoch => rows' = Shown(rows, m, s)
      BY <1>1, <1>4, <2>1, <2>2, <3>1, ListedType DEF Shown
    <3> QED BY <1>0, <1>1, <1>2, <1>4, <2>1, <2>2, <3>1, <3>2, ReceiveStep
  <2>3. CASE c \in pend /\ c # epoch
    <3>1. /\ subId' = subId /\ rows' = rows
          /\ inbox' = Append(inbox, [type |-> "unsub", call |-> c])
      BY <1>1, <2>1, <2>3 DEF SubOk
    <3>2. inbox' # inbox
      <4>1. Len(Append(inbox, [type |-> "unsub", call |-> c])) = Len(inbox) + 1 /\ Len(inbox) \in Nat
        BY FramesAreTyped
      <4> QED BY <3>1, <4>1
    <3>3. rows' \in RowLists /\ \A s \in Calls : s = epoch => rows' = Shown(rows, m, s)
      BY <1>1, <1>3, <2>3, <3>1 DEF Shown
    <3> QED BY <1>0, <1>1, <1>2, <2>1, <3>1, <3>2, <3>3, ReceiveStep
  <2>4. CASE c \notin pend
    <3>1. subId' = subId /\ rows' = rows /\ inbox' = inbox
      BY <1>1, <2>1, <2>4 DEF SubOk
    <3>2. c # subId
      BY <1>1, <1>3, <1>4 DEF IInv, OutboxInv, Answers, About
    <3>3. /\ rows' \in RowLists
          /\ \A s \in Calls : s = epoch /\ (s = subId' \/ s \in pend') => rows' = Shown(rows, m, s)
      BY <1>1, <1>3, <2>1, <2>4, <3>1, <3>2 DEF Shown
    <3> QED BY <1>0, <1>1, <1>2, <2>1, <2>4, <3>1, <3>3, ReceiveStep
  <2> QED BY <2>2, <2>3, <2>4
<1>5. CASE m.type = "sub-err"
  <2>1. pend' = pend \ {c} /\ subId' = subId /\ rows' = rows /\ inbox' = inbox
    BY <1>1, <1>2, <1>5 DEF SubErr
  <2>2. rows' \in RowLists /\ \A s \in Calls : rows' = Shown(rows, m, s)
    BY <1>3, <1>5, <2>1 DEF Shown
  <2> QED BY <1>0, <1>1, <1>2, <1>5, <2>1, <2>2, ReceiveStep
<1>6. CASE m.type = "sub"
  <2>1. /\ pend' = pend /\ subId' = subId /\ inbox' = inbox
        /\ rows' = IF c = subId THEN Apply(rows, m.diff) ELSE rows
    BY <1>1, <1>2, <1>6 DEF Push
  <2>2. c \notin pend
    <3>1. Changes(1, c)
      BY <1>1, <1>3, <1>6 DEF Changes, About
    <3>2. \A r : r \notin 1 .. (1 - 1)
      OBVIOUS
    <3> QED BY <1>3, <3>1, <3>2 DEF IInv, OutboxInv
  <2>3. m.diff \in Diffs
    BY <1>3, <1>6 DEF Frame, Answer, Refusal, Change
  <2>4. rows' \in RowLists
    BY <1>3, <2>1, <2>3, ApplyType
  <2>5. ASSUME NEW s \in Calls, s = epoch, s = subId' \/ s \in pend'
        PROVE  rows' = Shown(rows, m, s)
    <3>1. CASE s = c
      BY <1>1, <1>6, <2>1, <2>2, <2>5, <3>1 DEF Shown
    <3>2. CASE s # c
      <4>1. c # subId
        BY <1>3, <2>5, <3>2, NoneIsNoCall DEF IInv, Current
      <4> QED BY <1>1, <2>1, <3>2, <4>1 DEF Shown
    <3> QED BY <3>1, <3>2
  <2> QED BY <1>0, <1>1, <1>2, <1>6, <2>1, <2>4, <2>5, ReceiveStep
<1> QED BY <1>2, <1>4, <1>5, <1>6

LEMMA StutterStep == ASSUME IInv, UNCHANGED vars PROVE IInv'
<1>1. UNCHANGED <<db, unsent, up, events, lagged, subs, snap, todo, inbox, outbox, client, writes, faults>>
  BY DEF vars, server
<1>2. /\ db \in Result /\ unsent \in 0 .. MaxWrites /\ unsent <= writes /\ writes \in 0 .. MaxWrites
      /\ events \in 0 .. Capacity /\ lagged \in BOOLEAN /\ todo \subseteq subs
  BY DEF IInv, Typed, TypeOK
<1>3. unsent \in Nat
  BY <1>2, BoundsAssumption
<1> QED BY <1>1, <1>2, <1>3, QuietStep

LEMMA NextIInv == IInv /\ [Next]_vars => IInv'
<1> SUFFICES ASSUME IInv, [Next]_vars PROVE IInv'
  OBVIOUS
<1>1. ASSUME NEW i \in Ids, NEW v \in Vals \cup {None}, NEW local \in BOOLEAN, Write(i, v, local)
      PROVE  IInv'
  BY <1>1, QuietSteps
<1>2. CASE Announce \/ HandleChange \/ HandleLagged \/ AuthTick
  BY <1>2, QuietSteps
<1>3. CASE HandleSubscribe
  BY <1>3, HandleSubscribeStep
<1>4. CASE HandleUnsubscribe
  BY <1>4, HandleUnsubscribeStep
<1>5. ASSUME NEW s \in Calls, Refresh(s) PROVE IInv'
  BY <1>5, RefreshStep
<1>6. ASSUME NEW k \in Callers, Subscribe(k) PROVE IInv'
  BY <1>6, SubscribeStep
<1>7. ASSUME NEW k \in Callers, Unsubscribe(k) PROVE IInv'
  BY <1>7, UnsubscribeStep
<1>8. CASE ClientReceives
  BY <1>8, ClientReceivesStep
<1>9. ASSUME NEW e \in Calls, Timeout(e) PROVE IInv'
  BY <1>9, TimeoutStep
<1>10. CASE Drop
  BY <1>10, DropStep
<1>11. CASE Reconnect
  BY <1>11, ReconnectStep
<1>12. CASE UNCHANGED vars
  BY <1>12, StutterStep
<1> QED BY <1>1, <1>2, <1>3, <1>4, <1>5, <1>6, <1>7, <1>8, <1>9, <1>10, <1>11, <1>12 DEF Next

LEMMA AlwaysIInv == Spec => []IInv
BY InitIInv, NextIInv, PTL DEF Spec

\* The state of the connection task, of the client and of the wire keeps its
\* types through every step; what ended with the socket stays empty until the
\* next one.
THEOREM TypeCorrect == Spec => []TypeOK
BY AlwaysIInv, PTL DEF IInv, Typed

\* Every subscription that refresh_query_subscriptions visits is used by the
\* client, awaited, timed out or about to be given back.
THEOREM SubscriptionsAreAccountedFor == Spec => []SubscriptionsAccountedFor
BY AlwaysIInv, PTL DEF IInv

\* The snapshot that compute_subscription_diff starts from never gets ahead of
\* the client: the frames on the wire bring every row of it.
THEOREM SnapshotsReachClients == Spec => []SnapshotReachesClient
BY AlwaysIInv, PTL DEF IInv

-----------------------------------------------------------------------------
(* The cache of results *)

\* A handler's two sets of keys are what is left of its invalidation: a key
\* it has collected is not visited again, and an idle handler has none.
SweepOK ==
    \A w \in Writers :
        /\ writer[w].left \cap writer[w].keys = {}
        /\ writer[w].pc = "remove" => writer[w].left = {}
        /\ writer[w].pc = "idle" => writer[w].left = {} /\ writer[w].keys = {}
        /\ writer[w].pc # "idle" => writer[w].write > 0

CacheInv == Handlers!TypeOK /\ SweepOK /\ FreshEntriesInvalidated

LEMMA KeyType == ASSUME NEW k \in Handlers!Keys PROVE k[1] \in Types
BY DEF Handlers!Keys

LEMMA InitCacheInv == Handlers!Init => CacheInv
<1> SUFFICES ASSUME Handlers!Init PROVE CacheInv
  OBVIOUS
<1>1. Handlers!TypeOK
  BY BoundsAssumption DEF Handlers!Init, Handlers!TypeOK, Handlers!Reader, Handlers!Writer
<1>2. SweepOK
  BY DEF Handlers!Init, SweepOK
<1>3. FreshEntriesInvalidated
  BY DEF Handlers!Init, FreshEntriesInvalidated
<1> QED BY <1>1, <1>2, <1>3 DEF CacheInv

\* A query handler touches entries of the cache only to remove them, or to
\* store one whose freshness says whether it is current.
LEMMA ReaderStep ==
    ASSUME CacheInv, NEW c \in Readers,
           (\E k \in Handlers!Keys : Handlers!Query(c, k)) \/ Handlers!Get(c)
             \/ Handlers!DropExpired(c) \/ Handlers!Execute(c)
             \/ Handlers!CheckFull(c) \/ Handlers!Evict(c) \/ Handlers!Set(c)
    PROVE  CacheInv'
<1> USE BoundsAssumption DEF CacheInv
<1>1. CASE \E k \in Handlers!Keys : Handlers!Query(c, k)
  BY <1>1 DEF Handlers!Query, Handlers!TypeOK, Handlers!Reader, SweepOK, FreshEntriesInvalidated
<1>2. CASE Handlers!Get(c)
  <2>1. Handlers!TypeOK'
    BY <1>2 DEF Handlers!Get, Handlers!TypeOK, Handlers!Reader, Handlers!Entry, Handlers!Cached
  <2> QED BY <2>1, <1>2 DEF Handlers!Get, SweepOK, FreshEntriesInvalidated
<1>3. CASE Handlers!DropExpired(c)
  <2>1. Handlers!TypeOK'
    BY <1>3 DEF Handlers!DropExpired, Handlers!TypeOK, Handlers!Reader, Handlers!Without
  <2> QED BY <2>1, <1>3 DEF Handlers!DropExpired, Handlers!Without, SweepOK, FreshEntriesInvalidated
<1>4. CASE Handlers!Execute(c)
  <2>1. Handlers!TypeOK'
    BY <1>4, KeyType DEF Handlers!Execute, Handlers!TypeOK, Handlers!Reader
  <2> QED BY <2>1, <1>4 DEF Handlers!Execute, SweepOK, FreshEntriesInvalidated
<1>5. CASE Handlers!CheckFull(c)
  <2>1. Handlers!TypeOK'
    <3>1. CASE \E v \in DOMAIN entries :
                 reader' = [reader EXCEPT ![c].pc = "evict", ![c].victim = v]
      <4>1. PICK v \in DOMAIN entries :
                reader' = [reader EXCEPT ![c].pc = "evict", ![c].victim = v]
        BY <3>1
      <4>2. v \in Handlers!Keys
        BY DEF Handlers!TypeOK
      <4>3. reader'[c] \in Handlers!Reader /\ reader'[c].pc = "evict"
        BY <4>1, <4>2, ZenonT(60) DEF Handlers!TypeOK, Handlers!Reader
      <4>4. /\ reader' \in [Readers -> Handlers!Reader]
            /\ \A d \in Readers : reader'[d].pc # "evict" => reader'[d].victim = reader'[d].key
        BY <4>1, <4>3 DEF Handlers!TypeOK
      <4> QED BY <4>4, <1>5 DEF Handlers!CheckFull, Handlers!TypeOK
    <3>2. CASE reader' = [reader EXCEPT ![c].pc = "set"]
      BY <3>2, <1>5 DEF Handlers!CheckFull, Handlers!TypeOK, Handlers!Reader
    <3> QED BY <3>1, <3>2, <1>5 DEF Handlers!CheckFull
  <2> QED BY <2>1, <1>5 DEF Handlers!CheckFull, SweepOK, FreshEntriesInvalidated
<1>6. CASE Handlers!Evict(c)
  <2>1. Handlers!TypeOK'
    BY <1>6 DEF Handlers!Evict, Handlers!TypeOK, Handlers!Reader, Handlers!Without
  <2> QED BY <2>1, <1>6 DEF Handlers!Evict, Handlers!Without, SweepOK, FreshEntriesInvalidated
<1>7. CASE Handlers!Set(c)
  <2> DEFINE k == reader[c].key
             e == [ver |-> reader[c].got, expired |-> FALSE,
                   fresh |-> reader[c].got = version[k[1]]]
  <2>1. k \in Handlers!Keys /\ k[1] \in Types /\ e \in Handlers!Entry
    BY KeyType DEF Handlers!TypeOK, Handlers!Reader, Handlers!Entry
  <2>2. entries' = Handlers!With(k, e) /\ UNCHANGED <<version, quiet, writer>>
    BY <1>7 DEF Handlers!Set
  <2>3. Handlers!TypeOK'
    <3>1. DOMAIN entries' \subseteq Handlers!Keys /\ \A q \in DOMAIN entries' : entries'[q] \in Handlers!Entry
      BY <2>1, <2>2 DEF Handlers!With, Handlers!TypeOK
    <3> QED BY <3>1, <1>7 DEF Handlers!Set, Handlers!TypeOK, Handlers!Reader
  <2>4. FreshEntriesInvalidated'
    <3> SUFFICES ASSUME NEW q \in DOMAIN entries', entries'[q].fresh,
                        NEW v \in (entries'[q].ver + 1) .. version'[q[1]]
                 PROVE  \/ v \in quiet'[q[1]]
                        \/ \E w \in Writers :
                            /\ writer'[w].type = q[1] /\ writer'[w].write = v
                            /\ q \in writer'[w].left \cup writer'[w].keys
      BY DEF FreshEntriesInvalidated
    <3>1. CASE q = k
      <4>1. entries'[q] = e
        BY <3>1, <2>2 DEF Handlers!With
      <4>2. e.fresh
        BY <4>1
      <4>3. e.ver = reader[c].got /\ (e.fresh <=> reader[c].got = version[k[1]])
        OBVIOUS
      <4>4. e.ver = version[k[1]]
        BY <4>2, <4>3
      <4>5. version[k[1]] \in Nat /\ version'[q[1]] = version[k[1]]
        BY <3>1, <2>1, <2>2 DEF Handlers!TypeOK
      <4> QED BY <4>1, <4>4, <4>5
    <3>2. CASE q # k
      <4>1. q \in DOMAIN entries /\ entries'[q] = entries[q]
        BY <3>2, <2>2 DEF Handlers!With
      <4> QED BY <4>1, <2>2 DEF FreshEntriesInvalidated
    <3> QED BY <3>1, <3>2
  <2> QED BY <2>2, <2>3, <2>4 DEF SweepOK
<1> QED BY <1>1, <1>2, <1>3, <1>4, <1>5, <1>6, <1>7

\* An entry that ages stays what it was.
LEMMA AgeStep == ASSUME CacheInv, NEW k \in Handlers!Keys, Handlers!Age(k) PROVE CacheInv'
<1> USE DEF CacheInv
<1>1. DOMAIN entries' = DOMAIN entries
  BY DEF Handlers!Age
<1>2. \A q \in DOMAIN entries :
        /\ entries'[q] \in Handlers!Entry
        /\ entries'[q].fresh = entries[q].fresh /\ entries'[q].ver = entries[q].ver
  BY DEF Handlers!Age, Handlers!Cached, Handlers!TypeOK, Handlers!Entry
<1>3. Handlers!TypeOK'
  BY <1>1, <1>2 DEF Handlers!Age, Handlers!TypeOK
<1>4. FreshEntriesInvalidated'
  BY <1>1, <1>2 DEF Handlers!Age, FreshEntriesInvalidated
<1> QED BY <1>3, <1>4 DEF Handlers!Age, SweepOK

\* A mutation handler, from its commit to its answer.
LEMMA WriterStep ==
    ASSUME CacheInv, NEW w \in Writers,
           (\E t \in Types : Handlers!Commit(w, t)) \/ Handlers!GiveUp(w)
             \/ (\E k \in Handlers!Keys : Handlers!Visit(w, k) \/ Handlers!Remove(w, k))
             \/ Handlers!Collected(w) \/ Handlers!Return(w)
    PROVE  CacheInv'
<1> USE BoundsAssumption DEF CacheInv
<1>1. ASSUME NEW t \in Types, Handlers!Commit(w, t) PROVE CacheInv'
  <2> USE <1>1 DEF Handlers!Commit
  <2>1. Handlers!TypeOK'
    BY DEF Handlers!TypeOK, Handlers!Writer
  <2>2. SweepOK'
    BY DEF SweepOK, Handlers!TypeOK
  <2>3. FreshEntriesInvalidated'
    <3> SUFFICES ASSUME NEW q \in DOMAIN entries, entries[q].fresh,
                        NEW v \in (entries[q].ver + 1) .. version'[q[1]]
                 PROVE  \/ v \in quiet[q[1]]
                        \/ \E x \in Writers :
                            /\ writer'[x].type = q[1] /\ writer'[x].write = v
                            /\ q \in writer'[x].left \cup writer'[x].keys
      BY DEF FreshEntriesInvalidated
    <3>1. q \in Handlers!Keys /\ q[1] \in Types /\ entries[q].ver \in Nat
      BY KeyType DEF Handlers!TypeOK, Handlers!Entry
    <3>4. /\ version'[q[1]] = IF q[1] = t THEN version[t] + 1 ELSE version[q[1]]
          /\ version[q[1]] \in Nat
      BY <3>1 DEF Handlers!TypeOK
    <3>2. CASE q[1] = t /\ v = version[t] + 1
      BY <3>1, <3>2 DEF Handlers!TypeOK
    <3>3. CASE v \in (entries[q].ver + 1) .. version[q[1]]
      BY <3>3 DEF FreshEntriesInvalidated, SweepOK, Handlers!TypeOK
    <3>5. \/ q[1] = t /\ v = version[t] + 1
          \/ v \in (entries[q].ver + 1) .. version[q[1]]
      BY <3>1, <3>4
    <3> QED BY <3>2, <3>3, <3>5
  <2> QED BY <2>1, <2>2, <2>3
<1>2. CASE Handlers!GiveUp(w)
  <2> USE <1>2 DEF Handlers!GiveUp
  <2>1. writer[w].keys = {} /\ writer[w].write \in 0 .. MaxWrites /\ writer[w].type \in Types
    BY DEF SweepOK, Handlers!TypeOK, Handlers!Writer
  <2>2. SweepOK'
    BY <2>1 DEF SweepOK, Handlers!TypeOK
  <2>3. FreshEntriesInvalidated'
    BY <2>1 DEF FreshEntriesInvalidated, Handlers!TypeOK
  <2>4. writer[w].write \in 1 .. MaxWrites
    BY <2>1 DEF SweepOK
  <2>5. Handlers!TypeOK'
    <3>0. [writer[w] EXCEPT !.pc = "idle", !.left = {}] \in Handlers!Writer
      BY ZenonT(60) DEF Handlers!TypeOK, Handlers!Writer
    <3>1. writer' \in [Writers -> Handlers!Writer]
      <4>1. writer' = [writer EXCEPT ![w] = [writer[w] EXCEPT !.pc = "idle", !.left = {}]]
        BY DEF Handlers!TypeOK
      <4> QED BY <3>0, <4>1 DEF Handlers!TypeOK
    <3>2. quiet' \in [Types -> SUBSET (1 .. MaxWrites)]
      BY <2>1, <2>4 DEF Handlers!TypeOK
    <3> QED BY <3>1, <3>2 DEF Handlers!TypeOK
  <2> QED BY <2>2, <2>3, <2>5
<1>3. ASSUME NEW k \in Handlers!Keys, Handlers!Visit(w, k) PROVE CacheInv'
  <2> DEFINE collected == Handlers!Cached(k) /\ k[1] = writer[w].type
             keys == IF collected THEN writer[w].keys \cup {k} ELSE writer[w].keys
  <2>0. /\ writer' = [writer EXCEPT ![w].left = @ \ {k}, ![w].keys = keys]
        /\ writer[w].pc = "scan" /\ k \in writer[w].left
        /\ UNCHANGED <<version, quiet, entries, reader>>
    BY <1>3 DEF Handlers!Visit
  <2> HIDE DEF collected
  <2>4. /\ \A x \in Writers \ {w} : writer'[x] = writer[x]
        /\ writer'[w].pc = writer[w].pc /\ writer'[w].type = writer[w].type
        /\ writer'[w].write = writer[w].write
        /\ writer'[w].left = writer[w].left \ {k} /\ writer'[w].keys = keys
    BY <2>0 DEF Handlers!TypeOK, Handlers!Writer
  <2>5. keys \in SUBSET Handlers!Keys
    BY DEF Handlers!TypeOK, Handlers!Writer
  <2>1. Handlers!TypeOK'
    <3>1. writer' \in [Writers -> Handlers!Writer]
      BY <2>0, <2>5, ZenonT(60) DEF Handlers!TypeOK, Handlers!Writer
    <3> QED BY <3>1, <2>0 DEF Handlers!TypeOK
  <2>6. /\ keys \subseteq writer[w].keys \cup {k} /\ writer[w].keys \subseteq keys
        /\ Handlers!Cached(k) /\ k[1] = writer[w].type => k \in keys
    BY DEF collected
  <2> HIDE DEF keys
  <2>2. SweepOK'
    <3> SUFFICES ASSUME NEW x \in Writers
                 PROVE  /\ writer'[x].left \cap writer'[x].keys = {}
                        /\ writer'[x].pc = "remove" => writer'[x].left = {}
                        /\ writer'[x].pc = "idle" => writer'[x].left = {} /\ writer'[x].keys = {}
                        /\ writer'[x].pc # "idle" => writer'[x].write > 0
      BY DEF SweepOK
    <3>1. CASE x = w
      BY <3>1, <2>0, <2>4, <2>6 DEF SweepOK
    <3>2. CASE x # w
      BY <3>2, <2>4 DEF SweepOK
    <3> QED BY <3>1, <3>2
  <2>3. FreshEntriesInvalidated'
    <3> SUFFICES ASSUME NEW q \in DOMAIN entries', entries'[q].fresh,
                        NEW v \in (entries'[q].ver + 1) .. version'[q[1]]
                 PROVE  \/ v \in quiet'[q[1]]
                        \/ \E x \in Writers :
                            /\ writer'[x].type = q[1] /\ writer'[x].write = v
                            /\ q \in writer'[x].left \cup writer'[x].keys
      BY DEF FreshEntriesInvalidated
    <3> SUFFICES ASSUME v \notin quiet[q[1]]
                 PROVE  \E x \in Writers :
                          /\ writer'[x].type = q[1] /\ writer'[x].write = v
                          /\ q \in writer'[x].left \cup writer'[x].keys
      BY <2>0
    <3>1. PICK x \in Writers : /\ writer[x].type = q[1] /\ writer[x].write = v
                               /\ q \in writer[x].left \cup writer[x].keys
      BY <2>0 DEF FreshEntriesInvalidated
    <3>2. CASE x = w
      BY <3>1, <3>2, <2>0, <2>4, <2>6, ZenonT(60) DEF Handlers!Cached
    <3>3. CASE x # w
      BY <3>1, <3>3, <2>4
    <3> QED BY <3>2, <3>3
  <2> QED BY <2>1, <2>2, <2>3
<1>4. ASSUME NEW k \in Handlers!Keys, Handlers!Remove(w, k) PROVE CacheInv'
  <2> USE <1>4 DEF Handlers!Remove, Handlers!Without
  <2>1. Handlers!TypeOK'
    BY DEF Handlers!TypeOK, Handlers!Writer
  <2>4. /\ \A x \in Writers \ {w} : writer'[x] = writer[x]
        /\ writer'[w].pc = writer[w].pc /\ writer'[w].type = writer[w].type
        /\ writer'[w].write = writer[w].write
        /\ writer'[w].left = writer[w].left /\ writer'[w].keys = writer[w].keys \ {k}
    BY DEF Handlers!TypeOK, Handlers!Writer
  <2>2. SweepOK'
    BY <2>4 DEF SweepOK
  <2>3. FreshEntriesInvalidated'
    BY <2>4 DEF FreshEntriesInvalidated
  <2> QED BY <2>1, <2>2, <2>3
<1>5. CASE Handlers!Collected(w)
  BY <1>5 DEF Handlers!Collected, Handlers!TypeOK, Handlers!Writer, SweepOK, FreshEntriesInvalidated
<1>6. CASE Handlers!Return(w)
  BY <1>6 DEF Handlers!Return, Handlers!TypeOK, Handlers!Writer, SweepOK, FreshEntriesInvalidated
<1> QED BY <1>1, <1>2, <1>3, <1>4, <1>5, <1>6

\* Writes that invalidate nothing are the property's exception.
LEMMA QuietWriteStep == ASSUME CacheInv, NEW t \in Types, Handlers!QuietWrite(t) PROVE CacheInv'
<1> USE BoundsAssumption DEF CacheInv, Handlers!QuietWrite
<1>1. Handlers!TypeOK'
  BY DEF Handlers!TypeOK
<1>2. FreshEntriesInvalidated'
  <2> SUFFICES ASSUME NEW q \in DOMAIN entries, entries[q].fresh,
                      NEW v \in (entries[q].ver + 1) .. version'[q[1]]
               PROVE  \/ v \in quiet'[q[1]]
                      \/ \E w \in Writers :
                          /\ writer[w].type = q[1] /\ writer[w].write = v
                          /\ q \in writer[w].left \cup writer[w].keys
    BY DEF FreshEntriesInvalidated
  <2>1. q \in Handlers!Keys /\ q[1] \in Types /\ entries[q].ver \in Nat
    BY KeyType DEF Handlers!TypeOK, Handlers!Entry
  <2>2. /\ version'[q[1]] = IF q[1] = t THEN version[t] + 1 ELSE version[q[1]]
        /\ version[q[1]] \in Nat
        /\ quiet[q[1]] \subseteq quiet'[q[1]]
        /\ q[1] = t => version[t] + 1 \in quiet'[q[1]]
    BY <2>1 DEF Handlers!TypeOK
  <2>3. \/ q[1] = t /\ v = version[t] + 1
        \/ v \in (entries[q].ver + 1) .. version[q[1]]
    BY <2>1, <2>2
  <2> QED BY <2>2, <2>3 DEF FreshEntriesInvalidated
<1> QED BY <1>1, <1>2 DEF SweepOK

LEMMA NextCacheInv == CacheInv /\ [Handlers!Next]_(Handlers!vars) => CacheInv'
<1> SUFFICES ASSUME CacheInv, [Handlers!Next]_(Handlers!vars) PROVE CacheInv'
  OBVIOUS
<1>1. CASE UNCHANGED Handlers!vars
  BY <1>1 DEF Handlers!vars, CacheInv, Handlers!TypeOK, SweepOK, FreshEntriesInvalidated
<1>2. CASE Handlers!Next
  BY <1>2, ReaderStep, AgeStep, WriterStep, QuietWriteStep DEF Handlers!Next
<1> QED BY <1>1, <1>2

LEMMA AlwaysCacheInv == Handlers!Spec => []CacheInv
BY InitCacheInv, NextCacheInv, PTL DEF Handlers!Spec

\* Type correctness of the cache and of its handlers.
THEOREM CacheTypeCorrect == Handlers!Spec => []Handlers!TypeOK
<1>1. CacheInv => Handlers!TypeOK
  BY DEF CacheInv
<1> QED BY <1>1, AlwaysCacheInv, PTL

\* invalidate_by_entity_type is complete although it collects and removes keys
\* one by one while queries insert and evict: a result that was current when
\* it was stored is gone once the handler of a later write has answered.
THEOREM FreshResultsAreInvalidated == Handlers!Spec => []FreshEntriesInvalidated
<1>1. CacheInv => FreshEntriesInvalidated
  BY DEF CacheInv
<1> QED BY <1>1, AlwaysCacheInv, PTL
=============================================================================

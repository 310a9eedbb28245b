------------------------- MODULE OfflineQueueProofs -------------------------
(***************************************************************************)
(* For any number of tabs, entries and attempts: no queued write is lost,  *)
(* and writes first take effect in the order they were queued unless the   *)
(* server rejected one or the application cleared the queue.               *)
(***************************************************************************)
EXTENDS OfflineQueue, WellFoundedInduction, TLAPS

-----------------------------------------------------------------------------
(* The inductive invariant *)

Active(t) == tab[t].pc \in {"submit", "wait", "ok", "rejected"}

\* What lets a later entry overtake e.
Done(e) == e \in Applied \/ rejections[e] > 0 \/ e \in cleared

\* Every entry before x is out of x's way.
Passed(x) == \A e \in 1 .. (x - 1) : Done(e)

\* One tab's replay.  Its snapshot has no gaps but entries that are done, so
\* the entry it sends has been passed; it never believes in more attempts than
\* there were rejections; and an answer it holds is the server's.
TabInv(t) ==
    /\ Active(t) =>
        /\ tab[t].todo # {}
        /\ \A x \in tab[t].todo : \A e \in 1 .. (x - 1) : e \in tab[t].todo \/ Done(e)
    /\ \A e \in Entries : tab[t].seen[e] <= rejections[e]
    /\ tab[t].pc = "ok" => Current(t) \in Applied
    /\ tab[t].pc = "rejected" => tab[t].seen[Current(t)] < rejections[Current(t)]

\* The store's counts are backed by rejections, and so is every removal.
StoreInv ==
    /\ \A e \in Entries : store[e] # None => e <= queued /\ store[e] <= rejections[e]
    /\ NothingLost

\* What has been applied, or may still be, was passed first.
OrderInv ==
    /\ \A x \in Applied \cup Pending : Passed(x)
    /\ FirstInOrder

IInv == TypeOK /\ StoreInv /\ OrderInv /\ \A t \in Tabs : TabInv(t)

-----------------------------------------------------------------------------
(* Least elements: the entry a replay is at *)

LEMMA LeastNat ==
    ASSUME NEW S \in SUBSET Nat, S # {}
    PROVE  \E x \in S : \A y \in S : x <= y
<1>1. PICK x \in S : \A y \in S : ~ (<<y, x>> \in OpToRel(<, Nat))
  BY NatLessThanWellFounded, WFMin
<1>2. \A y \in S : ~(y < x)
  <2> SUFFICES ASSUME NEW y \in S, y < x PROVE FALSE
    OBVIOUS
  <2>1. <<y, x>> \in Nat \X Nat
    OBVIOUS
  <2>2. <<y, x>> \in OpToRel(<, Nat)
    BY <2>1 DEF OpToRel
  <2> QED BY <2>2, <1>1
<1>3. \A y \in S : x <= y
  BY <1>2
<1> QED BY <1>3

LEMMA MinIsLeast ==
    ASSUME NEW S \in SUBSET Nat, S # {}
    PROVE  Min(S) \in S /\ \A y \in S : Min(S) <= y
<1>1. PICK x \in S : \A y \in S : x <= y
  BY LeastNat
<1> QED BY <1>1, Zenon DEF Min

\* The entry an active replay is at is the first of its snapshot.
LEMMA CurrentIsFirst ==
    ASSUME TypeOK, NEW t \in Tabs, TabInv(t), Active(t)
    PROVE  /\ Current(t) \in tab[t].todo
           /\ Current(t) \in 1 .. queued
           /\ Current(t) \in Entries
           /\ \A y \in tab[t].todo : Current(t) <= y
<1>1. tab[t].todo \in SUBSET (1 .. queued) /\ queued \in 0 .. MaxEntries
  BY DEF TypeOK
<1>2. tab[t].todo # {}
  BY DEF TabInv
<1>3. tab[t].todo \in SUBSET Nat
  BY <1>1
<1> QED BY <1>1, <1>2, <1>3, MinIsLeast, ConstantsAreSane DEF Current, Entries

LEMMA CurrentPassed ==
    ASSUME TypeOK, NEW t \in Tabs, TabInv(t), Active(t)
    PROVE  Passed(Current(t))
<1> SUFFICES ASSUME NEW e \in 1 .. (Current(t) - 1) PROVE Done(e)
  BY DEF Passed
<1>1. Current(t) \in tab[t].todo /\ Current(t) \in Nat /\ \A y \in tab[t].todo : Current(t) <= y
  BY CurrentIsFirst DEF Entries
<1>2. e \notin tab[t].todo
  BY <1>1
<1> QED BY <1>1, <1>2 DEF TabInv

-----------------------------------------------------------------------------
(* What only grows *)

Grows ==
    /\ rejections' \in [Entries -> 0 .. MaxAttempts]
    /\ \A e \in Entries : rejections[e] <= rejections'[e]
    /\ Applied \subseteq Applied'
    /\ cleared \subseteq cleared'

LEMMA EntryType ==
    ASSUME TypeOK, NEW x \in 1 .. queued
    PROVE  x \in Entries /\ \A e \in 1 .. (x - 1) : e \in Entries /\ e \in 1 .. queued
BY ConstantsAreSane DEF TypeOK, Entries

LEMMA DoneStays ==
    ASSUME TypeOK, Grows, NEW e \in Entries, Done(e)
    PROVE  Done(e)'
<1>1. rejections[e] \in Nat /\ rejections'[e] \in Nat /\ rejections[e] <= rejections'[e]
  BY ConstantsAreSane DEF Grows, TypeOK
<1>2. CASE e \in Applied \/ e \in cleared
  BY <1>2 DEF Done, Grows
<1>3. CASE rejections[e] > 0
  BY <1>1, <1>3 DEF Done
<1> QED BY <1>2, <1>3 DEF Done

LEMMA PassedStays ==
    ASSUME TypeOK, Grows, NEW x \in 1 .. queued, Passed(x)
    PROVE  Passed(x)'
<1> SUFFICES ASSUME NEW e \in 1 .. (x - 1) PROVE Done(e)'
  BY DEF Passed
<1>1. e \in Entries
  BY EntryType
<1> QED BY <1>1, DoneStays DEF Passed

\* A replay that takes no step keeps its invariant.
LEMMA TabStays ==
    ASSUME TypeOK, Grows, NEW t \in Tabs, TabInv(t), tab'[t] = tab[t]
    PROVE  TabInv(t)'
<1>1. Current(t)' = Current(t)
  BY DEF Current
<1>2. Active(t)' = Active(t)
  BY DEF Active
<1>3. ASSUME Active(t)
      PROVE  /\ tab[t].todo # {}
             /\ \A x \in tab[t].todo : \A e \in 1 .. (x - 1) : e \in tab[t].todo \/ Done(e)'
  <2> SUFFICES ASSUME NEW x \in tab[t].todo, NEW e \in 1 .. (x - 1), e \notin tab[t].todo
               PROVE  Done(e)'
    BY <1>3 DEF TabInv
  <2>1. x \in 1 .. queued
    BY DEF TypeOK
  <2>2. e \in Entries
    BY <2>1, EntryType
  <2>3. Done(e)
    BY <1>3 DEF TabInv
  <2> QED BY <2>2, <2>3, DoneStays
<1>4. \A e \in Entries : tab[t].seen[e] <= rejections'[e]
  <2> SUFFICES ASSUME NEW e \in Entries PROVE tab[t].seen[e] <= rejections'[e]
    OBVIOUS
  <2>1. tab[t].seen[e] \in Nat /\ rejections[e] \in Nat /\ rejections'[e] \in Nat
    BY ConstantsAreSane DEF TypeOK, Grows
  <2> QED BY <2>1 DEF TabInv, Grows
<1>5. tab[t].pc = "ok" => Current(t) \in Applied'
  BY DEF TabInv, Grows
<1>6. ASSUME tab[t].pc = "rejected" PROVE tab[t].seen[Current(t)] < rejections'[Current(t)]
  <2>1. Current(t) \in Entries
    BY <1>6, CurrentIsFirst DEF Active
  <2>2. tab[t].seen[Current(t)] \in Nat /\ rejections[Current(t)] \in Nat /\ rejections'[Current(t)] \in Nat
    BY <2>1, ConstantsAreSane DEF TypeOK, Grows
  <2> QED BY <1>6, <2>1, <2>2 DEF TabInv, Grows
<1> QED BY <1>1, <1>2, <1>3, <1>4, <1>5, <1>6 DEF TabInv

\* Nothing but growth happens to what the store and the order depend on.
LEMMA StoreStays ==
    ASSUME IInv, Grows, store' = store, queued' = queued
    PROVE  StoreInv'
<1>1. \A e \in Entries : rejections[e] \in Nat /\ rejections'[e] \in Nat /\ rejections'[e] <= MaxAttempts
  BY ConstantsAreSane DEF IInv, TypeOK, Grows
<1>2. ASSUME NEW e \in Entries, store[e] # None PROVE e <= queued /\ store[e] <= rejections'[e]
  <2>1. store[e] \in Nat
    BY <1>2, ConstantsAreSane DEF IInv, TypeOK
  <2> QED BY <1>1, <1>2, <2>1 DEF IInv, StoreInv, Grows
<1>3. ASSUME NEW e \in 1 .. queued, store[e] = None
      PROVE  e \in Applied' \/ e \in cleared' \/ rejections'[e] = MaxAttempts
  <2>1. e \in Entries
    BY EntryType DEF IInv
  <2>2. e \in Applied \/ e \in cleared \/ rejections[e] = MaxAttempts
    BY <1>3 DEF IInv, StoreInv, NothingLost
  <2> QED BY <2>1, <2>2, <1>1, ConstantsAreSane DEF Grows
<1> QED BY <1>2, <1>3 DEF StoreInv, NothingLost, None

LEMMA OrderStays ==
    ASSUME IInv, Grows, first' = first,
           \A x \in Pending' : x \in 1 .. queued /\ Passed(x)
    PROVE  OrderInv'
<1>1. Applied' = Applied
  BY DEF Applied
<1>2. \A i \in DOMAIN first : first[i] \in 1 .. queued
  BY DEF IInv, TypeOK
<1>3. \A x \in Applied : x \in 1 .. queued /\ Passed(x)
  BY <1>2 DEF Applied, IInv, OrderInv
<1>4. \A x \in Applied' \cup Pending' : Passed(x)'
  BY <1>1, <1>3, PassedStays DEF IInv
<1>5. FirstInOrder'
  <2> SUFFICES ASSUME NEW i \in DOMAIN first, NEW j \in DOMAIN first, i < j, first[j] < first[i]
               PROVE  rejections'[first[j]] > 0 \/ first[j] \in cleared'
    BY DEF FirstInOrder
  <2>1. first[j] \in Entries
    BY <1>2, EntryType DEF IInv
  <2>2. /\ rejections[first[j]] \in Nat /\ rejections'[first[j]] \in Nat
        /\ rejections[first[j]] <= rejections'[first[j]]
    BY <2>1, ConstantsAreSane DEF IInv, TypeOK, Grows
  <2>3. rejections[first[j]] > 0 \/ first[j] \in cleared
    BY DEF IInv, OrderInv, FirstInOrder
  <2> QED BY <2>2, <2>3 DEF Grows
<1> QED BY <1>4, <1>5 DEF OrderInv

\* The server applies an entry that has been passed.
LEMMA ExecuteKeepsOrder ==
    ASSUME IInv, NEW e \in 1 .. queued, Passed(e), Execute(e),
           rejections' = rejections, cleared' = cleared, Pending' \subseteq Pending
    PROVE  /\ Grows
           /\ e \in Applied'
           /\ first' \in Seq(1 .. queued)
           /\ OrderInv'
<1>0. /\ first \in Seq(1 .. queued) /\ Len(first) \in Nat /\ DOMAIN first = 1 .. Len(first)
      /\ \A i \in DOMAIN first : first[i] \in 1 .. queued
  BY DEF IInv, TypeOK
<1>1. CASE e \in Applied
  <2>1. first' = first
    BY <1>1 DEF Execute
  <2>2. Applied' = Applied
    BY <2>1 DEF Applied
  <2>3. Grows
    BY <2>2, ConstantsAreSane DEF Grows, IInv, TypeOK
  <2>4. \A x \in Pending' : x \in 1 .. queued /\ Passed(x)
    BY DEF IInv, TypeOK, OrderInv
  <2> QED BY <1>0, <1>1, <2>1, <2>2, <2>3, <2>4, OrderStays
<1>2. CASE e \notin Applied
  <2>1. first' = Append(first, e)
    BY <1>2 DEF Execute
  <2>2. /\ first' \in Seq(1 .. queued)
        /\ DOMAIN first' = 1 .. (Len(first) + 1)
        /\ first'[Len(first) + 1] = e
        /\ \A i \in 1 .. Len(first) : first'[i] = first[i]
    BY <1>0, <2>1
  <2>3. Applied' = Applied \cup {e}
    BY <1>0, <2>2 DEF Applied
  <2>4. Grows
    BY <2>3, ConstantsAreSane DEF Grows, IInv, TypeOK
  <2>5. \A x \in Applied \cup Pending \cup {e} : x \in 1 .. queued /\ Passed(x)
    <3>1. \A x \in Applied : x \in 1 .. queued
      BY <1>0 DEF Applied
    <3>2. Pending \subseteq 1 .. queued
      BY DEF IInv, TypeOK
    <3> QED BY <3>1, <3>2 DEF IInv, OrderInv
  <2>6. \A x \in Applied' \cup Pending' : Passed(x)'
    BY <2>3, <2>4, <2>5, PassedStays DEF IInv
  <2>7. FirstInOrder'
    <3> SUFFICES ASSUME NEW i \in DOMAIN first', NEW j \in DOMAIN first',
                        i < j, first'[j] < first'[i]
                 PROVE  rejections[first'[j]] > 0 \/ first'[j] \in cleared
      BY DEF FirstInOrder
    <3>1. i \in 1 .. Len(first) /\ first'[i] = first[i]
      BY <1>0, <2>2
    <3>2. CASE j \in 1 .. Len(first)
      <4>1. first'[j] = first[j] /\ i \in DOMAIN first /\ j \in DOMAIN first
        BY <1>0, <2>2, <3>1, <3>2
      <4> QED BY <4>1, <3>1 DEF IInv, OrderInv, FirstInOrder
    <3>3. CASE j = Len(first) + 1
      <4>1. first'[j] = e /\ first[i] \in Applied
        BY <1>0, <2>2, <3>1, <3>3 DEF Applied
      <4>2. Passed(first[i]) /\ first[i] \in 1 .. queued
        BY <4>1, <2>5
      <4>3. Done(e)
        BY <4>1, <4>2, <3>1 DEF Passed
      <4> QED BY <4>1, <4>3, <1>2 DEF Done
    <3> QED BY <1>0, <2>2, <3>2, <3>3
  <2> QED BY <2>2, <2>3, <2>4, <2>6, <2>7 DEF OrderInv
<1> QED BY <1>1, <1>2

-----------------------------------------------------------------------------
(* Steps of a replay *)

Replays(q) ==
    [pc : {"idle", "load", "submit", "wait", "ok", "rejected"},
     todo : SUBSET (1 .. q), seen : [Entries -> 0 .. (MaxAttempts - 1)]]

LEMMA RestingInv ==
    ASSUME TypeOK, NEW t \in Tabs, rejections' \in [Entries -> 0 .. MaxAttempts],
           tab'[t] = Resting
    PROVE  Resting \in Replays(queued) /\ TabInv(t)'
<1>1. Resting \in Replays(queued)
  BY ConstantsAreSane DEF Resting, Replays
<1>2. \A e \in Entries : rejections'[e] \in Nat
  BY ConstantsAreSane
<1> QED BY <1>1, <1>2 DEF Resting, TabInv, Active

\* The loop goes on: what is left of the snapshot has the entry it was at as
\* one more gap, which is done.
LEMMA AdvanceInv ==
    ASSUME IInv, Grows, NEW t \in Tabs, Active(t), Advance(t),
           NEW c \in Entries, c = Current(t), Done(c)'
    PROVE  tab' \in [Tabs -> Replays(queued)] /\ TabInv(t)'
<1> DEFINE left == tab[t].todo \ {Current(t)}
<1>1. tab \in [Tabs -> Replays(queued)] /\ TabInv(t) /\ TypeOK
  BY DEF IInv, TypeOK, Replays
<1>2. rejections' \in [Entries -> 0 .. MaxAttempts]
  BY DEF Grows
<1>3. CASE left = {}
  <2>1. tab' = [tab EXCEPT ![t] = Resting]
    BY <1>3 DEF Advance
  <2>2. tab'[t] = Resting
    BY <1>1, <2>1
  <2> QED BY <1>1, <1>2, <2>1, <2>2, RestingInv
<1>4. CASE left # {}
  <2>1. tab' = [tab EXCEPT ![t] = [@ EXCEPT !.pc = "submit", !.todo = left]]
    BY <1>4 DEF Advance
  <2>2. /\ tab[t] \in Replays(queued)
        /\ tab'[t].pc = "submit" /\ tab'[t].todo = left /\ tab'[t].seen = tab[t].seen
        /\ tab' \in [Tabs -> Replays(queued)]
    BY <1>1, <2>1 DEF Replays
  <2>3. ASSUME NEW x \in left, NEW e \in 1 .. (x - 1), e \notin left
        PROVE  Done(e)'
    <3>1. x \in tab[t].todo /\ x \in 1 .. queued
      BY <2>2 DEF Replays
    <3>2. e \in Entries
      BY <1>1, <3>1, EntryType
    <3>3. CASE e = c
      BY <3>3
    <3>4. CASE e \notin tab[t].todo
      <4>1. Done(e)
        BY <1>1, <3>1, <3>4 DEF TabInv
      <4> QED BY <1>1, <3>2, <4>1, DoneStays
    <3> QED BY <2>3, <3>3, <3>4
  <2>4. \A e \in Entries : tab[t].seen[e] <= rejections'[e]
    <3> SUFFICES ASSUME NEW e \in Entries PROVE tab[t].seen[e] <= rejections'[e]
      OBVIOUS
    <3>1. tab[t].seen[e] \in Nat /\ rejections[e] \in Nat /\ rejections'[e] \in Nat
      BY <1>1, <1>2, <2>2, ConstantsAreSane DEF TypeOK, Replays
    <3> QED BY <3>1, <1>1 DEF TabInv, Grows
  <2> QED BY <1>4, <2>2, <2>3, <2>4 DEF TabInv, Active
<1> QED BY <1>3, <1>4

\* A step of one replay, put together: the others keep their invariant.
LEMMA OneTabMoves ==
    ASSUME IInv, Grows, NEW t \in Tabs, TabInv(t)',
           \A u \in Tabs \ {t} : tab'[u] = tab[u]
    PROVE  \A u \in Tabs : TabInv(u)'
<1> SUFFICES ASSUME NEW u \in Tabs PROVE TabInv(u)'
  OBVIOUS
<1>1. CASE u = t
  BY <1>1
<1>2. CASE u # t
  BY <1>2, TabStays DEF IInv
<1> QED BY <1>1, <1>2

-----------------------------------------------------------------------------
(* The invariant is inductive *)

LEMMA InitIInv == Init => IInv
<1> SUFFICES ASSUME Init PROVE IInv
  OBVIOUS
<1>1. Resting \in Replays(0)
  BY ConstantsAreSane DEF Resting, Replays
<1>2. TypeOK
  <2>1. record \in [Entries -> Records]
    BY ConstantsAreSane DEF Init
  <2> QED BY <1>1, <2>1, ConstantsAreSane DEF Init, TypeOK, None, Replays, Pending
<1>3. Applied = {} /\ DOMAIN first = {} /\ Pending = {}
  BY DEF Init, Applied, Pending
<1>4. StoreInv
  BY DEF Init, StoreInv, NothingLost
<1>5. OrderInv
  BY <1>3 DEF OrderInv, FirstInOrder
<1>6. \A t \in Tabs : TabInv(t)
  BY DEF Init, Resting, TabInv, Active
<1> QED BY <1>2, <1>4, <1>5, <1>6 DEF IInv

\* Where the counters stay, everything that only grows has grown.
LEMMA GrowsWhenKept ==
    ASSUME TypeOK, first' = first, rejections' = rejections, cleared \subseteq cleared'
    PROVE  Grows
<1>1. Applied' = Applied
  BY DEF Applied
<1>2. \A e \in Entries : rejections[e] \in Nat
  BY ConstantsAreSane DEF TypeOK
<1> QED BY <1>1, <1>2 DEF Grows, TypeOK

LEMMA LateKept ==
    ASSUME IInv
    PROVE  \A x \in Pending : x \in 1 .. queued /\ Passed(x)
BY DEF IInv, TypeOK, OrderInv

LEMMA FaultType ==
    ASSUME TypeOK, Fault \/ UNCHANGED faults
    PROVE  faults' \in 0 .. MaxFaults
BY ConstantsAreSane DEF TypeOK, Fault

\* Where nothing was sent or given up, the same requests are on their way.
LEMMA PendingKept ==
    ASSUME IInv, late' = late
    PROVE  Pending' = Pending /\ late' \in [Entries -> Nat] /\ Pending \subseteq 1 .. queued
BY DEF Pending, IInv, TypeOK

LEMMA EnqueueStep ==
    ASSUME IInv, NEW k \in Kinds, NEW d \in Records, Enqueue(k, d) PROVE IInv'
<1> DEFINE n == queued + 1
<1>1. /\ queued \in Nat /\ n \in 1 .. MaxEntries /\ n \in Entries /\ queued' = n
      /\ 1 .. queued \subseteq 1 .. n
  BY ConstantsAreSane DEF IInv, TypeOK, Enqueue, Entries
<1>2. Grows
  BY GrowsWhenKept DEF IInv, Enqueue
<1>3. TypeOK'
  <2>1. store' \in [Entries -> (0 .. (MaxAttempts - 1)) \cup {None}]
    BY <1>1, ConstantsAreSane DEF IInv, TypeOK, Enqueue
  <2>2. /\ kind' \in [Entries -> {"set", "merge", "delete", "refused", "unsupported"}]
        /\ record' \in [Entries -> Records] /\ exists' \subseteq Records /\ rest' \subseteq Tabs
    BY <1>1, ConstantsAreSane DEF IInv, TypeOK, Enqueue
  <2>3. Replays(queued) \subseteq Replays(n)
    BY <1>1 DEF Replays
  <2>4. tab' \in [Tabs -> Replays(n)]
    BY <2>3 DEF IInv, TypeOK, Replays, Enqueue
  <2>5. late' \in [Entries -> Nat] /\ Pending' \subseteq 1 .. n /\ cleared' \subseteq 1 .. n
    BY <1>1, PendingKept DEF IInv, TypeOK, Enqueue
  <2>6. first' \in Seq(1 .. n)
    <3>1. first \in Seq(1 .. queued) /\ first' = first
      BY DEF IInv, TypeOK, Enqueue
    <3> QED BY <1>1, <3>1
  <2>7. rejections' \in [Entries -> 0 .. MaxAttempts] /\ faults' \in 0 .. MaxFaults
    BY DEF IInv, TypeOK, Enqueue
  <2> QED BY <1>1, <2>1, <2>2, <2>4, <2>5, <2>6, <2>7 DEF TypeOK, Replays, None
<1>4. StoreInv'
  <2>1. store' = [store EXCEPT ![n] = 0] /\ rejections' = rejections /\ first' = first /\ cleared' = cleared
    BY DEF Enqueue
  <2>2. Applied' = Applied
    BY <2>1 DEF Applied
  <2>3. n \in Entries /\ store'[n] = 0 /\ 0 # None /\ rejections[n] \in Nat
    BY <1>1, <2>1, ConstantsAreSane DEF IInv, TypeOK, None
  <2>4. \A e \in Entries \ {n} : store'[e] = store[e]
    BY <2>1 DEF IInv, TypeOK
  <2>5. \A e \in Entries : store'[e] # None => e <= n /\ store'[e] <= rejections[e]
    <3> SUFFICES ASSUME NEW e \in Entries, store'[e] # None
                 PROVE  e <= n /\ store'[e] <= rejections[e]
      OBVIOUS
    <3>1. CASE e = n
      BY <1>1, <2>3, <3>1
    <3>2. CASE e # n
      BY <1>1, <2>4, <3>2 DEF IInv, StoreInv, Entries
    <3> QED BY <3>1, <3>2
  <2>6. \A e \in 1 .. n : e = n \/ (e \in 1 .. queued /\ e \in Entries)
    BY <1>1, EntryType DEF IInv
  <2> QED BY <1>1, <2>1, <2>2, <2>3, <2>4, <2>5, <2>6 DEF IInv, StoreInv, NothingLost, None
<1>5. OrderInv'
  BY <1>2, LateKept, PendingKept, OrderStays DEF Enqueue
<1>6. \A t \in Tabs : TabInv(t)'
  BY <1>2, TabStays DEF IInv, Enqueue
<1> QED BY <1>3, <1>4, <1>5, <1>6 DEF IInv

\* What is stored has been queued.
LEMMA QueueType ==
    ASSUME IInv
    PROVE  Queue \subseteq 1 .. queued /\ \A e \in Queue : store[e] \in 0 .. (MaxAttempts - 1)
<1> SUFFICES ASSUME NEW e \in Entries, store[e] # None
             PROVE  e \in 1 .. queued /\ store[e] \in 0 .. (MaxAttempts - 1)
  BY DEF Queue
<1> QED BY ConstantsAreSane DEF IInv, StoreInv, TypeOK, Entries

LEMMA ClearStep == ASSUME IInv, ClearQueue PROVE IInv'
<1>1. Grows
  BY GrowsWhenKept DEF IInv, ClearQueue
<1>2. TypeOK'
  <2>1. store' \in [Entries -> (0 .. (MaxAttempts - 1)) \cup {None}]
    BY DEF ClearQueue
  <2>2. cleared' \subseteq 1 .. queued
    BY QueueType DEF IInv, TypeOK, ClearQueue
  <2>3. faults' \in 0 .. MaxFaults
    BY FaultType DEF IInv, ClearQueue
  <2> QED BY <2>1, <2>2, <2>3, PendingKept DEF IInv, TypeOK, ClearQueue, None
<1>3. StoreInv'
  <2>1. \A e \in Entries : store'[e] = None
    BY DEF ClearQueue
  <2>2. ASSUME NEW e \in 1 .. queued
        PROVE  e \in Applied' \/ e \in cleared' \/ rejections'[e] = MaxAttempts
    <3>1. e \in Entries
      BY EntryType DEF IInv
    <3>2. CASE store[e] # None
      BY <3>1, <3>2 DEF ClearQueue, Queue
    <3>3. CASE store[e] = None
      <4>1. e \in Applied \/ e \in cleared \/ rejections[e] = MaxAttempts
        BY <3>3 DEF IInv, StoreInv, NothingLost
      <4> QED BY <4>1, <1>1 DEF ClearQueue, Grows
    <3> QED BY <3>2, <3>3
  <2>3. queued' = queued
    BY DEF ClearQueue
  <2> QED BY <2>1, <2>2, <2>3 DEF StoreInv, NothingLost, None
<1>4. OrderInv'
  BY <1>1, LateKept, PendingKept, OrderStays DEF ClearQueue
<1>5. \A t \in Tabs : TabInv(t)'
  BY <1>1, TabStays DEF IInv, ClearQueue
<1> QED BY <1>2, <1>3, <1>4, <1>5 DEF IInv

\* A step that touches one replay, and neither the store nor the server.
LEMMA QuietStep ==
    ASSUME IInv, NEW t \in Tabs, NEW r \in Replays(queued), tab' = [tab EXCEPT ![t] = r],
           UNCHANGED <<store, rest, kind, record, exists, queued, first, rejections, cleared>>,
           late' \in [Entries -> Nat] /\ Pending' \subseteq 1 .. queued, \A x \in Pending' : Passed(x),
           faults' \in 0 .. MaxFaults,
           TabInv(t)'
    PROVE  IInv'
<1>1. Grows
  BY GrowsWhenKept DEF IInv
<1>2. TypeOK'
  <2>1. tab' \in [Tabs -> Replays(queued)]
    BY DEF IInv, TypeOK, Replays
  <2> QED BY <2>1 DEF IInv, TypeOK, Replays, None
<1>3. StoreInv'
  BY <1>1, StoreStays
<1>4. OrderInv'
  BY <1>1, OrderStays
<1>5. \A u \in Tabs \ {t} : tab'[u] = tab[u]
  BY DEF IInv, TypeOK
<1>6. \A u \in Tabs : TabInv(u)'
  BY <1>1, <1>5, OneTabMoves
<1> QED BY <1>2, <1>3, <1>4, <1>6 DEF IInv

\* A replay that ends.
LEMMA StopStep ==
    ASSUME IInv, NEW t \in Tabs, Stop(t),
           UNCHANGED <<store, rest, kind, record, exists, queued, first, rejections, cleared>>,
           late' \in [Entries -> Nat] /\ Pending' \subseteq 1 .. queued, \A x \in Pending' : Passed(x),
           faults' \in 0 .. MaxFaults
    PROVE  IInv'
<1>1. tab'[t] = Resting /\ tab' = [tab EXCEPT ![t] = Resting]
  BY DEF Stop, IInv, TypeOK
<1>2. Resting \in Replays(queued) /\ TabInv(t)'
  BY <1>1, RestingInv DEF IInv, TypeOK
<1> QED BY <1>1, <1>2, QuietStep

LEMMA GetQueueStep == ASSUME IInv, NEW t \in Tabs, GetQueue(t) PROVE IInv'
<1>0. late' \in [Entries -> Nat] /\ Pending' \subseteq 1 .. queued /\ (\A x \in Pending' : Passed(x)) /\ faults' \in 0 .. MaxFaults
  BY LateKept, PendingKept DEF GetQueue, IInv, TypeOK
<1>1. CASE Queue = {}
  <2>1. Stop(t)
    BY <1>1 DEF GetQueue, Stop
  <2> QED BY <1>0, <2>1, StopStep DEF GetQueue
<1>2. CASE Queue # {}
  <2> DEFINE r == [pc |-> "submit", todo |-> Queue,
                   seen |-> [e \in Entries |-> IF e \in Queue THEN store[e] ELSE 0]]
  <2>1. tab' = [tab EXCEPT ![t] = r] /\ tab'[t] = r
    BY <1>2 DEF GetQueue, IInv, TypeOK
  <2>2. r \in Replays(queued)
    BY QueueType, ConstantsAreSane DEF Replays
  <2>3. TabInv(t)'
    <3>1. Applied' = Applied /\ rejections' = rejections /\ cleared' = cleared
      BY DEF GetQueue, Applied
    <3>2. ASSUME NEW x \in Queue, NEW e \in 1 .. (x - 1), e \notin Queue
          PROVE  Done(e)'
      <4>1. e \in 1 .. queued /\ e \in Entries
        BY QueueType, EntryType DEF IInv
      <4>2. store[e] = None
        BY <4>1, <3>2 DEF Queue
      <4>3. e \in Applied \/ e \in cleared \/ rejections[e] = MaxAttempts
        BY <4>1, <4>2 DEF IInv, StoreInv, NothingLost
      <4> QED BY <3>1, <4>1, <4>3, ConstantsAreSane DEF Done
    <3>3. ASSUME NEW e \in Entries PROVE r.seen[e] <= rejections'[e]
      <4>1. rejections[e] \in Nat
        BY ConstantsAreSane DEF IInv, TypeOK
      <4>2. CASE e \in Queue
        BY <3>1, <4>2 DEF Queue, IInv, StoreInv
      <4> QED BY <3>1, <4>1, <4>2
    <3> QED BY <1>2, <2>1, <3>2, <3>3 DEF TabInv, Active
  <2> QED BY <1>0, <2>1, <2>2, <2>3, QuietStep DEF GetQueue
<1> QED BY <1>1, <1>2

\* The label moves to one that claims nothing new.
LEMMA LabelInv ==
    ASSUME IInv, NEW t \in Tabs, NEW label \in {"load", "wait"}, Goto(t, label),
           label = "wait" => Active(t), rejections' = rejections, first' = first,
           cleared' = cleared
    PROVE  \E r \in Replays(queued) : tab' = [tab EXCEPT ![t] = r] /\ TabInv(t)'
<1> DEFINE r == [tab[t] EXCEPT !.pc = label]
<1>1. tab[t] \in Replays(queued)
  BY DEF IInv, TypeOK, Replays
<1>2. r \in Replays(queued) /\ r.pc = label /\ r.todo = tab[t].todo /\ r.seen = tab[t].seen
  BY <1>1 DEF Replays
<1>3. tab' = [tab EXCEPT ![t] = r] /\ tab'[t] = r
  BY DEF Goto, IInv, TypeOK
<1>4. \A e : Done(e)' = Done(e)
  BY DEF Done, Applied
<1>5. TabInv(t)'
  BY <1>2, <1>3, <1>4 DEF IInv, TabInv, Active
<1> QED BY <1>2, <1>3, <1>5

LEMMA ReplayStep == ASSUME IInv, NEW t \in Tabs, Replay(t) \/ Submit(t) PROVE IInv'
<1>1. PICK label \in {"load", "wait"} : Goto(t, label) /\ (label = "wait" => Active(t))
  BY DEF Replay, Submit, Active
<1>2. /\ UNCHANGED <<store, rest, kind, record, exists, queued, first, rejections, cleared>>
      /\ late' = late /\ faults' = faults
  BY DEF Replay, Submit
<1>3. PICK r \in Replays(queued) : tab' = [tab EXCEPT ![t] = r] /\ TabInv(t)'
  BY <1>1, <1>2, LabelInv
<1>4. late' \in [Entries -> Nat] /\ Pending' \subseteq 1 .. queued /\ (\A x \in Pending' : Passed(x)) /\ faults' \in 0 .. MaxFaults
  BY <1>2, LateKept, PendingKept DEF IInv, TypeOK
<1> QED BY <1>2, <1>3, <1>4, QuietStep

LEMMA StopsStep ==
    ASSUME IInv, NEW t \in Tabs, SubmitThrows(t) \/ RestBreaks(t) \/ GiveUp(t)
    PROVE  IInv'
<1>1. Stop(t) /\ UNCHANGED <<store, rest, kind, record, exists, queued, first, rejections, cleared>>
  BY DEF SubmitThrows, RestBreaks, GiveUp
<1>2. faults' \in 0 .. MaxFaults
  BY FaultType DEF SubmitThrows, RestBreaks, GiveUp, IInv
<1>3. ASSUME GiveUp(t), tab[t].pc = "wait" PROVE Current(t) \in 1 .. queued /\ Passed(Current(t))
  <2>1. Active(t) /\ TabInv(t) /\ TypeOK
    BY <1>3 DEF Active, IInv
  <2> QED BY <2>1, CurrentIsFirst, CurrentPassed
<1>4. CASE late' = late
  BY <1>1, <1>2, <1>4, LateKept, PendingKept, StopStep
<1>5. CASE late' # late
  <2>1. GiveUp(t) /\ tab[t].pc = "wait" /\ late' = [late EXCEPT ![Current(t)] = @ + 1]
    BY <1>5 DEF SubmitThrows, RestBreaks, GiveUp
  <2>2. Current(t) \in Entries
    BY <1>3, <2>1, EntryType DEF IInv
  <2>3. late' \in [Entries -> Nat] /\ \A e \in Entries \ {Current(t)} : late'[e] = late[e]
    BY <2>1, <2>2 DEF IInv, TypeOK
  <2>4. Pending' \subseteq Pending \cup {Current(t)}
    BY <2>3 DEF Pending
  <2>5. Pending' \subseteq 1 .. queued /\ \A x \in Pending' : Passed(x)
    BY <1>3, <2>1, <2>4, LateKept
  <2> QED BY <1>1, <1>2, <2>3, <2>5, StopStep
<1> QED BY <1>4, <1>5

\* The entry a replay is at leaves the store or gets its count, and the loop
\* goes on.
LEMMA SettleStep ==
    ASSUME IInv, NEW t \in Tabs, Active(t), Advance(t),
           NEW c \in 1 .. queued, c = Current(t), Done(c),
           NEW v \in (0 .. (MaxAttempts - 1)) \cup {None}, store' = [store EXCEPT ![c] = v],
           v # None => v <= rejections[c],
           v = None => c \in Applied \/ c \in cleared \/ rejections[c] = MaxAttempts,
           UNCHANGED <<rest, kind, record, exists, queued, late, first, rejections, cleared, faults>>
    PROVE  IInv'
<1>1. Grows
  BY GrowsWhenKept DEF IInv
<1>2. c \in Entries /\ c <= queued
  BY EntryType DEF IInv
<1>3. Done(c)'
  BY <1>1, <1>2, DoneStays DEF IInv
<1>4. tab' \in [Tabs -> Replays(queued)] /\ TabInv(t)'
  BY <1>1, <1>2, <1>3, AdvanceInv
<1>5. \A u \in Tabs \ {t} : tab'[u] = tab[u]
  BY DEF Advance, IInv, TypeOK
<1>6. \A u \in Tabs : TabInv(u)'
  BY <1>1, <1>4, <1>5, OneTabMoves
<1>7. store'[c] = v /\ \A e \in Entries \ {c} : store'[e] = store[e]
  BY <1>2 DEF IInv, TypeOK
<1>8. TypeOK'
  <2>1. store' \in [Entries -> (0 .. (MaxAttempts - 1)) \cup {None}]
    BY <1>2 DEF IInv, TypeOK
  <2> QED BY <1>4, <2>1, PendingKept DEF IInv, TypeOK, Replays, None
<1>9. StoreInv'
  <2>1. Applied' = Applied
    BY DEF Applied
  <2>2. \A e \in Entries : store'[e] # None => e <= queued /\ store'[e] <= rejections[e]
    BY <1>2, <1>7 DEF IInv, StoreInv
  <2>3. \A e \in 1 .. queued : store'[e] = None =>
            e \in Applied \/ e \in cleared \/ rejections[e] = MaxAttempts
    <3> SUFFICES ASSUME NEW e \in 1 .. queued, store'[e] = None
                 PROVE  e \in Applied \/ e \in cleared \/ rejections[e] = MaxAttempts
      OBVIOUS
    <3>1. e \in Entries
      BY EntryType DEF IInv
    <3>2. CASE e = c
      BY <1>7, <3>2
    <3>3. CASE e # c
      BY <1>7, <3>1, <3>3 DEF IInv, StoreInv, NothingLost
    <3> QED BY <3>2, <3>3
  <2> QED BY <2>1, <2>2, <2>3 DEF StoreInv, NothingLost, None
<1>10. OrderInv'
  BY <1>1, LateKept, PendingKept, OrderStays
<1> QED BY <1>6, <1>8, <1>9, <1>10 DEF IInv

LEMMA DequeueStep == ASSUME IInv, NEW t \in Tabs, Dequeue(t) PROVE IInv'
<1>1. Active(t) /\ TabInv(t) /\ TypeOK /\ tab[t].pc = "ok"
  BY DEF Dequeue, Active, IInv
<1>2. Current(t) \in 1 .. queued /\ Current(t) \in Applied
  BY <1>1, CurrentIsFirst DEF TabInv
<1>3. Done(Current(t))
  BY <1>2 DEF Done
<1> QED BY <1>1, <1>2, <1>3, SettleStep DEF Dequeue

LEMMA CountStep == ASSUME IInv, NEW t \in Tabs, CountAttempt(t) PROVE IInv'
<1> DEFINE c == Current(t)
           n == tab[t].seen[c] + 1
           v == IF n >= MaxAttempts THEN None ELSE n
<1>1. Active(t) /\ TabInv(t) /\ TypeOK /\ tab[t].pc = "rejected"
  BY DEF CountAttempt, Active, IInv
<1>2. c \in 1 .. queued /\ c \in Entries
  BY <1>1, CurrentIsFirst
<1>3. /\ tab[t].seen[c] \in 0 .. (MaxAttempts - 1) /\ rejections[c] \in 0 .. MaxAttempts
      /\ tab[t].seen[c] < rejections[c]
  BY <1>1, <1>2 DEF TypeOK, TabInv
<1>4. n \in Nat /\ n <= rejections[c] /\ rejections[c] > 0 /\ rejections[c] <= MaxAttempts
  BY <1>3, ConstantsAreSane
<1>5. v \in (0 .. (MaxAttempts - 1)) \cup {None} /\ (v # None => v <= rejections[c])
  BY <1>4, ConstantsAreSane
<1>6. v = None => rejections[c] = MaxAttempts
  BY <1>3, <1>4, ConstantsAreSane DEF None
<1>7. Done(c)
  BY <1>4 DEF Done
<1>8. /\ store' = [store EXCEPT ![c] = v] /\ Advance(t)
      /\ UNCHANGED <<rest, kind, record, exists, queued, late, first, rejections, cleared, faults>>
  BY DEF CountAttempt
<1> HIDE DEF v, n, c
<1> QED BY <1>1, <1>2, <1>5, <1>6, <1>7, <1>8, SettleStep DEF c

LEMMA ExecuteType ==
    ASSUME TypeOK, NEW e \in Entries, Execute(e)
    PROVE  exists' \subseteq Records
BY DEF TypeOK, Execute

LEMMA AcceptStep == ASSUME IInv, NEW t \in Tabs, Accept(t) PROVE IInv'
<1> DEFINE r == [tab[t] EXCEPT !.pc = "ok"]
<1>1. Active(t) /\ TabInv(t) /\ TypeOK
  BY DEF Accept, Active, IInv
<1>2. Current(t) \in 1 .. queued /\ Passed(Current(t))
  BY <1>1, CurrentIsFirst, CurrentPassed
<1>3. PICK c \in 1 .. queued : c = Current(t)
  BY <1>2
<1>4. Grows /\ c \in Applied' /\ first' \in Seq(1 .. queued) /\ OrderInv'
  BY <1>2, <1>3, PendingKept, ExecuteKeepsOrder DEF Accept
<1>5. tab[t] \in Replays(queued)
  BY DEF IInv, TypeOK, Replays
<1>6. r \in Replays(queued) /\ r.pc = "ok" /\ r.todo = tab[t].todo /\ r.seen = tab[t].seen
  BY <1>5 DEF Replays
<1>7. tab' = [tab EXCEPT ![t] = r] /\ tab'[t] = r
  BY DEF Accept, Goto, IInv, TypeOK
<1>8. \A u \in Tabs \ {t} : tab'[u] = tab[u]
  BY <1>7 DEF IInv, TypeOK
<1>9. TabInv(t)'
  <2>1. Current(t)' = c
    BY <1>3, <1>6, <1>7 DEF Current
  <2>2. ASSUME NEW x \in tab[t].todo, NEW e \in 1 .. (x - 1), e \notin tab[t].todo
        PROVE  Done(e)'
    <3>1. x \in 1 .. queued
      BY <1>5 DEF Replays
    <3>2. e \in Entries /\ Done(e)
      BY <1>1, <2>2, <3>1, EntryType DEF TabInv
    <3> QED BY <1>1, <1>4, <3>2, DoneStays
  <2>3. rejections' = rejections
    BY DEF Accept
  <2> QED BY <1>1, <1>4, <1>6, <1>7, <2>1, <2>2, <2>3 DEF TabInv, Active
<1>10. \A u \in Tabs : TabInv(u)'
  BY <1>4, <1>8, <1>9, OneTabMoves
<1>11. StoreInv'
  BY <1>4, StoreStays DEF Accept
<1>12. TypeOK'
  <2>1. tab' \in [Tabs -> Replays(queued)]
    BY <1>6, <1>7 DEF IInv, TypeOK, Replays
  <2>2. exists' \subseteq Records
    BY <1>2, EntryType, ExecuteType DEF Accept, IInv
  <2> QED BY <1>4, <2>1, <2>2, PendingKept DEF IInv, TypeOK, Replays, None, Accept
<1> QED BY <1>4, <1>10, <1>11, <1>12 DEF IInv

LEMMA RejectStep ==
    ASSUME IInv, NEW t \in Tabs, Reject(t) \/ RejectOnce(t)
    PROVE  IInv'
<1> DEFINE r == [tab[t] EXCEPT !.pc = "rejected"]
<1>1. Active(t) /\ TabInv(t) /\ TypeOK /\ RejectCurrent(t)
  BY DEF Reject, RejectOnce, Active, IInv
<1>2. PICK c \in Entries : c = Current(t)
  BY <1>1, CurrentIsFirst
<1>3. rejections' = [rejections EXCEPT ![c] = IF @ < MaxAttempts THEN @ + 1 ELSE @]
  BY <1>1, <1>2 DEF RejectCurrent
<1>4. rejections[c] \in Nat /\ rejections[c] <= MaxAttempts
  BY ConstantsAreSane DEF IInv, TypeOK
<1>5. /\ rejections' \in [Entries -> 0 .. MaxAttempts]
      /\ rejections'[c] = IF rejections[c] < MaxAttempts THEN rejections[c] + 1 ELSE rejections[c]
      /\ \A e \in Entries \ {c} : rejections'[e] = rejections[e]
  BY <1>3, <1>4, ConstantsAreSane DEF IInv, TypeOK
<1>6. first' = first /\ cleared' = cleared /\ late' = late /\ store' = store /\ queued' = queued
      /\ kind' = kind /\ record' = record /\ rest' = rest /\ exists' = exists
  BY <1>1 DEF RejectCurrent
<1>7. Grows
  <2>1. Applied' = Applied
    BY <1>6 DEF Applied
  <2>2. \A e \in Entries : rejections[e] <= rejections'[e]
    <3>1. \A e \in Entries : rejections[e] \in Nat
      BY ConstantsAreSane DEF IInv, TypeOK
    <3>2. rejections[c] <= rejections'[c]
      BY <1>4, <1>5, ConstantsAreSane
    <3> QED BY <1>5, <3>1, <3>2
  <2> QED BY <1>5, <1>6, <2>1, <2>2 DEF Grows
<1>8. tab[t] \in Replays(queued)
  BY DEF IInv, TypeOK, Replays
<1>9. r \in Replays(queued) /\ r.pc = "rejected" /\ r.todo = tab[t].todo /\ r.seen = tab[t].seen
  BY <1>8 DEF Replays
<1>10. tab' = [tab EXCEPT ![t] = r] /\ tab'[t] = r
  BY <1>1 DEF RejectCurrent, Goto, IInv, TypeOK
<1>11. \A u \in Tabs \ {t} : tab'[u] = tab[u]
  BY <1>10 DEF IInv, TypeOK
<1>12. TabInv(t)'
  <2>1. Current(t)' = c
    BY <1>2, <1>9, <1>10 DEF Current
  <2>2. ASSUME NEW x \in tab[t].todo, NEW e \in 1 .. (x - 1), e \notin tab[t].todo
        PROVE  Done(e)'
    <3>1. x \in 1 .. queued
      BY <1>8 DEF Replays
    <3>2. e \in Entries /\ Done(e)
      BY <1>1, <2>2, <3>1, EntryType DEF TabInv
    <3> QED BY <1>1, <1>7, <3>2, DoneStays
  <2>3. \A e \in Entries : tab[t].seen[e] <= rejections'[e]
    <3> SUFFICES ASSUME NEW e \in Entries PROVE tab[t].seen[e] <= rejections'[e]
      OBVIOUS
    <3>1. tab[t].seen[e] \in Nat /\ rejections[e] \in Nat /\ rejections'[e] \in Nat
      BY <1>5, <1>8, ConstantsAreSane DEF IInv, TypeOK, Replays
    <3> QED BY <1>1, <1>7, <3>1 DEF TabInv, Grows
  <2>4. tab[t].seen[c] < rejections'[c]
    <3>1. tab[t].seen[c] \in 0 .. (MaxAttempts - 1) /\ tab[t].seen[c] <= rejections[c]
      BY <1>1, <1>8 DEF TabInv, Replays
    <3> QED BY <1>4, <1>5, <3>1, ConstantsAreSane
  <2>5. tab[t].todo # {}
    BY <1>1 DEF TabInv
  <2> QED BY <1>9, <1>10, <2>1, <2>2, <2>3, <2>4, <2>5 DEF TabInv, Active
<1>13. \A u \in Tabs : TabInv(u)'
  BY <1>7, <1>11, <1>12, OneTabMoves
<1>14. StoreInv'
  BY <1>6, <1>7, StoreStays
<1>15. OrderInv'
  BY <1>6, <1>7, LateKept, PendingKept, OrderStays
<1>16. TypeOK'
  <2>1. tab' \in [Tabs -> Replays(queued)]
    BY <1>9, <1>10 DEF IInv, TypeOK, Replays
  <2>2. faults' \in 0 .. MaxFaults
    BY FaultType DEF Reject, RejectOnce, IInv
  <2> QED BY <1>5, <1>6, <2>1, <2>2, PendingKept DEF IInv, TypeOK, Replays, None
<1> QED BY <1>13, <1>14, <1>15, <1>16 DEF IInv

LEMMA ExecuteLateStep == ASSUME IInv, NEW e \in Entries, ExecuteLate(e) PROVE IInv'
<1>0. /\ late' \in [Entries -> Nat] /\ Pending' \subseteq Pending
  <2>1. late[e] \in Nat /\ late[e] > 0 /\ late' = [late EXCEPT ![e] = late[e] - 1]
    BY DEF ExecuteLate, Pending, IInv, TypeOK
  <2>2. late' \in [Entries -> Nat] /\ \A x \in Entries \ {e} : late'[x] = late[x]
    BY <2>1 DEF IInv, TypeOK
  <2> QED BY <2>1, <2>2 DEF Pending
<1>1. e \in 1 .. queued /\ Passed(e)
  BY LateKept DEF ExecuteLate
<1>2. Grows /\ first' \in Seq(1 .. queued) /\ OrderInv' /\ exists' \subseteq Records
  <2>1. CASE Acceptable(e)
    BY <1>0, <1>1, <2>1, ExecuteKeepsOrder, ExecuteType DEF ExecuteLate, IInv
  <2>2. CASE ~Acceptable(e)
    <3>1. first' = first /\ rejections' = rejections /\ cleared' = cleared /\ exists' = exists
      BY <2>2 DEF ExecuteLate
    <3>2. Grows
      BY <3>1, GrowsWhenKept DEF IInv
    <3>3. OrderInv'
      BY <1>0, <3>1, <3>2, LateKept, OrderStays
    <3> QED BY <3>1, <3>2, <3>3 DEF IInv, TypeOK
  <2> QED BY <2>1, <2>2
<1>3. StoreInv'
  BY <1>2, StoreStays DEF ExecuteLate
<1>4. \A t \in Tabs : TabInv(t)'
  BY <1>2, TabStays DEF IInv, ExecuteLate
<1>5. TypeOK'
  BY <1>0, <1>2 DEF IInv, TypeOK, ExecuteLate, None
<1> QED BY <1>2, <1>3, <1>4, <1>5 DEF IInv

LEMMA OtherWritesStep == ASSUME IInv, NEW d \in Records, OtherWrites(d) PROVE IInv'
<1>1. Grows
  BY GrowsWhenKept DEF IInv, OtherWrites
<1>2. faults' \in 0 .. MaxFaults
  BY FaultType DEF IInv, OtherWrites
<1>3. exists' \subseteq Records
  BY DEF IInv, TypeOK, OtherWrites
<1>4. TypeOK'
  BY <1>2, <1>3, PendingKept DEF IInv, TypeOK, OtherWrites, None
<1>5. StoreInv' /\ OrderInv'
  BY <1>1, StoreStays, OrderStays, LateKept, PendingKept DEF OtherWrites
<1>6. \A t \in Tabs : TabInv(t)'
  BY <1>1, TabStays DEF IInv, OtherWrites
<1> QED BY <1>4, <1>5, <1>6 DEF IInv

LEMMA NextIInv == IInv /\ [Next]_vars => IInv'
<1> SUFFICES ASSUME IInv, [Next]_vars PROVE IInv'
  OBVIOUS
<1>1. CASE Next
  <2>1. ASSUME NEW t \in Tabs, Progress(t) \/ GiveUp(t) \/ RejectOnce(t) PROVE IInv'
    BY <2>1, ReplayStep, GetQueueStep, StopsStep, DequeueStep, CountStep, AcceptStep, RejectStep
       DEF Progress
  <2> QED BY <1>1, <2>1, EnqueueStep, ClearStep, ExecuteLateStep, OtherWritesStep DEF Next
<1>2. CASE UNCHANGED vars
  <2>1. TypeOK'
    BY <1>2, PendingKept DEF vars, IInv, TypeOK, None
  <2>2. Grows
    BY <1>2, GrowsWhenKept DEF vars, IInv
  <2>3. StoreInv' /\ OrderInv'
    BY <1>2, <2>2, StoreStays, OrderStays, LateKept, PendingKept DEF vars
  <2>4. \A t \in Tabs : TabInv(t)'
    BY <1>2, <2>2, TabStays DEF vars, IInv
  <2> QED BY <2>1, <2>3, <2>4 DEF IInv
<1> QED BY <1>1, <1>2

LEMMA AlwaysIInv == Spec => []IInv
BY InitIInv, NextIInv, PTL DEF Spec

-----------------------------------------------------------------------------

\* The store, the replays and what is on its way keep their types; in
\* particular an attempt count in the store is below MAX_REPLAY_ATTEMPTS.
THEOREM TypeCorrect == Spec => []TypeOK
<1>1. IInv => TypeOK
  BY DEF IInv
<1> QED BY <1>1, AlwaysIInv, PTL

\* An entry that replayQueue has taken out of the store was applied, was
\* rejected MAX_REPLAY_ATTEMPTS times, or was removed by clearQueue, however
\* many tabs replay at once and wherever they stop.
THEOREM NoWriteIsLost == Spec => []NothingLost
<1>1. IInv => NothingLost
  BY DEF IInv, StoreInv
<1> QED BY <1>1, AlwaysIInv, PTL

\* The server first applies entries in the order they were queued, but for
\* those it had rejected and those clearQueue had removed.
THEOREM WritesInOrder == Spec => []FirstInOrder
<1>1. IInv => FirstInOrder
  BY DEF IInv, OrderInv
<1> QED BY <1>1, AlwaysIInv, PTL
=============================================================================

--------------------------- MODULE AuditChainProofs ---------------------------
(***************************************************************************)
(* For any number of writers, transactions and faults: while writes do not *)
(* overlap the chain of roots verifies and every receipt commits to the    *)
(* whole history, and the anchor task's baseline passes only roots that a  *)
(* receipt covers.  And for transactions of any number of triples: the     *)
(* inclusion proofs of the Merkle tree are exact.                          *)
(***************************************************************************)
EXTENDS AuditTrail, FiniteSetTheorems, SequenceTheorems, WellFoundedInduction, TLAPS

\* A tx_id names one write: rows, and writes under way, have numbers of their
\* own, all drawn from the sequence.
NumbersOK ==
    /\ \A w \in Writers : writer[w].pc # "idle" =>
        /\ writer[w].tx \in 1 .. lastTx
        /\ \A r \in roots : r.tx # writer[w].tx
        /\ \A v \in Writers \ {w} : writer[v].pc # "idle" => writer[v].tx # writer[w].tx
    /\ \A r \in roots : r.tx <= lastTx
    /\ \A r, q \in roots : r.tx = q.tx => r = q

IsNewest(r) == r \in roots /\ \A q \in roots : q.tx <= r.tx

HasNewest == roots # {} => \E r \in roots : IsNewest(r)

\* Without overlaps one write is under way, later than every row, and what it
\* has read is still the newest root.
AloneOK ==
    ~overlapped =>
        \A w \in Writers : writer[w].pc # "idle" =>
            /\ \A v \in Writers \ {w} : writer[v].pc = "idle"
            /\ \A r \in roots : r.tx < writer[w].tx
            /\ writer[w].pc = "insert" => writer[w].prev = NewestChained

\* Without overlaps a row chains exactly the rows up to itself.
Chains(r) == {r.chained[i] : i \in DOMAIN r.chained} = {q.tx : q \in {p \in roots : p.tx <= r.tx}}

ChainsComplete == ~overlapped => \A r \in roots : Chains(r)

\* What the anchor task has seen is there.
TaskOK ==
    /\ task.pc \in {"compute", "anchor", "persist"} => \E r \in roots : r.tx >= task.current
    /\ task.pc \in {"anchor", "persist"} => \E top \in task.batch \cap roots : top.tx >= task.current
    /\ \A batch \in receipts : batch \cap roots # {}

\* A receipt with a recorded root reaches the baseline.
BaselineReached ==
    task.baseline > task.since =>
        \E batch \in receipts : \E top \in batch \cap roots : top.tx >= task.baseline

IInv ==
    /\ TypeOK /\ NumbersOK /\ HasNewest /\ AloneOK /\ ChainsComplete /\ TaskOK
    /\ ChainIntact /\ BaselineReached

-----------------------------------------------------------------------------

LEMMA RowType == ASSUME TypeOK, NEW r \in roots
                 PROVE  /\ r.tx \in 1 .. MaxTx /\ r.tx \in Nat
                        /\ r.prev \in ChainedRoots /\ r.chained \in ChainedRoots
BY ConstantsAreNumbers DEF TypeOK, RootRows, TxIds

\* The queries for the newest row return it.
LEMMA NewestRow ==
    ASSUME TypeOK, NumbersOK, NEW r, IsNewest(r)
    PROVE  MaxTxId = r.tx /\ NewestChained = r.chained
<1> DEFINE S == {q.tx : q \in roots}
<1>1. r \in roots /\ roots # {}
  BY DEF IsNewest
<1>2. r.tx \in S /\ \A y \in S : r.tx >= y /\ y \in Nat
  BY <1>1, RowType DEF IsNewest
<1>3. \A x \in S : (\A y \in S : x >= y) => x = r.tx
  BY <1>2
<1> HIDE DEF S
<1>4. Max(S) = r.tx
  BY <1>2, <1>3 DEF Max
<1>5. MaxTxId = r.tx
  BY <1>1, <1>4 DEF MaxTxId, S
<1>6. \A q \in roots : q.tx = MaxTxId => q = r
  BY <1>1, <1>5 DEF NumbersOK
<1>7. (CHOOSE q \in roots : q.tx = MaxTxId) = r
  BY <1>1, <1>5, <1>6
<1> QED BY <1>1, <1>5, <1>7 DEF NewestChained

LEMMA MaxTxIdType ==
    ASSUME TypeOK, NumbersOK, HasNewest
    PROVE  /\ MaxTxId \in 0 .. MaxTx
           /\ MaxTxId # 0 => \E r \in roots : IsNewest(r) /\ r.tx = MaxTxId
           /\ NewestChained \in ChainedRoots
<1>1. CASE roots = {}
  <2>1. MaxTxId = 0 /\ NewestChained = <<>>
    BY <1>1 DEF MaxTxId, NewestChained
  <2>2. <<>> \in ChainedRoots
    BY DEF ChainedRoots
  <2> QED BY <2>1, <2>2, ConstantsAreNumbers
<1>2. CASE roots # {}
  <2>1. PICK r \in roots : IsNewest(r)
    BY <1>2 DEF HasNewest
  <2>2. MaxTxId = r.tx /\ NewestChained = r.chained
    BY <2>1, NewestRow
  <2> QED BY <2>1, <2>2, RowType, ConstantsAreNumbers
<1> QED BY <1>1, <1>2

\* The rows' own queries depend on the table alone.
LEMMA QueriesUnchanged ==
    ASSUME roots' = roots PROVE MaxTxId' = MaxTxId /\ NewestChained' = NewestChained
BY DEF MaxTxId, NewestChained

-----------------------------------------------------------------------------

LEMMA InitIInv == Init => IInv
<1> SUFFICES ASSUME Init PROVE IInv
  OBVIOUS
<1> USE ConstantsAreNumbers DEF Init, Resting, Stopped
<1>0. <<>> \in ChainedRoots
  BY DEF ChainedRoots
<1>1. TypeOK
  <2>1. Resting \in WriterStates
    BY <1>0 DEF WriterStates
  <2>2. Stopped \in TaskStates
    BY DEF TaskStates
  <2>3. writer \in [Writers -> WriterStates] /\ task \in TaskStates
    BY <2>1, <2>2
  <2>4. lastTx \in 0 .. MaxTx /\ faults \in 0 .. MaxFaults
    OBVIOUS
  <2>5. overlapped \in BOOLEAN /\ roots \subseteq RootRows /\ receipts \subseteq SUBSET RootRows
    BY Zenon
  <2> QED BY <2>3, <2>4, <2>5 DEF TypeOK
<1>2. NumbersOK /\ HasNewest /\ AloneOK
  BY DEF NumbersOK, HasNewest, AloneOK
<1>3. ChainsComplete /\ TaskOK
  BY DEF ChainsComplete, TaskOK
<1>4. ChainIntact
  BY DEF ChainIntact, verify_chain
<1>5. BaselineReached
  BY DEF BaselineReached
<1> QED BY <1>1, <1>2, <1>3, <1>4, <1>5 DEF IInv

\* A step that leaves the table, the task and the overlaps alone disturbs only
\* what is said of writes under way.
LEMMA TableUntouched ==
    ASSUME IInv, UNCHANGED <<roots, overlapped>>
    PROVE  HasNewest' /\ ChainsComplete' /\ ChainIntact'
<1>1. HasNewest'
  BY DEF IInv, HasNewest, IsNewest
<1>2. ChainsComplete'
  BY DEF IInv, ChainsComplete, Chains
<1>3. ChainIntact'
  <2>1. verify_chain' <=> verify_chain
    BY DEF verify_chain, chained_root
  <2> QED BY <2>1 DEF IInv, ChainIntact
<1> QED BY <1>1, <1>2, <1>3

LEMMA TaskUntouched ==
    ASSUME IInv, UNCHANGED <<task, receipts>>, roots \subseteq roots'
    PROVE  TaskOK' /\ BaselineReached'
BY DEF IInv, TaskOK, BaselineReached

\* The sequence moves on: the new number is later than every row.
LEMMA DrawStep == ASSUME IInv, NEW w \in Writers, DrawTxId(w) PROVE IInv'
<1> USE ConstantsAreNumbers DEF IInv
<1>0. <<>> \in ChainedRoots
  BY DEF ChainedRoots
<1>1. TypeOK'
  BY <1>0 DEF DrawTxId, TypeOK, WriterStates
<1>2. /\ writer'[w] = [pc |-> "commit", tx |-> lastTx + 1, prev |-> <<>>]
      /\ \A v \in Writers \ {w} : writer'[v] = writer[v]
      /\ lastTx' = lastTx + 1 /\ roots' = roots /\ lastTx \in Nat
      /\ overlapped' = (overlapped \/ \E v \in Writers : writer[v].pc # "idle")
  BY DEF DrawTxId, TypeOK
<1>3. NumbersOK'
  BY <1>2, RowType DEF NumbersOK
<1>4. AloneOK'
  <2> SUFFICES ASSUME ~overlapped', NEW x \in Writers, writer'[x].pc # "idle"
               PROVE  /\ \A v \in Writers \ {x} : writer'[v].pc = "idle"
                      /\ \A r \in roots : r.tx < writer'[x].tx
                      /\ writer'[x].pc # "insert"
    BY <1>2 DEF AloneOK
  <2>1. \A v \in Writers : writer[v].pc = "idle"
    BY <1>2
  <2>2. x = w
    BY <1>2, <2>1
  <2> QED BY <1>2, <2>1, <2>2, RowType DEF NumbersOK
<1>5. HasNewest' 
  BY <1>2 DEF HasNewest, IsNewest
<1>6. ~overlapped' => ~overlapped
  BY <1>2
<1>7. ChainsComplete'
  BY <1>2, <1>6 DEF ChainsComplete, Chains
<1>8. ChainIntact'
  BY <1>2, <1>6 DEF ChainIntact, verify_chain, chained_root
<1>9. TaskOK' /\ BaselineReached'
  BY TaskUntouched DEF DrawTxId
<1> QED BY <1>1, <1>3, <1>4, <1>5, <1>7, <1>8, <1>9

\* Committing the triples and reading the newest root.
LEMMA ReadStep ==
    ASSUME IInv, NEW w \in Writers, CommitTriples(w) \/ ReadPrev(w) PROVE IInv'
<1> USE DEF IInv
<1>1. /\ UNCHANGED <<lastTx, roots, overlapped, task, receipts, faults>>
      /\ \A v \in Writers \ {w} : writer'[v] = writer[v]
      /\ writer[w].pc # "idle" /\ writer'[w].pc # "idle" /\ writer'[w].tx = writer[w].tx
      /\ writer'[w].pc = "insert" => writer'[w].prev = NewestChained
  BY DEF CommitTriples, ReadPrev, Goto, TypeOK, WriterStates
<1>2. TypeOK'
  <2>1. NewestChained \in ChainedRoots
    BY MaxTxIdType
  <2> QED BY <1>1, <2>1 DEF CommitTriples, ReadPrev, Goto, TypeOK, WriterStates
<1>3. NumbersOK'
  BY <1>1 DEF NumbersOK
<1>4. AloneOK'
  BY <1>1, QueriesUnchanged DEF AloneOK
<1> QED BY <1>1, <1>2, <1>3, <1>4, TableUntouched, TaskUntouched

\* A write that ends without a row, for want of a statement or of a server.
LEMMA RestStep ==
    ASSUME IInv, UNCHANGED <<lastTx, roots, overlapped>>, faults' \in 0 .. MaxFaults,
           writer' \in [Writers -> WriterStates],
           \A v \in Writers : writer'[v] = writer[v] \/ writer'[v].pc = "idle"
    PROVE  NumbersOK' /\ AloneOK' /\ HasNewest' /\ ChainsComplete' /\ ChainIntact'
<1> USE DEF IInv
<1>1. NumbersOK'
  BY DEF NumbersOK
<1>2. AloneOK'
  BY QueriesUnchanged DEF AloneOK
<1> QED BY <1>1, <1>2, TableUntouched

-----------------------------------------------------------------------------

LEMMA AppendRange ==
    ASSUME NEW S, NEW s \in Seq(S), NEW e
    PROVE  Range(Append(s, e)) = Range(s) \cup {e}
<1> DEFINE a == Append(s, e)
<1>1. /\ DOMAIN a = 1 .. Len(s) + 1 /\ DOMAIN s = 1 .. Len(s) /\ Len(s) \in Nat
      /\ \A i \in DOMAIN s : a[i] = s[i]
      /\ a[Len(s) + 1] = e
  OBVIOUS
<1> HIDE DEF a
<1>2. \A i \in DOMAIN a : i \in DOMAIN s \/ i = Len(s) + 1
  BY <1>1
<1>3. DOMAIN s \subseteq DOMAIN a /\ Len(s) + 1 \in DOMAIN a
  BY <1>1
<1>4. {a[i] : i \in DOMAIN a} = {s[i] : i \in DOMAIN s} \cup {e}
  BY <1>1, <1>2, <1>3
<1> QED BY <1>4 DEF a, Range

\* A new row goes to the end of the chain unless writes overlapped.
LEMMA InsertStep == ASSUME IInv, NEW w \in Writers, InsertRoot(w) PROVE IInv'
<1> USE ConstantsAreNumbers DEF IInv
<1> DEFINE tx == writer[w].tx
           prev == writer[w].prev
           n == [tx |-> tx, prev |-> prev, chained |-> Append(prev, tx)]
<1>1. /\ roots' = roots \cup {n} /\ writer[w].pc = "insert" /\ writer'[w].pc = "idle"
      /\ \A v \in Writers \ {w} : writer'[v] = writer[v]
      /\ UNCHANGED <<lastTx, overlapped, task, receipts, faults>>
  BY DEF InsertRoot, Rest, Resting, chained_root, TypeOK
<1>2. n.tx = tx /\ n.prev = prev /\ n.chained = Append(prev, tx)
  OBVIOUS
<1>3. /\ tx \in 1 .. lastTx /\ tx \in Nat /\ lastTx \in 0 .. MaxTx
      /\ \A r \in roots : r.tx # tx
  BY <1>1 DEF NumbersOK, TypeOK
<1>4. tx \in TxIds /\ prev \in Seq(TxIds) /\ Append(prev, tx) \in Seq(TxIds)
  BY <1>3 DEF TypeOK, WriterStates, ChainedRoots, TxIds
<1>5. n \in RootRows
  BY <1>4 DEF RootRows, ChainedRoots
<1> HIDE DEF n
<1>6. TypeOK'
  <2>1. <<>> \in ChainedRoots
    BY DEF ChainedRoots
  <2>2. Resting \in WriterStates
    BY <2>1 DEF Resting, WriterStates
  <2>3. writer' \in [Writers -> WriterStates]
    BY <2>2 DEF InsertRoot, Rest, TypeOK
  <2> QED BY <1>1, <1>5, <2>3 DEF TypeOK
<1>7. NumbersOK'
  <2>1. \A r \in roots' : r.tx <= lastTx'
    BY <1>1, <1>2, <1>3 DEF NumbersOK
  <2>2. \A r, q \in roots' : r.tx = q.tx => r = q
    BY <1>1, <1>2, <1>3 DEF NumbersOK
  <2>3. \A v \in Writers : writer'[v].pc # "idle" =>
          /\ writer'[v].tx \in 1 .. lastTx'
          /\ \A r \in roots' : r.tx # writer'[v].tx
          /\ \A u \in Writers \ {v} : writer'[u].pc # "idle" => writer'[u].tx # writer'[v].tx
    BY <1>1, <1>2 DEF NumbersOK
  <2> QED BY <2>1, <2>2, <2>3 DEF NumbersOK
<1>8. HasNewest'
  <2>1. CASE roots = {}
    BY <2>1, <1>1, <1>2, <1>3 DEF HasNewest, IsNewest
  <2>2. CASE roots # {}
    <3>1. PICK m \in roots : IsNewest(m)
      BY <2>2 DEF HasNewest
    <3>2. \A q \in roots : q.tx \in Nat /\ q.tx <= m.tx
      BY <3>1, RowType DEF IsNewest
    <3>3. CASE m.tx <= tx
      <4>1. \A q \in roots' : q.tx <= n.tx
        BY <3>2, <3>3, <1>1, <1>2, <1>3
      <4> QED BY <4>1, <1>1 DEF HasNewest, IsNewest
    <3>4. CASE m.tx > tx
      <4>1. \A q \in roots' : q.tx <= m.tx
        BY <3>2, <3>4, <1>1, <1>2, <1>3
      <4> QED BY <4>1, <1>1 DEF HasNewest, IsNewest
    <3> QED BY <3>2, <3>3, <3>4, <1>3
  <2> QED BY <2>1, <2>2
<1>9. AloneOK'
  BY <1>1 DEF AloneOK
<1>10. ASSUME ~overlapped PROVE \A r \in roots : r.tx < n.tx /\ r.tx \in Nat
  BY <1>1, <1>2, <1>10, RowType DEF AloneOK
<1>11. ASSUME ~overlapped PROVE prev = NewestChained
  BY <1>1, <1>11 DEF AloneOK
<1>12. ChainsComplete'
  <2> SUFFICES ASSUME ~overlapped, NEW r \in roots'
               PROVE  {r.chained[i] : i \in DOMAIN r.chained}
                        = {q.tx : q \in {p \in roots' : p.tx <= r.tx}}
    BY <1>1 DEF ChainsComplete, Chains
  <2>1. CASE r \in roots
    <3>1. {p \in roots' : p.tx <= r.tx} = {p \in roots : p.tx <= r.tx}
      BY <2>1, <1>1, <1>3, <1>2, <1>10
    <3> QED BY <2>1, <3>1 DEF ChainsComplete, Chains
  <2>2. CASE r = n
    <3>1. {p \in roots' : p.tx <= r.tx} = roots \cup {n}
      BY <2>2, <1>1, <1>2, <1>3, <1>10
    <3>2. {prev[i] : i \in DOMAIN prev} = {q.tx : q \in roots}
      <4>1. CASE roots = {}
        BY <4>1, <1>11 DEF NewestChained
      <4>2. CASE roots # {}
        <5>1. PICK m \in roots : IsNewest(m)
          BY <4>2 DEF HasNewest
        <5>2. prev = m.chained
          BY <5>1, <1>11, NewestRow
        <5>3. {p \in roots : p.tx <= m.tx} = roots
          BY <5>1 DEF IsNewest
        <5>4. Chains(m)
          BY DEF ChainsComplete
        <5>5. {m.chained[i] : i \in DOMAIN m.chained}
                = {q.tx : q \in {p \in roots : p.tx <= m.tx}}
          BY <5>4 DEF Chains
        <5> QED BY <5>2, <5>3, <5>5
      <4> QED BY <4>1, <4>2
    <3>3. {r.chained[i] : i \in DOMAIN r.chained} = {q.tx : q \in roots} \cup {tx}
      <4>1. Range(Append(prev, tx)) = Range(prev) \cup {tx}
        BY <1>4, AppendRange
      <4>2. r.chained = Append(prev, tx)
        BY <2>2, <1>2
      <4> QED BY <3>2, <4>1, <4>2 DEF Range
    <3> QED BY <3>1, <3>3, <1>2
  <2> QED BY <2>1, <2>2, <1>1
<1>13. ChainIntact'
  <2> SUFFICES ASSUME ~overlapped, NEW r \in roots'
               PROVE  LET before == {q \in roots' : q.tx < r.tx}
                          expected == IF before = {} THEN <<>>
                            ELSE (CHOOSE q \in before : \A p \in before : p.tx <= q.tx).chained
                      IN  r.prev = expected /\ r.chained = Append(r.prev, r.tx)
    BY <1>1 DEF ChainIntact, verify_chain, chained_root
  <2>1. CASE r \in roots
    <3>1. {q \in roots' : q.tx < r.tx} = {q \in roots : q.tx < r.tx}
      BY <2>1, <1>1, <1>2, <1>3, <1>10
    <3> QED BY <2>1, <3>1 DEF ChainIntact, verify_chain, chained_root
  <2>2. CASE r = n
    <3>1. {q \in roots' : q.tx < r.tx} = roots
      BY <2>2, <1>1, <1>2, <1>3, <1>10
    <3>2. CASE roots = {}
      BY <2>2, <3>1, <3>2, <1>2, <1>11 DEF NewestChained
    <3>3. CASE roots # {}
      <4>1. PICK m \in roots : IsNewest(m)
        BY <3>3 DEF HasNewest
      <4>2. prev = m.chained
        BY <4>1, <1>11, NewestRow
      <4>3. \A q \in roots : (\A p \in roots : p.tx <= q.tx) => q = m
        <5> SUFFICES ASSUME NEW q \in roots, \A p \in roots : p.tx <= q.tx
                     PROVE  q = m
          OBVIOUS
        <5>1. q.tx = m.tx
          BY <4>1, RowType DEF IsNewest
        <5> QED BY <5>1 DEF NumbersOK
      <4>4. (CHOOSE q \in roots : \A p \in roots : p.tx <= q.tx) = m
        BY <4>1, <4>3 DEF IsNewest
      <4> QED BY <2>2, <3>1, <3>3, <4>2, <4>4, <1>2
    <3> QED BY <3>2, <3>3
  <2> QED BY <2>1, <2>2, <1>1
<1>14. TaskOK' /\ BaselineReached'
  BY <1>1, TaskUntouched
<1> QED BY <1>6, <1>7, <1>8, <1>9, <1>12, <1>13, <1>14

-----------------------------------------------------------------------------

LEMMA StoppedType == Stopped \in TaskStates
BY ConstantsAreNumbers DEF Stopped, TaskStates

LEMMA Running ==
    ASSUME NEW b \in 0 .. MaxTx, NEW s \in 0 .. MaxTx
    PROVE  [pc |-> "tick", baseline |-> b, since |-> s, current |-> 0, batch |-> {}] \in TaskStates
BY ConstantsAreNumbers DEF TaskStates

LEMMA RestingType == Resting \in WriterStates
<1>1. <<>> \in ChainedRoots
  BY DEF ChainedRoots
<1> QED BY <1>1, ConstantsAreNumbers DEF Resting, WriterStates

LEMMA WriteFailsStep == ASSUME IInv, NEW w \in Writers, WriteFails(w) PROVE IInv'
<1>1. /\ UNCHANGED <<lastTx, roots, overlapped, task, receipts>>
      /\ writer' = [writer EXCEPT ![w] = Resting] /\ faults' \in 0 .. MaxFaults
  BY ConstantsAreNumbers DEF WriteFails, Rest, Fault, IInv, TypeOK
<1>2. /\ writer' \in [Writers -> WriterStates]
      /\ \A v \in Writers : writer'[v] = writer[v] \/ writer'[v].pc = "idle"
  BY <1>1, RestingType DEF IInv, TypeOK, Resting
<1>3. TypeOK'
  BY <1>1, <1>2 DEF IInv, TypeOK
<1>4. TaskOK' /\ BaselineReached'
  BY <1>1, TaskUntouched
<1> QED BY <1>1, <1>2, <1>3, <1>4, RestStep DEF IInv

\* A crash takes the writes under way and the anchor task, not the rows.
LEMMA CrashStep == ASSUME IInv, Crash PROVE IInv'
<1>1. /\ UNCHANGED <<lastTx, roots, overlapped, receipts>> /\ task' = Stopped
      /\ writer' = [w \in Writers |-> Resting] /\ faults' \in 0 .. MaxFaults
  BY ConstantsAreNumbers DEF Crash, Fault, IInv, TypeOK
<1>2. /\ writer' \in [Writers -> WriterStates]
      /\ \A v \in Writers : writer'[v] = writer[v] \/ writer'[v].pc = "idle"
  BY <1>1, RestingType DEF Resting
<1>3. TypeOK'
  BY <1>1, <1>2, StoppedType DEF IInv, TypeOK
<1>4. TaskOK' /\ BaselineReached'
  BY <1>1 DEF IInv, TaskOK, BaselineReached, Stopped
<1> QED BY <1>1, <1>2, <1>3, <1>4, RestStep DEF IInv

\* The anchor task reads the table and writes receipts.
LEMMA TaskStep ==
    ASSUME IInv, Anchoring \/ StartTaskFails \/ CycleFails
    PROVE  IInv'
<1> USE ConstantsAreNumbers DEF IInv
<1>1. UNCHANGED <<lastTx, writer, roots, overlapped>> /\ faults' \in 0 .. MaxFaults
  BY DEF Anchoring, StartTask, StartTaskFails, Tick, ComputeBatchRoot, AnchorReturns,
         PersistReceipt, CycleFails, Fault, TypeOK
<1>2. NumbersOK' /\ AloneOK' /\ HasNewest' /\ ChainsComplete' /\ ChainIntact'
  BY <1>1, RestStep DEF TypeOK
<1>3. ASSUME task' \in TaskStates, receipts' \subseteq SUBSET RootRows PROVE TypeOK'
  BY <1>1, <1>3 DEF TypeOK
<1>4. MaxTxId \in 0 .. MaxTx
  BY MaxTxIdType
<1>5. /\ task.pc \in {"down", "tick", "compute", "anchor", "persist"}
      /\ task.baseline \in 0 .. MaxTx /\ task.since \in 0 .. MaxTx
      /\ task.current \in 0 .. MaxTx /\ task.batch \subseteq RootRows
      /\ receipts \subseteq SUBSET RootRows /\ task \in TaskStates
  BY DEF TypeOK, TaskStates
<1>6. CASE StartTask \/ StartTaskFails
  <2>1. ASSUME NEW b \in 0 .. MaxTx,
               task' = [pc |-> "tick", baseline |-> b, since |-> b, current |-> 0, batch |-> {}]
        PROVE  task' \in TaskStates /\ task'.pc = "tick" /\ task'.baseline = task'.since
    BY Running, <2>1
  <2>4. \E b \in 0 .. MaxTx :
          task' = [pc |-> "tick", baseline |-> b, since |-> b, current |-> 0, batch |-> {}]
    <3>1. CASE StartTask
      BY <1>4, <3>1 DEF StartTask, Stopped
    <3>2. CASE StartTaskFails
      <4>1. task' = [pc |-> "tick", baseline |-> 0, since |-> 0, current |-> 0, batch |-> {}]
        BY <3>2 DEF StartTaskFails, Stopped
      <4>2. 0 \in 0 .. MaxTx
        OBVIOUS
      <4> QED BY <4>1, <4>2
    <3> QED BY <1>6, <3>1, <3>2
  <2>5. receipts' = receipts
    BY <1>6 DEF StartTask, StartTaskFails
  <2>2. /\ task' \in TaskStates /\ task'.pc = "tick" /\ task'.baseline = task'.since
        /\ receipts' = receipts
    BY <2>1, <2>4, <2>5
  <2>3. TaskOK' /\ BaselineReached'
    BY <1>1, <2>2 DEF TaskOK, BaselineReached, TaskStates
  <2> QED BY <1>2, <1>3, <1>5, <2>2, <2>3
<1>7. CASE Tick
  <2>1. /\ task'.pc = "compute" /\ task'.current = MaxTxId /\ task'.baseline = task.baseline
        /\ task'.since = task.since /\ receipts' = receipts /\ task' \in TaskStates
    BY <1>4, <1>5, <1>7 DEF Tick, TaskStates
  <2>2. MaxTxId # 0
    BY <1>4, <1>5, <1>7 DEF Tick
  <2>3. \E r \in roots : r.tx >= MaxTxId
    BY <2>2, MaxTxIdType, RowType
  <2>4. TaskOK' /\ BaselineReached'
    BY <1>1, <2>1, <2>3 DEF TaskOK, BaselineReached
  <2> QED BY <1>2, <1>3, <1>5, <2>1, <2>4
<1>8. CASE ComputeBatchRoot
  <2>1. /\ task.pc = "compute" /\ task'.pc = "anchor" /\ task'.current = task.current
        /\ task'.baseline = task.baseline /\ task'.since = task.since
        /\ task'.batch = NewestRoots(EveryN) /\ receipts' = receipts
    BY <1>5, <1>8 DEF ComputeBatchRoot, TaskStates
  <2>2. NewestRoots(EveryN) \subseteq roots
    BY DEF NewestRoots
  <2>3. task' \in TaskStates
    BY <1>5, <1>8, <2>2 DEF ComputeBatchRoot, TaskStates, TypeOK
  <2>4. PICK r \in roots : r.tx >= task.current
    BY <2>1 DEF TaskOK
  <2>5. PICK m \in roots : IsNewest(m)
    BY <2>4 DEF HasNewest
  <2>6. {q \in roots : q.tx > m.tx} = {}
    BY <2>5, RowType DEF IsNewest
  <2>7. m \in NewestRoots(EveryN)
    BY <2>5, <2>6, FS_EmptySet DEF NewestRoots
  <2>8. m.tx >= task.current
    BY <1>5, <2>4, <2>5, RowType DEF IsNewest
  <2>9. TaskOK' /\ BaselineReached'
    BY <1>1, <2>1, <2>4, <2>7, <2>8 DEF TaskOK, BaselineReached
  <2> QED BY <1>2, <1>3, <1>5, <2>1, <2>3, <2>9
<1>9. CASE AnchorReturns
  <2>1. /\ task.pc = "anchor" /\ task'.pc = "persist" /\ task'.current = task.current
        /\ task'.baseline = task.baseline /\ task'.since = task.since
        /\ task'.batch = task.batch /\ receipts' = receipts /\ task' \in TaskStates
    BY <1>5, <1>9 DEF AnchorReturns, TaskStates
  <2>2. TaskOK' /\ BaselineReached'
    BY <1>1, <2>1 DEF TaskOK, BaselineReached
  <2> QED BY <1>2, <1>3, <1>5, <2>1, <2>2
<1>10. CASE PersistReceipt
  <2>1. /\ task.pc = "persist" /\ task'.pc = "tick" /\ task'.baseline = task.current
        /\ receipts' = receipts \cup {task.batch} /\ task' \in TaskStates
    <3>1. task' = [pc |-> "tick", baseline |-> task.current, since |-> task.since,
                   current |-> 0, batch |-> {}]
      BY <1>5, <1>10 DEF PersistReceipt, TaskStates
    <3>2. task' \in TaskStates
      BY <1>5, <3>1, Running
    <3>3. task'.pc = "tick" /\ task'.baseline = task.current
      BY <3>1
    <3> QED BY <1>10, <3>2, <3>3 DEF PersistReceipt
  <2>2. PICK top \in task.batch \cap roots : top.tx >= task.current
    BY <2>1 DEF TaskOK
  <2>3. TaskOK' /\ BaselineReached'
    BY <1>1, <2>1, <2>2 DEF TaskOK, BaselineReached
  <2> QED BY <1>2, <1>3, <1>5, <2>1, <2>3
<1>11. CASE CycleFails
  <2>1. /\ task'.pc = "tick" /\ task'.baseline = task.baseline /\ task'.since = task.since
        /\ receipts' = receipts /\ task' \in TaskStates
    <3>1. task' = [pc |-> "tick", baseline |-> task.baseline, since |-> task.since,
                   current |-> 0, batch |-> {}]
      BY <1>5, <1>11 DEF CycleFails, TaskStates
    <3>2. task' \in TaskStates
      BY <1>5, <3>1, Running
    <3>3. task'.pc = "tick" /\ task'.baseline = task.baseline /\ task'.since = task.since
      BY <3>1
    <3> QED BY <1>11, <3>2, <3>3 DEF CycleFails
  <2>2. TaskOK' /\ BaselineReached'
    BY <1>1, <2>1 DEF TaskOK, BaselineReached
  <2> QED BY <1>2, <1>3, <1>5, <2>1, <2>2
<1> QED BY <1>6, <1>7, <1>8, <1>9, <1>10, <1>11 DEF Anchoring

LEMMA NextIInv == IInv /\ [Next]_vars => IInv'
<1> SUFFICES ASSUME IInv, [Next]_vars PROVE IInv'
  OBVIOUS
<1>1. CASE UNCHANGED vars
  <2>1. TypeOK' /\ TaskOK' /\ BaselineReached'
    BY <1>1, TaskUntouched DEF vars, IInv, TypeOK
  <2> QED BY <1>1, <2>1, RestStep DEF vars, IInv, TypeOK
<1>2. CASE Next
  BY <1>2, DrawStep, ReadStep, InsertStep, WriteFailsStep, CrashStep, TaskStep DEF Next
<1> QED BY <1>1, <1>2

LEMMA AlwaysIInv == Spec => []IInv
BY InitIInv, NextIInv, PTL DEF Spec

-----------------------------------------------------------------------------

\* Type correctness of the writers, the table of roots and the anchor task.
THEOREM TypeCorrect == Spec => []TypeOK
<1>1. IInv => TypeOK
  BY DEF IInv
<1> QED BY <1>1, AlwaysIInv, PTL

\* verify_chain accepts the table while writes do not overlap, whatever fails
\* between the commit of the triples and the insert of the root.
THEOREM ChainVerifies == Spec => []ChainIntact
<1>1. IInv => ChainIntact
  BY DEF IInv
<1> QED BY <1>1, AlwaysIInv, PTL

\* The batch of a receipt holds a root that chains the whole history up to it,
\* however few roots the batch takes.
THEOREM ReceiptsCover == Spec => []ReceiptsCoverHistory
<1>1. IInv => ReceiptsCoverHistory
  <2> SUFFICES ASSUME IInv, ~overlapped, NEW batch \in receipts
               PROVE  \E top \in batch : Chains(top)
    BY DEF ReceiptsCoverHistory, Chains
  <2>1. PICK top \in batch : top \in roots
    BY DEF IInv, TaskOK
  <2> QED BY <2>1 DEF IInv, ChainsComplete
<1> QED BY <1>1, AlwaysIInv, PTL

\* run_anchor_cycle's caller moves its baseline only past what a receipt
\* reaches, across failed cycles and restarts; and while writes do not overlap,
\* every root up to the baseline is chained by a root of a receipt's batch.
THEOREM BaselineAnchored == Spec => []BaselineIsAnchored
<1>1. ASSUME IInv, task.baseline > task.since, ~overlapped, NEW r \in roots, r.tx <= task.baseline
      PROVE  \E batch \in receipts : \E top \in batch :
               \E i \in DOMAIN top.chained : top.chained[i] = r.tx
  <2>0. PICK batch \in receipts : \E top \in batch \cap roots : top.tx >= task.baseline
    BY <1>1 DEF IInv, BaselineReached
  <2>1. PICK top \in batch \cap roots : top.tx >= task.baseline
    BY <2>0
  <2>2. r.tx <= top.tx
    <3>1. r.tx \in Nat /\ top.tx \in Nat /\ task.baseline \in Nat
      BY <1>1, RowType DEF IInv, TypeOK, TaskStates
    <3> QED BY <1>1, <2>1, <3>1
  <2>3. Chains(top)
    BY <1>1, <2>1 DEF IInv, ChainsComplete
  <2>4. r.tx \in {top.chained[i] : i \in DOMAIN top.chained}
    BY <2>2, <2>3 DEF Chains
  <2> QED BY <2>1, <2>4
<1>2. IInv => BaselineIsAnchored
  BY <1>1 DEF IInv, BaselineReached, BaselineIsAnchored
<1> QED BY <1>2, AlwaysIInv, PTL

-----------------------------------------------------------------------------
(* The Merkle tree of a transaction. *)

\* A set of numbers that is not empty has a least one.
LEMMA LeastOf ==
    ASSUME NEW S \in SUBSET Nat, S # {}
    PROVE  \E i \in S : \A j \in S : ~(j < i)
<1>1. PICK i \in S : \A j \in S : ~(<<j, i>> \in OpToRel(<, Nat))
  BY NatLessThanWellFounded, WFMin
<1>2. \A j \in S : j < i => <<j, i>> \in OpToRel(<, Nat)
  <2> SUFFICES ASSUME NEW j \in S, j < i PROVE <<j, i>> \in OpToRel(<, Nat)
    OBVIOUS
  <2> QED BY DEF OpToRel
<1> QED BY <1>1, <1>2

\* A level: a sequence of hashes that is not empty.
IsLevel(level) == \E m \in Nat \ {0} : \E S : level \in [1 .. m -> S]

LEMMA LevelShape ==
    ASSUME NEW level, IsLevel(level)
    PROVE  /\ Len(level) \in Nat \ {0} /\ DOMAIN level = 1 .. Len(level)
           /\ \E S : level \in Seq(S) /\ level \in [1 .. Len(level) -> S]
<1>0. PICK m \in Nat \ {0} : \E S : level \in [1 .. m -> S]
  BY DEF IsLevel
<1>1. PICK S : level \in [1 .. m -> S]
  BY <1>0
<1>2. level \in Seq(S) /\ Len(level) = m /\ DOMAIN level = 1 .. m
  BY <1>1
<1> QED BY <1>1, <1>2

\* Padding repeats the last hash of an odd level.
LEMMA PaddedShape ==
    ASSUME NEW level, IsLevel(level)
    PROVE  LET n == Len(level)
               p == Padded(level)
           IN  /\ Len(p) = IF n % 2 = 0 THEN n ELSE n + 1
               /\ \A i \in 1 .. n : p[i] = level[i]
               /\ \E S : p \in [1 .. Len(p) -> S]
<1>1. PICK S : /\ level \in Seq(S) /\ Len(level) \in Nat \ {0}
               /\ level \in [1 .. Len(level) -> S]
  BY LevelShape
<1> DEFINE n == Len(level)
           q == IF n % 2 = 0 THEN <<>> ELSE <<level[n]>>
<1>2. q \in Seq(S) /\ Len(q) = IF n % 2 = 0 THEN 0 ELSE 1
  BY <1>1
<1>3. Padded(level) = level \o q
  BY DEF Padded
<1> HIDE DEF q
<1>4. /\ level \o q \in Seq(S) /\ Len(level \o q) = n + Len(q)
      /\ \A i \in 1 .. (n + Len(q)) : (level \o q)[i] = IF i <= n THEN level[i] ELSE q[i - n]
  BY <1>1, <1>2, ConcatProperties
<1> DEFINE p == level \o q
<1>5. p \in [1 .. Len(p) -> S]
  BY <1>4, LenProperties
<1>6. Len(p) = IF n % 2 = 0 THEN n ELSE n + 1
  BY <1>1, <1>2, <1>4
<1>7. \A i \in 1 .. n : p[i] = level[i]
  BY <1>1, <1>2, <1>4
<1> QED BY <1>3, <1>5, <1>6, <1>7

LEMMA NextLevelShape ==
    ASSUME NEW level, IsLevel(level)
    PROVE  LET n == Len(level)
               p == Padded(level)
               next == NextLevel(level)
           IN  /\ IsLevel(next)
               /\ Len(next) = (n + 1) \div 2
               /\ \A i \in 1 .. ((n + 1) \div 2) : next[i] = <<p[2 * i - 1], p[2 * i]>>
<1> DEFINE n == Len(level)
           p == Padded(level)
           k == (n + 1) \div 2
<1>1. n \in Nat \ {0}
  BY LevelShape
<1>2. Len(p) \div 2 = k /\ k \in Nat \ {0} /\ Len(p) = 2 * k
  BY <1>1, PaddedShape
<1>3. PICK S : p \in [1 .. Len(p) -> S]
  BY PaddedShape
<1>4. NextLevel(level) = [i \in 1 .. k |-> <<p[2 * i - 1], p[2 * i]>>]
  BY <1>2 DEF NextLevel, hash_pair
<1> HIDE DEF p, k, n
<1>5. \A i \in 1 .. k : 2 * i - 1 \in 1 .. Len(p) /\ 2 * i \in 1 .. Len(p)
  BY <1>2
<1>6. NextLevel(level) \in [1 .. k -> S \X S]
  BY <1>3, <1>4, <1>5
<1>7. IsLevel(NextLevel(level)) /\ Len(NextLevel(level)) = k
  <2>1. NextLevel(level) \in Seq(S \X S) /\ Len(NextLevel(level)) = k
    BY <1>2, <1>6
  <2> QED BY <1>2, <1>6, <2>1 DEF IsLevel
<1>8. \A i \in 1 .. k : NextLevel(level)[i] = <<p[2 * i - 1], p[2 * i]>>
  BY <1>4
<1> QED BY <1>7, <1>8 DEF n, p, k


\* The three loops have the states that their definitions describe.
IsLevels(h, leaves, m) == h = [n \in 0 .. m |-> IF n = 0 THEN leaves ELSE Above(h[n - 1])]

LEMMA LevelsExist ==
    ASSUME NEW leaves, NEW m \in Nat
    PROVE  \E h : IsLevels(h, leaves, m)
<1> DEFINE Bad == {n \in Nat : ~ \E h : IsLevels(h, leaves, n)}
<1> SUFFICES ASSUME Bad # {} PROVE FALSE
  OBVIOUS
<1>1. PICK n \in Bad : \A k \in Bad : ~(k < n)
  BY LeastOf
<1>2. CASE n = 0
  <2>1. IsLevels([k \in 0 .. 0 |-> leaves], leaves, 0)
    BY DEF IsLevels
  <2> QED BY <2>1, <1>2, <1>1
<1>3. CASE n # 0
  <2>1. n - 1 \in Nat /\ n - 1 \notin Bad
    BY <1>1, <1>3
  <2>2. PICK h : IsLevels(h, leaves, n - 1)
    BY <2>1
  <2> DEFINE g == [k \in 0 .. n |-> IF k <= n - 1 THEN h[k] ELSE Above(h[n - 1])]
  <2>3. ASSUME NEW k \in 0 .. n
        PROVE  g[k] = IF k = 0 THEN leaves ELSE Above(g[k - 1])
    <3>1. CASE k <= n - 1
      <4>1. g[k] = h[k] /\ (k # 0 => g[k - 1] = h[k - 1])
        BY <2>1, <3>1
      <4>2. h[k] = IF k = 0 THEN leaves ELSE Above(h[k - 1])
        BY <2>2, <2>1, <3>1 DEF IsLevels
      <4> QED BY <4>1, <4>2
    <3>2. CASE k = n
      BY <2>1, <3>2
    <3> QED BY <2>1, <3>1, <3>2
  <2>4. IsLevels(g, leaves, n)
    BY <2>3 DEF IsLevels
  <2> HIDE DEF g
  <2> QED BY <2>4, <1>1
<1> QED BY <1>2, <1>3

LEMMA LevelsAre ==
    ASSUME NEW leaves, Len(leaves) \in Nat
    PROVE  IsLevels(Levels(leaves), leaves, Len(leaves))
<1> DEFINE F(h) == [n \in 0 .. Len(leaves) |-> IF n = 0 THEN leaves ELSE Above(h[n - 1])]
           f == CHOOSE h : h = F(h)
<1>1. Levels(leaves) = f
  BY DEF Levels
<1>2. \E h : h = F(h)
  <2>1. PICK h : IsLevels(h, leaves, Len(leaves))
    BY LevelsExist
  <2> QED BY <2>1 DEF IsLevels
<1>3. f = F(f)
  <2> HIDE DEF F
  <2> QED BY <1>2
<1> QED BY <1>1, <1>3 DEF IsLevels

IsIndices(h, index, m) == h = [n \in 0 .. m |-> IF n = 0 THEN index ELSE (h[n - 1] + 1) \div 2]

LEMMA IndicesExist ==
    ASSUME NEW index, NEW m \in Nat
    PROVE  \E h : IsIndices(h, index, m)
<1> DEFINE Bad == {n \in Nat : ~ \E h : IsIndices(h, index, n)}
<1> SUFFICES ASSUME Bad # {} PROVE FALSE
  OBVIOUS
<1>1. PICK n \in Bad : \A k \in Bad : ~(k < n)
  BY LeastOf
<1>2. CASE n = 0
  <2>1. IsIndices([k \in 0 .. 0 |-> index], index, 0)
    BY DEF IsIndices
  <2> QED BY <2>1, <1>2, <1>1
<1>3. CASE n # 0
  <2>1. n - 1 \in Nat /\ n - 1 \notin Bad
    BY <1>1, <1>3
  <2>2. PICK h : IsIndices(h, index, n - 1)
    BY <2>1
  <2> DEFINE g == [k \in 0 .. n |-> IF k <= n - 1 THEN h[k] ELSE (h[n - 1] + 1) \div 2]
  <2>3. ASSUME NEW k \in 0 .. n
        PROVE  g[k] = IF k = 0 THEN index ELSE (g[k - 1] + 1) \div 2
    <3>1. CASE k <= n - 1
      <4>1. g[k] = h[k] /\ (k # 0 => g[k - 1] = h[k - 1])
        BY <2>1, <3>1
      <4>2. h[k] = IF k = 0 THEN index ELSE (h[k - 1] + 1) \div 2
        BY <2>2, <2>1, <3>1 DEF IsIndices
      <4> QED BY <4>1, <4>2
    <3>2. CASE k = n
      BY <2>1, <3>2
    <3> QED BY <2>1, <3>1, <3>2
  <2>4. IsIndices(g, index, n)
    BY <2>3 DEF IsIndices
  <2> HIDE DEF g
  <2> QED BY <2>4, <1>1
<1> QED BY <1>2, <1>3

LEMMA IndicesAre ==
    ASSUME NEW index, NEW m \in Nat
    PROVE  IsIndices(Indices(index, m), index, m)
<1> DEFINE F(h) == [n \in 0 .. m |-> IF n = 0 THEN index ELSE (h[n - 1] + 1) \div 2]
           f == CHOOSE h : h = F(h)
<1>1. Indices(index, m) = f
  BY DEF Indices
<1>2. \E h : h = F(h)
  <2>1. PICK h : IsIndices(h, index, m)
    BY IndicesExist
  <2> QED BY <2>1 DEF IsIndices
<1>3. f = F(f)
  <2> HIDE DEF F
  <2> QED BY <1>2
<1> QED BY <1>1, <1>3 DEF IsIndices

IsFold(h, leaf, path, m) == h = [n \in 0 .. m |-> IF n = 0 THEN leaf ELSE Combine(h[n - 1], path[n])]

LEMMA FoldsExist ==
    ASSUME NEW leaf, NEW path, NEW m \in Nat
    PROVE  \E h : IsFold(h, leaf, path, m)
<1> DEFINE Bad == {n \in Nat : ~ \E h : IsFold(h, leaf, path, n)}
<1> SUFFICES ASSUME Bad # {} PROVE FALSE
  OBVIOUS
<1>1. PICK n \in Bad : \A k \in Bad : ~(k < n)
  BY LeastOf
<1>2. CASE n = 0
  <2>1. IsFold([k \in 0 .. 0 |-> leaf], leaf, path, 0)
    BY DEF IsFold
  <2> QED BY <2>1, <1>2, <1>1
<1>3. CASE n # 0
  <2>1. n - 1 \in Nat /\ n - 1 \notin Bad
    BY <1>1, <1>3
  <2>2. PICK h : IsFold(h, leaf, path, n - 1)
    BY <2>1
  <2> DEFINE g == [k \in 0 .. n |-> IF k <= n - 1 THEN h[k] ELSE Combine(h[n - 1], path[n])]
  <2>3. ASSUME NEW k \in 0 .. n
        PROVE  g[k] = IF k = 0 THEN leaf ELSE Combine(g[k - 1], path[k])
    <3>1. CASE k <= n - 1
      <4>1. g[k] = h[k] /\ (k # 0 => g[k - 1] = h[k - 1])
        BY <2>1, <3>1
      <4>2. h[k] = IF k = 0 THEN leaf ELSE Combine(h[k - 1], path[k])
        BY <2>2, <2>1, <3>1 DEF IsFold
      <4> QED BY <4>1, <4>2
    <3>2. CASE k = n
      BY <2>1, <3>2
    <3> QED BY <2>1, <3>1, <3>2
  <2>4. IsFold(g, leaf, path, n)
    BY <2>3 DEF IsFold
  <2> HIDE DEF g
  <2> QED BY <2>4, <1>1
<1> QED BY <1>2, <1>3

LEMMA FoldsAre ==
    ASSUME NEW leaf, NEW path, Len(path) \in Nat
    PROVE  IsFold(Folded(leaf, path), leaf, path, Len(path))
<1> DEFINE F(h) == [n \in 0 .. Len(path) |-> IF n = 0 THEN leaf ELSE Combine(h[n - 1], path[n])]
           f == CHOOSE h : h = F(h)
<1>1. Folded(leaf, path) = f
  BY DEF Folded
<1>2. \E h : h = F(h)
  <2>1. PICK h : IsFold(h, leaf, path, Len(path))
    BY FoldsExist
  <2> QED BY <2>1 DEF IsFold
<1>3. f = F(f)
  <2> HIDE DEF F
  <2> QED BY <1>2
<1> QED BY <1>1, <1>3 DEF IsFold

LEMMA Half ==
    ASSUME NEW a \in Nat \ {0, 1}
    PROVE  (a + 1) \div 2 \in Nat /\ (a + 1) \div 2 + 1 <= a
OBVIOUS

\* Every level is one, and shorter than the one below until it is the root.
LEMMA LevelsShape ==
    ASSUME NEW leaves, IsLevel(leaves)
    PROVE  LET L == Levels(leaves) IN
           /\ L[0] = leaves
           /\ \A n \in 1 .. Len(leaves) : L[n] = Above(L[n - 1])
           /\ \A n \in 0 .. Len(leaves) :
                IsLevel(L[n]) /\ (Len(L[n]) = 1 \/ Len(L[n]) + n <= Len(leaves))
<1> DEFINE N == Len(leaves)
           L == Levels(leaves)
<1>1. N \in Nat \ {0}
  BY LevelShape
<1>2. L[0] = leaves /\ \A n \in 1 .. N : L[n] = Above(L[n - 1])
  BY <1>1, LevelsAre DEF IsLevels
<1> HIDE DEF N, L
<1> DEFINE Good(n) == IsLevel(L[n]) /\ (Len(L[n]) = 1 \/ Len(L[n]) + n <= N)
           Bad == {n \in 0 .. N : ~Good(n)}
<1>3. ASSUME Bad # {} PROVE FALSE
  <2>1. PICK n \in Bad : \A k \in Bad : ~(k < n)
    <3>1. Bad \in SUBSET Nat
      BY <1>1
    <3> HIDE DEF Bad
    <3> QED BY <1>3, <3>1, LeastOf
  <2>2. n # 0
    BY <1>1, <1>2 DEF N
  <2>3. n \in 1 .. N /\ n - 1 \in 0 .. N /\ n - 1 < n
    BY <1>1, <2>2
  <2>4. Good(n - 1)
    BY <2>1, <2>3
  <2>5. Len(L[n - 1]) \in Nat \ {0}
    BY <2>4, LevelShape
  <2>6. CASE Len(L[n - 1]) = 1
    BY <1>2, <2>1, <2>3, <2>4, <2>6 DEF Above
  <2>7. CASE Len(L[n - 1]) # 1
    <3>1. IsLevel(L[n]) /\ Len(L[n]) = (Len(L[n - 1]) + 1) \div 2
      BY <1>2, <2>3, <2>4, <2>7, NextLevelShape DEF Above
    <3>2. Len(L[n - 1]) \in Nat \ {0, 1} /\ Len(L[n - 1]) + (n - 1) <= N
      BY <2>4, <2>5, <2>7
    <3>3. Len(L[n]) \in Nat /\ Len(L[n]) + 1 <= Len(L[n - 1])
      BY <3>1, <3>2, Half
    <3>4. n \in Nat /\ N \in Nat
      BY <1>1, <2>3
    <3>5. Len(L[n]) + n <= N
      <4> DEFINE a == Len(L[n - 1])
                 b == Len(L[n])
      <4>1. a \in Nat /\ b \in Nat /\ a + (n - 1) <= N /\ b + 1 <= a
        BY <3>2, <3>3
      <4> HIDE DEF a, b
      <4>2. b + n <= N
        BY <3>4, <4>1
      <4> QED BY <4>2 DEF b
    <3> QED BY <2>1, <3>1, <3>5
  <2> QED BY <2>6, <2>7
<1>4. \A n \in 0 .. N : Good(n)
  BY <1>3
<1> QED BY <1>2, <1>4 DEF N, L

LEMMA HeightShape ==
    ASSUME NEW leaves, IsLevel(leaves)
    PROVE  LET h == Height(leaves) IN
           /\ h \in 0 .. Len(leaves)
           /\ Len(Levels(leaves)[h]) = 1
           /\ \A n \in 0 .. (h - 1) : Len(Levels(leaves)[n]) # 1
<1> DEFINE N == Len(leaves)
           L == Levels(leaves)
           Ends == {n \in 0 .. N : Len(L[n]) = 1}
<1>1. N \in Nat \ {0}
  BY LevelShape
<1>2. Len(L[N]) = 1
  <2>1. IsLevel(L[N]) /\ (Len(L[N]) = 1 \/ Len(L[N]) + N <= N)
    BY <1>1, LevelsShape
  <2>2. Len(L[N]) \in Nat \ {0}
    BY <2>1, LevelShape
  <2> QED BY <1>1, <2>1, <2>2
<1> HIDE DEF N, L
<1>3. PICK h \in Ends : \A n \in Ends : ~(n < h)
  <2>1. Ends \in SUBSET Nat /\ N \in Ends
    BY <1>1, <1>2
  <2> HIDE DEF Ends
  <2> QED BY <2>1, LeastOf
<1>4. \A n \in 0 .. (h - 1) : Len(L[n]) # 1
  BY <1>1, <1>3
<1>5. \E k \in 0 .. N : Len(L[k]) = 1 /\ \A n \in 0 .. (k - 1) : Len(L[n]) # 1
  BY <1>3, <1>4
<1> QED BY <1>5 DEF Height, N, L


\* A hash and its sibling make up the hash above them, whichever side it is on
\* and whether or not the level is odd.
LEMMA SiblingFits ==
    ASSUME NEW level, IsLevel(level), NEW i \in 1 .. Len(level)
    PROVE  /\ (i + 1) \div 2 \in 1 .. Len(NextLevel(level))
           /\ Combine(level[i], Sibling(i, level)) = NextLevel(level)[(i + 1) \div 2]
<1> DEFINE n == Len(level)
           p == Padded(level)
           k == (n + 1) \div 2
           j == (i + 1) \div 2
<1>1. n \in Nat \ {0} /\ i \in 1 .. n
  BY LevelShape
<1>2. /\ Len(NextLevel(level)) = k
      /\ \A m \in 1 .. k : NextLevel(level)[m] = <<p[2 * m - 1], p[2 * m]>>
  BY NextLevelShape
<1>3. \A m \in 1 .. n : p[m] = level[m]
  BY PaddedShape
<1>4. j \in 1 .. k /\ (i % 2 = 1 => i = 2 * j - 1 /\ i + 1 = 2 * j)
                   /\ (i % 2 # 1 => i = 2 * j /\ i - 1 = 2 * j - 1)
  BY <1>1
<1>5. level[i] = p[i]
  BY <1>1, <1>3
<1> HIDE DEF p, k, j, n
<1>6. CASE i % 2 = 1
  <2>1. Sibling(i, level) = [hash |-> p[i + 1], position |-> "right"]
    BY <1>6 DEF Sibling, p
  <2>2. Combine(level[i], Sibling(i, level)) = <<p[i], p[i + 1]>>
    BY <1>5, <2>1 DEF Combine, hash_pair
  <2>3. NextLevel(level)[j] = <<p[i], p[i + 1]>>
    BY <1>2, <1>4, <1>6
  <2> QED BY <1>2, <1>4, <2>2, <2>3 DEF j
<1>7. CASE i % 2 # 1
  <2>1. Sibling(i, level) = [hash |-> p[i - 1], position |-> "left"]
    BY <1>7 DEF Sibling, p
  <2>2. Combine(level[i], Sibling(i, level)) = <<p[i - 1], p[i]>>
    BY <1>5, <2>1 DEF Combine, hash_pair
  <2>3. NextLevel(level)[j] = <<p[i - 1], p[i]>>
    BY <1>2, <1>4, <1>7
  <2> QED BY <1>2, <1>4, <2>2, <2>3 DEF j
<1> QED BY <1>6, <1>7

\* From a leaf its proof leads through its ancestors to the root.
LEMMA PathLeadsUp ==
    ASSUME NEW leaves, IsLevel(leaves), NEW i \in 1 .. Len(leaves)
    PROVE  LET path == ProofPath(i, leaves) IN
           /\ Len(path) = Height(leaves)
           /\ Folded(leaves[i], path)[Len(path)] = merkle_root(leaves)
<1> DEFINE N == Len(leaves)
           L == Levels(leaves)
           h == Height(leaves)
           at == Indices(i, h)
           path == ProofPath(i, leaves)
           F == Folded(leaves[i], path)
<1>1. N \in Nat \ {0} /\ i \in 1 .. N
  BY LevelShape
<1>2. h \in 0 .. N /\ h \in Nat /\ Len(L[h]) = 1 /\ \A n \in 0 .. (h - 1) : Len(L[n]) # 1
  BY <1>1, HeightShape
<1>3. /\ L[0] = leaves
      /\ \A n \in 1 .. N : L[n] = Above(L[n - 1])
      /\ \A n \in 0 .. N : IsLevel(L[n])
  BY LevelsShape
<1>4. at[0] = i /\ \A n \in 1 .. h : at[n] = (at[n - 1] + 1) \div 2
  BY <1>2, IndicesAre DEF IsIndices
<1>5. path = [n \in 1 .. h |-> Sibling(at[n - 1], L[n - 1])]
  BY DEF ProofPath
<1>6. Len(path) = h /\ \A n \in 1 .. h : path[n] = Sibling(at[n - 1], L[n - 1])
  <2> HIDE DEF path, h, at, L
  <2> QED BY <1>2, <1>5
<1>7. F[0] = leaves[i] /\ \A n \in 1 .. h : F[n] = Combine(F[n - 1], path[n])
  <2>1. Len(path) \in Nat
    BY <1>2, <1>6
  <2>2. IsFold(F, leaves[i], path, h)
    BY <1>6, <2>1, FoldsAre
  <2> HIDE DEF F, path, h
  <2> QED BY <1>2, <2>2 DEF IsFold
<1> HIDE DEF N, L, h, at, path, F
<1> DEFINE Good(n) == at[n] \in 1 .. Len(L[n]) /\ F[n] = L[n][at[n]]
           Bad == {n \in 0 .. h : ~Good(n)}
<1>8. ASSUME Bad # {} PROVE FALSE
  <2>1. PICK n \in Bad : \A k \in Bad : ~(k < n)
    <3>1. Bad \in SUBSET Nat
      BY <1>2
    <3> HIDE DEF Bad
    <3> QED BY <1>8, <3>1, LeastOf
  <2>2. n # 0
    BY <1>1, <1>3, <1>4, <1>7 DEF N
  <2>3. n \in 1 .. h /\ n - 1 \in 0 .. h /\ n - 1 < n /\ n - 1 \in 0 .. (h - 1)
        /\ n \in 1 .. N /\ n - 1 \in 0 .. N
    BY <1>1, <1>2, <2>2
  <2>4. at[n - 1] \in 1 .. Len(L[n - 1]) /\ F[n - 1] = L[n - 1][at[n - 1]]
    BY <2>1, <2>3
  <2>5. L[n] = NextLevel(L[n - 1]) /\ IsLevel(L[n - 1])
    BY <1>2, <1>3, <2>3 DEF Above
  <2>6. /\ (at[n - 1] + 1) \div 2 \in 1 .. Len(NextLevel(L[n - 1]))
        /\ Combine(L[n - 1][at[n - 1]], Sibling(at[n - 1], L[n - 1]))
             = NextLevel(L[n - 1])[(at[n - 1] + 1) \div 2]
    BY <2>4, <2>5, SiblingFits
  <2>7. Good(n)
    BY <1>4, <1>6, <1>7, <2>3, <2>4, <2>5, <2>6
  <2> QED BY <2>1, <2>7
<1>9. at[h] \in 1 .. Len(L[h]) /\ F[h] = L[h][at[h]]
  BY <1>2, <1>8
<1>10. at[h] = 1
  BY <1>2, <1>9
<1>11. F[h] = merkle_root(leaves)
  BY <1>9, <1>10 DEF merkle_root, L, h
<1> QED BY <1>6, <1>11 DEF F, path, h

\* Along one path two different leaf hashes lead to different hashes.
LEMMA FoldInjective ==
    ASSUME NEW path, Len(path) \in Nat, NEW a, NEW b, a # b
    PROVE  Folded(a, path)[Len(path)] # Folded(b, path)[Len(path)]
<1> DEFINE m == Len(path)
           F == Folded(a, path)
           G == Folded(b, path)
<1>1. IsFold(F, a, path, m) /\ IsFold(G, b, path, m) /\ m \in Nat
  BY FoldsAre
<1> HIDE DEF F, G, m
<1>2. /\ F[0] = a /\ \A n \in 1 .. m : F[n] = Combine(F[n - 1], path[n])
      /\ G[0] = b /\ \A n \in 1 .. m : G[n] = Combine(G[n - 1], path[n])
  BY <1>1 DEF IsFold
<1> DEFINE Bad == {n \in 0 .. m : F[n] = G[n]}
<1>3. ASSUME Bad # {} PROVE FALSE
  <2>1. PICK n \in Bad : \A k \in Bad : ~(k < n)
    <3>1. Bad \in SUBSET Nat
      BY <1>1
    <3> HIDE DEF Bad
    <3> QED BY <1>3, <3>1, LeastOf
  <2>2. n # 0
    BY <1>1, <1>2
  <2>3. n \in 1 .. m /\ n - 1 \in 0 .. m /\ n - 1 < n
    BY <1>1, <2>2
  <2>4. F[n - 1] # G[n - 1]
    BY <2>1, <2>3
  <2>5. Combine(F[n - 1], path[n]) = Combine(G[n - 1], path[n])
    BY <1>2, <2>1, <2>3
  <2> QED BY <2>4, <2>5 DEF Combine, hash_pair
<1>4. m \in 0 .. m
  BY <1>1
<1> QED BY <1>3, <1>4 DEF F, G, m

\* Inclusion proofs are exact for transactions of any number of triples: the
\* path that generate_proof collects leads verify_proof from the triple's hash
\* to merkle_root, and from no other hash.
THEOREM InclusionProofsAreExact ==
    ASSUME NEW Leaves, NEW n \in Nat
    PROVE  ProofsAreExact(Leaves, n)
<1> SUFFICES ASSUME NEW len \in 1 .. n, NEW leaves \in [1 .. len -> Leaves],
                    NEW target \in {leaves[i] : i \in DOMAIN leaves}, NEW leaf \in Leaves
             PROVE  verify_proof(leaf, generate_proof(target, leaves), merkle_root(leaves))
                      <=> leaf = target
  BY DEF ProofsAreExact
<1> DEFINE i == LeafIndex(target, leaves)
           path == generate_proof(target, leaves)
<1>1. IsLevel(leaves) /\ Len(leaves) = len /\ DOMAIN leaves = 1 .. len /\ len \in Nat
  <2>1. len \in Nat \ {0}
    OBVIOUS
  <2>2. leaves \in Seq(Leaves) /\ Len(leaves) = len
    BY <2>1
  <2> QED BY <2>1, <2>2 DEF IsLevel
<1>2. i \in 1 .. len /\ leaves[i] = target
  <2> DEFINE S == {j \in 1 .. len : leaves[j] = target}
  <2>1. S \in SUBSET Nat /\ S # {}
    BY <1>1
  <2>2. PICK k \in S : \A j \in S : ~(j < k)
    <3> HIDE DEF S
    <3> QED BY <2>1, LeastOf
  <2>3. \A j \in 1 .. len : leaves[j] = target => k <= j
    BY <2>2
  <2>4. \E x \in DOMAIN leaves : leaves[x] = target /\ \A j \in DOMAIN leaves : leaves[j] = target => x <= j
    BY <1>1, <2>2, <2>3
  <2> QED BY <1>1, <2>4 DEF LeafIndex
<1> HIDE DEF i
<1>3. path = ProofPath(i, leaves)
  BY DEF generate_proof, i
<1> HIDE DEF path
<1>4. Len(path) = Height(leaves) /\ Folded(target, path)[Len(path)] = merkle_root(leaves)
  BY <1>1, <1>2, <1>3, PathLeadsUp
<1>5. Len(path) \in Nat
  BY <1>1, <1>4, HeightShape
<1>6. leaf # target => Folded(leaf, path)[Len(path)] # merkle_root(leaves)
  BY <1>4, <1>5, FoldInjective
<1> QED BY <1>4, <1>6 DEF verify_proof, path

\* In particular for those that a root is recorded for.
THEOREM RecordedProofsAreExact ==
    Spec => []MerkleProofsExact
<1>1. MerkleProofsExact
  BY InclusionProofsAreExact, MaxLeavesAssumption DEF MerkleProofsExact, ProofsExact
<1> QED BY <1>1, PTL
=============================================================================

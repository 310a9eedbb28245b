----------------------------- MODULE AuditChain -----------------------------
(***************************************************************************)
(* The Merkle audit trail (audit/mod.rs), as set_triples and bulk_load of  *)
(* the triple store feed it, and the task that anchors it (anchor/mod.rs,  *)
(* main.rs).  A writer draws its tx_id, commits its triples, reads the     *)
(* newest chained root and inserts its own: four separate statements, the  *)
(* last two after the commit.  The anchor task watches MAX(tx_id) and      *)
(* hashes the newest chained roots when enough transactions have come.     *)
(*                                                                         *)
(* Hashes are taken to be free of collisions: the Merkle root of a         *)
(* transaction is its tx_id (which every leaf's pre-image contains) and    *)
(* SHA-512(merkle_root || prev_root) is the sequence of the roots it       *)
(* chains, newest last; the all-zero root is the empty sequence.           *)
(***************************************************************************)
EXTENDS Integers, Sequences, FiniteSets, FiniteSetsExt

CONSTANTS
    Writers,        \* requests that write triples
    EveryN,         \* DARSH_ANCHOR_EVERY_N_TX
    MaxTx,          \* bound: tx_ids drawn
    MaxFaults       \* bound: failed statements, failed anchors and crashes

ASSUME ConstantsAreNumbers ==
    /\ EveryN \in Nat \ {0}
    /\ MaxTx \in Nat
    /\ MaxFaults \in Nat

VARIABLES
    lastTx,         \* the transaction id sequence
    writer,         \* per writer: where set_triples is, its tx_id and prev_root
    roots,          \* the rows of tx_merkle_roots
    overlapped,     \* ghost: a tx_id was drawn while another write was under way
    task,           \* the anchor task: where it is, baseline, current, its batch
    receipts,       \* the rows of anchor_receipts
    faults

vars == <<lastTx, writer, roots, overlapped, task, receipts, faults>>

TxIds == 1 .. MaxTx
ChainedRoots == Seq(TxIds)
RootRows == [tx : TxIds, prev : ChainedRoots, chained : ChainedRoots]

Resting == [pc |-> "idle", tx |-> 0, prev |-> <<>>]
Stopped == [pc |-> "down", baseline |-> 0, since |-> 0, current |-> 0, batch |-> {}]

WriterStates == [pc : {"idle", "commit", "read", "insert"}, tx : 0 .. MaxTx,
                 prev : ChainedRoots]
TaskStates == [pc : {"down", "tick", "compute", "anchor", "persist"},
               baseline : 0 .. MaxTx, since : 0 .. MaxTx, current : 0 .. MaxTx,
               batch : SUBSET RootRows]

TypeOK ==
    /\ lastTx \in 0 .. MaxTx
    /\ writer \in [Writers -> WriterStates]
    /\ roots \subseteq RootRows
    /\ overlapped \in BOOLEAN
    /\ task \in TaskStates
    /\ receipts \subseteq SUBSET RootRows
    /\ faults \in 0 .. MaxFaults

Init ==
    /\ lastTx = 0
    /\ writer = [w \in Writers |-> Resting]
    /\ roots = {}
    /\ overlapped = FALSE
    /\ task = Stopped
    /\ receipts = {}
    /\ faults = 0

Fault == faults < MaxFaults /\ faults' = faults + 1

-----------------------------------------------------------------------------
(* set_triples and record_merkle_root *)

\* SELECT MAX(tx_id) FROM tx_merkle_roots, 0 when there is none.
MaxTxId == IF roots = {} THEN 0 ELSE Max({r.tx : r \in roots})

\* ORDER BY tx_id DESC LIMIT 1: the chained root a new row builds on.
NewestChained ==
    IF roots = {} THEN <<>> ELSE (CHOOSE r \in roots : r.tx = MaxTxId).chained

chained_root(merkle, prev) == Append(prev, merkle)

Goto(w, label) == writer' = [writer EXCEPT ![w].pc = label]

Rest(w) == writer' = [writer EXCEPT ![w] = Resting]

\* next_tx_id: the sequence moves on whatever becomes of the transaction.
DrawTxId(w) ==
    /\ writer[w].pc = "idle"
    /\ lastTx < MaxTx
    /\ lastTx' = lastTx + 1
    /\ writer' = [writer EXCEPT ![w] = [pc |-> "commit", tx |-> lastTx + 1, prev |-> <<>>]]
    /\ overlapped' = (overlapped \/ \E v \in Writers : writer[v].pc # "idle")
    /\ UNCHANGED <<roots, task, receipts, faults>>

\* INSERT INTO triples, pg_notify, COMMIT.
CommitTriples(w) ==
    /\ writer[w].pc = "commit"
    /\ Goto(w, "read")
    /\ UNCHANGED <<lastTx, roots, overlapped, task, receipts, faults>>

\* Mutant: the SELECT sorts by tx_id ascending.
ReadPrevOldest(w) ==
    /\ writer[w].pc = "read"
    /\ writer' = [writer EXCEPT ![w].pc = "insert",
                    ![w].prev = IF roots = {} THEN <<>>
                                ELSE (CHOOSE r \in roots : \A q \in roots : r.tx <= q.tx).chained]
    /\ UNCHANGED <<lastTx, roots, overlapped, task, receipts, faults>>

ReadPrev(w) ==
    /\ writer[w].pc = "read"
    /\ writer' = [writer EXCEPT ![w].pc = "insert", ![w].prev = NewestChained]
    /\ UNCHANGED <<lastTx, roots, overlapped, task, receipts, faults>>

\* Mutant: the stored root is the transaction's own, not chained.
InsertRootUnchained(w) ==
    /\ writer[w].pc = "insert"
    /\ roots' = roots \cup {[tx |-> writer[w].tx, prev |-> writer[w].prev, chained |-> <<writer[w].tx>>]}
    /\ Rest(w)
    /\ UNCHANGED <<lastTx, overlapped, task, receipts, faults>>

\* The tx_id is the primary key and was drawn once: ON CONFLICT never applies.
InsertRoot(w) ==
    /\ writer[w].pc = "insert"
    /\ roots' = roots \cup {[tx |-> writer[w].tx, prev |-> writer[w].prev,
                             chained |-> chained_root(writer[w].tx, writer[w].prev)]}
    /\ Rest(w)
    /\ UNCHANGED <<lastTx, overlapped, task, receipts, faults>>

\* The transaction fails, or it is committed and recording its root fails,
\* which is logged: either way no row.
WriteFails(w) ==
    /\ writer[w].pc # "idle"
    /\ Fault
    /\ Rest(w)
    /\ UNCHANGED <<lastTx, roots, overlapped, task, receipts>>

-----------------------------------------------------------------------------
(* The anchor task *)

\* The task starts from the newest root there is.  The ghost since keeps
\* where it started.
StartTask ==
    /\ task.pc = "down"
    /\ task' = [Stopped EXCEPT !.pc = "tick", !.baseline = MaxTxId, !.since = MaxTxId]
    /\ UNCHANGED <<lastTx, writer, roots, overlapped, receipts, faults>>

\* The first read fails: the task starts from 0.
StartTaskFails ==
    /\ task.pc = "down"
    /\ Fault
    /\ task' = [Stopped EXCEPT !.pc = "tick"]
    /\ UNCHANGED <<lastTx, writer, roots, overlapped, receipts>>

\* Mutant: waits for one transaction more.
TickLate ==
    /\ task.pc = "tick"
    /\ MaxTxId - task.baseline > EveryN
    /\ task' = [task EXCEPT !.pc = "compute", !.current = MaxTxId]
    /\ UNCHANGED <<lastTx, writer, roots, overlapped, receipts, faults>>

\* A tick that finds EveryN transactions since the baseline.
Tick ==
    /\ task.pc = "tick"
    /\ MaxTxId - task.baseline >= EveryN
    /\ task' = [task EXCEPT !.pc = "compute", !.current = MaxTxId]
    /\ UNCHANGED <<lastTx, writer, roots, overlapped, receipts, faults>>

\* The newest n rows by tx_id.
NewestRoots(n) == {r \in roots : Cardinality({q \in roots : q.tx > r.tx}) < n}

ComputeBatchRoot ==
    /\ task.pc = "compute"
    /\ task' = [task EXCEPT !.pc = "anchor", !.batch = NewestRoots(EveryN)]
    /\ UNCHANGED <<lastTx, writer, roots, overlapped, receipts, faults>>

\* Anchorer::anchor returns a receipt.
AnchorReturns ==
    /\ task.pc = "anchor"
    /\ task' = [task EXCEPT !.pc = "persist"]
    /\ UNCHANGED <<lastTx, writer, roots, overlapped, receipts, faults>>

\* insert_receipt; only now does the baseline move.
PersistReceipt ==
    /\ task.pc = "persist"
    /\ receipts' = receipts \cup {task.batch}
    /\ task' = [task EXCEPT !.pc = "tick", !.baseline = task.current,
                            !.current = 0, !.batch = {}]
    /\ UNCHANGED <<lastTx, writer, roots, overlapped, faults>>

\* Mutant: the baseline moves whether the cycle succeeded or not.
CycleFailsMovesBaseline ==
    /\ task.pc \in {"compute", "anchor", "persist"}
    /\ Fault
    /\ task' = [task EXCEPT !.pc = "tick", !.baseline = task.current,
                            !.current = 0, !.batch = {}]
    /\ UNCHANGED <<lastTx, writer, roots, overlapped, receipts>>

\* run_anchor_cycle returns an error, from the query, the backend or the
\* insert: it is logged and the next tick tries again.  No receipt is left,
\* also when the backend had already anchored the batch.
CycleFails ==
    /\ task.pc \in {"compute", "anchor", "persist"}
    /\ Fault
    /\ task' = [task EXCEPT !.pc = "tick", !.current = 0, !.batch = {}]
    /\ UNCHANGED <<lastTx, writer, roots, overlapped, receipts>>

\* The server process dies: its requests and its anchor task are gone.
Crash ==
    /\ Fault
    /\ writer' = [w \in Writers |-> Resting]
    /\ task' = Stopped
    /\ UNCHANGED <<lastTx, roots, overlapped, receipts>>

Anchoring == StartTask \/ Tick \/ ComputeBatchRoot \/ AnchorReturns \/ PersistReceipt

Next ==
    \/ \E w \in Writers :
        \/ DrawTxId(w) \/ CommitTriples(w) \/ ReadPrev(w) \/ InsertRoot(w)
        \/ WriteFails(w)
    \/ Anchoring
    \/ StartTaskFails \/ CycleFails \/ Crash

Spec == Init /\ [][Next]_vars

\* The interval keeps ticking, queries and the anchor backend answer, and a
\* server that died is started again.
FairSpec == Spec /\ WF_vars(Anchoring)

-----------------------------------------------------------------------------

\* verify_chain over the rows in ascending order of tx_id.
verify_chain ==
    \A r \in roots :
        LET before == {q \in roots : q.tx < r.tx}
            expected == IF before = {} THEN <<>>
                        ELSE (CHOOSE q \in before : \A p \in before : p.tx <= q.tx).chained
        IN  r.prev = expected /\ r.chained = chained_root(r.tx, r.prev)

\* As long as no two writes overlap, the chain verifies, whatever transactions
\* fail, lose their root or are cut short by a crash: verify_chain reports a
\* break only after writes that overlapped (or a change of the table).
ChainIntact == ~overlapped => verify_chain

\* While writes do not overlap, a receipt commits to the whole history: the
\* newest chained root of its batch chains every root recorded up to there,
\* however many roots did not fit into the batch.
ReceiptsCoverHistory ==
    ~overlapped =>
        \A batch \in receipts : \E top \in batch :
            {top.chained[i] : i \in DOMAIN top.chained} = {r.tx : r \in {q \in roots : q.tx <= top.tx}}

\* The baseline of the anchor task moves only past roots that a receipt
\* covers, across failed cycles and restarts: once it has moved, some receipt
\* reaches it, and, as long as no two writes overlap, every root recorded up to
\* the baseline is chained by the newest root of a receipt's batch.  (Of two
\* writes that overlap, one may record its root below a baseline that has
\* already passed it, or outside the chain that is anchored.)
BaselineIsAnchored ==
    task.baseline > task.since =>
        /\ \E batch \in receipts : \E top \in batch : top.tx >= task.baseline
        /\ ~overlapped =>
            \A r \in roots : r.tx <= task.baseline =>
                \E batch \in receipts : \E top \in batch :
                    \E i \in DOMAIN top.chained : top.chained[i] = r.tx

\* Whatever failed before, once writes stop (the model draws MaxTx numbers) the
\* anchor task catches up: it is running and fewer than EveryN transactions
\* wait for it, again after every failure.
AnchorsCatchUp == []<>(task.pc = "tick" /\ MaxTxId - task.baseline < EveryN)

=============================================================================

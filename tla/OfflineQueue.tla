---------------------------- MODULE OfflineQueue ----------------------------
(***************************************************************************)
(* The offline queue of the TypeScript client: SyncEngine (sync.ts) over   *)
(* an IndexedDB store that outlives the page and is shared by all tabs of  *)
(* the application, and submitOps (transaction.ts) over a WebSocket or     *)
(* REST.  Every tab has its own engine and its own _privateIsReplaying, so *)
(* two tabs may replay the queue at the same time, each from its own       *)
(* snapshot.  Each await is a step: the other tabs, the server and the     *)
(* application may act in between, and the page may be closed.             *)
(*                                                                         *)
(* Entries are numbered in the order of the index byCreatedAt.  Each is    *)
(* one operation on one record, and the server decides on it by whether    *)
(* the record exists (authorize_mutation_inner in rest.rs, for both        *)
(* transports): an entry sent again need not be accepted again.            *)
(***************************************************************************)
EXTENDS Naturals, Sequences, FiniteSets, FiniteSetsExt

CONSTANTS
    Tabs,           \* SyncEngines on this browser's database
    Transports,     \* the sets of them that may be the clients with transport rest
    Kinds,          \* what the application queues, see below
    Records,        \* the records it writes
    MaxAttempts,    \* MAX_REPLAY_ATTEMPTS
    MaxEntries,     \* bound: entries queued
    MaxFaults       \* bound: failed requests, closed pages, passing rejections,
                    \* writes by other clients and clearQueue calls

ASSUME ConstantsAreSane ==
    /\ Transports # {} /\ Transports \subseteq SUBSET Tabs
    /\ Kinds \subseteq {"set", "merge", "delete", "refused", "unsupported"}
    /\ Records # {}
    /\ MaxAttempts \in Nat \ {0}
    /\ MaxEntries \in Nat
    /\ MaxFaults \in Nat

Entries == 1 .. MaxEntries

VARIABLES
    rest,           \* the tabs whose client uses REST, readonly there
    store,          \* the object store: per entry its attempts, or None
    kind,           \* per entry: set, merge or delete, sent as insert, update and
                    \* delete; one the server always rejects ("refused"); one
                    \* submitOps throws on without sending it: no operations,
                    \* link or unlink ("unsupported")
    record,         \* per entry: the record it writes
    queued,         \* entries queued so far
    tab,            \* per tab: where replayQueue is, the entries left of its
                    \* snapshot and the attempts it read
    late,           \* per entry: requests given up that the server may still execute
    exists,         \* the records the server has
    first,          \* entries in the order in which the server first applied them
    rejections,     \* ghost: per entry, rejections the server sent, up to the limit
    cleared,        \* ghost: entries removed by clearQueue
    faults

vars == <<rest, store, kind, record, queued, tab, late, exists, first, rejections,
          cleared, faults>>

None == MaxAttempts + 1     \* not in the store

Resting == [pc |-> "idle", todo |-> {}, seen |-> [e \in Entries |-> 0]]

\* Entries with a request on its way that nobody waits for.
Pending == {e \in Entries : late[e] > 0}

TypeOK ==
    /\ rest \subseteq Tabs
    /\ store \in [Entries -> (0 .. (MaxAttempts - 1)) \cup {None}]
    /\ kind \in [Entries -> {"set", "merge", "delete", "refused", "unsupported"}]
    /\ record \in [Entries -> Records]
    /\ queued \in 0 .. MaxEntries
    /\ tab \in [Tabs -> [pc : {"idle", "load", "submit", "wait", "ok", "rejected"},
                         todo : SUBSET (1 .. queued),
                         seen : [Entries -> 0 .. (MaxAttempts - 1)]]]
    /\ late \in [Entries -> Nat] /\ Pending \subseteq 1 .. queued
    /\ exists \subseteq Records
    /\ first \in Seq(1 .. queued)
    /\ rejections \in [Entries -> 0 .. MaxAttempts]
    /\ cleared \subseteq 1 .. queued
    /\ faults \in 0 .. MaxFaults

Init ==
    /\ rest \in Transports
    /\ store = [e \in Entries |-> None]
    /\ kind = [e \in Entries |-> "set"]
    /\ record = [e \in Entries |-> CHOOSE d \in Records : TRUE]
    /\ queued = 0
    /\ tab = [t \in Tabs |-> Resting]
    /\ late = [e \in Entries |-> 0]
    /\ exists \in SUBSET Records
    /\ first = <<>>
    /\ rejections = [e \in Entries |-> 0]
    /\ cleared = {}
    /\ faults = 0

Queue == {e \in Entries : store[e] # None}

Applied == {first[i] : i \in DOMAIN first}

Fault == faults < MaxFaults /\ faults' = faults + 1

-----------------------------------------------------------------------------
(* The application *)

\* enqueue: createdAt is drawn and the entry is put.
Enqueue(k, d) ==
    /\ queued < MaxEntries
    /\ queued' = queued + 1
    /\ store' = [store EXCEPT ![queued + 1] = 0]
    /\ kind' = [kind EXCEPT ![queued + 1] = k]
    /\ record' = [record EXCEPT ![queued + 1] = d]
    /\ UNCHANGED <<rest, tab, late, first, exists, rejections, cleared,
                   faults>>

\* clearQueue, also in the middle of a replay.
ClearQueue ==
    /\ Queue # {}
    /\ Fault
    /\ store' = [e \in Entries |-> None]
    /\ cleared' = cleared \cup Queue
    /\ UNCHANGED <<kind, record, rest, queued, tab, late, first, exists, rejections>>

-----------------------------------------------------------------------------
(* replayQueue *)

Goto(t, label) == tab' = [tab EXCEPT ![t].pc = label]

Current(t) == Min(tab[t].todo)

\* The loop goes on with the next entry of the snapshot or ends.
Advance(t) ==
    LET left == tab[t].todo \ {Current(t)} IN
    tab' = [tab EXCEPT ![t] = IF left = {} THEN Resting
                              ELSE [@ EXCEPT !.pc = "submit", !.todo = left]]

\* break, or the page is gone: the snapshot is dropped, the flag reset.
Stop(t) == tab' = [tab EXCEPT ![t] = Resting]

\* The call that finds _privateIsReplaying unset.
Replay(t) ==
    /\ tab[t].pc = "idle"
    /\ Queue # {}
    /\ Goto(t, "load")
    /\ UNCHANGED <<store, kind, record, rest, queued, late, first, exists, rejections, cleared,
                   faults>>

\* getQueue.
GetQueue(t) ==
    /\ tab[t].pc = "load"
    /\ tab' = [tab EXCEPT ![t] = IF Queue = {} THEN Resting
                                 ELSE [pc |-> "submit", todo |-> Queue,
                                       seen |-> [e \in Entries |->
                                                   IF e \in Queue THEN store[e] ELSE 0]]]
    /\ UNCHANGED <<store, kind, record, rest, queued, late, first, exists, rejections, cleared,
                   faults>>

\* Mutant: the entry is taken out of the store before the answer is there.
SubmitDequeues(t) ==
    /\ tab[t].pc = "submit"
    /\ kind[Current(t)] # "unsupported"
    /\ store' = [store EXCEPT ![Current(t)] = None]
    /\ Goto(t, "wait")
    /\ UNCHANGED <<kind, record, rest, queued, late, first, exists, rejections, cleared,
                   faults>>

\* submitOps sends the operations.
Submit(t) ==
    /\ tab[t].pc = "submit"
    /\ kind[Current(t)] # "unsupported"
    /\ Goto(t, "wait")
    /\ UNCHANGED <<store, kind, record, rest, queued, late, first, exists, rejections, cleared,
                   faults>>

\* submitOps throws before it sends anything, which is no rejection: break.
SubmitThrows(t) ==
    /\ tab[t].pc = "submit"
    /\ kind[Current(t)] = "unsupported"
    /\ Stop(t)
    /\ UNCHANGED <<store, kind, record, rest, queued, late, first, exists, rejections, cleared,
                   faults>>

\* The answer was mut-ok: dequeue, on to the next entry.
Dequeue(t) ==
    /\ tab[t].pc = "ok"
    /\ store' = [store EXCEPT ![Current(t)] = None]
    /\ Advance(t)
    /\ UNCHANGED <<kind, record, rest, queued, late, first, exists, rejections, cleared,
                   faults>>

\* Mutant: a rejection ends the replay and is not counted.
CountAttemptBreaks(t) ==
    /\ tab[t].pc = "rejected"
    /\ t \notin rest
    /\ Stop(t)
    /\ UNCHANGED <<store, kind, record, rest, queued, late, first, exists, rejections, cleared,
                   faults>>

\* Mutant: discards only beyond the limit.
CountAttemptOneMore(t) ==
    /\ tab[t].pc = "rejected"
    /\ t \notin rest
    /\ store' = [store EXCEPT ![Current(t)] =
                   IF tab[t].seen[Current(t)] >= MaxAttempts THEN None
                   ELSE tab[t].seen[Current(t)] + 1]
    /\ Advance(t)
    /\ UNCHANGED <<kind, record, rest, queued, late, first, exists, rejections, cleared,
                   faults>>

\* The answer was mut-err, "Transaction failed ...": the snapshot's entry is
\* written back with one attempt more, whether or not it is still stored, and
\* discarded at the limit.
CountAttempt(t) ==
    /\ tab[t].pc = "rejected"
    /\ t \notin rest
    /\ store' = [store EXCEPT ![Current(t)] =
                   IF tab[t].seen[Current(t)] + 1 >= MaxAttempts THEN None
                   ELSE tab[t].seen[Current(t)] + 1]
    /\ Advance(t)
    /\ UNCHANGED <<kind, record, rest, queued, late, first, exists, rejections, cleared,
                   faults>>

\* Over REST the error is "REST request failed ...": isRejection says no.
RestBreaks(t) ==
    /\ tab[t].pc = "rejected"
    /\ t \in rest
    /\ Stop(t)
    /\ UNCHANGED <<store, kind, record, rest, queued, late, first, exists, rejections, cleared,
                   faults>>

\* Mutant: a transport failure goes on with the next entry.
GiveUpContinues(t) ==
    /\ tab[t].pc \in {"submit", "wait", "ok", "rejected"}
    /\ Fault
    /\ \/ UNCHANGED late
       \/ tab[t].pc = "wait" /\ late' = [late EXCEPT ![Current(t)] = @ + 1]
    /\ Advance(t)
    /\ UNCHANGED <<store, kind, record, rest, queued, first, exists, rejections, cleared>>

\* The socket is closed, the request times out, or its answer is lost: break.
\* A closed page or engine stops at the same places.  The request may have
\* reached the server or not.
GiveUp(t) ==
    /\ tab[t].pc \in {"submit", "wait", "ok", "rejected"}
    /\ Fault
    /\ \/ UNCHANGED late
       \/ tab[t].pc = "wait" /\ late' = [late EXCEPT ![Current(t)] = @ + 1]
    /\ Stop(t)
    /\ UNCHANGED <<store, kind, record, rest, queued, first, exists, rejections, cleared>>

-----------------------------------------------------------------------------
(* The server *)

\* authorize_mutation_inner: an insert of a record that exists is a conflict,
\* an update or delete of one that does not is "not found".
Acceptable(e) ==
    \/ kind[e] = "set" /\ record[e] \notin exists
    \/ kind[e] \in {"merge", "delete"} /\ record[e] \in exists

\* The transaction of handle_mutation or mutate commits.
Execute(e) ==
    /\ exists' = IF kind[e] = "delete" THEN exists \ {record[e]} ELSE exists \cup {record[e]}
    /\ first' = IF e \in Applied THEN first ELSE Append(first, e)

\* ... and mut-ok, or status 200, is sent.
Accept(t) ==
    /\ tab[t].pc = "wait"
    /\ Acceptable(Current(t))
    /\ Execute(Current(t))
    /\ Goto(t, "ok")
    /\ UNCHANGED <<store, kind, record, rest, queued, late, rejections, cleared, faults>>

RejectCurrent(t) ==
    LET e == Current(t) IN
    /\ rejections' = [rejections EXCEPT ![e] = IF @ < MaxAttempts THEN @ + 1 ELSE @]
    /\ Goto(t, "rejected")
    /\ UNCHANGED <<store, kind, record, rest, queued, late, first, exists, cleared>>

\* It is refused for what it is, or for the state of its record: the second
\* request for a set or delete that was applied ends here.
Reject(t) ==
    /\ tab[t].pc = "wait"
    /\ ~Acceptable(Current(t))
    /\ RejectCurrent(t)
    /\ UNCHANGED faults

\* It is refused this once: a database error, a permission not yet granted.
RejectOnce(t) ==
    /\ tab[t].pc = "wait"
    /\ Acceptable(Current(t))
    /\ Fault
    /\ RejectCurrent(t)

\* A request its sender has given up is executed after all.
ExecuteLate(e) ==
    /\ e \in Pending
    /\ late' = [late EXCEPT ![e] = @ - 1]
    /\ IF Acceptable(e) THEN Execute(e) ELSE UNCHANGED <<first, exists>>
    /\ UNCHANGED <<store, kind, record, rest, queued, tab, rejections, cleared, faults>>

\* Another client creates or deletes a record.
OtherWrites(d) ==
    /\ Fault
    /\ exists' = IF d \in exists THEN exists \ {d} ELSE exists \cup {d}
    /\ UNCHANGED <<store, kind, record, rest, queued, tab, late, first, rejections, cleared>>

-----------------------------------------------------------------------------

Progress(t) ==
    \/ Replay(t) \/ GetQueue(t) \/ Submit(t) \/ SubmitThrows(t)
    \/ Dequeue(t) \/ CountAttempt(t) \/ RestBreaks(t)
    \/ Accept(t) \/ Reject(t)

Next ==
    \/ \E k \in Kinds, d \in Records : Enqueue(k, d)
    \/ ClearQueue
    \/ \E t \in Tabs : Progress(t) \/ GiveUp(t) \/ RejectOnce(t)
    \/ \E e \in Entries : ExecuteLate(e)
    \/ \E d \in Records : OtherWrites(d)

Spec == Init /\ [][Next]_vars

\* The application calls replayQueue again while the queue is not empty (when
\* it is back online), the server answers, and the browser runs what is due.
FairSpec == Spec /\ \A t \in Tabs : WF_vars(Progress(t))

-----------------------------------------------------------------------------

\* No queued write is lost: whatever requests fail, pages close and tabs
\* replay at once, an entry that is no longer stored was applied, was rejected
\* MAX_REPLAY_ATTEMPTS times, or was removed by clearQueue.
NothingLost ==
    \A e \in 1 .. queued :
        store[e] = None =>
            e \in Applied \/ e \in cleared \/ rejections[e] = MaxAttempts

\* Writes take effect in the order they were queued: an entry is applied for
\* the first time before every later one, unless the server had rejected it or
\* clearQueue had removed it.
FirstInOrder ==
    \A i, j \in DOMAIN first :
        i < j /\ first[j] < first[i] =>
            rejections[first[j]] > 0 \/ first[j] \in cleared

\* An entry no engine of this browser ever gets out of the store as things are:
\* it is never sent, or the server refuses it and no engine counts rejections.
Blocks(e) == kind[e] = "unsupported" \/ (Tabs = rest /\ ~Acceptable(e))

\* The queue drains: once failures stop, an entry stays stored only behind an
\* entry that blocks it.  Over REST alone that may be an entry that was applied
\* and whose answer was lost.
QueueDrains ==
    <>[](\A e \in Queue : \E b \in Queue : b <= e /\ Blocks(b))

=============================================================================

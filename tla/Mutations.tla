------------------------------ MODULE Mutations ------------------------------
(***************************************************************************)
(* The write paths over the triples table, statement by statement, as      *)
(* concurrent clients run them:                                            *)
(*                                                                         *)
(*   mutate   POST /api/mutate and /api/batch  (api/rest.rs, api/batch.rs)  *)
(*   ws       the WebSocket mutation           (api/ws.rs)                 *)
(*   create   POST   /api/data/:entity         (api/rest.rs)               *)
(*   patch    PATCH  /api/data/:entity/:id     (api/rest.rs)               *)
(*   delete   DELETE /api/data/:entity/:id     (api/rest.rs)               *)
(*   rewrite  retract, then set_triples, each its own transaction: the     *)
(*            metadata writers (tables/mod.rs, views/mod.rs), seen through *)
(*            one of the attributes they rewrite                           *)
(*                                                                         *)
(* All but rewrite run in one PostgreSQL transaction (READ COMMITTED) and  *)
(* call authorize_mutation, which takes pg_advisory_xact_lock on the entity *)
(* id and reads the entity.  The TTL sweeper runs beside them and takes no *)
(* lock.  Where a path draws its tx_id differs, and is modelled: mutate    *)
(* and ws before any lock, create and delete after it, patch only after    *)
(* the old values have been retracted.                                     *)
(***************************************************************************)
EXTENDS TripleStore, Sequences

CONSTANTS
    Clients,        \* request handlers running concurrently
    Kinds,          \* the write paths in use
    MaxOps,         \* operations per request
    MaxRequests,    \* requests, and sweeps of the TTL sweeper, in a behaviour
    UseTtl          \* {FALSE}, or BOOLEAN when requests may carry $ttl

AllKinds == {"mutate", "ws", "create", "patch", "delete", "rewrite"}

ASSUME KindsAssumption == Kinds \subseteq AllKinds /\ UseTtl \subseteq BOOLEAN

ASSUME BoundsAssumption == MaxOps \in Nat \ {0} /\ MaxRequests \in Nat

VARIABLES
    req,            \* the request each client is serving
    pc,             \* the statement it is about to execute
    pos,            \* the operation of the request it is at
    tx,             \* its tx_id (0 before it is drawn)
    creating,       \* what authorize_mutation answered
    buf,            \* inputs collected and not yet inserted (all_triples)
    del,            \* committed rows its open transaction has updated
    add,            \* rows its open transaction has written
    locks,          \* entities whose advisory lock its transaction holds
    notified,       \* tx_ids announced with pg_notify('ddb_changes', ...)
    roots,          \* tx_ids with a recorded Merkle root
    served,         \* requests and sweeps so far, bounded by MaxRequests
    sweep           \* the sweeper's UPDATE: rows to visit, rows updated, new rows

clientVars == <<req, pc, pos, tx, creating, buf, del, add, locks>>
vars == <<triples, seq, clientVars, notified, roots, served, sweep>>

Op == [op : {"insert", "update", "upsert", "delete"},
       ent : Entities, attrs : SUBSET Attrs]

NoReq == [kind |-> "none", ops |-> <<>>, ttl |-> FALSE]

Requests ==
    [kind : Kinds, ops : UNION {[1 .. n -> Op] : n \in 1 .. MaxOps}, ttl : UseTtl]

NoSweep == [todo |-> {}, del |-> {}, add |-> {}]

PCs == {"idle", "tx", "auth", "retract", "insert", "commit", "ttl", "root"}

TypeOK ==
    /\ triples \subseteq Row
    /\ seq \in Nat
    /\ req \in [Clients -> Requests \cup {NoReq}]
    /\ pc \in [Clients -> PCs]
    /\ pos \in [Clients -> Nat]
    /\ tx \in [Clients -> Nat]
    /\ creating \in [Clients -> BOOLEAN]
    /\ buf \in [Clients -> SUBSET (Entities \X AllAttrs \X Nat)]
    /\ del \in [Clients -> SUBSET Row]
    /\ add \in [Clients -> SUBSET Row]
    /\ locks \in [Clients -> SUBSET Entities]
    /\ notified \subseteq Nat
    /\ roots \subseteq Nat
    /\ served \in 0 .. MaxRequests
    /\ sweep \in [todo : SUBSET Row, del : SUBSET Row, add : SUBSET Row]

Init ==
    /\ TripleStoreInit
    /\ req = [c \in Clients |-> NoReq]
    /\ pc = [c \in Clients |-> "idle"]
    /\ pos = [c \in Clients |-> 1]
    /\ tx = [c \in Clients |-> 0]
    /\ creating = [c \in Clients |-> FALSE]
    /\ buf = [c \in Clients |-> {}]
    /\ del = [c \in Clients |-> {}]
    /\ add = [c \in Clients |-> {}]
    /\ locks = [c \in Clients |-> {}]
    /\ notified = {}
    /\ roots = {}
    /\ served = 0
    /\ sweep = NoSweep

-----------------------------------------------------------------------------

\* What a statement of c's transaction sees.
View(c) == (triples \ del[c]) \cup add[c]

\* Rows that open transactions, and the sweeper's UPDATE, have updated and not
\* yet committed.
RowsLocked == sweep.del \cup UNION {del[c] : c \in Clients}

CurrentOp(c) == req[c].ops[pos[c]]

LastOp(c) == pos[c] = Len(req[c].ops)

Goto(c, label) == pc' = [pc EXCEPT ![c] = label]

\* The statement that follows, by path, where no loop is involved.
Route ==
    [mutate  |-> [tx |-> "auth",    auth |-> "retract"],
     ws      |-> [tx |-> "auth",    auth |-> "retract"],
     create  |-> [tx |-> "insert",  auth |-> "tx"],
     patch   |-> [tx |-> "insert",  auth |-> "retract"],
     delete  |-> [tx |-> "retract", auth |-> "tx"],
     rewrite |-> [tx |-> "insert",  auth |-> "retract"]]

\* Which operations a path performs, on which ids.  A create draws a new
\* UUID: an entity nobody has written or is writing.  Only a delete and a patch
\* that just sets $ttl carry no data (an empty object in another operation is
\* accepted by the code and left out here: it sets no attribute).
Admissible(r) ==
    LET o == r.ops[1] IN
    /\ r.kind \notin {"mutate", "ws"} => Len(r.ops) = 1
    /\ r.kind = "ws" => \A i \in DOMAIN r.ops : r.ops[i].op # "upsert"
    /\ r.kind = "patch" => o.op = "update"
    /\ r.kind = "rewrite" => o.op = "update" /\ ~r.ttl /\ \E a \in Attrs : o.attrs = {a}
    /\ r.kind = "delete" => o.op = "delete" /\ ~r.ttl
    /\ r.kind = "create" =>
        /\ o.op = "insert"
        /\ o.ent \notin {t.ent : t \in triples}
        /\ \A c \in Clients : \A i \in DOMAIN req[c].ops : req[c].ops[i].ent # o.ent
    /\ r.kind \in {"mutate", "ws"} => ~r.ttl
    /\ \A i \in DOMAIN r.ops :
        IF r.ops[i].op = "delete" THEN r.ops[i].attrs = {}
        ELSE r.ops[i].attrs # {} \/ (r.kind = "patch" /\ r.ttl)

\* A request arrives; the transaction begins.
Begin(c) ==
    /\ pc[c] = "idle"
    /\ served < MaxRequests
    /\ served' = served + 1
    /\ \E r \in Requests :
        /\ Admissible(r)
        /\ req' = [req EXCEPT ![c] = r]
        /\ Goto(c, IF r.kind \in {"mutate", "ws"} THEN "tx"
                   ELSE IF r.kind = "rewrite" THEN "retract" ELSE "auth")
    /\ UNCHANGED <<triples, seq, pos, tx, creating, buf, del, add, locks, notified, roots, sweep>>

\* next_tx_id_in_tx
NextTxId(c) ==
    /\ pc[c] = "tx"
    /\ seq' = seq + 1
    /\ tx' = [tx EXCEPT ![c] = seq + 1]
    /\ Goto(c, Route[req[c].kind].tx)
    /\ UNCHANGED <<triples, req, pos, creating, buf, del, add, locks,
                   notified, roots, served, sweep>>

\* The checks of authorize_mutation on the entity as the transaction sees it.
Authorized(c, o) ==
    LET existing == get_entity(View(c), o.ent) IN
    IF existing = {} THEN o.op \in {"insert", "upsert"}
    ELSE /\ \E r \in existing : r.attr = TypeAttr
         /\ o.op # "insert"

\* Mutant: an upsert of an absent entity does not assert its type.
InputsOfUntyped(o, isNew, n) ==
    {<<o.ent, a, n>> : a \in
        IF o.op = "delete" THEN {}
        ELSE IF o.op = "insert" THEN o.attrs \cup {TypeAttr}
        ELSE o.attrs}

\* What the operation will insert.
InputsOf(o, isNew, n) ==
    {<<o.ent, a, n>> : a \in
        IF o.op = "delete" THEN {}
        ELSE IF o.op = "insert" \/ (o.op = "upsert" /\ isNew) THEN o.attrs \cup {TypeAttr}
        ELSE o.attrs}

\* Mutant: the advisory lock is not taken.
AuthorizeUnlocked(c) ==
    LET o == CurrentOp(c) IN
    /\ pc[c] = "auth"
    /\ Authorized(c, o)
    /\ creating' = [creating EXCEPT ![c] = (get_entity(View(c), o.ent) = {})]
    /\ Goto(c, Route[req[c].kind].auth)
    /\ UNCHANGED <<triples, seq, req, pos, tx, buf, del, add, locks, notified, roots, served, sweep>>

\* authorize_mutation: wait for the entity's lock, read the entity, decide.
Authorize(c) ==
    LET o == CurrentOp(c) IN
    /\ pc[c] = "auth"
    /\ \A d \in Clients \ {c} : o.ent \notin locks[d]
    /\ Authorized(c, o)
    /\ locks' = [locks EXCEPT ![c] = @ \cup {o.ent}]
    /\ creating' = [creating EXCEPT ![c] = (get_entity(View(c), o.ent) = {})]
    /\ Goto(c, Route[req[c].kind].auth)
    /\ UNCHANGED <<triples, seq, req, pos, tx, buf, del, add, notified, roots, served, sweep>>

\* The rows the operation retracts: the attributes it sets, or everything.
ToRetract(c, o) ==
    LET live == get_entity(View(c), o.ent) IN
    IF o.op = "delete" THEN live
    ELSE IF o.op = "insert" THEN {}
    ELSE {r \in live : r.attr \in o.attrs}

\* The batch of inputs is flushed after each operation (mutate) or once, after
\* the last one (ws); a delete and a patch without data have nothing to insert.
AfterRetract(c) ==
    \/ /\ req[c].kind = "mutate"
       /\ Goto(c, "insert") /\ UNCHANGED pos
    \/ /\ req[c].kind = "ws" /\ ~LastOp(c)
       /\ Goto(c, "auth") /\ pos' = [pos EXCEPT ![c] = @ + 1]
    \/ /\ req[c].kind = "ws" /\ LastOp(c)
       /\ Goto(c, "insert") /\ UNCHANGED pos
    \/ /\ req[c].kind = "patch" /\ CurrentOp(c).attrs # {}
       /\ Goto(c, "tx") /\ UNCHANGED pos
    \/ /\ req[c].kind \in {"patch", "delete"} /\ CurrentOp(c).attrs = {}
       /\ Goto(c, "commit") /\ UNCHANGED pos

\* Mutant: the retraction is stamped with the request's own tx_id.
RetractRowOwnTx(c) ==
    /\ pc[c] = "retract"
    /\ \E r \in ToRetract(c, CurrentOp(c)) \ RowsLocked :
        /\ add' = [add EXCEPT ![c] = (@ \ {r}) \cup {Stamp(r, tx[c])}]
        /\ del' = [del EXCEPT ![c] = @ \cup ({r} \cap triples)]
    /\ UNCHANGED <<triples, seq, req, pc, pos, tx, creating, buf, locks,
                   notified, roots, served, sweep>>

\* A row that retract_in_tx, or retract, is to update: the statement, one per
\* attribute, waits for the row's lock, and the trigger draws the stamp then,
\* while other transactions run on.  (A row of the attribute that a metadata
\* writer commits before the statement ends is taken as matched.)
RetractRow(c) ==
    /\ pc[c] = "retract"
    /\ \E r \in ToRetract(c, CurrentOp(c)) \ RowsLocked :
        /\ add' = [add EXCEPT ![c] = (@ \ {r}) \cup {Stamp(r, seq + 1)}]
        /\ del' = [del EXCEPT ![c] = @ \cup ({r} \cap triples)]
    /\ seq' = seq + 1
    /\ UNCHANGED <<triples, req, pc, pos, tx, creating, buf, locks,
                   notified, roots, served, sweep>>

\* Every attribute of the operation is retracted; its inputs join the batch.
RetractEnds(c) ==
    LET o == CurrentOp(c) IN
    /\ pc[c] = "retract"
    /\ req[c].kind # "rewrite"
    /\ ToRetract(c, o) = {}
    /\ buf' = [buf EXCEPT ![c] = @ \cup InputsOf(o, creating[c], pos[c])]
    /\ AfterRetract(c)
    /\ UNCHANGED <<triples, seq, req, tx, creating, del, add, locks,
                   notified, roots, served, sweep>>

EndTransaction(c) ==
    /\ del' = [del EXCEPT ![c] = {}]
    /\ add' = [add EXCEPT ![c] = {}]
    /\ locks' = [locks EXCEPT ![c] = {}]

\* retract outside a transaction: the statement commits by itself, and what
\* follows is a transaction of its own.
RetractCommits(c) ==
    LET o == CurrentOp(c) IN
    /\ pc[c] = "retract"
    /\ req[c].kind = "rewrite"
    /\ ToRetract(c, o) = {}
    /\ triples' = View(c)
    /\ EndTransaction(c)
    /\ buf' = [buf EXCEPT ![c] = InputsOf(o, FALSE, pos[c])]
    /\ Goto(c, "tx")
    /\ UNCHANGED <<seq, req, pos, tx, creating, notified, roots, served, sweep>>

\* A create authorizes and draws its tx_id; its inputs are ready then.
InsertInputs(c) ==
    IF req[c].kind = "create" THEN InputsOf(CurrentOp(c), TRUE, 1) ELSE buf[c]

\* Mutant: NOTIFY is sent beside the transaction.
InsertNotifies(c) ==
    /\ pc[c] = "insert"
    /\ add' = [add EXCEPT ![c] =
                 @ \cup Inserted(InsertInputs(c), tx[c], req[c].kind = "create" /\ req[c].ttl)]
    /\ buf' = [buf EXCEPT ![c] = {}]
    /\ Goto(c, "commit")
    /\ notified' = notified \cup (IF req[c].kind = "rewrite" THEN {tx[c]} ELSE {})
    /\ UNCHANGED <<triples, seq, req, pos, tx, creating, del, locks, roots, served, sweep>>

\* set_triples_in_tx, then the next operation of a mutate request.
Insert(c) ==
    /\ pc[c] = "insert"
    /\ add' = [add EXCEPT ![c] =
                 @ \cup Inserted(InsertInputs(c), tx[c], req[c].kind = "create" /\ req[c].ttl)]
    /\ buf' = [buf EXCEPT ![c] = {}]
    /\ \/ /\ req[c].kind = "mutate" /\ ~LastOp(c)
          /\ Goto(c, "auth") /\ pos' = [pos EXCEPT ![c] = @ + 1]
       \/ /\ req[c].kind = "mutate" => LastOp(c)
          /\ Goto(c, "commit") /\ UNCHANGED pos
    /\ UNCHANGED <<triples, seq, req, tx, creating, del, locks, notified, roots, served, sweep>>

\* The handler returns; its locals are gone.
Return(c) ==
    /\ Goto(c, "idle")
    /\ req' = [req EXCEPT ![c] = NoReq]
    /\ pos' = [pos EXCEPT ![c] = 1]
    /\ tx' = [tx EXCEPT ![c] = 0]
    /\ creating' = [creating EXCEPT ![c] = FALSE]
    /\ buf' = [buf EXCEPT ![c] = {}]

\* What a handler does once its transaction has committed: record the Merkle
\* root (set_triples), apply $ttl (patch), or return.
AfterCommit(c) ==
    \/ /\ req[c].kind = "rewrite"
       /\ Goto(c, "root") /\ UNCHANGED <<req, pos, tx, creating, buf>>
    \/ /\ req[c].kind = "patch" /\ req[c].ttl
       /\ Goto(c, "ttl") /\ UNCHANGED <<req, pos, tx, creating, buf>>
    \/ /\ req[c].kind # "rewrite" /\ ~(req[c].kind = "patch" /\ req[c].ttl)
       /\ Return(c)

\* commit.  Only set_triples (rewrite) sends pg_notify in its transaction.
Commit(c) ==
    /\ pc[c] = "commit"
    /\ triples' = View(c)
    /\ EndTransaction(c)
    /\ notified' = notified \cup (IF req[c].kind = "rewrite" THEN {tx[c]} ELSE {})
    /\ AfterCommit(c)
    /\ UNCHANGED <<seq, roots, served, sweep>>

\* Any statement may fail, authorization may be refused, PostgreSQL may break
\* a deadlock and the process may die: an open transaction rolls back, and what
\* was to follow a commit does not happen.
Rollback(c) ==
    /\ pc[c] # "idle"
    /\ EndTransaction(c)
    /\ Return(c)
    /\ UNCHANGED <<triples, seq, notified, roots, served, sweep>>

\* set_entity_ttl: after the patch has committed, a statement of its own.  An
\* UPDATE of the sweeper that comes to these rows finds the later deadline, or
\* none, and passes them over.
SetEntityTtl(c) ==
    LET rows == get_entity(triples, CurrentOp(c).ent) IN
    /\ pc[c] = "ttl"
    /\ rows \cap RowsLocked = {}
    /\ \E ttl \in BOOLEAN : triples' = (triples \ rows) \cup WithTtl(rows, ttl)
    /\ Return(c)
    /\ sweep' = [sweep EXCEPT !.todo = @ \ rows]
    /\ UNCHANGED <<seq, del, add, locks, notified, roots, served>>

\* record_merkle_root after the commit of set_triples (a failure, Rollback, is
\* logged and ignored).
RecordRoot(c) ==
    /\ pc[c] = "root"
    /\ roots' = roots \cup {tx[c]}
    /\ Return(c)
    /\ UNCHANGED <<triples, seq, del, add, locks, notified, served, sweep>>

\* expire_triples: an UPDATE of the committed rows whose deadline has passed,
\* here those of the entities in E, in a transaction of its own.
ExpireBegins(E) ==
    /\ sweep = NoSweep
    /\ sweep' = [NoSweep EXCEPT !.todo = {r \in Live(triples) : r.ttl /\ r.ent \in E}]
    /\ sweep' # NoSweep
    /\ served < MaxRequests
    /\ served' = served + 1
    /\ UNCHANGED <<triples, seq, clientVars, notified, roots>>

\* It comes to a row: it waits for the row's lock, and the trigger stamps it.
ExpireRow ==
    /\ \E r \in (sweep.todo \cap triples) \ RowsLocked :
        sweep' = [todo |-> sweep.todo \ {r}, del |-> sweep.del \cup {r},
                  add |-> sweep.add \cup {Stamp(r, seq + 1)}]
    /\ seq' = seq + 1
    /\ UNCHANGED <<triples, clientVars, notified, roots, served>>

\* It comes to a row that a transaction has retracted since the UPDATE began.
ExpireSkips ==
    /\ \E r \in sweep.todo \ triples : sweep' = [sweep EXCEPT !.todo = @ \ {r}]
    /\ UNCHANGED <<triples, seq, clientVars, notified, roots, served>>

\* Mutant: the sweeper deletes the rows.
ExpireDeletes ==
    /\ sweep.todo = {} /\ sweep # NoSweep
    /\ triples' = triples \ sweep.del
    /\ sweep' = NoSweep
    /\ UNCHANGED <<seq, clientVars, notified, roots, served>>

\* Mutant: the retraction is backfilled with the asserting tx_id.
ExpireBackfills ==
    /\ sweep.todo = {} /\ sweep # NoSweep
    /\ triples' = (triples \ sweep.del) \cup {Stamp(r, r.tx) : r \in sweep.del}
    /\ sweep' = NoSweep
    /\ UNCHANGED <<seq, clientVars, notified, roots, served>>

\* The UPDATE has visited its rows, and commits.
ExpireCommits ==
    /\ sweep.todo = {} /\ sweep # NoSweep
    /\ triples' = (triples \ sweep.del) \cup sweep.add
    /\ sweep' = NoSweep
    /\ UNCHANGED <<seq, clientVars, notified, roots, served>>

\* The UPDATE fails, by a deadlock with a request or with its process.
ExpireFails ==
    /\ sweep # NoSweep
    /\ sweep' = NoSweep
    /\ UNCHANGED <<triples, seq, clientVars, notified, roots, served>>

ClientStep(c) ==
    \/ Begin(c)
    \/ NextTxId(c)
    \/ Authorize(c)
    \/ RetractRow(c)
    \/ RetractEnds(c)
    \/ RetractCommits(c)
    \/ Insert(c)
    \/ Commit(c)
    \/ Rollback(c)
    \/ SetEntityTtl(c)
    \/ RecordRoot(c)

SweepStep ==
    \/ \E E \in SUBSET Entities : ExpireBegins(E)
    \/ ExpireRow
    \/ ExpireSkips
    \/ ExpireCommits
    \/ ExpireFails

Next ==
    \/ \E c \in Clients : ClientStep(c)
    \/ SweepStep

Spec == Init /\ [][Next]_vars

-----------------------------------------------------------------------------
(* Properties *)

\* An attribute of an entity has at most one live value, whatever requests
\* and sweeps interleave: readers that build an object from the live rows
\* (data_get, authorize_mutation) do not have to choose.
SingleValued ==
    \A r, q \in Live(triples) : r.ent = q.ent /\ r.attr = q.attr => r = q

\* A row is retracted strictly after the tx that asserted it, although the
\* stamp and the tx_id are drawn by different statements, possibly of
\* different clients, in an order that the commits do not follow: a
\* point-in-time read at the asserting tx never misses the row.
RetractedLater == \A r \in triples : r.rtx # 0 => r.rtx > r.tx

\* Nothing is erased: a committed row stays, with its value and its tx, and
\* once retracted keeps its stamp, although updates replace rows, transactions
\* overwrite their own rows and the sweeper works beside them.
SameAssertion(q, r) == q.ent = r.ent /\ q.attr = r.attr /\ q.val = r.val /\ q.tx = r.tx

HistoryKept ==
    [][\A r \in triples : \E q \in triples' :
        SameAssertion(q, r) /\ (r.rtx # 0 => q.rtx = r.rtx)]_vars

\* No two open transactions have written the same entity: the advisory lock
\* covers everything a request touches, from its check to its commit.
WritersApart ==
    \A c, d \in Clients :
        c # d => {r.ent : r \in add[c]} \cap {r.ent : r \in add[d]} = {}

\* Point-in-time reads are repeatable: once no request being served, and no
\* sweep in progress, has drawn a tx_id or a retraction stamp at or below t, the
\* answers get_entity_at may give for t never change again, although tx_ids,
\* stamps and commits come in different orders and the sweeper stamps rows under
\* nobody's tx_id, waiting for requests between one row and the next.
Settled(t) ==
    /\ \A c \in Clients :
        /\ tx[c] = 0 \/ tx[c] > t
        /\ \A r \in add[c] : r.rtx = 0 \/ r.rtx > t
    /\ \A r \in sweep.add : r.rtx > t

PastIsStable ==
    [][\A t \in 1 .. seq : Settled(t) =>
        \A e \in Entities : get_entity_at(triples', e, t) = get_entity_at(triples, e, t)]_vars

\* A tx that listeners are told of (pg_notify inside the transaction of
\* set_triples), or that the audit trail has a root for, is a committed one,
\* wherever the request failed; and the root comes second.
AnnouncedIsCommitted ==
    /\ notified \subseteq {r.tx : r \in triples}
    /\ roots \subseteq notified
=============================================================================

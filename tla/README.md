# DarshJDB: TLA+ models, model checks and proofs

This directory holds TLA+ modules for the stateful core of the DarshJDB server
(`packages/server`, Rust) and of its TypeScript client (`packages/client-core`):
leader election over PostgreSQL advisory locks, the triple store and all its
write paths, the audit chain and its anchoring, user sessions, the query cache,
the reactive subscriptions from commit to client, presence, chunked uploads and
the client's offline queue. Each definition is translated from the lines
`PROJECT.json` names under `map`. Paths below are relative to
`packages/server/src` unless they start with `src/`, `packages/` or `docs/`;
`query.ts`, `sync.ts` and the like are in `packages/client-core/src`.

## 1. The system

| Component | State | Operations | Interacts with |
|---|---|---|---|
| Triple store (`triple_store/mod.rs`) | table `triples`: rows asserted under a `tx_id`, retracted at most once; sequence `darshan_tx_seq` | `set_triples(_in_tx)`, `retract(_in_tx)`, `get_entity(_at)`, `set_entity_ttl`, `expire_triples` | every write path; a trigger stamps retractions |
| Mutation API (`api/rest.rs`, `api/ws.rs`, `api/batch.rs`) | one PostgreSQL transaction per request, a transaction-level advisory lock per entity | `mutate`, `data_create/patch/delete`, WebSocket `mut`, batch | triple store; cache invalidation; `ChangeEvent` broadcast |
| Metadata writers (`tables/mod.rs`, `views/mod.rs`) | tables and views as triples | create, update (retract, then `set_triples`), delete | triple store, without entity locks |
| TTL sweeper (`main.rs`) | none | `expire_triples` every 30 s on the leader | triple store, `ChangeEvent` |
| Audit trail and anchoring (`audit/mod.rs`, `anchor/mod.rs`, `main.rs`) | tables `tx_merkle_roots` (a hash chain) and `anchor_receipts`; the task's baseline | `record_merkle_root`, `verify_chain`, `generate_proof`, `verify_proof`, `compute_batch_root`, `run_anchor_cycle`, `insert_receipt` | `set_triples`, `bulk_load`; an external chain |
| Sessions and magic links (`auth/session.rs`, `auth/magic_link.rs`) | tables `sessions` (unique on user and device among unrevoked rows) and `magic_link_tokens` | `create_session`, `refresh_session`, `validate_token`, `revoke_session`, link verification | every authenticated request |
| Leader election (`cluster/mod.rs`) | `leader_conn`, `is_leader`, `ClusterState`, PostgreSQL session locks | `spawn_singleton_task`, `spawn_singleton_supervisor` | the sqlx pool, the sweeper |
| Query cache (`cache/mod.rs`) | a `DashMap` of results with TTL and LRU | `get`, `set`, `invalidate_by_entity_type` | `query`, every mutation handler |
| Subscriptions (`api/ws.rs`, `sync/session.rs`) | per connection: subscriptions, snapshots, a broadcast receiver of 4096 events | `handle_subscribe`, `handle_unsubscribe`, refresh on an event or every 15 s | client, change channel, query engine |
| Presence (`sync/presence.rs`, `api/ws.rs`, `presence.ts`) | a map of rooms with entries, TTL and a rate window; the client's throttle timer | join, state, leave, cleanup of a socket; publish, re-join | the WebSocket |
| TypeScript client (`query.ts`, `client.ts`) | pending requests, one `ActiveSubscription` per distinct query | `subscribe`, its return value, `send`, reconnect | the WebSocket |
| Offline queue (`sync.ts`, `transaction.ts`, `rest.ts`) | an IndexedDB store shared by all tabs | `enqueue`, `replayQueue`, `clearQueue`, `submitOps` | WebSocket or REST |
| Chunked uploads (`api/chunked_upload.rs`, `storage/mod.rs`) | a row of `chunked_uploads`, staged files under `/tmp`, the stored object | init, PUT of a chunk, assembly, sweeper of stale uploads | storage backend |

Everything else (query language, permissions, schema, functions, webhooks, MCP,
CLI, SDKs, ...) is listed under `components` in `PROJECT.json` and in section 8.

What is hard here: request handlers of several replicas run their statements
interleaved, in READ COMMITTED transactions, and nothing but the advisory lock
keeps them apart; `tx_id`s, retraction stamps and commits come in three
different orders; PostgreSQL ends sessions whenever it likes, and sqlx gives
back to the pool connections that still hold locks; change events are
best-effort, while the client's rows are built from diffs; handlers commit first
and invalidate, notify, set TTLs and record roots afterwards; files are staged
under names that two requests share; tabs replay one queue without knowing of
each other. `hazards` in `PROJECT.json` lists these at their lines with the
properties that would catch them going wrong.

## 2. Modules

    PgSessions ──► Leadership ──► SingletonTask ╌╌ instance ╌╌┐
        │              └──────────────────────────────┐       │
        └────────► SingletonSupervisor ───────────► SingletonProofs

    TripleStore ──► Mutations ──► MutationsRefinement ╌╌(refines)╌╌► EntityStore
                                      ├──► MCMutations
                                      └──► MutationsProofs

    AuditChain ──┐
    MerkleTree ──┴► AuditTrail ──► AuditChainProofs

    QueryCache ──┬► QueryHandlers ──► MCQueryCache
                 │      └╌╌╌╌╌╌ instance ╌╌╌╌┐
    QuerySubscriptions ─┴──────────────► QueryProofs

    AuthSessions ──► MCAuthSessions         Presence ──► MCPresence
        └──────────► AuthSessionsProofs         └──────► PresenceProofs

    ChunkedUpload ──► ChunkedUploadProofs   OfflineQueue ──► OfflineQueueProofs

An arrow is `EXTENDS`. The components are composed where they meet in one state:
the six write paths, the sweeper and the store in `Mutations`; writers, chain and
anchor task in `AuditChain`; server and client in `QuerySubscriptions`,
`Presence` and `OfflineQueue`; two kinds of handlers in `QueryHandlers`. Where one
proof module is about two machines, it extends one and has an instance of the other.

### PgSessions, SingletonTask, SingletonSupervisor

`PgSessions` is the external part: the sessions behind a replica's pool and one
session-level advisory lock. `sess[s]` is `"closed"`, `"open"`, `"lost"` (the
server ended it, the loop has not noticed) or `"orphan"` (the client end is
gone, the server has not noticed and keeps the lock). A failed
`pg_try_advisory_lock` may mean that the session ended, that only the statement
failed (the live session returns to the pool *with* its lock, perhaps the one the
failed call had just taken) or that the socket broke.

`SingletonTask` is the loop of `spawn_singleton_task`: `pc[r]` says whether it
waits for a tick, has a connection and is about to probe, or runs the body;
`isLeader` (declared in `Leadership`, with what the loop promises of it) is
`is_leader` and the `ClusterState` entry set with it. The body gets
the pool and not the leader connection, so the session may end while it runs.
`SingletonSupervisor` replaces the body by a long-lived worker: `worker` is the
`JoinHandle`, `dying` an aborted task that has not reached an await yet, `leading`
what `/cluster/status` shows. In the server at this commit only the sweeper uses
`spawn_singleton_task`; the supervisor has no caller yet.

### TripleStore, Mutations, EntityStore

`TripleStore` holds the table and the set-level meaning of its statements. A row
is `[ent, attr, val, tx, rtx, ttl]`; `rtx = 0` is "not retracted". The value is
abstracted to the operation, within its request, that wrote it; a deadline to
whether there is one.

`Mutations` runs any number of clients, each serving a request through one of six
write paths, a statement per step: `mutate` (also `/api/batch`), `ws`, `create`,
`patch`, `delete`, and `rewrite` (the metadata writers). `del[c]` and `add[c]` are
what the open transaction has updated and written, `View(c)` what its statements
see, `locks[c]` its advisory locks, `buf[c]` the collected inputs. Where each
path draws its `tx_id` differs in the code and in the model: `mutate` and `ws`
before any lock, `create` and `delete` after it, `patch` after it has retracted.
An `UPDATE` that retracts is not one step: it comes to its rows one after another,
waits for a row another transaction has updated, and the trigger draws the row's
stamp when it gets there (`RetractRow`, until `RetractEnds`, or `RetractCommits` where
the statement is a transaction of its own). `Rollback` stands for every failure of a
statement, refusal, broken deadlock or crash, in any state.

The sweeper runs beside everything else, in the same way: `sweep` holds the rows its
`UPDATE` has still to visit and what it has updated; `ExpireBegins`, `ExpireRow`,
`ExpireSkips`, `ExpireCommits`, `ExpireFails`. `get_entity_at` is the *set* of answers
the query may give, because `DISTINCT ON` takes any of the rows tied at the highest
`tx_id`.

`EntityStore` is what the API promises: a map of objects changed by whole requests,
one at a time. `MutationsRefinement` maps the live rows to it (`objects`), an
attribute's value being the pair of `tx_id` and operation that set it; `TxIds` are the
`tx_id`s that may occur in such a pair.

### AuditChain, MerkleTree

A writer draws its `tx_id`, commits its triples, reads the newest chained root and
inserts its own row: four statements, the last two after the commit, with a failure
or a crash possible before each (`WriteFails`). `roots` is `tx_merkle_roots`; since
hashes are taken to be free of collisions, a chained root is the sequence of the
`tx_id`s it chains and the all-zero root is the empty sequence. `overlapped` is a
ghost: a `tx_id` was drawn while another write was under way. `task` is the anchor
task of `main.rs`: its baseline, the `MAX(tx_id)` it saw, and the batch it hashes,
anchors and persists, each of which may fail, with restarts.

`MerkleTree` has the tree and its proofs as the pure functions they are
(`merkle_root`, `generate_proof`, `verify_proof`, with the odd node paired with
itself); a loop of the code is a recursive function of its number of iterations.
`AuditTrail` puts the two together: what a recorded root promises about proofs against
it, for all leaf sequences up to a bound.

### AuthSessions

One user's rows of `sessions` under concurrent requests. `create_session` is one
transaction of several statements: revoke the device's old session, count, choose
the oldest ones, revoke them, insert, commit; a statement picks its rows in its
snapshot, waits for the transactions that hold them and re-checks its `WHERE`, as
READ COMMITTED does, and the unique index makes the insert wait or fail.
`refresh_session` checks the deadline, the device, and rotates in separate statements.
`row` is the committed table (`gen` numbers the refresh token a row accepts),
`req[c]` a request with its open transaction (`evicts`: what it has revoked and not
yet committed; two ghosts: `alone`, no other login has overlapped it, and `missed`,
the expired and unrevoked sessions its count left out), `expired` how
many sessions are past their deadline, `link` and `redeemed` the magic links.

### QueryCache

`QueryCache` is the map and its calls, `QueryHandlers` the readers and writers that use
it. Each call on the `DashMap` is a step; `set` reads the size, chooses a victim,
evicts and inserts in separate steps, the invalidation visits keys one by one and
then removes them one by one. A result is abstracted to the number of writes it
shows; which entry is least recently used and when a TTL passes is left open.
`QuietWrite` is a write that does not invalidate (sweeper, metadata, other
replicas), `GiveUp` a handler that fails between its commit and the invalidation.

### QuerySubscriptions

One live query from end to end. `db` is its result; `events`, `lagged`, `subs`,
`snap` and `todo` belong to the connection task (its broadcast receiver, the
session's subscriptions, the stored snapshots, the refresh loop in progress);
`inbox` and `outbox` are the frames on the wire; `cbs`, `epoch`, `pend`, `subId`,
`rows` are the client's. A call of `openSubscription`, its request id and the
server's `sub_id` are one number. `rows[i]` is the sequence of copies of row `i` in
the client's list, because `applyPush` appends and a list may hold a row twice.
Writes are announced after the commit by this replica or, when another replica's
data API made them, not at all. A connection's end is one step for both sides:
the server keeps nothing of a session that a new session could see.

### Presence

One room. `mapped` is the room in `PresenceManager.rooms`, `entries` and `rate` its
users and its updates of the current second. A socket's handler serves frames one
by one, and cleans up when it notices the end of the socket, perhaps after the same
user has come back on another one. `join` looks the room up and updates it after
the map's lock is released, so rooms are numbered and only the mapped one counts.
The client's part is its `joined` flag, its throttle timer and its re-join after a
reconnect.

### ChunkedUpload

One upload. A PUT creates `{index}.part.tmp`, writes, renames, records its index,
re-reads the row and, when it sees all chunks, reads the parts, stores the object,
writes the sidecar, removes the directory and marks the row: each is a step and may
be the last (`PutFails`, `ReadFails`). A file is an inode named after the request
that created it; `tmp` and `part` say which inode is behind a name and `whole` which
hold their chunk. `put_object` writes in place (`tokio::fs::write`), so storing is
truncating the file (`StoreOpen`), writing it chunk by chunk (`StoreChunk`) and the
same for the metadata (`SidecarOpen`, `StoreSidecar`); `object` is the set of chunks the
file holds in their place, and two assemblies write the same file. The ghosts
`finished` and `interrupted` say that a `put_object` has run to its end, and that one
was cut short since the file was last truncated. The sweeper deletes the row and
then the directory.

### OfflineQueue

Every tab has its own `SyncEngine` over one IndexedDB store. `tab[t]` is where
`replayQueue` is, with its snapshot of the queue and the attempts it read; each
await is a step, between which other tabs, the server and the application act and
the page may close. `late` counts the requests the client gave up on and the server
may still execute. An entry is one operation on one record: `set`, `merge` or
`delete`, which the client sends as insert, update and delete, one the server rejects
whatever happens, or one `submitOps` throws on without sending. The server decides by
whether the record exists (`Acceptable`, from `authorize_mutation_inner`, which both
transports go through): an insert of a record that exists is a conflict, an update or
delete of one that does not is not found. So the repeat of an applied `set` or
`delete` is *refused*; `OtherWrites` are other clients of the same records. `rest` is the
set of tabs whose client was made with transport `rest`.

## 3. Runs

| Run | Checks | Shows |
|---|---|---|
| `singleton` | `LeaderHoldsLock`, `SplitNeedsLostSession`, `BodyKeepsRunning` | leadership rests on the lock or on a session that ended unnoticed; the body is run again after every failure |
| `supervisor` | `WorkerHoldsLock`, `StatusMatchesWorker`, `OverlapIsExplained`, `WorkerKeepsRunning` | worker, lock and status stay in step; overlaps have one of two causes |
| `mutations_rest` | `SingleValued`, `ImplementsEntityStore` | HTTP requests of up to two operations are atomic and serializable |
| `mutations_history` | `RetractedLater`, `AnnouncedIsCommitted`, `HistoryKept`, `PastIsStable` | all six paths and the sweeper: history is kept, a settled past is repeatable, announcements are true |
| `audit` | `ChainIntact`, `ReceiptsCoverHistory`, `BaselineIsAnchored`, `MerkleProofsExact`, `AnchorsCatchUp` | without overlapping writes the chain verifies, receipts cover it and the baseline passes no root that none covers; the task catches up after failures; proofs accept their leaf and nothing else |
| `auth` | `OneSessionPerDevice`, `ConflictNeedsRace`, `LinksAreSingleUse`, `CapRestored`, `RevokedForGood` | racing logins, refreshes and logouts keep the table's rules |
| `cache` | `FreshEntriesInvalidated` | an entry that was current when stored never outlives a later invalidating write |
| `subscriptions` | `TypeOK`, `SnapshotReachesClient`, `SubscriptionsAccountedFor`, `ShowsCurrentRows` | nothing the server takes for sent is lost; the client comes to show the current rows |
| `subscriptions_copies` (violation) | `RowsAreAResult` | the first refresh duplicates every row |
| `presence` | `TypeOK`, `NoGhosts`, `LeftStaysOut`, `RoomsReleased` | nobody without a socket is shown, who left stays out, rooms are not leaked |
| `upload` | `StoredIsWhole`, `ChunksKept`, `CompletedIsStored`, `LastChunkCompletes` | a torn object needs a write cut short or overlapping PUTs of one chunk; no recorded chunk is lost before `put_object` has ended; the last PUT completes the upload |
| `offline` | `TypeOK`, `NothingLost`, `FirstInOrder`, `QueueDrains` | entries survive lost answers and closed pages, first effects keep their order, the queue drains, with REST alone up to the first entry the server refuses |

The violation is described, with the lines that say otherwise, under `findings`.
All type invariants are theorems (section 5); the runs of `QuerySubscriptions`,
`Presence` and `OfflineQueue` check theirs too.

**Bounds.**

| Run | Instance | Why it is enough |
|---|---|---|
| `singleton`, `supervisor` | 2 replicas with 2 connections, 3 faults | the smallest pool in which a replica loses a session, reconnects on another and meets the first again; a failure during the recovery from a failure of each |
| `mutations_rest` | 2 clients, 1 entity, 3 requests of up to 2 operations, no TTL, `TxIds` 1 to 15 | every pairwise conflict of requests, a third meeting what two left; no statement relates two data attributes; three requests draw at most 15 numbers |
| `mutations_history` | 2 clients, 1 entity, 3 requests or sweeps, all six paths and TTLs | every mix of paths and sweeps; a sweep stamps one row of the entity, waits for a patch at the next, and commits last |
| `audit` | 2 writers, 5 transactions, an anchor every 2, 2 faults; up to 9 leaves of 2 hashes | two full anchor cycles and a failed one; 9 leaves give odd levels at three heights of one tree |
| `auth` | 2 requests at a time, 2 devices, 1 link, cap 1, 3 logins, 1 refresh of a session | a login that evicts by device, by count, and both |
| `cache` | 1 type, 2 queries, room for 1 entry, 2 readers, 2 writers, 2 writes | every second insert evicts |
| `subscriptions` | 1 row with 2 values or absent, 2 callers, receiver of capacity 1, 3 writes, 1 re-subscription, 2 faults | the receiver is overrun, the diff treats rows independently |
| `presence` | 2 accounts, 2 pages, 3 sockets, 3 frames besides the re-joins, rate limit 1 | a page that reconnects while its old handler is still there, beside another page |
| `upload` | 2 chunks, 3 PUTs, 1 fault | a repeated PUT racing the assembly; two assemblies writing the object, one of them cut short after the other has removed the parts |
| `offline` | 2 tabs, one or both over REST, 2 entries on 1 record, 2 attempts, 2 faults | a lost answer, its repeat refused up to the limit, or for good over REST, while the other tab replays; the properties relate at most two entries |

Symmetry is used only where no liveness is checked.

**Deadlock.** Requests, uploads, sessions, frames and queued entries are bounded, so
those runs stop when their bounds are used up and say so with
`CHECK_DEADLOCK FALSE`. The leader-election runs and the cache run check deadlock:
loops keep ticking and handlers can always be asked again. A deadlock of two batches
that lock their entities in opposite orders is left to PostgreSQL, which aborts one:
`Rollback`.

## 4. Fairness

`SingletonTask` and `SingletonSupervisor`: weak fairness of each replica's loop (the
tokio interval keeps ticking, awaited calls return or fail, a stopped process is
restarted by its supervisor), of the pool's `idle_timeout`/`max_lifetime` together
with the server's keepalive (`PoolReaps`), and of an aborted task reaching an
await. Faults are never fair and are bounded, so "once the faults are over" is the
meaning of the liveness properties.

`AuditChain`: weak fairness of the anchor task (its interval ticks, and a process
that stopped is started again); writers are not fair. `ChunkedUpload`: weak
fairness of a request the server has begun. `OfflineQueue`: weak fairness of a tab's
progress, which includes that the application calls `replayQueue` again while the
queue is not empty: nothing in the client does, `sync.ts:54` leaves it to the
application. `QueueDrains` says "up to an entry
that blocks the queue" because the code has such entries (section 6). Whether an entry
is refused changes with its record, so what blocks is what the server refuses *as
things are* once the faults are over, and only where no tab counts rejections.

`QuerySubscriptions`: weak fairness of the broadcast after a commit, of the
connection task (incoming frames, the change channel and its ticks, the refresh
loop), of frames arriving, and of the reconnect timer. Callers, writes, timeouts
and drops are not fair. `ShowsCurrentRows` speaks of an *open* subscription: after a
timed-out or refused request nothing reopens it before the next reconnect, which is
what the code does. The mutation, session, cache and presence modules claim no
liveness: a request may always fail.

## 5. Proofs

Checked by TLAPS for every value of the constants. Every invariant and every action
property of the passing runs is stated by a theorem. Each proof module states its
inductive invariants (`IInv`, and where a property needs more, `HInv`, `PInv`, `RInv`,
`SInv`, `CapInv`, `CacheInv`, `TaskIInv`) as a conjunction of named parts, has one lemma
per action, and ends in the theorems listed under `theorems`.

`SingletonProofs`. The strengthening that matters is in the typing: a loop's connection
is one of *its own* replica's sessions and is open or lost, so a step of another replica
cannot change the session a leader stands on, and the lock moves only when its session
ends. For the supervisor this gives `WorkerHoldsLock`, with it `StatusMatchesWorker` and
`OverlapIsExplained`; for the task (`Task!Spec`) `LeaderHoldsLock`, from which
`SplitNeedsLostSession` follows: two leaders on live sessions would both be the lock's
holder.

`MutationsProofs`, for all write paths together, in three layers, and for the HTTP
requests in two more.

1. `IInv`: types and `RetractedLater`, which needs that every row, committed or in an
   open transaction, was asserted under a `tx_id` already drawn (`AllSound`), that a
   client has its `tx_id` before it inserts on every path (`TxDrawn`), and that a busy
   client is at an operation of its request (`Busy`, `Closed`). A stamp is `seq + 1`
   when the row is visited, and `tx` is not above `seq`.
2. `HInv`: `HistoryKept` and `AnnouncedIsCommitted`. What a transaction has updated was
   live and it holds a version that asserts the same (`Kept`), so the commit replaces
   and does not erase; a rewrite inserts at least one row under the `tx_id` it
   announces and records its root after that (`Announcing`). Every step then *carries*
   the table (`StepCarries`), which is `HistoryKept`, and keeps the set of committed
   `tx_id`s.
3. `PInv`: `PastIsStable`. What is added at a commit, of a request or a sweep, carries
   the transaction's own `tx_id` or is a version of a row it updated (`Versions`,
   `DrawnOnce`), and that row is still in the table because the updates of open
   transactions and of the sweep are apart: each waits for the lock of the row it
   comes to (`RowsApart`). A point `t` is settled when no open transaction and no
   sweep in progress has drawn a number at or below it, wherever the sequence is by
   then. There the first kind is invisible and the second is stamped later, so
   nothing appears or disappears (`Replaces`), and the answers `get_entity_at` may
   give are the same. A sweep that has stamped a row with 10 and waits for the next
   one keeps 10 and everything above unsettled until it commits, although later
   requests have committed meanwhile.

4. `RInv`, on top of `PInv`: under `Kinds \subseteq RestKinds` (the WebSocket path does not have the
   property, see section 6, and the metadata writers take no lock), `SingleValued` and
   `WritersApart`. It is the lock argument in full: a transaction's rows, updates and
   pending inputs are of entities whose lock it holds (`Within`); what it found when it
   authorized is still so (`AuthorizedStill`) and what it is about to insert has no live
   value in its view (`Cleared`), because nobody else can write the entity and the
   sweeper only retracts; a `tx_id` belongs to one transaction (`TxOwned`, `OwnRows`,
   `TxLate`), which keeps inserted rows distinct from committed ones; so every view,
   and at commit the table, has unique live values (`Unique`).
5. `SInv`: `RestImplementsEntityStore`, the refinement, for REST kinds without TTLs. A
   busy client is *on a path* (`OnPath`): some sequence of abstract stores leads from
   the committed rows through the operations it has finished (`Run`), and its view is
   the last of them, adjusted by how far the current operation is (`Stage`: authorized,
   partly retracted, retracted, buffered). Without TTLs the sweeper finds nothing
   (`NoTtl`). Its own statements extend the path or move along a stage
   (`Locals`). Another client's commit changes only entities whose lock this one does
   not hold, and the path concerns only entities whose lock it does: the other's
   result is mixed into every store of the path (`Mix`, `PathBesideCommit`).
   At the commit the path is the run of the request that `EntityStore` describes
   (`RunIsStates`), so the step is one whole request; all other steps stutter. The
   theorem lets `TxIds` contain every positive number, since any `tx_id` may be drawn.
   With TTLs it does not hold: a patched attribute outlives the expired entity
   (section 6).

`AuditChainProofs`. `ChainIntact`, `ReceiptsCoverHistory`, `BaselineIsAnchored`. `tx_id`s
name one write (`NumbersOK`); without overlaps one write is under way, later than
every row, and what it has read is still the newest root (`AloneOK`), so a row
chains exactly the rows up to itself (`ChainsComplete`). That the newest row exists
(`HasNewest`) stands in for an induction over the table. What the task has seen
stays (`TaskOK`): rows are never removed, so a receipt that reaches the baseline
(`BaselineReached`) has a newest root whose chain holds, without overlaps, every root
below it. `InclusionProofsAreExact`, for any leaf hashes
and any number of leaves, and with it `MerkleProofsExact`: levels are non-empty and
shrink to one hash (`LevelsShape`, `HeightShape`), the index stays within its level and
has a sibling there (`SiblingFits`), so the fold along the path is at every height
the hash that the level has at the index (`PathLeadsUp`), and a fold of another leaf
differs at every height (`FoldInjective`, by the injectivity of a pair).

`AuthSessionsProofs`. `OneSessionPerDevice`, `ConflictNeedsRace`, `LinksAreSingleUse`,
`RevokedForGood`, `CapRestored`. Two transactions past the unique index have different
devices and no
unrevoked row has theirs (`CommitOK`); a login that runs alone has found every session
of its device (`AloneOK`); a login's row is not there yet and what it evicts is
(`ReqOK`, `SidsApart`). For the cap, `CapInv`: while a login is alone it will leave fewer
than `MaxActive` sessions beside its own, not counting those that had expired
unrevoked when it counted (`missed`, `CapOK`), because the sessions it chose to evict are
as many as the count found in excess (`OldestLeave`); a later expiry changes nothing.

`ChunkedUploadProofs`. `StoredIsWhole`, `ChunksKept`, `CompletedIsStored`. A `put_object`
has run to its end before the parts are removed (`StoreOrder`), and until then what
is recorded, or about to be, is staged (`Staged`); an inode has one name and stands
where its creator put it (`InodesApart`), so without overlaps an open file is nobody
else's, a staged one is whole and so is what an assembly has read (`AloneOK`,
`ReadWhole`). For the file that several assemblies truncate and write, `ObjectOK`: it
is whole, or one of those writing it has left out nothing so far (`WritesAll`), since
whoever truncates it starts from the front, the others only add whole chunks, and
one that ends early is recorded in `interrupted`.

`OfflineQueueProofs`. `NothingLost` and `FirstInOrder`, whatever the server decides. A tab's
snapshot has no gaps but entries that are done, that is, applied, rejected or cleared
(`Done`), so every entry before one that has been or may still be executed is done
(`Passed`, `OrderInv`). An answer a tab holds was given by the server, and the attempts
that a tab or the store counts are rejections that happened (`TabInv`, `StoreInv`): an
entry is removed after its execution or when the limit is really reached.

`PresenceProofs`. `NoGhosts`, `LeftStaysOut`, `RoomsReleased`. Whoever is in the room has a
socket that *vouches* for the entry (`Vouches`, `PresentInv`): its page has joined, or a
frame, the end of a call or the cleanup that will take the user out is still to come.
The last frame of a page that is not in the room is a leave (`ConnInv`), a page's socket
is nobody else's and its timer runs only while it has joined (`ClientInv`). That a room
number is always free is a count of the sockets whose handler may hold one.

`QueryProofs`. `SubscriptionsAccountedFor` and `SnapshotReachesClient`: calls are numbered
in the order they were made (`Numbered`, `Current`); each is asked once and answered once,
and no diff overtakes its answer (`Unanswered`, `InboxInv`, `OutboxInv`); a subscription
the client still waits for has its answer on the way (`SubsInv`). What the frames on the
wire make of the client's rows is a fold (`Received`); a new frame at its end applies one
diff (`ReceivedAppend`), and a diff of two results takes rows that show the first to rows
that show the second (`DiffCarries`). For the cache (`Handlers!Spec`),
`FreshEntriesInvalidated` with `SweepOK`: a key is still to be visited, or collected and
still to be removed, as long as an older entry is there.

Recursive functions (`States`, `Levels`, `Folded`, `Received`) are reasoned about without
an induction theorem: that a function with the defining equation exists, that it is
unique, and that every value has a property, each by looking at the least index where it
fails, which `WFMin` with `NatLessThanWellFounded` provides.

Assumptions: those named `ASSUME` in the modules (`:db/type` not a data attribute, `NoConn` not a session, `NoFile` not a request, values of rows distinct
from `None`, bounds are numbers, capacities positive ones).
Nothing is assumed of the number of replicas, clients, entities, devices, chunks,
operations, rows, frames or faults.

**Only model-checked:** the liveness properties (`BodyKeepsRunning`,
`WorkerKeepsRunning`, `AnchorsCatchUp`, `LastChunkCompletes`, `QueueDrains`,
`ShowsCurrentRows`): they rest on fairness and `ENABLED`, which this prover does not
handle.

## 6. Where the code and its documentation part

Refuted by a run: see `findings`. Seen while modelling, with no run of their own:

*Cluster and store*

- `cluster/mod.rs:12-14` has the lock held for the lifetime of a connection, "drop =
  release". `leader_conn = None` (`:296`) returns the connection to the pool, where the
  live session keeps the lock until the pool reaps it; the liveness properties hold
  because it does.
- `docs/HORIZONTAL_SCALING.md:296` has exactly one replica run a task at a time: the
  lock's session may end while the body runs on other connections
  (`SplitNeedsLostSession` says exactly when two may lead).
- `cluster/mod.rs:337` has `start` called exactly once per term: a worker that exits
  is started again within it.
- A WebSocket batch is inserted once, at its end (`api/ws.rs:1136`), where `mutate`
  flushes each operation "so later operations see its state" (`api/rest.rs:2789`): two
  operations of one WebSocket request on one attribute leave two live values.
- A patch inserts without a deadline (`api/rest.rs:3298`). Without `$ttl`, on an entity
  that has one, the patched attribute outlives the expired rest, type included.
- `docs/triple-store.md:178` on point-in-time reads: a patch's retraction stamps are
  drawn before its `tx_id`, so at the transactions in between `get_entity_at` finds
  no value of the attribute. The past is stable, but has such gaps, and the present is
  no past yet: a read at the newest `tx_id` changes when a sweep, or a request, that
  has drawn an earlier number commits. Where the WebSocket path has left two live
  values of one `tx_id`, the query returns either of them.
- `docs/triple-store.md:312` calls `tx_id`s strictly monotonic: they are drawn in
  order and committed in another.
- `views/mod.rs:619` calls the rewrite of a view atomic: it is several transactions.
- `docs/subscriptions.md:566` has each mutation send `NOTIFY ddb_changes`; only
  `set_triples` does. `bulk_load` sends none, nor do the handlers of the data API,
  which use `set_triples_in_tx`.

*Cache*

- `api/ws.rs:126-127` has subsequent reads see fresh data: a result read before the
  commit may be stored (`api/rest.rs:2565`) after the invalidation.
  `FreshEntriesInvalidated` therefore speaks of results that were current when stored.
- Two inserts that evict the same victim let the map grow past `max_entries`.

*Audit and anchoring*

- `audit/mod.rs:3` and `docs/audit.md:3` have every mutation produce a root: the paths
  over `set_triples_in_tx` record none.
- Overlapping writes read the same newest root, the chain forks and `verify_chain`
  reports a break although nothing was tampered with; `ChainIntact` says that this
  is the only cause. One of them may also record its root below a baseline that has
  passed it, or outside the chain that is anchored, and stay in no receipt:
  `BaselineIsAnchored` exempts overlapping writes for this reason.
- `anchor/mod.rs:13` has every attempt produce a row: an attempt that ends in an error
  leaves none. The task runs on every replica.
- Pairing an odd node with itself gives `[.., h]` and `[.., h, h]` the same root.

*Sessions*

- The cap (`auth/session.rs:287`) is exceeded by racing logins, and because the eviction
  picks expired, unrevoked rows that the count leaves out; a login on its own restores
  it up to the number of such rows (`CapRestored`).
- `auth/session.rs:426` has the old refresh token consumed: two concurrent refreshes
  with one token both succeed, and the token the first one returned is lost. A refresh
  that fails after the rotation loses its token too.
- A magic link is spent also when the login after it fails; a session keeps the first
  reason it was revoked for; `revoke_all_sessions` has no caller.

*Uploads*

- `api/chunked_upload.rs:17-20` calls duplicate retries idempotent: overlapping PUTs of
  one chunk share `{index}.part.tmp`: the retry's `File::create` truncates what the first
  PUT has written, the first renames and records it, and whoever assembles before the
  retry has written completes the upload with a file that lacks the chunk.
- `put_object` (`storage/mod.rs:410`) truncates and writes the final path. A write that is
  cut short, by an I/O error or a crash, leaves a torn file. Of two PUTs that
  see the last chunk, the second may so destroy what the first has stored and marked
  completed, when the parts are gone. `StoredIsWhole` says that this and overlapping
  PUTs of one chunk are the only causes.
- A PUT after the completion re-creates the staging directory, which nothing removes; a
  crash between its removal and the mark leaves the row in progress until it is swept.

*Client*

- `sync.ts:236-237` and `docs/sdks/typescript.md:249` have failing entries discarded after
  a number of attempts: over REST the error's text (`rest.ts:208`) is not one that
  `isRejection` (`sync.ts:33`) knows, so a rejected entry is never counted and stays at
  the head (`Blocks` in `QueueDrains`). This meets entries that were *applied*: when the answer to a
  `set` or `delete` is lost, the server refuses the repeat (`api/rest.rs:4597-4605`), for
  good unless somebody else removes or creates the record. Entries that `submitOps` throws
  on before sending block the queue likewise.
- `transaction.ts:29` documents `set` as replacing the entity; it is sent as an insert,
  which the server refuses when the entity exists.
- `docs/architecture.md:261` has the queue replayed in order: a rejected entry is
  overtaken by later ones. Two tabs replay the same entries twice, and a `put` of the
  attempt count after another tab's removal brings an entry back. `FirstInOrder` is
  about first effects: an older `merge` may be applied again over a newer one, and a
  repeated `set` re-creates a record that a later entry has deleted.
- `docs/presence.md:3` and `api/ws.rs:41` have presence broadcast as `pres-diff`: the
  server never sends one. Entries are keyed by user, so one tab's leave, or the late
  cleanup of an old socket, removes the user's other tab; an idle user vanishes after
  the TTL, because the client sends no heartbeat.
- `presence.ts:149` has only the latest state sent: a direct `publish` while a timer is
  due lets the older state follow it, and a rate-limited update is dropped silently.

## 7. Abstractions

Row and field permissions, schema validation and rule-engine output only refuse or
extend a request; refusal is `Rollback`. The rule engine, `bulk_load` (except its root
in `AuditChain`), and an empty object as an operation's data are left out. The query
language is abstracted to a result that writes change. Authentication of a socket, its
backoff and keepalive, and the other frame types are left out; a token that becomes
invalid ends the connection (`Drop`). `ChangeEvent`s carry no content, because the
refresh ignores it. Hashes have no collisions. The clock appears only as order and as
deadlines that may pass: TTLs, session lifetimes, stale uploads, ticks. A presence
state, a chunk and a queued operation have no content beyond what the properties tell
apart; a queue entry is one operation, and `createdAt` (`Date.now()`) is taken never to
step back. Ghost state (`overlapped`, `finished`, `interrupted`, `alone`, `missed`,
`since`, `rejections`, `cleared`, `redeemed`) records what the properties need and guards no action.

## 8. Not modelled

The modules cover the parts of the repository that keep state between requests and
that several actors change. By lines they are a small part of it: most of the
repository is translation between formats, and pure.

- *Query language, planner, executor, OpenAPI and SDK generation, import and export,
  formula and rule evaluation, permissions, validation*: functions from parsed input
  to SQL, text or a verdict, without state. As operators they would be transliterated
  strings; TLC would check them on inputs the unit tests already have.
- *Code no request reaches at this commit*: `functions/scheduler.rs` (its `Scheduler` is
  not started in `main.rs`), `WebhookSender::run` (never spawned), the reader side of
  `sync/change_feed.rs` (appended to from `api/ws.rs:1221` only), the dependency graph
  and recalculation of `formulas/` (no caller; re-adding a field there would keep its
  old edges), `query/cache_v2.rs`, `query/reactive.rs`, `store/sqlite.rs`. A model would
  state properties of a system nobody runs.
- *CRUD over the same store*: comments, notifications, workspaces, shares, history,
  table creation and deletion use the statements of `TripleStore` through paths of the
  shape modelled as `rewrite`.
- *I/O and user code*: function runtimes, image transforms, object-storage backends
  other than the local one, the anchoring chains' protocols, OAuth providers.
- *Separate programs*: the cache server and its crates, the CLI, the admin UI, the
  framework bindings and the SDKs of other languages.

Worth adding when they are wired in: the scheduler's claim and retry of jobs under
its advisory lock, webhook delivery with retries, and the change feed's gap detection
on resume. Worth proving next: a refinement
with TTLs, against an abstract store whose attributes expire one by one, and an abstract
specification of a user's sessions that the statements of `AuthSessions` implement.

-------------------------- MODULE QuerySubscriptions --------------------------
(***************************************************************************)
(* One live query from end to end: the TypeScript client                   *)
(* (packages/client-core/src/query.ts, client.ts), its WebSocket, the      *)
(* connection task of the server (packages/server/src/api/ws.rs) and the   *)
(* broadcast channel that tells it of changes (main.rs).                   *)
(*                                                                         *)
(* The query's result is db: a value for every row that matches.  The      *)
(* client keeps, for every row id, the copies its result list holds.  A    *)
(* call of openSubscription, the request it sends and the sub_id the       *)
(* server gives it are one number: each request is sent once and each gets *)
(* a fresh UUID.                                                           *)
(***************************************************************************)
EXTENDS Naturals, Sequences, FiniteSets, SequencesExt

CONSTANTS
    Ids,            \* row ids
    Vals,           \* values a row may have
    Callers,        \* callbacks of the application
    Capacity,       \* capacity of the change channel (4096 in main.rs)
    MaxWrites,      \* bound on writes
    MaxOpens,       \* bound on first subscriptions by a caller
    MaxFaults       \* bound on lost connections, timeouts and failed queries

None == 0

ASSUME CapacityAssumption == Capacity \in Nat \ {0}

ASSUME ValsAssumption == Vals \subseteq Nat \ {None}

ASSUME BoundsAssumption == MaxWrites \in Nat /\ MaxOpens \in Nat /\ MaxFaults \in Nat

VARIABLES
    db,             \* the query's result now
    unsent,         \* commits whose ChangeEvent has not been broadcast yet
    up,             \* the socket is open and authenticated
    events,         \* ChangeEvents waiting in this connection's receiver
    lagged,         \* the receiver has been overrun
    subs,           \* SyncSession::subscriptions
    snap,           \* subscription_snapshots of this session
    todo,           \* subscriptions the running refresh has yet to visit
    inbox,          \* client frames on the wire
    outbox,         \* server frames on the wire
    cbs,            \* ActiveSubscription.callbacks ({}: no ActiveSubscription)
    epoch,          \* the last openSubscription call of the ActiveSubscription
    pend,           \* calls waiting for their reply (_privatePendingRequests)
    subId,          \* ActiveSubscription.subId, whose handler is registered
    rows,           \* ActiveSubscription.rows
    abandoned,      \* calls that timed out
    opens, writes, faults

server == <<events, lagged, subs, snap, todo>>
client == <<cbs, epoch, pend, subId, rows, abandoned, opens>>
vars == <<db, unsent, up, server, inbox, outbox, client, writes, faults>>

Result == [Ids -> Vals \cup {None}]
NoRows == [i \in Ids |-> <<>>]
NoResult == [i \in Ids |-> None]
Calls == 1 .. (MaxOpens + MaxFaults)

TypeOK ==
    /\ db \in Result
    /\ unsent \in 0 .. MaxWrites
    /\ up \in BOOLEAN
    /\ events \in 0 .. Capacity
    /\ lagged \in BOOLEAN
    /\ subs \subseteq Calls
    /\ DOMAIN snap \subseteq Calls /\ \A s \in DOMAIN snap : snap[s] \in Result
    /\ todo \subseteq subs
    /\ cbs \subseteq Callers
    /\ epoch \in Calls \cup {None}
    /\ pend \subseteq Calls
    /\ subId \in Calls \cup {None}
    /\ rows \in [Ids -> Seq(Vals)]
    /\ abandoned \subseteq Calls
    /\ ~up => inbox = <<>> /\ outbox = <<>> /\ subs = {} /\ pend = {}

Init ==
    /\ db \in Result
    /\ unsent = 0
    /\ up = TRUE
    /\ events = 0
    /\ lagged = FALSE
    /\ subs = {}
    /\ snap = <<>>
    /\ todo = {}
    /\ inbox = <<>>
    /\ outbox = <<>>
    /\ cbs = {}
    /\ epoch = None
    /\ pend = {}
    /\ subId = None
    /\ rows = NoRows
    /\ abandoned = {}
    /\ opens = 0
    /\ writes = 0
    /\ faults = 0

Fault == faults < MaxFaults /\ faults' = faults + 1

-----------------------------------------------------------------------------
(* Writes and their announcement *)

\* A write changes the result.  A handler of this replica broadcasts a
\* ChangeEvent after the commit; of a write through the data API of another
\* replica this one hears nothing.
Write(i, v, local) ==
    /\ writes < MaxWrites
    /\ db[i] # v
    /\ db' = [db EXCEPT ![i] = v]
    /\ unsent' = unsent + (IF local THEN 1 ELSE 0)
    /\ writes' = writes + 1
    /\ UNCHANGED <<up, server, inbox, outbox, client, faults>>

\* change_tx.send: a full receiver loses its oldest event and will be told so.
Announce ==
    /\ unsent > 0
    /\ unsent' = unsent - 1
    /\ IF up /\ events < Capacity
       THEN events' = events + 1 /\ UNCHANGED lagged
       ELSE lagged' = up /\ UNCHANGED events
    /\ UNCHANGED <<db, up, subs, snap, todo, inbox, outbox, client, writes, faults>>

-----------------------------------------------------------------------------
(* The connection task *)

\* compute_subscription_diff
Diff(old, new) ==
    [added   |-> {i \in Ids : old[i] = None /\ new[i] # None},
     removed |-> {i \in Ids : old[i] # None /\ new[i] = None},
     updated |-> {i \in Ids : old[i] # None /\ new[i] # None /\ old[i] # new[i]},
     new     |-> new]

IsEmpty(d) == d.added = {} /\ d.removed = {} /\ d.updated = {}

\* The select loop waits: no refresh is running.
Waiting == up /\ todo = {}

\* handle_subscribe: register, run the query, answer.  A query that fails is
\* answered with no rows, one that is refused (no permission) is not registered.
HandleSubscribe ==
    /\ Waiting
    /\ inbox # <<>> /\ Head(inbox).type = "sub"
    /\ inbox' = Tail(inbox)
    /\ LET c == Head(inbox).call IN
       \/ /\ subs' = subs \cup {c}
          /\ outbox' = Append(outbox, [type |-> "sub-ok", call |-> c, rows |-> db])
          /\ UNCHANGED faults
       \/ /\ Fault
          /\ subs' = subs \cup {c}
          /\ outbox' = Append(outbox, [type |-> "sub-ok", call |-> c, rows |-> NoResult])
       \/ /\ Fault
          /\ outbox' = Append(outbox, [type |-> "sub-err", call |-> c])
          /\ UNCHANGED subs
    /\ UNCHANGED <<db, unsent, up, events, lagged, snap, todo, client, writes>>

\* handle_unsubscribe
HandleUnsubscribe ==
    /\ Waiting
    /\ inbox # <<>> /\ Head(inbox).type = "unsub"
    /\ inbox' = Tail(inbox)
    /\ subs' = subs \ {Head(inbox).call}
    /\ UNCHANGED <<db, unsent, up, events, lagged, snap, todo, outbox, client, writes, faults>>

\* change_rx.recv: an event, whatever it is about, refreshes every subscription.
HandleChange ==
    /\ Waiting
    /\ ~lagged
    /\ events > 0
    /\ events' = events - 1
    /\ todo' = subs
    /\ UNCHANGED <<db, unsent, up, lagged, subs, snap, inbox, outbox, client, writes, faults>>

\* RecvError::Lagged is logged.
HandleLagged ==
    /\ Waiting
    /\ lagged
    /\ lagged' = FALSE
    /\ UNCHANGED <<db, unsent, up, events, subs, snap, todo, inbox, outbox, client, writes, faults>>

\* Mutant: the tick revalidates the token and nothing else.
AuthTickOnlyAuth ==
    /\ FALSE
    /\ UNCHANGED vars

\* auth_tick, which the biased select polls after the change channel.
AuthTick ==
    /\ Waiting
    /\ ~lagged /\ events = 0
    /\ subs # {}
    /\ todo' = subs
    /\ UNCHANGED <<db, unsent, up, events, lagged, subs, snap, inbox, outbox, client, writes, faults>>

OldResult(s) == IF s \in DOMAIN snap THEN snap[s] ELSE NoResult

Store(s, r) == [t \in DOMAIN snap \cup {s} |-> IF t = s THEN r ELSE snap[t]]

\* Mutant: a diff of updated rows only is taken for an empty one.
RefreshIgnoresUpdates(s) ==
    LET d == Diff(OldResult(s), db) IN
    /\ s \in todo
    /\ todo' = todo \ {s}
    /\ snap' = Store(s, db)
    /\ outbox' = IF d.added = {} /\ d.removed = {} THEN outbox
                 ELSE Append(outbox, [type |-> "sub", call |-> s, diff |-> d])
    /\ UNCHANGED <<db, unsent, up, events, lagged, subs, inbox, client, writes, faults>>

\* refresh_query_subscriptions for one subscription: run the query, diff it
\* with the stored snapshot (none: the empty one), store, send.
Refresh(s) ==
    LET d == Diff(OldResult(s), db) IN
    /\ s \in todo
    /\ todo' = todo \ {s}
    /\ snap' = Store(s, db)
    /\ outbox' = IF IsEmpty(d) THEN outbox
                 ELSE Append(outbox, [type |-> "sub", call |-> s, diff |-> d])
    /\ UNCHANGED <<db, unsent, up, events, lagged, subs, inbox, client, writes, faults>>

-----------------------------------------------------------------------------
(* The client *)

Send(m) == IF up THEN Append(inbox, m) ELSE inbox

\* openSubscription: a new generation; where the socket is not open the send
\* throws and the error is logged.
Open ==
    /\ opens' = opens + 1
    /\ epoch' = opens + 1

\* subscribe: a second caller of the same query joins the first.
Subscribe(k) ==
    /\ k \notin cbs
    /\ cbs' = cbs \cup {k}
    /\ IF cbs # {} THEN UNCHANGED <<epoch, pend, opens, inbox>>
       ELSE /\ opens < MaxOpens
            /\ Open
            /\ inbox' = Send([type |-> "sub", call |-> opens + 1])
            /\ pend' = IF up THEN pend \cup {opens + 1} ELSE pend
    /\ UNCHANGED <<db, unsent, up, server, outbox, subId, rows, abandoned, writes, faults>>

\* The function subscribe returned.
Unsubscribe(k) ==
    /\ k \in cbs
    /\ cbs' = cbs \ {k}
    /\ IF cbs # {k} THEN UNCHANGED <<epoch, subId, rows, inbox>>
       ELSE /\ epoch' = None
            /\ subId' = None
            /\ rows' = NoRows
            /\ inbox' = IF subId = None THEN inbox
                        ELSE Send([type |-> "unsub", call |-> subId])
    /\ UNCHANGED <<db, unsent, up, server, outbox, pend, abandoned, opens, writes, faults>>

\* The list of rows an answer brings.
Listed(r) == [i \in Ids |-> IF r[i] = None THEN <<>> ELSE <<r[i]>>]

\* Mutant: a reply that comes too late is ignored.
SubOkKeepsStale(m) ==
    /\ pend' = pend \ {m.call}
    /\ IF m.call \in pend /\ m.call = epoch
       THEN /\ subId' = m.call
            /\ rows' = Listed(m.rows)
       ELSE UNCHANGED <<subId, rows>>
    /\ UNCHANGED inbox

\* The rest of openSubscription, when the reply arrives: the caller may have
\* unsubscribed, or the call may not be the latest any more.
SubOk(m) ==
    /\ pend' = pend \ {m.call}
    /\ \/ /\ m.call \in pend /\ m.call = epoch
          /\ subId' = m.call
          /\ rows' = Listed(m.rows)
          /\ UNCHANGED inbox
       \/ /\ m.call \in pend /\ m.call # epoch
          /\ inbox' = Append(inbox, [type |-> "unsub", call |-> m.call])
          /\ UNCHANGED <<subId, rows>>
       \/ /\ m.call \notin pend
          /\ UNCHANGED <<subId, rows, inbox>>

\* sub-err is thrown, caught and logged.
SubErr(m) ==
    /\ pend' = pend \ {m.call}
    /\ UNCHANGED <<subId, rows, inbox>>

\* applyPush: drop what was removed, replace what was updated, append what was
\* added.
Apply(r, d) ==
    [i \in Ids |->
        LET kept == IF i \in d.removed THEN <<>> ELSE r[i]
            current == IF i \in d.updated THEN [n \in DOMAIN kept |-> d.new[i]] ELSE kept
        IN  IF i \in d.added THEN Append(current, d.new[i]) ELSE current]

Push(m) ==
    /\ rows' = IF m.call = subId THEN Apply(rows, m.diff) ELSE rows
    /\ UNCHANGED <<subId, pend, inbox>>

\* _privateHandleMessage
ClientReceives ==
    /\ outbox # <<>>
    /\ outbox' = Tail(outbox)
    /\ LET m == Head(outbox) IN
       \/ m.type = "sub-ok" /\ SubOk(m)
       \/ m.type = "sub-err" /\ SubErr(m)
       \/ m.type = "sub" /\ Push(m)
    /\ UNCHANGED <<db, unsent, up, server, cbs, epoch, abandoned, opens, writes, faults>>

\* No reply within ten seconds: the error is logged, nothing is retried.
Timeout(e) ==
    /\ e \in pend
    /\ Fault
    /\ pend' = pend \ {e}
    /\ abandoned' = abandoned \cup {e}
    /\ UNCHANGED <<db, unsent, up, server, inbox, outbox, cbs, epoch, subId, rows, opens, writes>>

\* Mutant: the handlers of a dead connection survive it.
DropKeepsRefreshing ==
    /\ up
    /\ Fault
    /\ up' = FALSE
    /\ inbox' = <<>> /\ outbox' = <<>>
    /\ events' = 0 /\ lagged' = FALSE
    /\ subs' = {} /\ snap' = <<>>
    /\ pend' = {}
    /\ UNCHANGED <<db, unsent, todo, cbs, epoch, subId, rows, abandoned, opens, writes>>

\* The connection ends: the network, a query of a refresh that fails, a token
\* that is no longer valid.  The server cleans up, the client rejects what is
\* pending and keeps its rows.
Drop ==
    /\ up
    /\ Fault
    /\ up' = FALSE
    /\ inbox' = <<>> /\ outbox' = <<>>
    /\ events' = 0 /\ lagged' = FALSE
    /\ subs' = {} /\ snap' = <<>> /\ todo' = {}
    /\ pend' = {}
    /\ UNCHANGED <<db, unsent, cbs, epoch, subId, rows, abandoned, opens, writes>>

\* The socket is open and authenticated again; the reconnect listener opens the
\* subscription anew.
Reconnect ==
    /\ ~up
    /\ up' = TRUE
    /\ IF cbs = {} THEN UNCHANGED <<epoch, opens, subId, pend, inbox>>
       ELSE /\ Open
            /\ subId' = None
            /\ inbox' = <<[type |-> "sub", call |-> opens + 1]>>
            /\ pend' = {opens + 1}
    /\ UNCHANGED <<db, unsent, server, outbox, cbs, rows, abandoned, writes, faults>>

Next ==
    \/ \E i \in Ids, v \in Vals \cup {None}, local \in BOOLEAN : Write(i, v, local)
    \/ Announce
    \/ HandleSubscribe
    \/ HandleUnsubscribe
    \/ HandleChange
    \/ HandleLagged
    \/ AuthTick
    \/ \E s \in Calls : Refresh(s)
    \/ \E k \in Callers : Subscribe(k) \/ Unsubscribe(k)
    \/ ClientReceives
    \/ \E e \in Calls : Timeout(e)
    \/ Drop
    \/ Reconnect

Spec == Init /\ [][Next]_vars

\* A handler that has committed goes on to broadcast; the connection task is
\* scheduled and its ticks come; frames arrive; the reconnect timer fires.
Fairness ==
    /\ WF_vars(Announce)
    /\ WF_vars(HandleSubscribe \/ HandleUnsubscribe)
    /\ WF_vars(HandleChange \/ HandleLagged \/ AuthTick)
    /\ WF_vars(\E s \in Calls : Refresh(s))
    /\ WF_vars(ClientReceives)
    /\ WF_vars(Reconnect)

FairSpec == Spec /\ Fairness

-----------------------------------------------------------------------------
(* Properties *)

\* What a frame makes of the rows of subscription s.
Shown(r, m, s) ==
    IF m.call = s /\ m.type = "sub" THEN Apply(r, m.diff)
    ELSE IF m.call = s /\ m.type = "sub-ok" THEN Listed(m.rows) ELSE r

\* What the frames of q, in their order, make of rows r of subscription s.
Received(r, q, s) ==
    LET held[n \in 0 .. Len(q)] == IF n = 0 THEN r ELSE Shown(held[n - 1], q[n], s)
    IN  held[Len(q)]

\* What the client will hold of subscription s once it has received the frames
\* that are on the wire.
Arriving(s) == Received(rows, outbox, s)

\* The server's snapshot of a subscription never gets ahead of the client: the
\* frames on the wire bring every row of it, with its value.  A snapshot that
\* is stored without its diff being sent would lose the change for good, since
\* later diffs start from it.
SnapshotReachesClient ==
    \A s \in DOMAIN snap :
        s = epoch /\ (s = subId \/ s \in pend) =>
            \A i \in Ids : snap[s][i] # None => snap[s][i] \in ToSet(Arriving(s)[i])

\* Every subscription the server keeps refreshing is one the client uses, is
\* about to use, or is about to give back, whatever callers came and went while
\* requests were under way; only a timed-out request leaves one behind.
SubscriptionsAccountedFor ==
    \A s \in subs :
        \/ s \in {subId} \cup pend \cup abandoned
        \/ [type |-> "unsub", call |-> s] \in ToSet(inbox)

\* When writes and faults are over, an open subscription shows the current
\* value of every row, although events are overrun, come before the commit is
\* read, or never come because another replica wrote.
ShowsCurrentRows ==
    <>[](subId # None => \A i \in Ids : db[i] # None => db[i] \in ToSet(rows[i]))

\* ws.rs: the diff engine is to "only emit if something changed", and query.ts
\* keeps in rows the "latest result set": one copy of a row.
RowsAreAResult == \A i \in Ids : Len(rows[i]) <= 1
=============================================================================

---------------------------- MODULE QueryHandlers ----------------------------
(***************************************************************************)
(* POST /api/query and the mutation handlers (packages/server/src/api/     *)
(* rest.rs) as they fill and empty the cache of query results              *)
(* (packages/server/src/cache/mod.rs).  The handlers run concurrently; the *)
(* cache is a DashMap, so each of its calls is a step, and what a handler  *)
(* read from PostgreSQL before one call is old by the next.                *)
(*                                                                         *)
(* Which entry is least recently used, and when an entry's TTL passes, is  *)
(* left open.                                                              *)
(***************************************************************************)
EXTENDS QueryCache, FiniteSets

CONSTANTS
    Queries,        \* queries over a type, each with its user
    Readers,        \* concurrent POST /api/query handlers
    MaxEntries,     \* DDB_CACHE_SIZE
    MaxWrites       \* bound on writes

ASSUME BoundsAssumption == MaxEntries \in Nat /\ MaxWrites \in Nat

Keys == Types \X Queries

VARIABLE
    reader          \* the query handlers: pc, key and what they have read

vars == <<version, quiet, entries, reader, writer>>

Entry == [ver : 0 .. MaxWrites, fresh : BOOLEAN, expired : BOOLEAN]

\* got: what the query read; victim: the entry it is about to evict (its own
\* key when there is none).
Reader == [pc : {"idle", "get", "drop", "exec", "full", "evict", "set", "done"},
           key : Keys, got : 0 .. MaxWrites, victim : Keys]

\* left: the keys the scan has yet to visit; keys: those it has collected.
Writer == [pc : {"idle", "scan", "remove"}, type : Types, write : 0 .. MaxWrites,
           left : SUBSET Keys, keys : SUBSET Keys]

TypeOK ==
    /\ version \in [Types -> 0 .. MaxWrites]
    /\ quiet \in [Types -> SUBSET (1 .. MaxWrites)]
    /\ DOMAIN entries \subseteq Keys /\ \A k \in DOMAIN entries : entries[k] \in Entry
    /\ reader \in [Readers -> Reader]
    /\ \A c \in Readers : reader[c].pc # "evict" => reader[c].victim = reader[c].key
    /\ writer \in [Writers -> Writer]

Init ==
    /\ version = [t \in Types |-> 0]
    /\ quiet = [t \in Types |-> {}]
    /\ entries = [k \in {} |-> 0]
    /\ \E k \in Keys :
        reader = [c \in Readers |->
                    [pc |-> "idle", key |-> k, got |-> 0, victim |-> k]]
    /\ \E t \in Types :
        writer = [w \in Writers |-> 
                    [pc |-> "idle", type |-> t, write |-> 0, left |-> {}, keys |-> {}]]

Cached(k) == k \in DOMAIN entries

Without(keys) == [k \in DOMAIN entries \ keys |-> entries[k]]

With(k, e) == [q \in DOMAIN entries \cup {k} |-> IF q = k THEN e ELSE entries[q]]

-----------------------------------------------------------------------------
(* query() *)

\* The request arrives.
Query(c, k) ==
    /\ reader[c].pc \in {"idle", "done"}
    /\ reader' = [reader EXCEPT ![c] =
                    [pc |-> "get", key |-> k, got |-> 0, victim |-> k]]
    /\ UNCHANGED <<version, quiet, entries, writer>>

\* QueryCache::get: a hit is answered; an expired entry is let go of first and
\* removed afterwards.
Get(c) ==
    LET k == reader[c].key IN
    /\ reader[c].pc = "get"
    /\ \/ /\ Cached(k) /\ ~entries[k].expired
          /\ reader' = [reader EXCEPT ![c].pc = "done", ![c].got = entries[k].ver]
       \/ /\ Cached(k) /\ entries[k].expired
          /\ reader' = [reader EXCEPT ![c].pc = "drop"]
       \/ /\ ~Cached(k)
          /\ reader' = [reader EXCEPT ![c].pc = "exec"]
    /\ UNCHANGED <<version, quiet, entries, writer>>

DropExpired(c) ==
    /\ reader[c].pc = "drop"
    /\ entries' = Without({reader[c].key})
    /\ reader' = [reader EXCEPT ![c].pc = "exec"]
    /\ UNCHANGED <<version, quiet, writer>>

\* execute_query
Execute(c) ==
    /\ reader[c].pc = "exec"
    /\ reader' = [reader EXCEPT ![c].pc = "full", ![c].got = version[reader[c].key[1]]]
    /\ UNCHANGED <<version, quiet, entries, writer>>

\* QueryCache::set: look at the size; at capacity evict_lru picks a victim.
CheckFull(c) ==
    /\ reader[c].pc = "full"
    /\ \/ /\ Cardinality(DOMAIN entries) >= MaxEntries
          /\ \E v \in DOMAIN entries :
                reader' = [reader EXCEPT ![c].pc = "evict", ![c].victim = v]
       \/ /\ Cardinality(DOMAIN entries) < MaxEntries \/ DOMAIN entries = {}
          /\ reader' = [reader EXCEPT ![c].pc = "set"]
    /\ UNCHANGED <<version, quiet, entries, writer>>

Evict(c) ==
    /\ reader[c].pc = "evict"
    /\ entries' = Without({reader[c].victim})
    /\ reader' = [reader EXCEPT ![c].pc = "set", ![c].victim = reader[c].key]
    /\ UNCHANGED <<version, quiet, writer>>

\* The insert, and the answer.  fresh is for the properties: what is stored is
\* still the current result.
Set(c) ==
    LET k == reader[c].key IN
    /\ reader[c].pc = "set"
    /\ entries' = With(k, [ver |-> reader[c].got, expired |-> FALSE,
                           fresh |-> reader[c].got = version[k[1]]])
    /\ reader' = [reader EXCEPT ![c].pc = "done"]
    /\ UNCHANGED <<version, quiet, writer>>

\* Time passes.
Age(k) ==
    /\ Cached(k)
    /\ ~entries[k].expired
    /\ entries' = [entries EXCEPT ![k].expired = TRUE]
    /\ UNCHANGED <<version, quiet, reader, writer>>

-----------------------------------------------------------------------------
(* Writes *)

\* A mutation handler commits.
Commit(w, t) ==
    /\ writer[w].pc = "idle"
    /\ version[t] < MaxWrites
    /\ version' = [version EXCEPT ![t] = @ + 1]
    /\ writer' = [writer EXCEPT ![w] =
                    [pc |-> "scan", type |-> t, write |-> version[t] + 1,
                     left |-> Keys, keys |-> {}]]
    /\ UNCHANGED <<quiet, entries, reader>>

\* A statement after the commit fails (data_patch's set_entity_ttl,
\* data_create's implied triples): the handler answers with the error and
\* invalidates nothing.
GiveUp(w) ==
    /\ writer[w].pc = "scan"
    /\ writer[w].left = Keys
    /\ quiet' = [quiet EXCEPT ![writer[w].type] = @ \cup {writer[w].write}]
    /\ writer' = [writer EXCEPT ![w].pc = "idle", ![w].left = {}]
    /\ UNCHANGED <<version, entries, reader>>

\* Mutant: an entry that has expired is left to get().
VisitSkipsExpired(w, k) ==
    /\ writer[w].pc = "scan"
    /\ k \in writer[w].left
    /\ writer' = [writer EXCEPT ![w].left = @ \ {k},
                                ![w].keys = IF Cached(k) /\ k[1] = writer[w].type
                                               /\ ~entries[k].expired
                                            THEN @ \cup {k} ELSE @]
    /\ UNCHANGED <<version, quiet, entries, reader>>

\* invalidate_by_entity_type, first half: the iterator visits the map shard by
\* shard and collects the keys of the type.
Visit(w, k) ==
    /\ writer[w].pc = "scan"
    /\ k \in writer[w].left
    /\ writer' = [writer EXCEPT ![w].left = @ \ {k},
                                ![w].keys = IF Cached(k) /\ k[1] = writer[w].type
                                            THEN @ \cup {k} ELSE @]
    /\ UNCHANGED <<version, quiet, entries, reader>>

Collected(w) ==
    /\ writer[w].pc = "scan"
    /\ writer[w].left = {}
    /\ writer' = [writer EXCEPT ![w].pc = "remove"]
    /\ UNCHANGED <<version, quiet, entries, reader>>

\* Second half: remove them one by one.
Remove(w, k) ==
    /\ writer[w].pc = "remove"
    /\ k \in writer[w].keys
    /\ entries' = Without({k})
    /\ writer' = [writer EXCEPT ![w].keys = @ \ {k}]
    /\ UNCHANGED <<version, quiet, reader>>

\* The handler answers its client.
Return(w) ==
    /\ writer[w].pc = "remove"
    /\ writer[w].keys = {}
    /\ writer' = [writer EXCEPT ![w].pc = "idle"]
    /\ UNCHANGED <<version, quiet, entries, reader>>

\* The TTL sweeper, the metadata writers and other replicas change data and
\* leave this cache alone.
QuietWrite(t) ==
    /\ version[t] < MaxWrites
    /\ version' = [version EXCEPT ![t] = @ + 1]
    /\ quiet' = [quiet EXCEPT ![t] = @ \cup {version[t] + 1}]
    /\ UNCHANGED <<entries, reader, writer>>

Next ==
    \/ \E c \in Readers :
        \/ \E k \in Keys : Query(c, k)
        \/ Get(c)
        \/ DropExpired(c)
        \/ Execute(c)
        \/ CheckFull(c)
        \/ Evict(c)
        \/ Set(c)
    \/ \E k \in Keys : Age(k)
    \/ \E w \in Writers :
        \/ \E t \in Types : Commit(w, t)
        \/ GiveUp(w)
        \/ \E k \in Keys : Visit(w, k) \/ Remove(w, k)
        \/ Collected(w)
        \/ Return(w)
    \/ \E t \in Types : QuietWrite(t)

Spec == Init /\ [][Next]_vars
=============================================================================

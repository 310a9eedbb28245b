------------------------------ MODULE QueryCache ------------------------------
(***************************************************************************)
(* The hot cache of query results (packages/server/src/cache/mod.rs): a    *)
(* DashMap by query, and what the mutation handlers have committed and are *)
(* still invalidating.  QueryHandlers has the handlers that use it.        *)
(*                                                                         *)
(* A cache key is a query of one user over one entity type.  The result of *)
(* every query over a type is abstracted to the number of writes to that   *)
(* type it shows.                                                          *)
(***************************************************************************)
EXTENDS Naturals

CONSTANTS
    Types,          \* entity types
    Writers         \* concurrent mutation handlers

VARIABLES
    version,        \* per type, the writes committed
    quiet,          \* per type, the writes that invalidate nothing
    entries,        \* the cache: [ver, fresh, expired] by key
    writer          \* the mutation handlers: pc, type, write and keys to remove

-----------------------------------------------------------------------------
(* Properties *)

\* A write that has returned and a fresh entry older than it do not coexist: an
\* entry that was current when it was stored is gone before the handler of any
\* later write answers, whatever other queries and invalidations do to the map
\* meanwhile.  Only writes that invalidate nothing, and handlers still at it,
\* leave such an entry behind.
FreshEntriesInvalidated ==
    \A k \in DOMAIN entries : entries[k].fresh =>
        \A v \in (entries[k].ver + 1) .. version[k[1]] :
            \/ v \in quiet[k[1]]
            \/ \E w \in Writers :
                /\ writer[w].type = k[1] /\ writer[w].write = v
                /\ k \in writer[w].left \cup writer[w].keys
=============================================================================

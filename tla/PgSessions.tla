----------------------------- MODULE PgSessions -----------------------------
(***************************************************************************)
(* The PostgreSQL sessions behind a replica's sqlx connection pool, and    *)
(* one session-level advisory lock, as packages/server/src/cluster/mod.rs  *)
(* uses them.  PostgreSQL and sqlx are external: what is modelled is what  *)
(* the leader-election loops rely on.                                      *)
(*                                                                         *)
(* A session is                                                            *)
(*   "closed"  no connection;                                              *)
(*   "open"    alive on both ends: idle in the pool unless a loop holds it; *)
(*   "lost"    a loop still holds the connection, the server has ended the *)
(*             session (restart, failover, network) and dropped its locks; *)
(*   "orphan"  the client end is gone (crash, closed socket), the server   *)
(*             has not noticed and the session keeps its locks.            *)
(*                                                                         *)
(* sqlx returns a dropped connection to the pool and does not reset it, so *)
(* an idle session keeps the advisory locks it took.                       *)
(***************************************************************************)
EXTENDS Naturals, FiniteSets

CONSTANTS
    Replicas,       \* the ddb-server processes that share one PostgreSQL
    Slots,          \* the connections a replica's pool may open
    NoConn,         \* leader_conn = None, and "nobody holds the lock"
    MaxFaults       \* how many crashes, session losses and failed calls happen

ASSUME FaultAssumption == MaxFaults \in Nat

ASSUME NoConnAssumption == NoConn \notin Replicas \X Slots

VARIABLES
    sess,           \* state of every session
    holder,         \* the session that holds the advisory lock
    conn,           \* leader_conn of each replica's loop
    faults          \* faults so far, bounded by MaxFaults

pgVars == <<sess, holder, conn, faults>>

Sessions == Replicas \X Slots

SessionsOf(r) == {s \in Sessions : s[1] = r}

PgTypeOK ==
    /\ sess \in [Sessions -> {"closed", "open", "lost", "orphan"}]
    /\ holder \in Sessions \cup {NoConn}
    /\ conn \in [Replicas -> Sessions \cup {NoConn}]
    /\ faults \in 0 .. MaxFaults
    /\ \A r \in Replicas :
        conn[r] # NoConn => /\ conn[r] \in SessionsOf(r)
                            /\ sess[conn[r]] \in {"open", "lost"}

PgInit ==
    /\ sess = [s \in Sessions |-> "closed"]
    /\ holder = NoConn
    /\ conn = [r \in Replicas |-> NoConn]
    /\ faults = 0

-----------------------------------------------------------------------------

Fault ==
    /\ faults < MaxFaults
    /\ faults' = faults + 1

Idle(s) == sess[s] = "open" /\ conn[s[1]] # s

\* The lock without session s, if s had it.
Without(s) == IF holder = s THEN NoConn ELSE holder

\* pool.acquire(): an idle connection if the pool picks one, else a new one.
PoolAcquire(r, s) ==
    /\ s \in SessionsOf(r)
    /\ conn[r] = NoConn
    /\ Idle(s) \/ sess[s] = "closed"
    /\ sess' = [sess EXCEPT ![s] = "open"]
    /\ conn' = [conn EXCEPT ![r] = s]

\* pg_try_advisory_lock(key) on r's connection answers true: the lock was
\* free or already this session's (advisory locks are re-entrant).
TryLockTrue(r) ==
    /\ conn[r] # NoConn
    /\ sess[conn[r]] = "open"
    /\ holder \in {NoConn, conn[r]}
    /\ holder' = conn[r]

\* ... and answers false: another session has it.
TryLockFalse(r) ==
    /\ conn[r] # NoConn
    /\ sess[conn[r]] = "open"
    /\ holder \notin {NoConn, conn[r]}

\* The call fails and the loop drops the connection (leader_conn = None).
\* The session may have ended; or only the statement failed, and the live
\* session goes back to the pool with whatever it had locked, which may
\* include the lock this call had just taken; or the socket broke, and the
\* server keeps the session until it notices.
TryLockFails(r) ==
    LET s == conn[r] IN
    /\ s # NoConn
    /\ conn' = [conn EXCEPT ![r] = NoConn]
    /\ \/ /\ sess[s] = "lost"
          /\ sess' = [sess EXCEPT ![s] = "closed"]
          /\ UNCHANGED <<holder, faults>>
       \/ /\ sess[s] = "open"
          /\ Fault
          /\ \E after \in {"open", "orphan"} : sess' = [sess EXCEPT ![s] = after]
          /\ holder' \in IF holder = NoConn THEN {NoConn, s} ELSE {holder}

\* The server ends a session.  A loop that holds the connection finds out at
\* its next call; the pool discards an idle one.
SessionEnds(s) ==
    /\ sess[s] = "open"
    /\ Fault
    /\ sess' = [sess EXCEPT ![s] = IF conn[s[1]] = s THEN "lost" ELSE "closed"]
    /\ holder' = Without(s)
    /\ UNCHANGED conn

\* idle_timeout and max_lifetime of the pool close idle connections, and the
\* server's keepalive ends an orphaned session.
Reap(s) ==
    /\ Idle(s) \/ sess[s] = "orphan"
    /\ sess' = [sess EXCEPT ![s] = "closed"]
    /\ holder' = Without(s)
    /\ UNCHANGED <<conn, faults>>

\* The process dies with all its connections; the server has yet to notice.
ProcessDies(r) ==
    /\ Fault
    /\ sess' = [s \in Sessions |->
                    IF s[1] = r /\ sess[s] = "open" THEN "orphan"
                    ELSE IF s[1] = r /\ sess[s] = "lost" THEN "closed"
                    ELSE sess[s]]
    /\ conn' = [conn EXCEPT ![r] = NoConn]
    /\ UNCHANGED holder
=============================================================================

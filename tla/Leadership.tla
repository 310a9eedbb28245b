----------------------------- MODULE Leadership -----------------------------
(***************************************************************************)
(* What it means that a replica leads: the is_leader flag of its loop      *)
(* (packages/server/src/cluster/mod.rs), which /cluster/status shows,      *)
(* against the session that carries the advisory lock.                     *)
(***************************************************************************)
EXTENDS PgSessions

VARIABLE isLeader   \* is_leader, mirrored by ClusterState (mark_leader)

\* A replica that believes it leads (is_leader, what /cluster/status shows)
\* has a connection, and as long as the server has not ended that session the
\* session has the advisory lock: leadership is never claimed from a stale
\* answer, a connection that was swapped, or a lock another session took.
LeaderHoldsLock ==
    \A r \in Replicas :
        isLeader[r] =>
            /\ conn[r] # NoConn
            /\ sess[conn[r]] = "lost" \/ holder = conn[r]

\* Two replicas believe they lead at the same time only while one of them has
\* not yet noticed that its session ended: the split is never between two
\* live sessions.
SplitNeedsLostSession ==
    \A r, q \in Replicas :
        r # q /\ isLeader[r] /\ isLeader[q] =>
            \E p \in {r, q} : conn[p] # NoConn /\ sess[conn[p]] = "lost"
=============================================================================

---------------------------- MODULE SingletonTask ----------------------------
(***************************************************************************)
(* spawn_singleton_task (packages/server/src/cluster/mod.rs): every replica *)
(* runs the loop; at each tick it makes sure it has a connection, calls    *)
(* pg_try_advisory_lock on it and runs the task's body when the answer is  *)
(* true.  The body takes the pool, not the leader's connection, so the     *)
(* session that carries the lock may end while the body runs.              *)
(***************************************************************************)
EXTENDS Leadership

VARIABLE pc         \* where each replica's loop is

vars == <<pgVars, pc, isLeader>>

TypeOK ==
    /\ PgTypeOK
    /\ pc \in [Replicas -> {"tick", "probe", "body", "down"}]
    /\ isLeader \in [Replicas -> BOOLEAN]

Init ==
    /\ PgInit
    /\ pc = [r \in Replicas |-> "tick"]
    /\ isLeader = [r \in Replicas |-> FALSE]

-----------------------------------------------------------------------------

StepDown(r) == isLeader' = [isLeader EXCEPT ![r] = FALSE]

Goto(r, label) == pc' = [pc EXCEPT ![r] = label]

\* Mutant: the loop only probes on the tick that takes a connection.
TickWithConnSkipsProbe(r) ==
    /\ pc[r] = "tick"
    /\ conn[r] # NoConn
    /\ UNCHANGED vars

\* A tick that finds leader_conn already set.
TickWithConn(r) ==
    /\ pc[r] = "tick"
    /\ conn[r] # NoConn
    /\ Goto(r, "probe")
    /\ UNCHANGED <<pgVars, isLeader>>

\* A tick that takes a connection from the pool.
TickAcquires(r) ==
    /\ pc[r] = "tick"
    /\ \E s \in SessionsOf(r) : PoolAcquire(r, s)
    /\ Goto(r, "probe")
    /\ UNCHANGED <<holder, faults, isLeader>>

\* pool.acquire() fails: the tick ends.
TickAcquireFails(r) ==
    /\ pc[r] = "tick"
    /\ conn[r] = NoConn
    /\ Fault
    /\ StepDown(r)
    /\ UNCHANGED <<sess, holder, conn, pc>>

\* Ok(true): leader, run the body.
ProbeAcquired(r) ==
    /\ pc[r] = "probe"
    /\ TryLockTrue(r)
    /\ isLeader' = [isLeader EXCEPT ![r] = TRUE]
    /\ Goto(r, "body")
    /\ UNCHANGED <<sess, conn, faults>>

\* Ok(false): another session is the leader.
ProbeRefused(r) ==
    /\ pc[r] = "probe"
    /\ TryLockFalse(r)
    /\ StepDown(r)
    /\ Goto(r, "tick")
    /\ UNCHANGED pgVars

\* Mutant: the error branch drops the connection and stays leader.
ProbeFailsStaysLeader(r) ==
    /\ pc[r] = "probe"
    /\ TryLockFails(r)
    /\ Goto(r, "tick")
    /\ UNCHANGED isLeader

\* Err: drop the connection and step down.
ProbeFails(r) ==
    /\ pc[r] = "probe"
    /\ TryLockFails(r)
    /\ StepDown(r)
    /\ Goto(r, "tick")

\* body(pool).await returns.
BodyReturns(r) ==
    /\ pc[r] = "body"
    /\ Goto(r, "tick")
    /\ UNCHANGED <<pgVars, isLeader>>

Crash(r) ==
    /\ pc[r] # "down"
    /\ ProcessDies(r)
    /\ StepDown(r)
    /\ Goto(r, "down")

Restart(r) ==
    /\ pc[r] = "down"
    /\ Goto(r, "tick")
    /\ UNCHANGED <<pgVars, isLeader>>

ServerEnds(s) == SessionEnds(s) /\ UNCHANGED <<pc, isLeader>>

PoolReaps(s) == Reap(s) /\ UNCHANGED <<pc, isLeader>>

Loop(r) ==
    \/ TickWithConn(r)
    \/ TickAcquires(r)
    \/ ProbeAcquired(r)
    \/ ProbeRefused(r)
    \/ ProbeFails(r)
    \/ BodyReturns(r)
    \/ Restart(r)

Next ==
    \/ \E r \in Replicas : Loop(r) \/ TickAcquireFails(r) \/ Crash(r)
    \/ \E s \in Sessions : ServerEnds(s) \/ PoolReaps(s)

Spec == Init /\ [][Next]_vars

\* The interval keeps ticking, awaited calls return, a stopped replica is
\* started again, and the pool and the server's keepalive close what is idle
\* or orphaned.
Fairness ==
    /\ \A r \in Replicas : WF_vars(Loop(r))
    /\ \A s \in Sessions : WF_vars(PoolReaps(s))

FairSpec == Spec /\ Fairness

-----------------------------------------------------------------------------

\* Failover: however sessions, statements and processes failed, once the
\* faults are over the body keeps being run.
BodyKeepsRunning == []<>(\E r \in Replicas : pc[r] = "body")

=============================================================================

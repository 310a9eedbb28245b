------------------------- MODULE SingletonSupervisor -------------------------
(***************************************************************************)
(* spawn_singleton_supervisor (packages/server/src/cluster/mod.rs): like    *)
(* spawn_singleton_task, but leadership owns a long-lived worker task that  *)
(* the loop starts, restarts when it has finished, and aborts when a probe  *)
(* fails or is refused.  JoinHandle::abort only asks: the worker stops at   *)
(* its next await, and until then runs beside whatever comes next.          *)
(***************************************************************************)
EXTENDS PgSessions

VARIABLES
    pc,             \* where each replica's loop is
    worker,         \* the JoinHandle: none, or of a running or finished task
    dying,          \* an aborted worker has not stopped yet
    leading         \* ClusterState: the task is in the set of leader tasks

loopVars == <<pc, worker, dying, leading>>
vars == <<pgVars, loopVars>>

TypeOK ==
    /\ PgTypeOK
    /\ pc \in [Replicas -> {"tick", "probe", "down"}]
    /\ worker \in [Replicas -> {"none", "running", "finished"}]
    /\ dying \in [Replicas -> BOOLEAN]
    /\ leading \in [Replicas -> BOOLEAN]

Init ==
    /\ PgInit
    /\ pc = [r \in Replicas |-> "tick"]
    /\ worker = [r \in Replicas |-> "none"]
    /\ dying = [r \in Replicas |-> FALSE]
    /\ leading = [r \in Replicas |-> FALSE]

-----------------------------------------------------------------------------

Goto(r, label) == pc' = [pc EXCEPT ![r] = label]

\* Mutant: the worker is aborted and the status page is not told.
LoseLeadershipSilently(r) ==
    /\ worker' = [worker EXCEPT ![r] = "none"]
    /\ dying' = [dying EXCEPT ![r] = @ \/ worker[r] = "running"]
    /\ UNCHANGED leading

\* if let Some(h) = worker.take(): h.abort() and mark_not_leader.
LoseLeadership(r) ==
    /\ worker' = [worker EXCEPT ![r] = "none"]
    /\ dying' = [dying EXCEPT ![r] = @ \/ worker[r] = "running"]
    /\ leading' = [leading EXCEPT ![r] = @ /\ worker[r] = "none"]

TickWithConn(r) ==
    /\ pc[r] = "tick"
    /\ conn[r] # NoConn
    /\ Goto(r, "probe")
    /\ UNCHANGED <<pgVars, worker, dying, leading>>

TickAcquires(r) ==
    /\ pc[r] = "tick"
    /\ \E s \in SessionsOf(r) : PoolAcquire(r, s)
    /\ Goto(r, "probe")
    /\ UNCHANGED <<holder, faults, worker, dying, leading>>

TickAcquireFails(r) ==
    /\ pc[r] = "tick"
    /\ conn[r] = NoConn
    /\ Fault
    /\ LoseLeadership(r)
    /\ UNCHANGED <<sess, holder, conn, pc>>

\* Mutant: a worker that has finished counts as a worker.
ProbeAcquiredNoRestart(r) ==
    /\ pc[r] = "probe"
    /\ TryLockTrue(r)
    /\ IF worker[r] # "none"
       THEN UNCHANGED <<worker, leading>>
       ELSE /\ worker' = [worker EXCEPT ![r] = "running"]
            /\ leading' = [leading EXCEPT ![r] = TRUE]
    /\ Goto(r, "tick")
    /\ UNCHANGED <<sess, conn, faults, dying>>

\* Ok(true): start the worker if there is none or it has finished.
ProbeAcquired(r) ==
    /\ pc[r] = "probe"
    /\ TryLockTrue(r)
    /\ IF worker[r] = "running"
       THEN UNCHANGED <<worker, leading>>
       ELSE /\ worker' = [worker EXCEPT ![r] = "running"]
            /\ leading' = [leading EXCEPT ![r] = @ \/ worker[r] = "none"]
    /\ Goto(r, "tick")
    /\ UNCHANGED <<sess, conn, faults, dying>>

\* Ok(false): another session is the leader.
ProbeRefused(r) ==
    /\ pc[r] = "probe"
    /\ TryLockFalse(r)
    /\ LoseLeadership(r)
    /\ Goto(r, "tick")
    /\ UNCHANGED pgVars

\* Mutant: a failed probe drops the connection and keeps the worker.
ProbeFailsKeepsWorker(r) ==
    /\ pc[r] = "probe"
    /\ TryLockFails(r)
    /\ Goto(r, "tick")
    /\ UNCHANGED <<worker, dying, leading>>

\* Err: drop the connection and abort the worker.
ProbeFails(r) ==
    /\ pc[r] = "probe"
    /\ TryLockFails(r)
    /\ LoseLeadership(r)
    /\ Goto(r, "tick")

\* The worker returns or panics.
WorkerExits(r) ==
    /\ worker[r] = "running"
    /\ Fault
    /\ worker' = [worker EXCEPT ![r] = "finished"]
    /\ UNCHANGED <<sess, holder, conn, pc, dying, leading>>

\* An aborted worker reaches an await.
AbortTakesEffect(r) ==
    /\ dying[r]
    /\ dying' = [dying EXCEPT ![r] = FALSE]
    /\ UNCHANGED <<pgVars, pc, worker, leading>>

Crash(r) ==
    /\ pc[r] # "down"
    /\ ProcessDies(r)
    /\ worker' = [worker EXCEPT ![r] = "none"]
    /\ dying' = [dying EXCEPT ![r] = FALSE]
    /\ leading' = [leading EXCEPT ![r] = FALSE]
    /\ Goto(r, "down")

Restart(r) ==
    /\ pc[r] = "down"
    /\ Goto(r, "tick")
    /\ UNCHANGED <<pgVars, worker, dying, leading>>

ServerEnds(s) == SessionEnds(s) /\ UNCHANGED loopVars

PoolReaps(s) == Reap(s) /\ UNCHANGED loopVars

Loop(r) ==
    \/ TickWithConn(r)
    \/ TickAcquires(r)
    \/ ProbeAcquired(r)
    \/ ProbeRefused(r)
    \/ ProbeFails(r)
    \/ Restart(r)

Next ==
    \/ \E r \in Replicas :
        Loop(r) \/ TickAcquireFails(r) \/ WorkerExits(r) \/ AbortTakesEffect(r) \/ Crash(r)
    \/ \E s \in Sessions : ServerEnds(s) \/ PoolReaps(s)

Spec == Init /\ [][Next]_vars

\* As for SingletonTask; and an aborted worker reaches an await.
Fairness ==
    /\ \A r \in Replicas : WF_vars(Loop(r)) /\ WF_vars(AbortTakesEffect(r))
    /\ \A s \in Sessions : WF_vars(PoolReaps(s))

FairSpec == Spec /\ Fairness

-----------------------------------------------------------------------------

Working(r) == worker[r] = "running" \/ dying[r]

\* A replica keeps a worker, running or finished, only on a connection whose
\* session has the advisory lock or has been ended behind its back: every way
\* of losing the connection also takes the worker.
WorkerHoldsLock ==
    \A r \in Replicas :
        worker[r] # "none" =>
            /\ conn[r] # NoConn
            /\ sess[conn[r]] = "lost" \/ holder = conn[r]

\* /cluster/status names the task exactly while this replica has a worker,
\* also across restarts of the worker and lost probes.
StatusMatchesWorker == \A r \in Replicas : leading[r] <=> worker[r] # "none"

\* Workers of two replicas overlap only while one of the replicas has not
\* noticed that its session ended, or its aborted worker has not yet stopped.
OverlapIsExplained ==
    \A r, q \in Replicas :
        r # q /\ Working(r) /\ Working(q) =>
            \E p \in {r, q} : dying[p] \/ (conn[p] # NoConn /\ sess[conn[p]] = "lost")

\* Failover: once the faults are over, some replica's worker runs for good.
WorkerKeepsRunning == <>[](\E r \in Replicas : worker[r] = "running")
=============================================================================

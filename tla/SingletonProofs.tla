-------------------------- MODULE SingletonProofs --------------------------
(***************************************************************************)
(* For any set of replicas and any pool, about both loops of cluster/mod.rs *)
(* that elect a leader.  spawn_singleton_supervisor: a supervised worker   *)
(* runs on a connection that has the advisory lock or whose session has    *)
(* ended, the status page agrees with it, and workers of two replicas      *)
(* overlap only for one of the two reasons the design admits.              *)
(* spawn_singleton_task, below under Task: a replica that believes it      *)
(* leads has the advisory lock unless its session has ended, and two       *)
(* leaders therefore need a lost session.                                  *)
(***************************************************************************)
EXTENDS SingletonSupervisor, Leadership, TLAPS

\* A replica's connection is one of its own sessions (PgTypeOK), so no step of
\* another replica takes the lock from under its worker.
IInv == TypeOK /\ WorkerHoldsLock /\ StatusMatchesWorker

LEMMA SessionOwner ==
    ASSUME NEW r \in Replicas, NEW s \in SessionsOf(r)
    PROVE  s \in Sessions /\ s[1] = r /\ s # NoConn
BY NoConnAssumption DEF SessionsOf, Sessions

LEMMA InitIInv == Init => IInv
BY FaultAssumption DEF Init, PgInit, IInv, TypeOK, PgTypeOK, WorkerHoldsLock, StatusMatchesWorker

LEMMA FaultType ==
    ASSUME faults \in 0 .. MaxFaults, Fault
    PROVE  faults' \in 0 .. MaxFaults
BY FaultAssumption DEF Fault

\* mark_not_leader and abort go together.
LEMMA LosesBoth ==
    ASSUME IInv, NEW r \in Replicas, LoseLeadership(r)
    PROVE  /\ worker' \in [Replicas -> {"none", "running", "finished"}]
           /\ dying' \in [Replicas -> BOOLEAN] /\ leading' \in [Replicas -> BOOLEAN]
           /\ worker'[r] = "none"
           /\ \A q \in Replicas \ {r} : worker'[q] = worker[q]
           /\ StatusMatchesWorker'
<1> USE DEF IInv, TypeOK, LoseLeadership
<1>1. leading[r] <=> worker[r] # "none"
  BY DEF StatusMatchesWorker
<1>2. (leading[r] /\ worker[r] = "none") <=> FALSE
  BY <1>1
<1>3. leading'[r] = FALSE /\ \A q \in Replicas \ {r} : leading'[q] = leading[q]
  BY <1>2
<1>4. worker'[r] = "none" /\ \A q \in Replicas \ {r} : worker'[q] = worker[q]
  OBVIOUS
<1>5. StatusMatchesWorker'
  BY <1>3, <1>4 DEF StatusMatchesWorker
<1>6. leading' \in [Replicas -> BOOLEAN] /\ dying' \in [Replicas -> BOOLEAN]
  OBVIOUS
<1> QED BY <1>4, <1>5, <1>6

LEMMA ServerStep ==
    ASSUME IInv, NEW s \in Sessions, ServerEnds(s) \/ PoolReaps(s)
    PROVE  IInv'
<1> USE DEF IInv, TypeOK, loopVars
<1>1. CASE ServerEnds(s)
  <2> USE <1>1 DEF ServerEnds, SessionEnds
  <2>1. PgTypeOK'
    BY FaultType DEF PgTypeOK, Without, SessionsOf
  <2>2. WorkerHoldsLock'
    BY DEF WorkerHoldsLock, Without, PgTypeOK, SessionsOf
  <2> QED BY <2>1, <2>2 DEF StatusMatchesWorker
<1>2. CASE PoolReaps(s)
  <2> USE <1>2 DEF PoolReaps, Reap, Idle
  <2>1. PgTypeOK'
    BY DEF PgTypeOK, Without, SessionsOf
  <2>2. WorkerHoldsLock'
    BY DEF WorkerHoldsLock, Without, PgTypeOK, SessionsOf
  <2> QED BY <2>1, <2>2 DEF StatusMatchesWorker
<1> QED BY <1>1, <1>2

LEMMA LoopStep ==
    ASSUME IInv, NEW r \in Replicas,
           Loop(r) \/ TickAcquireFails(r) \/ WorkerExits(r) \/ AbortTakesEffect(r) \/ Crash(r)
    PROVE  IInv'
<1> USE DEF IInv, TypeOK, Goto
<1>1. CASE TickWithConn(r)
  BY <1>1 DEF TickWithConn, pgVars, PgTypeOK, WorkerHoldsLock, StatusMatchesWorker
<1>2. CASE TickAcquires(r)
  <2>1. PICK s \in SessionsOf(r) : PoolAcquire(r, s)
    BY <1>2 DEF TickAcquires
  <2>2. s \in Sessions /\ s[1] = r /\ s # NoConn
    BY <2>1, SessionOwner
  <2> USE <1>2, <2>1, <2>2 DEF TickAcquires, PoolAcquire
  <2>3. PgTypeOK'
    BY DEF PgTypeOK, SessionsOf
  <2>4. WorkerHoldsLock'
    BY DEF WorkerHoldsLock, PgTypeOK, SessionsOf
  <2> QED BY <2>3, <2>4 DEF StatusMatchesWorker
<1>3. CASE TickAcquireFails(r)
  <2>1. LoseLeadership(r)
    BY <1>3 DEF TickAcquireFails
  <2>2. PgTypeOK' /\ pc' \in [Replicas -> {"tick", "probe", "down"}]
    BY <1>3, FaultType DEF TickAcquireFails, PgTypeOK
  <2>3. WorkerHoldsLock'
    BY <1>3, <2>1, LosesBoth DEF TickAcquireFails, WorkerHoldsLock
  <2> QED BY <2>1, <2>2, <2>3, LosesBoth
<1>4. CASE ProbeAcquired(r)
  <2> USE <1>4 DEF ProbeAcquired, TryLockTrue
  <2>1. PgTypeOK' /\ pc' \in [Replicas -> {"tick", "probe", "down"}] /\ dying' = dying
    BY DEF PgTypeOK
  <2>2. /\ worker' \in [Replicas -> {"none", "running", "finished"}]
        /\ \A q \in Replicas \ {r} : worker'[q] = worker[q]
        /\ worker'[r] = "running"
    BY DEF PgTypeOK
  <2>3. WorkerHoldsLock'
    BY <2>2, NoConnAssumption DEF WorkerHoldsLock, PgTypeOK, SessionsOf
  <2>4. leading' \in [Replicas -> BOOLEAN] /\ \A q \in Replicas \ {r} : leading'[q] = leading[q]
    BY DEF PgTypeOK
  <2>5. leading'[r]
    <3>1. leading[r] <=> worker[r] # "none"
      BY DEF StatusMatchesWorker
    <3>2. CASE worker[r] = "running"
      BY <3>1, <3>2
    <3>3. CASE worker[r] # "running"
      <4>1. leading'[r] = (leading[r] \/ worker[r] = "none")
        BY <3>3
      <4> QED BY <3>1, <4>1
    <3> QED BY <3>2, <3>3
  <2>6. StatusMatchesWorker'
    BY <2>2, <2>4, <2>5 DEF StatusMatchesWorker
  <2> QED BY <2>1, <2>2, <2>3, <2>4, <2>6
<1>5. CASE ProbeRefused(r)
  <2>1. LoseLeadership(r)
    BY <1>5 DEF ProbeRefused
  <2>2. PgTypeOK' /\ pc' \in [Replicas -> {"tick", "probe", "down"}]
    BY <1>5 DEF ProbeRefused, pgVars, PgTypeOK
  <2>3. WorkerHoldsLock'
    BY <1>5, <2>1, LosesBoth DEF ProbeRefused, pgVars, WorkerHoldsLock
  <2> QED BY <2>1, <2>2, <2>3, LosesBoth
<1>6. CASE ProbeFails(r)
  <2> USE <1>6 DEF ProbeFails, TryLockFails
  <2>1. conn[r] \in Sessions /\ conn[r][1] = r
    BY DEF PgTypeOK, SessionsOf
  <2>2. PgTypeOK' /\ pc' \in [Replicas -> {"tick", "probe", "down"}]
    BY <2>1, FaultType DEF PgTypeOK, SessionsOf
  <2>3. LoseLeadership(r)
    OBVIOUS
  <2>4. WorkerHoldsLock'
    <3> SUFFICES ASSUME NEW q \in Replicas, worker'[q] # "none"
                 PROVE  conn'[q] # NoConn /\ (sess'[conn'[q]] = "lost" \/ holder' = conn'[q])
      BY DEF WorkerHoldsLock
    <3>1. q # r /\ worker[q] # "none"
      BY <2>3, LosesBoth
    <3>2. conn'[q] = conn[q] /\ conn[q] # NoConn /\ conn[q][1] = q /\ conn[q] # conn[r]
      BY <3>1, <2>1 DEF WorkerHoldsLock, PgTypeOK, SessionsOf
    <3> QED BY <3>1, <3>2, <2>1 DEF WorkerHoldsLock, PgTypeOK
  <2> QED BY <2>2, <2>3, <2>4, LosesBoth
<1>7. CASE WorkerExits(r)
  <2> USE <1>7 DEF WorkerExits
  <2>1. PgTypeOK'
    BY FaultType DEF PgTypeOK
  <2>2. WorkerHoldsLock' /\ StatusMatchesWorker'
    BY DEF WorkerHoldsLock, StatusMatchesWorker
  <2> QED BY <2>1, <2>2
<1>8. CASE AbortTakesEffect(r)
  BY <1>8 DEF AbortTakesEffect, pgVars, PgTypeOK, WorkerHoldsLock, StatusMatchesWorker
<1>9. CASE Restart(r)
  BY <1>9 DEF Restart, pgVars, PgTypeOK, WorkerHoldsLock, StatusMatchesWorker
<1>10. CASE Crash(r)
  <2> USE <1>10 DEF Crash, ProcessDies
  <2>1. PgTypeOK'
    BY FaultType DEF PgTypeOK, SessionsOf
  <2>2. WorkerHoldsLock'
    BY DEF WorkerHoldsLock, PgTypeOK, SessionsOf
  <2>3. StatusMatchesWorker'
    BY DEF StatusMatchesWorker
  <2> QED BY <2>1, <2>2, <2>3
<1> QED BY <1>1, <1>2, <1>3, <1>4, <1>5, <1>6, <1>7, <1>8, <1>9, <1>10 DEF Loop

LEMMA NextIInv == IInv /\ [Next]_vars => IInv'
<1> SUFFICES ASSUME IInv, [Next]_vars PROVE IInv'
  OBVIOUS
<1>1. CASE UNCHANGED vars
  BY <1>1 DEF vars, pgVars, loopVars, IInv, TypeOK, PgTypeOK, WorkerHoldsLock, StatusMatchesWorker
<1>2. CASE Next
  BY <1>2, ServerStep, LoopStep DEF Next
<1> QED BY <1>1, <1>2

LEMMA AlwaysIInv == Spec => []IInv
BY InitIInv, NextIInv, PTL DEF Spec

-----------------------------------------------------------------------------

\* Type correctness of the sessions, the loops and their workers.
THEOREM TypeCorrect == Spec => []TypeOK
<1>1. IInv => TypeOK
  BY DEF IInv
<1> QED BY <1>1, AlwaysIInv, PTL

\* A replica keeps a worker only on a connection that has the advisory lock,
\* or whose session the server has ended.
THEOREM WorkersHoldTheLock == Spec => []WorkerHoldsLock
<1>1. IInv => WorkerHoldsLock
  BY DEF IInv
<1> QED BY <1>1, AlwaysIInv, PTL

\* ClusterState names the task exactly while this replica has a worker.
THEOREM StatusIsTrue == Spec => []StatusMatchesWorker
<1>1. IInv => StatusMatchesWorker
  BY DEF IInv
<1> QED BY <1>1, AlwaysIInv, PTL

\* Workers of two replicas run at once only while an aborted one has not
\* stopped or a replica has not noticed that its session ended.
THEOREM OverlapsAreExplained == Spec => []OverlapIsExplained
<1>1. IInv => OverlapIsExplained
  <2> SUFFICES ASSUME IInv, NEW r \in Replicas, NEW q \in Replicas, r # q,
                      Working(r), Working(q), ~dying[r], ~dying[q]
               PROVE  \E p \in {r, q} : conn[p] # NoConn /\ sess[conn[p]] = "lost"
    BY DEF OverlapIsExplained
  <2>1. worker[r] = "running" /\ worker[q] = "running"
    BY DEF Working
  <2>2. \A p \in {r, q} : conn[p] # NoConn /\ (sess[conn[p]] = "lost" \/ holder = conn[p])
    BY <2>1 DEF IInv, WorkerHoldsLock
  <2>3. conn[r] # conn[q]
    BY <2>2 DEF IInv, TypeOK, PgTypeOK, SessionsOf
  <2> QED BY <2>2, <2>3
<1> QED BY <1>1, AlwaysIInv, PTL

-----------------------------------------------------------------------------
(* spawn_singleton_task: the same sessions and lock, its own loop *)

Task == INSTANCE SingletonTask

\* LeaderHoldsLock needs the typing of conn: a replica's connection is one of
\* its own sessions, so what happens to another replica's session does not
\* touch it.
TaskIInv == Task!TypeOK /\ LeaderHoldsLock

\* Sessions of different replicas are different.
LEMMA TaskSessionOwner ==
    ASSUME NEW r \in Replicas, NEW s \in Task!SessionsOf(r)
    PROVE  s \in Task!Sessions /\ s[1] = r /\ s # NoConn
BY NoConnAssumption DEF Task!SessionsOf, Task!Sessions

LEMMA TaskInitIInv == Task!Init => TaskIInv
BY FaultAssumption DEF Task!Init, Task!PgInit, TaskIInv, Task!TypeOK, Task!PgTypeOK, LeaderHoldsLock

LEMMA TaskFaultType ==
    ASSUME faults \in 0 .. MaxFaults, Task!Fault
    PROVE  faults' \in 0 .. MaxFaults
BY FaultAssumption DEF Task!Fault

\* The typing and the lock's ownership survive what the pool and the server do
\* to sessions no loop is using, and what they do to a leader's session.
LEMMA TaskServerStep ==
    ASSUME TaskIInv, NEW s \in Task!Sessions, Task!ServerEnds(s) \/ Task!PoolReaps(s)
    PROVE  TaskIInv'
<1> USE DEF TaskIInv, Task!TypeOK
<1>1. CASE Task!ServerEnds(s)
  <2> USE <1>1 DEF Task!ServerEnds, Task!SessionEnds
  <2>1. Task!PgTypeOK'
    BY TaskFaultType DEF Task!PgTypeOK, Task!Without, Task!SessionsOf
  <2>2. LeaderHoldsLock'
    BY DEF LeaderHoldsLock, Task!Without, Task!PgTypeOK, Task!SessionsOf
  <2> QED BY <2>1, <2>2
<1>2. CASE Task!PoolReaps(s)
  <2> USE <1>2 DEF Task!PoolReaps, Task!Reap, Task!Idle
  <2>1. Task!PgTypeOK'
    BY DEF Task!PgTypeOK, Task!Without, Task!SessionsOf
  <2>2. LeaderHoldsLock'
    BY DEF LeaderHoldsLock, Task!Without, Task!PgTypeOK, Task!SessionsOf
  <2> QED BY <2>1, <2>2
<1> QED BY <1>1, <1>2

LEMMA TaskLoopStep ==
    ASSUME TaskIInv, NEW r \in Replicas, Task!Loop(r) \/ Task!TickAcquireFails(r) \/ Task!Crash(r)
    PROVE  TaskIInv'
<1> USE DEF TaskIInv, Task!TypeOK, Task!Goto, Task!StepDown
<1>1. CASE Task!TickWithConn(r)
  BY <1>1 DEF Task!TickWithConn, Task!pgVars, Task!PgTypeOK, LeaderHoldsLock
<1>2. CASE Task!TickAcquires(r)
  <2>1. PICK s \in Task!SessionsOf(r) : Task!PoolAcquire(r, s)
    BY <1>2 DEF Task!TickAcquires
  <2>2. s \in Task!Sessions /\ s[1] = r /\ s # NoConn
    BY <2>1, TaskSessionOwner
  <2> USE <1>2, <2>1, <2>2 DEF Task!TickAcquires, Task!PoolAcquire
  <2>3. Task!PgTypeOK'
    BY DEF Task!PgTypeOK, Task!SessionsOf
  <2>4. LeaderHoldsLock'
    BY DEF LeaderHoldsLock, Task!PgTypeOK, Task!SessionsOf
  <2> QED BY <2>3, <2>4
<1>3. CASE Task!TickAcquireFails(r)
  BY <1>3, TaskFaultType DEF Task!TickAcquireFails, Task!PgTypeOK, LeaderHoldsLock
<1>4. CASE Task!ProbeAcquired(r)
  <2> USE <1>4 DEF Task!ProbeAcquired, Task!TryLockTrue
  <2>1. Task!PgTypeOK'
    BY DEF Task!PgTypeOK
  <2>2. LeaderHoldsLock'
    BY NoConnAssumption DEF LeaderHoldsLock, Task!PgTypeOK, Task!SessionsOf
  <2> QED BY <2>1, <2>2
<1>5. CASE Task!ProbeRefused(r)
  BY <1>5 DEF Task!ProbeRefused, Task!pgVars, Task!PgTypeOK, LeaderHoldsLock
<1>6. CASE Task!ProbeFails(r)
  <2> USE <1>6 DEF Task!ProbeFails, Task!TryLockFails
  <2>1. conn[r] \in Task!Sessions /\ conn[r][1] = r
    BY DEF Task!PgTypeOK, Task!SessionsOf
  <2>2. Task!PgTypeOK'
    BY <2>1, TaskFaultType DEF Task!PgTypeOK, Task!SessionsOf
  <2>3. LeaderHoldsLock'
    BY <2>1 DEF LeaderHoldsLock, Task!PgTypeOK, Task!SessionsOf
  <2> QED BY <2>2, <2>3
<1>7. CASE Task!BodyReturns(r)
  BY <1>7 DEF Task!BodyReturns, Task!pgVars, Task!PgTypeOK, LeaderHoldsLock
<1>8. CASE Task!Restart(r)
  BY <1>8 DEF Task!Restart, Task!pgVars, Task!PgTypeOK, LeaderHoldsLock
<1>9. CASE Task!Crash(r)
  <2> USE <1>9 DEF Task!Crash, Task!ProcessDies
  <2>1. Task!PgTypeOK'
    BY TaskFaultType DEF Task!PgTypeOK, Task!SessionsOf
  <2>2. LeaderHoldsLock'
    BY DEF LeaderHoldsLock, Task!PgTypeOK, Task!SessionsOf
  <2> QED BY <2>1, <2>2
<1> QED BY <1>1, <1>2, <1>3, <1>4, <1>5, <1>6, <1>7, <1>8, <1>9 DEF Task!Loop

LEMMA TaskNextIInv == TaskIInv /\ [Task!Next]_(Task!vars) => TaskIInv'
<1> SUFFICES ASSUME TaskIInv, [Task!Next]_(Task!vars) PROVE TaskIInv'
  OBVIOUS
<1>1. CASE UNCHANGED Task!vars
  BY <1>1 DEF Task!vars, Task!pgVars, TaskIInv, Task!TypeOK, Task!PgTypeOK, LeaderHoldsLock
<1>2. CASE Task!Next
  BY <1>2, TaskServerStep, TaskLoopStep DEF Task!Next
<1> QED BY <1>1, <1>2

\* The sessions, the loops and the lock keep their types, and a connection a
\* loop holds is one of its own replica's sessions that it has not closed.
THEOREM TaskTypeCorrect == Task!Spec => []Task!TypeOK
<1>1. TaskIInv => Task!TypeOK BY DEF TaskIInv
<1> QED BY TaskInitIInv, TaskNextIInv, <1>1, PTL DEF Task!Spec

\* A replica whose is_leader is set has the advisory lock, unless the server
\* has ended the session of its leader connection.
THEOREM LeadersHoldTheLock == Task!Spec => []LeaderHoldsLock
<1>1. TaskIInv => LeaderHoldsLock BY DEF TaskIInv
<1> QED BY TaskInitIInv, TaskNextIInv, <1>1, PTL DEF Task!Spec

\* Two replicas lead at once only if one of them has a session that ended.
THEOREM SplitsNeedALostSession == Task!Spec => []SplitNeedsLostSession
<1>1. TaskIInv => SplitNeedsLostSession
  BY DEF TaskIInv, Task!TypeOK, Task!PgTypeOK, Task!SessionsOf, LeaderHoldsLock, SplitNeedsLostSession
<1> QED BY TaskInitIInv, TaskNextIInv, <1>1, PTL DEF Task!Spec
=============================================================================

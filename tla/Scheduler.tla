----------------------------- MODULE Scheduler -----------------------------
(***************************************************************************)
(* Replicas of memory-scheduler: each runs every job on a ticker of its    *)
(* own (internal/services/scheduler/runner.go) and runs a tick only while  *)
(* its database session holds the advisory lock of the job's name          *)
(* (leaderSafe, WithAdvisoryLock).  On SIGTERM a replica waits for its     *)
(* jobs and then closes its connections (cmd/memory-scheduler, shutdown).  *)
(*                                                                         *)
(* Postgres is external: a session-level lock is freed by an unlock on its *)
(* session or when that session ends.                                      *)
(***************************************************************************)
EXTENDS Naturals, FiniteSets

CONSTANTS
    Replicas,      \* memory-scheduler processes
    JobNames,      \* "retention", "reindex", "jobs", "compaction"
    MaxDeaths,     \* bound on crashes and on SIGTERMs
    MaxDrops,      \* bound on lost database sessions
    Free

ASSUME SchedulerAssumption == /\ IsFiniteSet(Replicas)
                              /\ MaxDeaths \in Nat /\ MaxDrops \in Nat
                              /\ Free \notin Replicas

VARIABLES
    proc,     \* each process: up, stopping (context cancelled) or down
    run,      \* whether the replica is inside the job's function
    lock,     \* the replica whose session holds each advisory lock
    deaths, drops

schedulerVars == <<proc, run, lock, deaths, drops>>

SchedulerInit ==
    /\ proc = [r \in Replicas |-> "up"]
    /\ run = [r \in Replicas |-> [j \in JobNames |-> FALSE]]
    /\ lock = [j \in JobNames |-> Free]
    /\ deaths = 0
    /\ drops = 0

\* Mutant: the result of pg_try_advisory_lock is not looked at.
AcquirableAlways(j) == TRUE
Acquirable(j) == lock[j] = Free

\* A tick that wins the lock.  One that does not win it changes nothing, and a
\* ticker whose job is still running drops the tick.
Tick(r, j) ==
    /\ proc[r] = "up"
    /\ ~run[r][j]
    /\ Acquirable(j)
    /\ run' = [run EXCEPT ![r][j] = TRUE]
    /\ lock' = [lock EXCEPT ![j] = r]
    /\ UNCHANGED <<proc, deaths, drops>>

\* Mutant: the deferred unlock is forgotten.
UnlockedNever(r, j) == lock
Unlocked(r, j) == IF lock[j] = r THEN [lock EXCEPT ![j] = Free] ELSE lock

\* The job returns, nil or an error, and the deferred unlock runs.
Finish(r, j) ==
    /\ proc[r] = "up"
    /\ run[r][j]
    /\ run' = [run EXCEPT ![r][j] = FALSE]
    /\ lock' = Unlocked(r, j)
    /\ UNCHANGED <<proc, deaths, drops>>

\* Under a cancelled context the unlock is not sent: the connection goes back
\* to the pool with its session still holding the lock.
FinishCancelled(r, j) ==
    /\ proc[r] = "stopping"
    /\ run[r][j]
    /\ run' = [run EXCEPT ![r][j] = FALSE]
    /\ UNCHANGED <<proc, lock, deaths, drops>>

Cancel(r) ==
    /\ proc[r] = "up"
    /\ deaths < MaxDeaths
    /\ deaths' = deaths + 1
    /\ proc' = [proc EXCEPT ![r] = "stopping"]
    /\ UNCHANGED <<run, lock, drops>>

\* Postgres ends the sessions of a closed pool or of a dead process.
SessionsEnd(r) == [j \in JobNames |-> IF lock[j] = r THEN Free ELSE lock[j]]

JobsReturned(r) == \A j \in JobNames : ~run[r][j]

\* Runner.Start returns once every job has, then the hooks close the pool and
\* main ends.
Close(r) ==
    /\ proc[r] = "stopping"
    /\ JobsReturned(r)
    /\ proc' = [proc EXCEPT ![r] = "down"]
    /\ lock' = SessionsEnd(r)
    /\ UNCHANGED <<run, deaths, drops>>

\* The process dies: its sessions end with it.
Crash(r) ==
    /\ proc[r] \in {"up", "stopping"}
    /\ deaths < MaxDeaths
    /\ deaths' = deaths + 1
    /\ proc' = [proc EXCEPT ![r] = "down"]
    /\ run' = [run EXCEPT ![r] = [j \in JobNames |-> FALSE]]
    /\ lock' = SessionsEnd(r)
    /\ UNCHANGED drops

Restart(r) ==
    /\ proc[r] = "down"
    /\ proc' = [proc EXCEPT ![r] = "up"]
    /\ UNCHANGED <<run, lock, deaths, drops>>

\* The session that holds the lock is lost.  The job uses other connections of
\* the pool and does not notice.
Drop(r, j) ==
    /\ lock[j] = r
    /\ drops < MaxDrops
    /\ drops' = drops + 1
    /\ lock' = [lock EXCEPT ![j] = Free]
    /\ UNCHANGED <<proc, run, deaths>>

JobStep(r, j) == Tick(r, j) \/ Finish(r, j) \/ FinishCancelled(r, j) \/ Drop(r, j)

SchedulerNext ==
    \E r \in Replicas : \/ \E j \in JobNames : JobStep(r, j)
                        \/ Cancel(r) \/ Close(r) \/ Crash(r) \/ Restart(r)

SchedulerSpec == SchedulerInit /\ [][SchedulerNext]_schedulerVars

\* Tickers tick, jobs return (their statements and calls have timeouts), a
\* stopping process closes and a dead one is started again.  A ticker is not
\* promised to find the lock free: that some replica does is weak fairness of
\* all of them together.
FairSpec ==
    /\ SchedulerSpec
    /\ \A j \in JobNames : WF_schedulerVars(\E r \in Replicas : Tick(r, j))
    /\ \A r \in Replicas, j \in JobNames :
          WF_schedulerVars(Finish(r, j)) /\ WF_schedulerVars(FinishCancelled(r, j))
    /\ \A r \in Replicas : WF_schedulerVars(Close(r)) /\ WF_schedulerVars(Restart(r))

-----------------------------------------------------------------------------
(* Properties. *)

\* Processes, jobs and locks hold values of their kinds, and no lock outlives
\* the process whose session took it.
TypeOK ==
    /\ proc \in [Replicas -> {"up", "stopping", "down"}]
    /\ run \in [Replicas -> [JobNames -> BOOLEAN]]
    /\ lock \in [JobNames -> Replicas \cup {Free}]
    /\ \A j \in JobNames : lock[j] # Free => proc[lock[j]] # "down"
    /\ deaths \in 0..MaxDeaths
    /\ drops \in 0..MaxDrops

\* A job is single-flight, though replicas tick at the same time, die inside a
\* job or leave a lock in a pooled connection.  It fails only where a session
\* with a lock was lost under a running job, and each such loss lets in one more
\* replica at most.
OneFlightPerSession ==
    \A j \in JobNames : Cardinality({r \in Replicas : run[r][j]}) <= 1 + drops

\* A lock held by a session that runs no job is one a stopping process left in
\* its pool (locks.go:25, the unlock sent under the cancelled context), so it
\* ends with that process: a replica that stays up, one that was restarted
\* included, never keeps the others from a job it does not run.
StrandedOnlyInShutdown ==
    \A j \in JobNames :
        lock[j] # Free => run[lock[j]][j] \/ proc[lock[j]] = "stopping"

\* No lock is stranded: however replicas die or stop, each job is run again
\* and again.
EveryJobRuns == \A j \in JobNames : []<>(\E r \in Replicas : run[r][j])
=============================================================================

------------------------------ MODULE JobQueue ------------------------------
(***************************************************************************)
(* The durable Postgres queue of the ingestion path: the memory_jobs       *)
(* table, the workers that claim, handle and mark its rows                 *)
(* (internal/adapters/queue/postgres/queue.go), and the scheduler's        *)
(* jobs-maintenance job that purges and resets them                        *)
(* (internal/bootstrap/scheduler.go).                                      *)
(*                                                                         *)
(* Time is abstracted to what the SQL conditions can tell apart: the age   *)
(* of locked_at (under 5 minutes, under 15, over 15) and whether           *)
(* available_at has been reached.                                          *)
(***************************************************************************)
EXTENDS Naturals, FiniteSets

CONSTANTS
    Jobs,          \* ids of the rows that may be published
    Workers,       \* Subscribe loops, one per memory-worker process
    MaxAttempts,   \* max_attempts of every row
    MaxFaults,     \* bound on worker stops and on lost marks
    NoJob          \* what an idle worker holds

ASSUME QueueAssumption == /\ MaxAttempts \in Nat \ {0}
                          /\ MaxFaults \in Nat
                          /\ NoJob \notin Jobs

VARIABLES
    status,     \* memory_jobs.status; "absent" before INSERT, "purged" after DELETE
    attempts,   \* memory_jobs.attempts
    lock,       \* age of memory_jobs.locked_at
    ripe,       \* available_at <= now()
    worker,     \* the local state of each Subscribe loop
    sweep,      \* the next statement of jobs-maintenance
    handled,    \* jobs some handler call returned nil for
    overrun,    \* jobs whose lease went stale at least once
    faults      \* faults so far

row  == <<status, attempts, lock, ripe>>
hist == <<handled, overrun, faults>>
vars == <<status, attempts, lock, ripe, worker, sweep, handled, overrun, faults>>

Statuses == {"absent", "queued", "processing", "retry", "done", "failed", "purged"}
LockAges == {"null", "fresh", "stale", "overdue"}

\* attempt is the value of attempts the claim returned with; the code does not
\* keep it, the properties use it to name one run of the handler.
WorkerState == [pc : {"idle", "handling", "succeeded", "errored", "stopped"},
                job : Jobs \cup {NoJob},
                attempt : 0..MaxAttempts]

IdleWorker    == [pc |-> "idle", job |-> NoJob, attempt |-> 0]
StoppedWorker == [pc |-> "stopped", job |-> NoJob, attempt |-> 0]

Exists(j)  == status[j] \notin {"absent", "purged"}
Holds(w, j) == worker[w].job = j

Init == /\ status   = [j \in Jobs |-> "absent"]
        /\ attempts = [j \in Jobs |-> 0]
        /\ lock     = [j \in Jobs |-> "null"]
        /\ ripe     = [j \in Jobs |-> FALSE]
        /\ worker   = [w \in Workers |-> IdleWorker]
        /\ sweep    = "purge"
        /\ handled  = {}
        /\ overrun  = {}
        /\ faults   = 0

-----------------------------------------------------------------------------
(* Publisher and workers. *)

Publish(j) ==
    /\ status[j] = "absent"
    /\ status' = [status EXCEPT ![j] = "queued"]
    /\ ripe'   = [ripe EXCEPT ![j] = TRUE]
    /\ UNCHANGED <<attempts, lock, worker, sweep, hist>>

\* Mutant: the lease of a row in processing is not looked at.
ClaimableUnleased(j) ==
    /\ attempts[j] < MaxAttempts
    /\ \/ status[j] \in {"queued", "retry"} /\ ripe[j]
       \/ status[j] = "processing"
\* Mutant: a row in retry is not claimed.
ClaimableOnce(j) ==
    /\ attempts[j] < MaxAttempts
    /\ \/ status[j] = "queued" /\ ripe[j]
       \/ status[j] = "processing" /\ lock[j] \in {"stale", "overdue"}

Claimable(j) ==
    /\ attempts[j] < MaxAttempts
    /\ \/ status[j] \in {"queued", "retry"} /\ ripe[j]
       \/ status[j] = "processing" /\ lock[j] \in {"stale", "overdue"}

\* Mutant: reclaiming a stale row does not count as an attempt.
UncountedReclaim(j) == IF status[j] = "processing" THEN attempts[j]
                                                   ELSE attempts[j] + 1
NextAttempt(j) == attempts[j] + 1

\* The UPDATE ... RETURNING of processNext: selection and claim are one
\* statement.  Which claimable row comes first (ORDER BY, SKIP LOCKED) is left
\* open.
Claim(w, j) ==
    /\ worker[w].pc = "idle"
    /\ Claimable(j)
    /\ status'   = [status EXCEPT ![j] = "processing"]
    /\ attempts' = [attempts EXCEPT ![j] = NextAttempt(j)]
    /\ lock'     = [lock EXCEPT ![j] = "fresh"]
    /\ worker'   = [worker EXCEPT ![w] = [pc |-> "handling", job |-> j,
                                          attempt |-> NextAttempt(j)]]
    /\ UNCHANGED <<ripe, sweep, hist>>

\* The handler is AsyncService's closure around Ingest; it runs without a
\* timeout of its own and outside any transaction on the row.
HandlerReturns(w, result) ==
    /\ worker[w].pc = "handling"
    /\ worker' = [worker EXCEPT ![w].pc = result]
    /\ handled' = IF result = "succeeded" THEN handled \cup {worker[w].job}
                                          ELSE handled
    /\ UNCHANGED <<row, sweep, overrun, faults>>

\* UPDATE ... WHERE id = $1: no test of the status or of who holds the lease;
\* no effect on a row that maintenance has deleted.
MarkDone(w) ==
    LET j == worker[w].job IN
    /\ worker[w].pc = "succeeded"
    /\ status' = IF Exists(j) THEN [status EXCEPT ![j] = "done"] ELSE status
    /\ worker' = [worker EXCEPT ![w] = IdleWorker]
    /\ UNCHANGED <<attempts, lock, ripe, sweep, hist>>

\* Mutants: the first failure is final; failures are never final.
FailAtOnce(j) == "failed"
RetryForever(j) == "retry"
StatusAfterFailure(j) == IF attempts[j] >= MaxAttempts THEN "failed" ELSE "retry"

MarkFailed(w) ==
    LET j == worker[w].job IN
    /\ worker[w].pc = "errored"
    /\ IF Exists(j)
       THEN /\ status' = [status EXCEPT ![j] = StatusAfterFailure(j)]
            /\ ripe'   = [ripe EXCEPT ![j] = FALSE]
       ELSE UNCHANGED <<status, ripe>>
    /\ worker' = [worker EXCEPT ![w] = IdleWorker]
    /\ UNCHANGED <<attempts, lock, sweep, hist>>

\* markDone or markFailed returns an error: Subscribe sleeps and polls again,
\* the row stays as it is.
MarkLost(w) ==
    /\ worker[w].pc \in {"succeeded", "errored"}
    /\ faults < MaxFaults
    /\ faults' = faults + 1
    /\ worker' = [worker EXCEPT ![w] = IdleWorker]
    /\ UNCHANGED <<row, sweep, handled, overrun>>

\* The process dies, or its context is cancelled: the statements of a cancelled
\* context fail, so the row is left to the lease either way.
Stop(w) ==
    /\ worker[w].pc # "stopped"
    /\ faults < MaxFaults
    /\ faults' = faults + 1
    /\ worker' = [worker EXCEPT ![w] = StoppedWorker]
    /\ UNCHANGED <<row, sweep, handled, overrun>>

Restart(w) ==
    /\ worker[w].pc = "stopped"
    /\ worker' = [worker EXCEPT ![w] = IdleWorker]
    /\ UNCHANGED <<row, sweep, hist>>

-----------------------------------------------------------------------------
(* The scheduler's jobs-maintenance: two statements, one transaction each.  *)

\* Mutant: retention removes failed rows as well.
PurgeableSettled(j) == status[j] \in {"done", "failed"}
Purgeable(j) == status[j] = "done"

\* Any rows that are done may be older than the retention period.
Purge(old) ==
    /\ sweep = "purge"
    /\ \A j \in old : Purgeable(j)
    /\ status' = [j \in Jobs |-> IF j \in old THEN "purged" ELSE status[j]]
    /\ sweep' = "reset"
    /\ UNCHANGED <<attempts, lock, ripe, worker, hist>>

Overdue(j) == status[j] = "processing" /\ lock[j] = "overdue"

ResetOverdue ==
    /\ sweep = "reset"
    /\ status' = [j \in Jobs |-> IF Overdue(j) THEN "retry" ELSE status[j]]
    /\ lock'   = [j \in Jobs |-> IF Overdue(j) THEN "null" ELSE lock[j]]
    /\ sweep' = "purge"
    /\ UNCHANGED <<attempts, ripe, worker, hist>>

-----------------------------------------------------------------------------
(* Time, which passes only where a condition of the SQL can see it.         *)

Ripen(j) ==
    /\ status[j] = "retry"
    /\ ~ripe[j]
    /\ ripe' = [ripe EXCEPT ![j] = TRUE]
    /\ UNCHANGED <<status, attempts, lock, worker, sweep, hist>>

OlderLock(age) == IF age = "fresh" THEN "stale" ELSE "overdue"

LockAgesBy(j) ==
    /\ status[j] = "processing"
    /\ lock[j] \in {"fresh", "stale"}
    /\ lock' = [lock EXCEPT ![j] = OlderLock(@)]
    /\ overrun' = overrun \cup {j}
    /\ UNCHANGED <<status, attempts, ripe, worker, sweep, handled, faults>>

-----------------------------------------------------------------------------
Returns(w) == \E result \in {"succeeded", "errored"} : HandlerReturns(w, result)
Mark(w)    == MarkDone(w) \/ MarkFailed(w)

WorkerStep(w) == \/ \E j \in Jobs : Claim(w, j)
                 \/ Returns(w) \/ Mark(w) \/ MarkLost(w)
                 \/ Stop(w) \/ Restart(w)

Maintenance == ResetOverdue \/ \E old \in SUBSET Jobs : Purge(old)

JobStep(j) == Publish(j) \/ Ripen(j) \/ LockAgesBy(j)

Next == \/ \E w \in Workers : WorkerStep(w)
        \/ \E j \in Jobs : JobStep(j)
        \/ Maintenance

Spec == Init /\ [][Next]_vars

\* Clocks advance, a live worker keeps polling, handlers return (their clients
\* have request timeouts), a stopped worker is restarted by its supervisor and
\* the scheduler keeps ticking.  Publishing, faults and which rows retention
\* removes are never forced.
Fairness ==
    /\ \A w \in Workers : /\ WF_vars(\E j \in Jobs : Claim(w, j))
                          /\ WF_vars(Returns(w))
                          /\ WF_vars(Mark(w))
                          /\ WF_vars(Restart(w))
    /\ \A j \in Jobs : WF_vars(Ripen(j)) /\ WF_vars(LockAgesBy(j))
    /\ WF_vars(ResetOverdue)
    /\ WF_vars(\E old \in SUBSET Jobs : Purge(old))

FairSpec == Spec /\ Fairness

-----------------------------------------------------------------------------
(* Properties. *)

\* Every row and every worker holds values the code can store.  Within it:
\* attempts never passes max_attempts, however many workers reclaim the row.
TypeOK ==
    /\ status   \in [Jobs -> Statuses]
    /\ attempts \in [Jobs -> 0..MaxAttempts]
    /\ lock     \in [Jobs -> LockAges]
    /\ ripe     \in [Jobs -> BOOLEAN]
    /\ worker   \in [Workers -> WorkerState]
    /\ \A w \in Workers : worker[w].pc \in {"idle", "stopped"} <=> worker[w].job = NoJob
    /\ sweep    \in {"purge", "reset"}
    /\ handled  \in SUBSET Jobs
    /\ overrun  \in SUBSET Jobs
    /\ faults   \in 0..MaxFaults

\* The lease works until it expires: as long as no lease of a job has gone
\* stale, at most one worker is on the job, and it is the one the row's
\* attempts counts (processNext's claim against a second worker's claim).
ExclusiveUntilOverrun ==
    \A j \in Jobs \ overrun : \A w \in Workers :
        Holds(w, j) =>
            /\ status[j] = "processing"
            /\ worker[w].attempt = attempts[j]
            /\ \A v \in Workers : Holds(v, j) => v = w

\* Two workers that do run the same job, because a lease expired under the
\* first, run it under different attempt numbers: a claim is atomic and always
\* counts, so attempts could fence the late worker off.
AttemptsFence ==
    \A w, v \in Workers :
        /\ worker[w].job # NoJob
        /\ worker[w].job = worker[v].job
        /\ worker[w].attempt = worker[v].attempt
        => w = v

\* No job leaves the queue unserved: done or purged means some handler call
\* returned nil for it, and failed means all attempts were used.  Late marks
\* by workers that lost the lease must not break this.
NoSilentLoss ==
    \A j \in Jobs :
        /\ status[j] \in {"done", "purged"} => j \in handled
        /\ status[j] = "failed" => attempts[j] = MaxAttempts

\* done is final unless a lease overran: only then can a late markFailed put a
\* finished job back to retry.
DoneIsFinal ==
    [][\A j \in Jobs : (status[j] = "done" /\ j \notin overrun)
                            => status'[j] \in {"done", "purged"}]_vars

\* The rows promise their publishers at-least-once delivery with a bounded
\* number of tries (AtLeastOnce).
PhaseOf(j) ==
    CASE status[j] = "absent"                   -> "absent"
      [] status[j] = "purged"                   -> "forgotten"
      [] Exists(j) /\ j \in handled             -> "delivered"
      [] status[j] = "failed" /\ j \notin handled -> "abandoned"
      [] OTHER                                  -> "pending"

Promise == INSTANCE AtLeastOnce WITH phase <- [j \in Jobs |-> PhaseOf(j)],
                                     tries <- attempts

ImplementsAtLeastOnce == Promise!Spec

Settled(j) == status[j] \in {"done", "failed", "purged"}

\* With faults: every published job is handled or has used all its attempts.
ServedOrExhausted ==
    \A j \in Jobs : (status[j] = "queued")
                        ~> (j \in handled \/ attempts[j] = MaxAttempts)

\* A row that maintenance put back to retry with no attempts left, after its
\* last lease overran: no claim takes it any more.
Stranded(j) == status[j] = "retry" /\ attempts[j] = MaxAttempts /\ j \in overrun

\* Every published job comes to rest: done, failed or purged, or stranded when
\* its last worker never marked it.  Late marks, expired leases and resets may
\* move a row between the outcomes, but not for ever.
EventuallySettled ==
    \A j \in Jobs : (status[j] = "queued") ~> [](Settled(j) \/ Stranded(j))

=============================================================================

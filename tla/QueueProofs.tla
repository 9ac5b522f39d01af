----------------------------- MODULE QueueProofs -----------------------------
(***************************************************************************)
(* Machine-checked proofs about the queues: JobQueue, for any number of    *)
(* jobs and workers, any max_attempts and any bound on faults, and         *)
(* KafkaQueue, for any group, log, errors and rebalances.                  *)
(***************************************************************************)
EXTENDS JobQueue, KafkaQueue, TLAPS

USE DEF row, hist

-----------------------------------------------------------------------------
(* Type correctness. *)

\* The empty table with idle workers is well typed.
LEMMA InitTypeOK == ASSUME Init PROVE TypeOK
  BY QueueAssumption DEF Init, TypeOK, Statuses, LockAges, WorkerState, IdleWorker

\* A claim stores a next attempt that max_attempts still allows.
LEMMA ClaimTypeOK ==
    ASSUME TypeOK, NEW w \in Workers, NEW j \in Jobs, Claim(w, j)
    PROVE  TypeOK'
  <1>1. NextAttempt(j) \in 0..MaxAttempts /\ j # NoJob
    BY QueueAssumption DEF TypeOK, Claim, Claimable, NextAttempt
  <1> DEFINE busy == [pc |-> "handling", job |-> j, attempt |-> NextAttempt(j)]
  <1>2. busy \in WorkerState /\ busy.job # NoJob
    BY <1>1 DEF WorkerState
  <1>3. worker' = [worker EXCEPT ![w] = busy]
    BY DEF Claim
  <1>4. /\ worker' \in [Workers -> WorkerState]
        /\ \A v \in Workers : worker'[v].pc \in {"idle", "stopped"}
                                <=> worker'[v].job = NoJob
    BY <1>2, <1>3 DEF TypeOK
  <1> QED
    BY <1>1, <1>4 DEF TypeOK, Claim, Statuses, LockAges

\* The rest of a worker's loop.
LEMMA WorkerTypeOK ==
    ASSUME TypeOK, NEW w \in Workers,
           Returns(w) \/ Mark(w) \/ MarkLost(w) \/ Stop(w) \/ Restart(w)
    PROVE  TypeOK'
  <1>0. /\ IdleWorker \in WorkerState /\ IdleWorker.job = NoJob /\ IdleWorker.pc = "idle"
        /\ StoppedWorker \in WorkerState /\ StoppedWorker.job = NoJob
        /\ StoppedWorker.pc = "stopped"
    BY QueueAssumption DEF IdleWorker, StoppedWorker, WorkerState
  <1>1. ASSUME NEW result \in {"succeeded", "errored"}, HandlerReturns(w, result)
        PROVE  TypeOK'
    <2>1. worker[w] \in WorkerState /\ worker[w].job \in Jobs
      BY <1>1 DEF TypeOK, WorkerState, HandlerReturns
    <2> DEFINE after == [worker[w] EXCEPT !.pc = result]
    <2>2. after \in WorkerState /\ after.job # NoJob /\ after.pc \notin {"idle", "stopped"}
      BY <2>1, QueueAssumption DEF WorkerState
    <2>3. worker' = [worker EXCEPT ![w] = after]
      BY <1>1 DEF HandlerReturns
    <2>4. /\ worker' \in [Workers -> WorkerState]
          /\ \A v \in Workers : worker'[v].pc \in {"idle", "stopped"}
                                  <=> worker'[v].job = NoJob
      BY <2>2, <2>3 DEF TypeOK
    <2>5. handled' \in SUBSET Jobs
      BY <1>1, <2>1 DEF TypeOK, HandlerReturns
    <2> QED
      BY <1>1, <2>4, <2>5 DEF TypeOK, HandlerReturns
  <1>2. CASE MarkDone(w)
    BY <1>0, <1>2 DEF TypeOK, MarkDone, Statuses
  <1>3. CASE MarkFailed(w)
    BY <1>0, <1>3 DEF TypeOK, MarkFailed, Statuses, StatusAfterFailure
  <1>4. CASE MarkLost(w) \/ Stop(w)
    BY <1>0, <1>4, QueueAssumption DEF TypeOK, MarkLost, Stop
  <1>5. CASE Restart(w)
    BY <1>0, <1>5 DEF TypeOK, Restart
  <1> QED
    BY <1>1, <1>2, <1>3, <1>4, <1>5 DEF Returns, Mark

\* Publishing, the clock and the two maintenance statements.
LEMMA EnvironmentTypeOK ==
    ASSUME TypeOK, (\E j \in Jobs : JobStep(j)) \/ Maintenance
    PROVE  TypeOK'
  <1>1. ASSUME NEW j \in Jobs, JobStep(j) PROVE TypeOK'
    BY <1>1 DEF TypeOK, JobStep, Publish, Ripen, LockAgesBy, OlderLock, Statuses, LockAges
  <1>2. CASE ResetOverdue
    BY <1>2 DEF TypeOK, ResetOverdue, Statuses, LockAges
  <1>3. ASSUME NEW old \in SUBSET Jobs, Purge(old) PROVE TypeOK'
    BY <1>3 DEF TypeOK, Purge, Statuses
  <1> QED
    BY <1>1, <1>2, <1>3 DEF Maintenance

LEMMA StutterTypeOK == ASSUME TypeOK, UNCHANGED vars PROVE TypeOK'
  BY DEF TypeOK, vars

\* Rows and workers only ever hold values the code can store; in particular no
\* number of concurrent reclaims pushes attempts past max_attempts.
THEOREM TypeCorrect == Spec => []TypeOK
  <1>1. Init => TypeOK
    BY InitTypeOK
  <1>2. TypeOK /\ [Next]_vars => TypeOK'
    BY ClaimTypeOK, WorkerTypeOK, EnvironmentTypeOK, StutterTypeOK
    DEF Next, WorkerStep
  <1> QED
    BY <1>1, <1>2, PTL DEF Spec

-----------------------------------------------------------------------------
(* Leases.  ExclusiveUntilOverrun and AttemptsFence are not inductive alone:  *)
(* a claim must know that no lease has aged on a row that never overran, and  *)
(* that no worker holds an attempt number the row has not reached.            *)

YoungLocks == \A j \in Jobs \ overrun : lock[j] \in {"null", "fresh"}

AttemptsReached == \A w \in Workers :
    worker[w].job # NoJob => worker[w].attempt <= attempts[worker[w].job]

LeaseInv == /\ TypeOK
            /\ YoungLocks
            /\ AttemptsReached
            /\ ExclusiveUntilOverrun
            /\ AttemptsFence

LEMMA InitLease == ASSUME Init PROVE LeaseInv
  <1>1. TypeOK
    BY InitTypeOK
  <1>2. \A w \in Workers : worker[w].job = NoJob
    BY DEF Init, IdleWorker
  <1> QED
    BY <1>1, <1>2, QueueAssumption
    DEF Init, LeaseInv, YoungLocks, AttemptsReached, ExclusiveUntilOverrun,
        AttemptsFence, Holds

\* A claim of a row that never overran finds nobody on it.
LEMMA ClaimFindsNobody ==
    ASSUME LeaseInv, NEW w \in Workers, NEW j \in Jobs, Claim(w, j), j \notin overrun
    PROVE  \A v \in Workers : ~Holds(v, j)
  BY DEF LeaseInv, YoungLocks, ExclusiveUntilOverrun, Claim, Claimable

LEMMA ClaimLease ==
    ASSUME LeaseInv, NEW w \in Workers, NEW j \in Jobs, Claim(w, j)
    PROVE  LeaseInv'
  <1> USE DEF LeaseInv
  <1>0. TypeOK'
    BY ClaimTypeOK
  <1> DEFINE busy == [pc |-> "handling", job |-> j, attempt |-> attempts[j] + 1]
  <1>1. /\ worker' = [worker EXCEPT ![w] = busy]
        /\ worker \in [Workers -> WorkerState]
        /\ worker[w].job = NoJob
        /\ attempts' = [attempts EXCEPT ![j] = attempts[j] + 1]
        /\ attempts[j] \in Nat /\ attempts'[j] = attempts[j] + 1
        /\ j # NoJob
    BY QueueAssumption DEF Claim, TypeOK, NextAttempt
  <1>2. \A v \in Workers : /\ worker[v].attempt \in Nat
                           /\ worker[v].job # NoJob => worker[v].job \in Jobs
    BY <1>1 DEF WorkerState
  <1>3. \A i \in Jobs : attempts[i] \in Nat /\ attempts'[i] \in Nat /\ attempts[i] <= attempts'[i]
    BY <1>1 DEF TypeOK
  <1>4. \A v \in Workers : v # w => worker'[v] = worker[v]
    BY <1>1
  <1>5. worker'[w].job = j /\ worker'[w].attempt = attempts'[j]
    BY <1>1
  <1>6. YoungLocks'
    BY DEF YoungLocks, Claim, TypeOK
  <1>7. AttemptsReached'
    <2> SUFFICES ASSUME NEW v \in Workers, worker'[v].job # NoJob
                 PROVE  worker'[v].attempt <= attempts'[worker'[v].job]
      BY DEF AttemptsReached
    <2>1. CASE v = w
      BY <2>1, <1>1, <1>5
    <2>2. CASE v # w
      BY <2>2, <1>2, <1>3, <1>4 DEF AttemptsReached
    <2> QED
      BY <2>1, <2>2
  <1>8. ExclusiveUntilOverrun'
    <2> SUFFICES ASSUME NEW i \in Jobs \ overrun, NEW v \in Workers, worker'[v].job = i
                 PROVE  /\ status'[i] = "processing"
                        /\ worker'[v].attempt = attempts'[i]
                        /\ \A u \in Workers : worker'[u].job = i => u = v
      BY DEF ExclusiveUntilOverrun, Holds, Claim
    <2>1. CASE i = j
      <3>1. v = w
        BY <2>1, <1>4, ClaimFindsNobody DEF Holds
      <3>2. \A u \in Workers : worker'[u].job = i => u = w
        BY <2>1, <1>4, ClaimFindsNobody DEF Holds
      <3> QED
        BY <2>1, <3>1, <3>2, <1>5 DEF Claim, TypeOK
    <2>2. CASE i # j
      BY <2>2, <1>1, <1>4, <1>5 DEF ExclusiveUntilOverrun, Holds, Claim, TypeOK
    <2> QED
      BY <2>1, <2>2
  <1>9. AttemptsFence'
    <2>1. ASSUME NEW v \in Workers, v # w, worker[v].job = j
          PROVE  worker[v].attempt # attempts[j] + 1
      BY <2>1, <1>1, <1>2 DEF AttemptsReached
    <2> QED
      BY <2>1, <1>1, <1>4, <1>5 DEF AttemptsFence
  <1> QED
    BY <1>0, <1>6, <1>7, <1>8, <1>9

\* Every other step of a worker keeps its job and attempt, or drops the job;
\* it changes a row's status only if it holds the row.
LEMMA ReleaseLease ==
    ASSUME LeaseInv, NEW w \in Workers,
           Returns(w) \/ Mark(w) \/ MarkLost(w) \/ Stop(w) \/ Restart(w)
    PROVE  LeaseInv'
  <1> USE DEF LeaseInv
  <1>0. TypeOK'
    BY WorkerTypeOK
  <1>1. /\ UNCHANGED <<attempts, lock, overrun>>
        /\ \A v \in Workers : v # w => worker'[v] = worker[v]
        /\ \/ worker'[w].job = NoJob
           \/ worker'[w].job = worker[w].job /\ worker'[w].attempt = worker[w].attempt
    <2>1. ASSUME NEW result \in {"succeeded", "errored"}, HandlerReturns(w, result)
          PROVE  /\ UNCHANGED <<attempts, lock, overrun>>
                 /\ \A v \in Workers : v # w => worker'[v] = worker[v]
                 /\ worker'[w].job = worker[w].job
                 /\ worker'[w].attempt = worker[w].attempt
      <3>1. worker' = [worker EXCEPT ![w] = [worker[w] EXCEPT !.pc = result]]
        BY <2>1 DEF HandlerReturns
      <3>2. worker[w] \in WorkerState
        BY DEF TypeOK
      <3> QED
        BY <2>1, <3>1, <3>2 DEF HandlerReturns, TypeOK, WorkerState
    <2>2. CASE MarkDone(w) \/ MarkFailed(w)
      BY <2>2 DEF MarkDone, MarkFailed, TypeOK, IdleWorker
    <2>3. CASE MarkLost(w) \/ Stop(w) \/ Restart(w)
      BY <2>3 DEF MarkLost, Stop, Restart, TypeOK, IdleWorker, StoppedWorker
    <2> QED
      BY <2>1, <2>2, <2>3 DEF Returns, Mark
  <1>2. \A j \in Jobs : \/ status'[j] = status[j]
                        \/ worker[w].job = j /\ worker'[w].job = NoJob
    BY DEF Returns, Mark, HandlerReturns, MarkDone, MarkFailed, MarkLost, Stop, Restart,
           TypeOK, IdleWorker
  <1>3. YoungLocks'
    BY <1>1 DEF YoungLocks
  <1>4. AttemptsReached' /\ AttemptsFence'
    BY <1>1 DEF AttemptsReached, AttemptsFence
  <1>5. ExclusiveUntilOverrun'
    <2> SUFFICES ASSUME NEW j \in Jobs \ overrun, NEW v \in Workers, worker'[v].job = j
                 PROVE  /\ status'[j] = "processing"
                        /\ worker'[v].attempt = attempts[j]
                        /\ \A u \in Workers : worker'[u].job = j => u = v
      BY <1>1 DEF ExclusiveUntilOverrun, Holds
    <2>1. /\ worker[v].job = j /\ worker'[v].attempt = worker[v].attempt
          /\ \A u \in Workers : worker'[u].job = j => worker[u].job = j
      BY <1>1, QueueAssumption
    <2>2. /\ status[j] = "processing" /\ worker[v].attempt = attempts[j]
          /\ \A u \in Workers : worker[u].job = j => u = v
      BY <2>1 DEF ExclusiveUntilOverrun, Holds
    <2>3. status'[j] = status[j]
      BY <1>2, <2>1, <2>2, QueueAssumption
    <2> QED
      BY <2>1, <2>2, <2>3
  <1> QED
    BY <1>0, <1>3, <1>4, <1>5

LEMMA EnvironmentLease ==
    ASSUME LeaseInv, (\E j \in Jobs : JobStep(j)) \/ Maintenance
    PROVE  LeaseInv'
  <1> USE DEF LeaseInv
  <1>0. TypeOK'
    BY EnvironmentTypeOK
  <1> DEFINE Calm == /\ UNCHANGED <<worker, attempts>> /\ overrun \subseteq overrun'
                     /\ \A j \in Jobs \ overrun' :
                           /\ lock'[j] \in {"null", lock[j]}
                           /\ status[j] = "processing" => status'[j] = "processing"
  <1>1. Calm
    <2>1. ASSUME NEW j \in Jobs, JobStep(j) PROVE Calm
      BY <2>1 DEF JobStep, Publish, Ripen, LockAgesBy, TypeOK
    <2>2. CASE ResetOverdue
      BY <2>2 DEF ResetOverdue, Overdue, YoungLocks, TypeOK
    <2>3. ASSUME NEW old \in SUBSET Jobs, Purge(old) PROVE Calm
      BY <2>3 DEF Purge, Purgeable, TypeOK
    <2> QED
      BY <2>1, <2>2, <2>3 DEF Maintenance
  <1>2. YoungLocks' /\ AttemptsReached' /\ AttemptsFence'
    BY <1>1 DEF YoungLocks, AttemptsReached, AttemptsFence
  <1>3. ExclusiveUntilOverrun'
    BY <1>1 DEF ExclusiveUntilOverrun, Holds
  <1> QED
    BY <1>0, <1>2, <1>3

LEMMA StutterLease == ASSUME LeaseInv, UNCHANGED vars PROVE LeaseInv'
  BY DEF LeaseInv, TypeOK, YoungLocks, AttemptsReached, ExclusiveUntilOverrun,
         AttemptsFence, Holds, vars

LEMMA LeaseInvariant == Spec => []LeaseInv
  <1>1. Init => LeaseInv
    BY InitLease
  <1>2. LeaseInv /\ [Next]_vars => LeaseInv'
    BY ClaimLease, ReleaseLease, EnvironmentLease, StutterLease DEF Next, WorkerStep
  <1> QED
    BY <1>1, <1>2, PTL DEF Spec

\* Until one of its leases goes stale, a job has at most one worker, and that
\* worker runs the attempt the row counts.
THEOREM LeaseExcludes == Spec => []ExclusiveUntilOverrun
  BY LeaseInvariant, PTL DEF LeaseInv

\* Workers that run the same job at once always run different attempts.
THEOREM AttemptsAreFences == Spec => []AttemptsFence
  BY LeaseInvariant, PTL DEF LeaseInv

-----------------------------------------------------------------------------
(* Service.  A mark may be late, but it never lies about success, and failed  *)
(* is only written when no attempt is left.                                   *)

SuccessRecorded == \A w \in Workers :
    worker[w].pc = "succeeded" => worker[w].job \in handled

\* What has a worker or an outcome has been published and claimed.
NothingBeforeClaim ==
    /\ \A j \in Jobs : status[j] = "absent" => attempts[j] = 0
    /\ \A j \in handled : attempts[j] > 0
    /\ \A w \in Workers : worker[w].job # NoJob => attempts[worker[w].job] > 0

ServiceInv == TypeOK /\ NoSilentLoss /\ SuccessRecorded /\ NothingBeforeClaim

LEMMA InitService == ASSUME Init PROVE ServiceInv
  <1>1. TypeOK
    BY InitTypeOK
  <1>2. \A w \in Workers : worker[w].job = NoJob /\ worker[w].pc = "idle"
    BY DEF Init, IdleWorker
  <1> QED
    BY <1>1, <1>2 DEF Init, ServiceInv, NoSilentLoss, SuccessRecorded, NothingBeforeClaim

LEMMA ClaimService ==
    ASSUME ServiceInv, NEW w \in Workers, NEW j \in Jobs, Claim(w, j)
    PROVE  ServiceInv'
  <1> USE DEF ServiceInv
  <1>0. TypeOK'
    BY ClaimTypeOK
  <1>1. /\ attempts' = [attempts EXCEPT ![j] = attempts[j] + 1]
        /\ \A i \in Jobs : attempts[i] \in Nat /\ attempts'[i] >= attempts[i]
        /\ attempts'[j] > 0
    BY DEF Claim, NextAttempt, TypeOK
  <1>2. /\ \A v \in Workers : v # w => worker'[v] = worker[v]
        /\ worker'[w].job = j /\ worker'[w].pc = "handling"
        /\ \A v \in Workers : worker[v].job \in Jobs \cup {NoJob}
    BY DEF Claim, TypeOK, WorkerState
  <1>3. NoSilentLoss'
    BY <1>1 DEF NoSilentLoss, Claim, TypeOK
  <1>4. SuccessRecorded'
    BY <1>2 DEF SuccessRecorded, Claim
  <1>5. NothingBeforeClaim'
    <2>1. \A i \in Jobs : status'[i] = "absent" => attempts'[i] = 0
      BY <1>1 DEF NothingBeforeClaim, Claim, TypeOK
    <2>2. \A i \in handled' : attempts'[i] > 0
      BY <1>1 DEF NothingBeforeClaim, Claim, TypeOK
    <2>3. \A v \in Workers : worker'[v].job # NoJob => attempts'[worker'[v].job] > 0
      <3>1. ASSUME NEW v \in Workers, v # w, worker'[v].job # NoJob
            PROVE  attempts'[worker'[v].job] > 0
        BY <3>1, <1>1, <1>2 DEF NothingBeforeClaim
      <3> QED
        BY <3>1, <1>1, <1>2
    <2> QED
      BY <2>1, <2>2, <2>3 DEF NothingBeforeClaim
  <1> QED
    BY <1>0, <1>3, <1>4, <1>5

LEMMA ReleaseService ==
    ASSUME ServiceInv, NEW w \in Workers,
           Returns(w) \/ Mark(w) \/ MarkLost(w) \/ Stop(w) \/ Restart(w)
    PROVE  ServiceInv'
  <1> USE DEF ServiceInv
  <1>0. TypeOK'
    BY WorkerTypeOK
  <1>1. ASSUME NEW result \in {"succeeded", "errored"}, HandlerReturns(w, result)
        PROVE  NoSilentLoss' /\ SuccessRecorded' /\ NothingBeforeClaim'
    <2>1. /\ worker' = [worker EXCEPT ![w] = [worker[w] EXCEPT !.pc = result]]
          /\ worker[w] \in WorkerState /\ worker[w].job # NoJob
      BY <1>1 DEF HandlerReturns, TypeOK
    <2>2. /\ worker'[w].pc = result /\ worker'[w].job = worker[w].job
          /\ \A v \in Workers : v # w => worker'[v] = worker[v]
      BY <2>1 DEF TypeOK, WorkerState
    <2>3. /\ UNCHANGED <<status, attempts>>
          /\ handled \subseteq handled' /\ handled' \subseteq handled \cup {worker[w].job}
          /\ result = "succeeded" => worker[w].job \in handled'
      BY <1>1 DEF HandlerReturns
    <2> QED
      BY <2>1, <2>2, <2>3 DEF NoSilentLoss, SuccessRecorded, NothingBeforeClaim
  <1>2. CASE Mark(w)
    <2>1. /\ UNCHANGED <<attempts, handled>>
          /\ worker[w].job \in Jobs
          /\ \A v \in Workers : v # w => worker'[v] = worker[v]
          /\ worker'[w].job = NoJob /\ worker'[w].pc = "idle"
      BY <1>2 DEF Mark, MarkDone, MarkFailed, TypeOK, IdleWorker, WorkerState
    <2>2. SuccessRecorded' /\ (NothingBeforeClaim')
      BY <1>2, <2>1 DEF SuccessRecorded, NothingBeforeClaim, Mark, MarkDone, MarkFailed,
                        StatusAfterFailure, TypeOK
    <2>3. ASSUME MarkDone(w) PROVE NoSilentLoss'
      BY <2>1, <2>3 DEF NoSilentLoss, SuccessRecorded, MarkDone, TypeOK
    <2>4. ASSUME MarkFailed(w) PROVE NoSilentLoss'
      BY <2>1, <2>4, QueueAssumption
      DEF NoSilentLoss, MarkFailed, StatusAfterFailure, TypeOK, Exists
    <2> QED
      BY <1>0, <1>2, <2>2, <2>3, <2>4 DEF Mark
  <1>3. CASE MarkLost(w) \/ Stop(w) \/ Restart(w)
    <2>1. /\ UNCHANGED <<status, attempts, handled>>
          /\ \A v \in Workers : v # w => worker'[v] = worker[v]
          /\ worker'[w].job = NoJob /\ worker'[w].pc # "succeeded"
      BY <1>3 DEF MarkLost, Stop, Restart, TypeOK, IdleWorker, StoppedWorker
    <2> QED
      BY <1>0, <2>1 DEF NoSilentLoss, SuccessRecorded, NothingBeforeClaim
  <1> QED
    BY <1>0, <1>1, <1>2, <1>3 DEF Returns

LEMMA EnvironmentService ==
    ASSUME ServiceInv, (\E j \in Jobs : JobStep(j)) \/ Maintenance
    PROVE  ServiceInv'
  <1> USE DEF ServiceInv
  <1>0. TypeOK'
    BY EnvironmentTypeOK
  <1>1. UNCHANGED <<worker, attempts, handled>>
    BY DEF JobStep, Publish, Ripen, LockAgesBy, Maintenance, ResetOverdue, Purge
  <1>2. \A j \in Jobs : /\ status'[j] = "absent" => status[j] = "absent"
                        /\ status'[j] = "failed" => status[j] = "failed"
                        /\ status'[j] = "done"   => status[j] = "done"
                        /\ status'[j] = "purged" => status[j] \in {"done", "purged"}
    BY DEF JobStep, Publish, Ripen, LockAgesBy, Maintenance, ResetOverdue, Purge,
           Purgeable, TypeOK
  <1> QED
    BY <1>0, <1>1, <1>2 DEF NoSilentLoss, SuccessRecorded, NothingBeforeClaim

LEMMA StutterService == ASSUME ServiceInv, UNCHANGED vars PROVE ServiceInv'
  BY DEF ServiceInv, TypeOK, NoSilentLoss, SuccessRecorded, NothingBeforeClaim, vars

LEMMA ServiceInvariant == Spec => []ServiceInv
  <1>1. Init => ServiceInv
    BY InitService
  <1>2. ServiceInv /\ [Next]_vars => ServiceInv'
    BY ClaimService, ReleaseService, EnvironmentService, StutterService DEF Next, WorkerStep
  <1> QED
    BY <1>1, <1>2, PTL DEF Spec

\* done and purged rows were handled, failed rows had all their attempts.
THEOREM NothingLostSilently == Spec => []NoSilentLoss
  BY ServiceInvariant, PTL DEF ServiceInv

\* A done row whose leases never went stale is never reopened.
THEOREM DoneStaysDone == Spec => DoneIsFinal
  <1> DEFINE Final == \A j \in Jobs : (status[j] = "done" /\ j \notin overrun)
                                     => status'[j] \in {"done", "purged"}
  <1>1. LeaseInv /\ [Next]_vars => [Final]_vars
    <2> SUFFICES ASSUME LeaseInv, Next,
                        NEW j \in Jobs, status[j] = "done", j \notin overrun
                 PROVE  status'[j] \in {"done", "purged"}
      OBVIOUS
    <2>0. TypeOK /\ \A w \in Workers : worker[w].job # j
      BY DEF LeaseInv, ExclusiveUntilOverrun, Holds
    <2>1. ASSUME NEW w \in Workers, WorkerStep(w) PROVE status'[j] = "done"
      BY <2>0, <2>1 DEF WorkerStep, Claim, Claimable, Returns, HandlerReturns, Mark, MarkDone,
                        MarkFailed, MarkLost, Stop, Restart, TypeOK
    <2>2. ASSUME NEW i \in Jobs, JobStep(i) PROVE status'[j] = "done"
      BY <2>0, <2>2 DEF JobStep, Publish, Ripen, LockAgesBy, TypeOK
    <2>3. CASE Maintenance
      BY <2>0, <2>3 DEF Maintenance, ResetOverdue, Overdue, Purge, TypeOK
    <2> QED
      BY <2>1, <2>2, <2>3 DEF Next
  <1> QED
    BY <1>1, LeaseInvariant, PTL DEF Spec, DoneIsFinal

-----------------------------------------------------------------------------
(* Refinement.  Under the mapping of Promise, a claim is a try, a handler's   *)
(* success a delivery, a last failure an abandonment and retention forgets;   *)
(* everything else stutters.                                                  *)

Phase == [j \in Jobs |-> PhaseOf(j)]

\* A step that changes no status and no success changes no phase.
LEMMA SamePhase == ASSUME UNCHANGED <<status, handled>> PROVE Phase' = Phase
  BY DEF Phase, PhaseOf, Exists

LEMMA InitRefines == ASSUME Init PROVE Promise!Init
  BY DEF Init, Promise!Init, PhaseOf

LEMMA ClaimRefines ==
    ASSUME ServiceInv, NEW w \in Workers, NEW j \in Jobs, Claim(w, j)
    PROVE  Promise!Try(j)
  <1>1. /\ status[j] \in {"queued", "retry", "processing"} /\ attempts[j] < MaxAttempts
        /\ status' = [status EXCEPT ![j] = "processing"] /\ handled' = handled
        /\ attempts' = [attempts EXCEPT ![j] = attempts[j] + 1]
    BY DEF Claim, Claimable, NextAttempt
  <1>2. Phase[j] \in {"pending", "delivered"}
    BY <1>1 DEF Phase, PhaseOf, Exists
  <1>3. \A i \in Jobs : PhaseOf(i)' = PhaseOf(i)
    BY <1>1 DEF PhaseOf, Exists, ServiceInv, TypeOK
  <1>4. Phase' = Phase
    BY <1>3 DEF Phase
  <1> QED
    BY <1>1, <1>2, <1>4 DEF Promise!Try, Phase

\* A success delivers the job, unless it was delivered or forgotten before.
LEMMA ReturnRefines ==
    ASSUME ServiceInv, NEW w \in Workers, NEW result \in {"succeeded", "errored"},
           HandlerReturns(w, result), NEW j \in Jobs, worker[w].job = j
    PROVE  Promise!Deliver(j) \/ (Phase' = Phase /\ attempts' = attempts)
  <1>1. /\ UNCHANGED <<status, attempts>>
        /\ handled' = IF result = "succeeded" THEN handled \cup {j} ELSE handled
    BY DEF HandlerReturns
  <1>2. attempts[j] > 0 /\ status[j] # "absent" /\ status[j] \in Statuses
    <2>1. attempts[j] > 0 /\ attempts[j] \in 0..MaxAttempts /\ status[j] \in Statuses
      BY QueueAssumption DEF ServiceInv, NothingBeforeClaim, TypeOK
    <2>2. status[j] # "absent"
      BY <2>1 DEF ServiceInv, NothingBeforeClaim
    <2> QED
      BY <2>1, <2>2
  <1>3. CASE result = "errored" \/ j \in handled
    BY <1>1, <1>3, SamePhase
  <1>4. CASE result = "succeeded" /\ j \notin handled
    <2>1. \A i \in Jobs : i # j => PhaseOf(i)' = PhaseOf(i)
      BY <1>1 DEF PhaseOf, Exists
    <2>2. CASE status[j] = "purged"
      <3>1. PhaseOf(j)' = PhaseOf(j)
        BY <1>1, <2>2 DEF PhaseOf
      <3> QED
        BY <1>1, <2>1, <3>1 DEF Phase
    <2>3. CASE status[j] # "purged"
      <3>1. PhaseOf(j)' = "delivered" /\ PhaseOf(j) \in {"pending", "abandoned"}
        BY <1>1, <1>2, <1>4, <2>3 DEF PhaseOf, Exists
      <3>2. Phase' = [Phase EXCEPT ![j] = "delivered"] /\ Phase[j] \in {"pending", "abandoned"}
        BY <1>2, <2>1, <3>1 DEF Phase
      <3> QED
        BY <1>1, <1>2, <3>2 DEF Promise!Deliver, Phase
    <2> QED
      BY <2>2, <2>3
  <1> QED
    BY <1>3, <1>4

\* A mark of success finds the job delivered; a mark of failure, however late,
\* moves it only from pending to abandoned.
LEMMA MarkRefines ==
    ASSUME ServiceInv, NEW w \in Workers, Mark(w), NEW j \in Jobs, worker[w].job = j
    PROVE  Promise!Abandon(j) \/ (Phase' = Phase /\ attempts' = attempts)
  <1>1. /\ UNCHANGED <<attempts, handled>>
        /\ status[j] \in Statuses /\ attempts[j] \in 0..MaxAttempts
    BY DEF Mark, MarkDone, MarkFailed, ServiceInv, TypeOK, WorkerState
  <1>2. \A i \in Jobs : i # j => PhaseOf(i)' = PhaseOf(i)
    BY <1>1 DEF Mark, MarkDone, MarkFailed, PhaseOf, Exists, ServiceInv, TypeOK
  <1>3. CASE ~Exists(j)
    <2>1. UNCHANGED status
      BY <1>3 DEF Mark, MarkDone, MarkFailed
    <2> QED
      BY <1>1, <2>1, SamePhase
  <1>4. CASE Exists(j) /\ j \in handled
    <2>1. status'[j] \in {"done", "failed", "retry"}
      BY <1>1, <1>4 DEF Mark, MarkDone, MarkFailed, StatusAfterFailure, ServiceInv, TypeOK
    <2>2. PhaseOf(j)' = PhaseOf(j)
      BY <1>1, <1>4, <2>1 DEF PhaseOf, Exists
    <2> QED
      BY <1>1, <1>2, <2>2 DEF Phase
  <1>5. CASE Exists(j) /\ j \notin handled
    <2>1. MarkFailed(w)
      BY <1>5 DEF Mark, MarkDone, ServiceInv, SuccessRecorded
    <2>2. status'[j] = IF attempts[j] >= MaxAttempts THEN "failed" ELSE "retry"
      BY <1>1, <1>5, <2>1 DEF MarkFailed, StatusAfterFailure, ServiceInv, TypeOK
    <2>3. status[j] = "failed" => attempts[j] = MaxAttempts
      BY <1>1 DEF ServiceInv, NoSilentLoss
    <2>4. status[j] \in {"queued", "processing", "retry", "failed"}
      BY <1>1, <1>5 DEF Exists, Statuses, ServiceInv, NoSilentLoss
    <2>5. CASE attempts[j] = MaxAttempts /\ status[j] # "failed"
      <3>1. PhaseOf(j) = "pending" /\ PhaseOf(j)' = "abandoned"
        BY <1>1, <1>5, <2>2, <2>4, <2>5, QueueAssumption DEF PhaseOf, Exists
      <3>2. Phase' = [Phase EXCEPT ![j] = "abandoned"] /\ Phase[j] = "pending"
        BY <1>1, <1>2, <3>1 DEF Phase
      <3> QED
        BY <1>1, <2>5, <3>2 DEF Promise!Abandon, Phase
    <2>6. CASE attempts[j] # MaxAttempts \/ status[j] = "failed"
      <3>1. PhaseOf(j)' = PhaseOf(j)
        BY <1>1, <1>5, <2>2, <2>3, <2>4, <2>6, QueueAssumption DEF PhaseOf, Exists
      <3> QED
        BY <1>1, <1>2, <3>1 DEF Phase
    <2> QED
      BY <2>5, <2>6
  <1> QED
    BY <1>3, <1>4, <1>5

LEMMA EnvironmentRefines ==
    ASSUME ServiceInv, (\E j \in Jobs : JobStep(j)) \/ Maintenance
    PROVE  Promise!Next \/ (Phase' = Phase /\ attempts' = attempts)
  <1>1. ASSUME NEW j \in Jobs, Publish(j) PROVE Promise!Submit(j)
    <2>1. /\ status[j] = "absent" /\ status' = [status EXCEPT ![j] = "queued"]
          /\ UNCHANGED <<attempts, handled>> /\ j \notin handled
      BY <1>1 DEF Publish, ServiceInv, NothingBeforeClaim
    <2>2. \A i \in Jobs : PhaseOf(i)' = IF i = j THEN "pending" ELSE PhaseOf(i)
      BY <2>1 DEF PhaseOf, Exists, ServiceInv, TypeOK
    <2>3. Phase' = [Phase EXCEPT ![j] = "pending"] /\ Phase[j] = "absent"
      BY <2>1, <2>2 DEF Phase, PhaseOf
    <2> QED
      BY <2>1, <2>3 DEF Promise!Submit, Phase
  <1>2. ASSUME NEW j \in Jobs, Ripen(j) \/ LockAgesBy(j)
        PROVE  Phase' = Phase /\ attempts' = attempts
    BY <1>2, SamePhase DEF Ripen, LockAgesBy
  <1>3. ASSUME NEW old \in SUBSET Jobs, Purge(old) PROVE Promise!Forget(old)
    <2>1. /\ \A i \in old : status[i] = "done" /\ i \in handled
          /\ status' = [i \in Jobs |-> IF i \in old THEN "purged" ELSE status[i]]
          /\ UNCHANGED <<attempts, handled>>
      BY <1>3 DEF Purge, Purgeable, ServiceInv, NoSilentLoss
    <2>2. \A i \in Jobs : PhaseOf(i)' = IF i \in old THEN "forgotten" ELSE PhaseOf(i)
      BY <2>1 DEF PhaseOf, Exists
    <2>3. \A i \in old : PhaseOf(i) = "delivered"
      BY <2>1 DEF PhaseOf, Exists
    <2> QED
      BY <2>1, <2>2, <2>3 DEF Promise!Forget
  <1>4. CASE ResetOverdue
    <2>1. \A i \in Jobs : PhaseOf(i)' = PhaseOf(i)
      BY <1>4 DEF ResetOverdue, Overdue, PhaseOf, Exists
    <2> QED
      BY <1>4, <2>1 DEF ResetOverdue, Phase
  <1> QED
    BY <1>1, <1>2, <1>3, <1>4 DEF JobStep, Maintenance, Promise!Next

\* The rows of memory_jobs keep the promise of AtLeastOnce.
THEOREM QueueImplementsAtLeastOnce == Spec => ImplementsAtLeastOnce
  <1> DEFINE Stutter == Phase' = Phase /\ attempts' = attempts
  <1>1. Init => Promise!Init
    BY InitRefines
  <1>2. ServiceInv /\ [Next]_vars => [Promise!Next]_<<Phase, attempts>>
    <2> SUFFICES ASSUME ServiceInv, [Next]_vars PROVE Promise!Next \/ Stutter
      OBVIOUS
    <2>1. ASSUME NEW w \in Workers, WorkerStep(w) PROVE Promise!Next \/ Stutter
      <3>1. ASSUME NEW j \in Jobs, Claim(w, j) PROVE Promise!Next
        BY <3>1, ClaimRefines DEF Promise!Next
      <3>2. CASE Returns(w)
        <4>1. worker[w].job \in Jobs
          BY <3>2 DEF Returns, HandlerReturns, ServiceInv, TypeOK, WorkerState
        <4> QED
          BY <3>2, <4>1, ReturnRefines DEF Returns, Promise!Next
      <3>3. CASE Mark(w)
        <4>1. worker[w].job \in Jobs
          BY <3>3 DEF Mark, MarkDone, MarkFailed, ServiceInv, TypeOK, WorkerState
        <4> QED
          BY <3>3, <4>1, MarkRefines DEF Promise!Next
      <3>4. CASE MarkLost(w) \/ Stop(w) \/ Restart(w)
        BY <3>4, SamePhase DEF MarkLost, Stop, Restart
      <3> QED
        BY <2>1, <3>1, <3>2, <3>3, <3>4 DEF WorkerStep
    <2>2. CASE UNCHANGED vars
      BY <2>2, SamePhase DEF vars
    <2> QED
      BY <2>1, <2>2, EnvironmentRefines DEF Next
  <1> QED
    BY <1>1, <1>2, ServiceInvariant, PTL DEF Spec, ImplementsAtLeastOnce, Promise!Spec, Phase

-----------------------------------------------------------------------------
(* KafkaQueue, for any number of consumers, messages, errors and rebalances. *)

\* A consumer stands somewhere in what was published; every offset behind it
\* has been tried, and so has the one it is about to commit.
StandsOn(s) ==
    /\ s.pos \in 0..log
    /\ s.pc \in {"handling", "committing"} => s.pos < log
    /\ \A o \in Offsets : o < s.pos => o \in tried
    /\ s.pc = "committing" => s.pos \in tried

\* NoneSkipped is not inductive alone: it says nothing of where readers stand,
\* and a late commit moves the group to where one of them stands.
TriedBehind == \A c \in Consumers : StandsOn(consumer[c])

KafkaInv == KafkaTypeOK /\ NoneSkipped /\ TriedBehind

LEMMA InitKafka == ASSUME KafkaInit PROVE KafkaInv
  BY KafkaAssumption
  DEF KafkaInit, KafkaInv, KafkaTypeOK, NoneSkipped, TriedBehind, StandsOn, ConsumerState, Offsets

\* What a step of consumer c does to readers: it moves c alone, by keeping its
\* position, going on by one from an offset that was tried, or starting anew at
\* the committed offset.
Moved(c) ==
    LET s == consumer'[c] IN
    /\ consumer' \in [Consumers -> ConsumerState]
    /\ \A d \in Consumers : d # c => consumer'[d] = consumer[d]
    /\ \/ s.pos = consumer[c].pos /\ (s.pc = "committing" => s.pos \in tried')
       \/ s.pos = consumer[c].pos + 1 /\ s.pc = "fetching" /\ consumer[c].pos \in tried'
       \/ s.pos = committed /\ s.pc = "fetching"
    /\ s.pc \in {"handling", "committing"} =>
          s.pos < log /\ s.pos = consumer[c].pos

\* Changing the fields of one reader.
LEMMA OneReader ==
    ASSUME KafkaInv, NEW c \in Consumers, NEW s \in ConsumerState,
           consumer' = [consumer EXCEPT ![c] = s]
    PROVE  /\ consumer' \in [Consumers -> ConsumerState] /\ consumer'[c] = s
           /\ \A d \in Consumers : d # c => consumer'[d] = consumer[d]
  BY DEF KafkaInv, KafkaTypeOK

LEMMA StepMoves ==
    ASSUME KafkaInv, NEW c \in Consumers, Step(c)
    PROVE  Moved(c)
  <1> DEFINE pos == consumer[c].pos
             At(pc, p) == [[consumer[c] EXCEPT !.pc = pc] EXCEPT !.pos = p]
             To(pc) == [consumer[c] EXCEPT !.pc = pc]
  <1>0. /\ consumer \in [Consumers -> ConsumerState] /\ consumer[c] \in ConsumerState
        /\ pos \in 0..Last /\ pos <= log /\ log \in 0..Last /\ committed \in 0..Last
        /\ consumer[c].pc \in {"handling", "committing"} => pos < log
        /\ consumer[c].pc = "committing" => pos \in tried
    BY KafkaAssumption DEF KafkaInv, KafkaTypeOK, TriedBehind, StandsOn, ConsumerState
  <1>a. ASSUME NEW pc \in {"fetching", "handling", "committing", "stopped"}
        PROVE  To(pc) \in ConsumerState /\ To(pc).pc = pc /\ To(pc).pos = pos
    BY <1>0 DEF ConsumerState
  <1>b. ASSUME NEW p \in 0..Last
        PROVE  /\ At("fetching", p) \in ConsumerState
               /\ At("fetching", p).pc = "fetching" /\ At("fetching", p).pos = p
    BY <1>0 DEF ConsumerState
  <1> HIDE DEF At, To
  <1>1. CASE Assign(c)
    <2>1. consumer' = [consumer EXCEPT ![c] = At("fetching", committed)]
      BY <1>0, <1>1 DEF Assign, Start, At
    <2> QED
      BY <1>0, <1>b, <2>1, OneReader DEF Moved
  <1>2. CASE Fetch(c)
    <2>1. consumer' = [consumer EXCEPT ![c] = To("handling")] /\ pos < log
      BY <1>0, <1>2 DEF Fetch, To
    <2> QED
      BY <1>0, <1>a, <2>1, OneReader DEF Moved
  <1>3. CASE HandleOk(c)
    <2>1. consumer' = [consumer EXCEPT ![c] = To("committing")]
      BY <1>0, <1>3 DEF HandleOk, To
    <2>2. pos < log /\ pos \in tried'
      BY <1>0, <1>3 DEF HandleOk
    <2> QED
      BY <1>0, <1>a, <2>1, <2>2, OneReader DEF Moved
  <1>4. CASE HandleError(c) \/ Commit(c)
    <2>1. consumer' = [consumer EXCEPT ![c] = At("fetching", pos + 1)]
      BY <1>0, <1>4 DEF HandleError, AfterError, Commit, At
    <2>2. pos + 1 \in 0..Last /\ pos \in tried'
      BY <1>0, <1>4, KafkaAssumption DEF HandleError, Commit
    <2> QED
      BY <1>0, <1>b, <2>1, <2>2, OneReader DEF Moved
  <1>5. CASE CommitFails(c) \/ Die(c)
    <2>1. consumer' = [consumer EXCEPT ![c] = To("stopped")]
      BY <1>0, <1>5 DEF CommitFails, Die, To
    <2> QED
      BY <1>0, <1>a, <2>1, OneReader DEF Moved
  <1>6. CASE RestartConsumer(c)
    <2>1. consumer' = [consumer EXCEPT ![c] = [pc |-> "fetching", pos |-> committed]]
      BY <1>6 DEF RestartConsumer
    <2>2. [pc |-> "fetching", pos |-> committed] \in ConsumerState
      BY <1>0 DEF ConsumerState
    <2> QED
      BY <1>0, <2>1, <2>2, OneReader DEF Moved
  <1> QED
    BY <1>1, <1>2, <1>3, <1>4, <1>5, <1>6 DEF Step

\* What a step does to the log and the group.
LEMMA StepCommits ==
    ASSUME KafkaInv, NEW c \in Consumers, Step(c)
    PROVE  /\ log' = log /\ tried \subseteq tried'
           /\ tried' \subseteq 0..(log - 1) /\ accepted' \subseteq tried'
           /\ committed' \in 0..log
           /\ \A o \in Offsets : o < committed' => o \in tried
           /\ owner' \in Consumers \cup {Nobody}
           /\ errors' \in 0..MaxErrors /\ moves' \in 0..MaxMoves
  <1>0. /\ log \in 0..Last /\ committed \in 0..log /\ tried \subseteq 0..(log - 1)
        /\ accepted \subseteq tried /\ owner \in Consumers \cup {Nobody}
        /\ errors \in 0..MaxErrors /\ moves \in 0..MaxMoves
        /\ \A o \in Offsets : o < committed => o \in tried
        /\ StandsOn(consumer[c])
    BY DEF KafkaInv, KafkaTypeOK, NoneSkipped, TriedBehind
  <1>1. CASE Assign(c)
    BY <1>0, <1>1, KafkaAssumption DEF Assign
  <1>2. CASE Fetch(c)
    BY <1>0, <1>2 DEF Fetch
  <1>3. CASE HandleOk(c) \/ HandleError(c)
    <2>1. /\ UNCHANGED <<log, committed, owner, moves>>
          /\ tried' = tried \cup {consumer[c].pos}
          /\ accepted' \subseteq accepted \cup {consumer[c].pos}
          /\ errors' \in 0..MaxErrors
      BY <1>0, <1>3, KafkaAssumption DEF HandleOk, HandleError
    <2>2. consumer[c].pos \in 0..(log - 1)
      BY <1>0, <1>3 DEF HandleOk, HandleError, StandsOn
    <2> QED
      BY <1>0, <2>1, <2>2
  <1>4. CASE Commit(c)
    <2>1. /\ committed' = consumer[c].pos + 1
          /\ UNCHANGED <<log, owner, tried, accepted, errors, moves>>
          /\ consumer[c].pos < log /\ consumer[c].pos \in tried /\ consumer[c].pos \in 0..log
      BY <1>0, <1>4 DEF Commit, OffsetAfter, StandsOn
    <2>2. \A o \in Offsets : o < consumer[c].pos + 1 => o \in tried
      BY <1>0, <2>1, KafkaAssumption DEF StandsOn, Offsets
    <2> QED
      BY <1>0, <2>1, <2>2, KafkaAssumption
  <1>5. CASE CommitFails(c) \/ Die(c)
    BY <1>0, <1>5, KafkaAssumption DEF CommitFails, Die
  <1>6. CASE RestartConsumer(c)
    BY <1>0, <1>6 DEF RestartConsumer
  <1> QED
    BY <1>1, <1>2, <1>3, <1>4, <1>5, <1>6 DEF Step

LEMMA StepKafka ==
    ASSUME KafkaInv, NEW c \in Consumers, Step(c)
    PROVE  KafkaInv'
  <1>0. /\ log \in 0..Last /\ committed \in 0..log /\ tried \subseteq 0..(log - 1)
        /\ consumer \in [Consumers -> ConsumerState]
        /\ \A o \in Offsets : o < committed => o \in tried
        /\ \A d \in Consumers : StandsOn(consumer[d])
    BY DEF KafkaInv, KafkaTypeOK, NoneSkipped, TriedBehind
  <1>1. Moved(c)
    BY StepMoves
  <1> DEFINE s == consumer'[c]
  <1>2. /\ log' = log /\ tried \subseteq tried'
        /\ tried' \subseteq 0..(log - 1) /\ accepted' \subseteq tried'
        /\ committed' \in 0..log
        /\ \A o \in Offsets : o < committed' => o \in tried
        /\ owner' \in Consumers \cup {Nobody}
        /\ errors' \in 0..MaxErrors /\ moves' \in 0..MaxMoves
    BY StepCommits
  <1>3. /\ consumer' \in [Consumers -> ConsumerState]
        /\ \A d \in Consumers : d # c => consumer'[d] = consumer[d]
    BY <1>0, <1>1 DEF Moved
  <1>4. \A d \in Consumers : StandsOn(consumer[d])'
    <2>1. ASSUME NEW d \in Consumers, d # c PROVE StandsOn(consumer[d])'
      <3>1. StandsOn(consumer[d]) /\ consumer'[d] = consumer[d]
        BY <1>0, <1>3, <2>1
      <3> QED
        BY <1>2, <3>1 DEF StandsOn
    <2>2. StandsOn(consumer[c])'
      <3>1. StandsOn(consumer[c]) /\ consumer[c].pos \in 0..Last
        BY <1>0 DEF ConsumerState
      <3>2. s.pos \in 0..log /\ (s.pc \in {"handling", "committing"} => s.pos < log)
        BY <1>0, <1>1, <1>2, <3>1, KafkaAssumption DEF Moved, StandsOn
      <3>3. \A o \in Offsets : o < s.pos => o \in tried'
        BY <1>0, <1>1, <1>2, <3>1, KafkaAssumption DEF Moved, StandsOn, Offsets
      <3>4. s.pc = "committing" => s.pos \in tried'
        BY <1>1 DEF Moved
      <3> QED
        BY <1>2, <1>3, <3>2, <3>3, <3>4 DEF StandsOn
    <2> QED
      BY <2>1, <2>2
  <1>5. KafkaTypeOK'
    <2>1. \A d \in Consumers : /\ consumer'[d].pos <= log'
                               /\ consumer'[d].pc \in {"handling", "committing"}
                                     => consumer'[d].pos < log'
      BY <1>0, <1>2, <1>4 DEF StandsOn
    <2> QED
      BY <1>0, <1>2, <1>3, <2>1 DEF KafkaTypeOK
  <1> QED
    BY <1>2, <1>4, <1>5 DEF KafkaInv, NoneSkipped, TriedBehind

LEMMA PublishKafka == ASSUME KafkaInv, PublishMessage PROVE KafkaInv'
  <1>1. /\ log' = log + 1 /\ log \in 0..Last /\ log < Last /\ committed \in 0..log
        /\ UNCHANGED <<committed, owner, consumer, tried, accepted, errors, moves>>
    BY DEF KafkaInv, KafkaTypeOK, PublishMessage
  <1>2. \A c \in Consumers : consumer[c].pos \in 0..Last
    BY DEF KafkaInv, KafkaTypeOK, ConsumerState
  <1>3. KafkaTypeOK'
    BY <1>1, <1>2, KafkaAssumption DEF KafkaInv, KafkaTypeOK
  <1>4. NoneSkipped' /\ TriedBehind'
    BY <1>1, <1>2, KafkaAssumption DEF KafkaInv, NoneSkipped, TriedBehind, StandsOn
  <1> QED
    BY <1>3, <1>4 DEF KafkaInv

LEMMA StutterKafka == ASSUME KafkaInv, UNCHANGED kafkaVars PROVE KafkaInv'
  BY DEF KafkaInv, KafkaTypeOK, NoneSkipped, TriedBehind, StandsOn, kafkaVars

LEMMA KafkaInvariant == KafkaSpec => []KafkaInv
  <1>1. KafkaInit => KafkaInv
    BY InitKafka
  <1>2. KafkaInv /\ [KafkaNext]_kafkaVars => KafkaInv'
    BY StepKafka, PublishKafka, StutterKafka DEF KafkaNext
  <1> QED
    BY <1>1, <1>2, PTL DEF KafkaSpec

\* Readers and the committed offset stay within the log.
THEOREM KafkaTypeCorrect == KafkaSpec => []KafkaTypeOK
  BY KafkaInvariant, PTL DEF KafkaInv

\* Whoever's commit is accepted last, no offset before the committed one was
\* never given to a handler.
THEOREM NoOffsetSkipped == KafkaSpec => []NoneSkipped
  BY KafkaInvariant, PTL DEF KafkaInv
=============================================================================

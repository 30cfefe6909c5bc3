------------------------------ MODULE TaskStore ------------------------------
(***************************************************************************)
(* The durable task store of month04_deploy/app/durable/task_store.py:     *)
(* the tables tasks and task_attempts, the capacity limits and the         *)
(* database clock.  Every method of TaskStore is one transaction that      *)
(* holds the Task row (and, for claims, the limits row) until it commits,  *)
(* so every method is one action.  A call that the code refuses (returns   *)
(* None, a RetryDecision or raises) leaves the tables alone and is a       *)
(* stuttering step.                                                        *)
(*                                                                         *)
(* This module says what the store does for any caller: a worker may call  *)
(* with any attempt and any lease version it ever saw, at any time.        *)
(* DurableWorker adds the processes that really call it.                   *)
(***************************************************************************)
EXTENDS Integers, Sequences, FiniteSets

CONSTANTS
    Tasks,            \* the task ids that may be submitted
    MaxRunningTasks,  \* task_runtime_limits.max_running_tasks
    MaxQueuedTasks,   \* task_runtime_limits.max_queued_tasks
    LeaseTime,        \* ticks for INTERVAL '10 seconds'
    Budgets,          \* the max_attempts a submitter may ask for
    Deadlines,        \* the retry_deadline_at values, NULL among them
    Delays,           \* the delay_seconds a scheduler may ask for
    MaxTime,          \* bound of the model on the clock
    NULL              \* SQL NULL

ASSUME TasksAssumption  == IsFiniteSet(Tasks)
ASSUME LimitsAssumption == /\ MaxRunningTasks \in Nat \ {0}
                           /\ MaxQueuedTasks \in Nat \ {0}
                           /\ LeaseTime \in Nat \ {0}
                           /\ MaxTime \in Nat
ASSUME InputsAssumption == /\ Budgets \subseteq Nat \ {0}
                           /\ Deadlines \subseteq Nat \cup {NULL}
                           /\ Delays \subseteq Nat
ASSUME NullAssumption   == NULL \notin Nat

VARIABLES
    now,       \* clock_timestamp()
    task,      \* the rows of tasks, one per id
    attempts   \* task_attempts: per task the attempt states, by attempt_no

vars == <<now, task, attempts>>

Terminal == {"succeeded", "failed", "cancelled"}
AttemptStatus == {"running", "succeeded", "failed", "interrupted"}
TimeOrNull == Nat \cup {NULL}

TaskRow == [status            : {"absent", "queued", "running"} \cup Terminal,
            max_attempts      : Nat \ {0},
            retry_deadline_at : TimeOrNull,
            lease_version     : Nat,
            lease_expires_at  : TimeOrNull,
            cancel_requested  : BOOLEAN,
            next_retry_at     : TimeOrNull,
            cleanup_attempt   : (Nat \ {0}) \cup {NULL}]

\* cleanup_pending = (cleanup_attempt_id IS NOT NULL) by a table constraint.
CleanupPending(t) == task[t].cleanup_attempt # NULL

\* A row with the column defaults of the migrations.
NewRow(status, deadline, budget) ==
    [status            |-> status,
     max_attempts      |-> budget,
     retry_deadline_at |-> deadline,
     lease_version     |-> 0,
     lease_expires_at  |-> NULL,
     cancel_requested  |-> FALSE,
     next_retry_at     |-> NULL,
     cleanup_attempt   |-> NULL]

TypeOK == /\ now \in Nat
          /\ task \in [Tasks -> TaskRow]
          /\ attempts \in [Tasks -> Seq(AttemptStatus)]

Init == /\ now = 0
        /\ task = [t \in Tasks |-> NewRow("absent", NULL, 1)]
        /\ attempts = [t \in Tasks |-> << >>]

-----------------------------------------------------------------------------
(* Capacity: both counts are taken under the lock on the limits row.       *)

SlotHolders == {t \in Tasks : task[t].status = "running" \/ CleanupPending(t)}
Queued      == {t \in Tasks : task[t].status = "queued"}

RunningSlotOffByOne == Cardinality(SlotHolders) <= MaxRunningTasks  \* mutant
HasRunningSlot == Cardinality(SlotHolders) < MaxRunningTasks

HasQueueSlot == Cardinality(Queued) < MaxQueuedTasks

-----------------------------------------------------------------------------
(* Submission and first claim.                                             *)

\* create_task, and create_task_idempotent for a key not seen before.
CreateTask(t, deadline, budget) ==
    /\ task[t].status = "absent"
    /\ HasQueueSlot
    /\ task' = [task EXCEPT ![t] = NewRow("queued", deadline, budget)]
    /\ UNCHANGED <<now, attempts>>

\* The tables of a claim: the next lease version, the next attempt_no.
Claimed(row) == [row EXCEPT !.status = "running",
                            !.lease_version = row.lease_version + 1,
                            !.lease_expires_at = now + LeaseTime]

StartTaskWithAttempt(t) ==
    /\ HasRunningSlot
    /\ task[t].status = "queued"
    /\ ~CleanupPending(t)
    /\ task' = [task EXCEPT ![t] = Claimed(task[t])]
    /\ attempts' = [attempts EXCEPT ![t] = Append(attempts[t], "running")]
    /\ UNCHANGED now

\* try_start_task: the interface from before attempts and leases.
StartTask(t) ==
    /\ HasRunningSlot
    /\ task[t].status = "queued"
    /\ ~CleanupPending(t)
    /\ task' = [task EXCEPT ![t].status = "running"]
    /\ UNCHANGED <<now, attempts>>

\* try_succeed_task: only for a task that the old interface started.
SucceedTask(t) ==
    /\ task[t].status = "running"
    /\ task[t].lease_version = 0
    /\ task[t].lease_expires_at = NULL
    /\ ~task[t].cancel_requested
    /\ attempts[t] = << >>
    /\ task' = [task EXCEPT ![t].status = "succeeded"]
    /\ UNCHANGED <<now, attempts>>

-----------------------------------------------------------------------------
(* A claim is an attempt (n) and a lease version (v).  It is checked under *)
(* both row locks, with the clock read after the locks are held.           *)

\* Mutant: the attempt row is not looked at.
ClaimOfVersion(t, n, v) ==
    /\ task[t].status = "running"
    /\ task[t].lease_version = v
    /\ task[t].lease_expires_at # NULL
    /\ now < task[t].lease_expires_at

\* Mutant: any caller may act while the lease runs.
LeaseIsEnough(t, n, v) ==
    /\ task[t].status = "running"
    /\ task[t].lease_expires_at # NULL
    /\ now < task[t].lease_expires_at

ClaimHeld(t, n, v) ==
    /\ task[t].status = "running"
    /\ task[t].lease_version = v
    /\ task[t].lease_expires_at # NULL
    /\ n \in DOMAIN attempts[t]
    /\ attempts[t][n] = "running"
    /\ now < task[t].lease_expires_at

\* The attempt ends as the task does, except that a cancel interrupts it.
AlwaysFailed(status) ==                                             \* mutant
    IF status = "cancelled" THEN "interrupted" ELSE "failed"
AttemptOutcome(status) ==
    IF status = "cancelled" THEN "interrupted" ELSE status

\* _write_terminal: the task and its attempt end in the same transaction.
WriteTerminal(t, n, status, cleanup) ==
    /\ task' = [task EXCEPT ![t] =
                  [task[t] EXCEPT
                     !.status = status,
                     !.lease_expires_at = NULL,
                     !.next_retry_at = IF status = "cancelled" THEN NULL ELSE @,
                     !.cleanup_attempt = cleanup]]
    /\ attempts' = [attempts EXCEPT ![t] =
                      [attempts[t] EXCEPT ![n] = AttemptOutcome(status)]]
    /\ UNCHANGED now

\* The boundary of a step: a cancel request that waits is confirmed here.
ConfirmCancel(t, n, v) ==
    /\ ClaimHeld(t, n, v)
    /\ task[t].cancel_requested
    /\ WriteTerminal(t, n, "cancelled", task[t].cleanup_attempt)

\* A cancel that was registered before the task ended wins.
OutcomeFirst(t, outcome) == outcome                                 \* mutant
FinalStatus(t, outcome) ==
    IF task[t].cancel_requested THEN "cancelled" ELSE outcome

\* _finish_claimed_task: even after a cancel a container still to be cleaned
\* up keeps its slot.  Another attempt's unfinished cleanup rolls the
\* transaction back.
FinishClaimedTask(t, n, v, outcome, leavesContainer) ==
    /\ ClaimHeld(t, n, v)
    /\ leavesContainer => task[t].cleanup_attempt \in {NULL, n}
    /\ WriteTerminal(t, n, FinalStatus(t, outcome),
                     IF leavesContainer THEN n ELSE task[t].cleanup_attempt)

SucceedTaskWithAttempt(t, n, v) ==
    FinishClaimedTask(t, n, v, "succeeded", FALSE)

FailTaskWithAttempt(t, n, v, leavesContainer) ==
    FinishClaimedTask(t, n, v, "failed", leavesContainer)

\* Mutant: the owner is reset to a number instead of NULL.
ConfirmLeavesOwner(t, n) ==
    /\ task[t].cleanup_attempt = n
    /\ task' = [task EXCEPT ![t].cleanup_attempt = 0]
    /\ UNCHANGED <<now, attempts>>

ConfirmTaskCleanup(t, n) ==
    /\ task[t].cleanup_attempt = n
    /\ task' = [task EXCEPT ![t].cleanup_attempt = NULL]
    /\ UNCHANGED <<now, attempts>>

\* Queued and running tasks, and failed ones that wait for a retry.
Cancellable(t) ==
    \/ task[t].status \in {"queued", "running"}
    \/ task[t].status = "failed" /\ task[t].next_retry_at # NULL

\* A task that only waits is cancelled at once, with its planned retry.
KeepsPlan(row) == [row EXCEPT !.status = "cancelled"]               \* mutant
CancelWaiting(row) == [row EXCEPT !.status = "cancelled",
                                  !.next_retry_at = NULL]

RequestTaskCancel(t) ==
    /\ ~task[t].cancel_requested
    /\ Cancellable(t)
    /\ LET asked == [task[t] EXCEPT !.cancel_requested = TRUE]
       IN  task' = [task EXCEPT ![t] =
             IF task[t].status = "running" THEN asked ELSE CancelWaiting(asked)]
    /\ UNCHANGED <<now, attempts>>

-----------------------------------------------------------------------------
(* Retry: planned by one call, claimed by a later one.  The caller judges  *)
(* the error of the attempt it names.                                      *)

Judgements == [retryable : BOOLEAN, unknown : BOOLEAN, replay_safe : BOOLEAN]

DecideRetry(error, used, budget, timeLeft) ==
    IF error.unknown /\ ~error.replay_safe            THEN "reconcile"
    ELSE IF ~error.retryable \/ used >= budget \/ ~timeLeft THEN "stop"
    ELSE "retry"

TimeLeft(t) == /\ task[t].retry_deadline_at # NULL
               /\ now < task[t].retry_deadline_at

MayRetry(t, n, error) ==
    /\ task[t].status = "failed"
    /\ attempts[t] # << >>
    /\ n = Len(attempts[t])
    /\ attempts[t][n] = "failed"
    /\ DecideRetry(error, n, task[t].max_attempts, TimeLeft(t)) = "retry"

ScheduleTaskRetry(t, n, error, delay) ==
    /\ MayRetry(t, n, error)
    /\ task[t].next_retry_at = NULL
    /\ now + delay < task[t].retry_deadline_at
    /\ task' = [task EXCEPT ![t].next_retry_at = now + delay]
    /\ UNCHANGED <<now, attempts>>

\* Mutant: the planned time alone is asked for.
DueByTime(t) == task[t].next_retry_at # NULL /\ now >= task[t].next_retry_at
RetryDue(t) == /\ ~CleanupPending(t)
               /\ task[t].next_retry_at # NULL
               /\ now >= task[t].next_retry_at

RetryTaskWithAttempt(t, n, error) ==
    /\ MayRetry(t, n, error)
    /\ RetryDue(t)
    /\ HasRunningSlot
    /\ task' = [task EXCEPT ![t] = [Claimed(task[t]) EXCEPT !.next_retry_at = NULL]]
    /\ attempts' = [attempts EXCEPT ![t] = Append(attempts[t], "running")]
    /\ UNCHANGED now

-----------------------------------------------------------------------------
(* Leases.                                                                 *)

LeaseOfVersion(t, v) ==                                             \* mutant
    /\ task[t].status = "running"
    /\ task[t].lease_version = v
    /\ task[t].lease_expires_at # NULL
LeaseValid(t, v) ==
    /\ task[t].status = "running"
    /\ task[t].lease_version = v
    /\ task[t].lease_expires_at # NULL
    /\ now < task[t].lease_expires_at

RenewTaskLease(t, v) ==
    /\ LeaseValid(t, v)
    /\ task' = [task EXCEPT ![t].lease_expires_at = now + LeaseTime]
    /\ UNCHANGED <<now, attempts>>

LeaseExpired(t, v) ==
    /\ task[t].status = "running"
    /\ task[t].lease_version = v
    /\ task[t].lease_expires_at # NULL
    /\ now >= task[t].lease_expires_at

\* The old attempt is closed and a new one is opened in one transaction.
LeavesOldRunning(history) == Append(history, "running")             \* mutant
Succession(history) ==
    Append([history EXCEPT ![Len(history)] = "interrupted"], "running")

\* The slot of the expired attempt passes to the new one.
TakeOverExpiredTask(t, v) ==
    /\ LeaseExpired(t, v)
    /\ ~CleanupPending(t)
    /\ task[t].retry_deadline_at # NULL => now < task[t].retry_deadline_at
    /\ attempts[t] # << >>
    /\ attempts[t][Len(attempts[t])] = "running"
    /\ Len(attempts[t]) < task[t].max_attempts
    /\ task' = [task EXCEPT ![t] = Claimed(task[t])]
    /\ attempts' = [attempts EXCEPT ![t] = Succession(attempts[t])]
    /\ UNCHANGED now

Tick == /\ now < MaxTime
        /\ now' = now + 1
        /\ UNCHANGED <<task, attempts>>

-----------------------------------------------------------------------------
\* A caller names any attempt that exists and any lease version up to the
\* current one: stale callers are as likely as the holder of the claim.
Numbers(t)  == 1..Len(attempts[t])
Versions(t) == 0..task[t].lease_version

Call(t) ==
    \/ \E d \in Deadlines, b \in Budgets : CreateTask(t, d, b)
    \/ StartTaskWithAttempt(t)
    \/ StartTask(t)
    \/ SucceedTask(t)
    \/ RequestTaskCancel(t)
    \/ \E n \in Numbers(t) : ConfirmTaskCleanup(t, n)
    \/ \E n \in Numbers(t), v \in Versions(t) :
         \/ ConfirmCancel(t, n, v)
         \/ SucceedTaskWithAttempt(t, n, v)
         \/ \E c \in BOOLEAN : FailTaskWithAttempt(t, n, v, c)
    \/ \E n \in Numbers(t), error \in Judgements :
         \/ \E delay \in Delays : ScheduleTaskRetry(t, n, error, delay)
         \/ RetryTaskWithAttempt(t, n, error)
    \/ \E v \in Versions(t) :
         \/ RenewTaskLease(t, v)
         \/ TakeOverExpiredTask(t, v)

Next == Tick \/ \E t \in Tasks : Call(t)

Spec == Init /\ [][Next]_vars
-----------------------------------------------------------------------------
(* Properties.                                                             *)

\* At most one attempt of a task runs; it is the latest one, its number is
\* the task's lease version, and the task is running under a lease.  Every
\* call that ends, takes over or retries an attempt must keep the two
\* tables in step for this to hold.
OneRunningAttempt ==
    \A t \in Tasks :
      /\ Len(attempts[t]) = task[t].lease_version
      /\ task[t].status \in {"absent", "queued"} => attempts[t] = << >>
      /\ task[t].lease_expires_at # NULL <=>
           task[t].status = "running" /\ task[t].lease_version > 0
      /\ \A n \in DOMAIN attempts[t] :
           attempts[t][n] = "running" <=>
             n = Len(attempts[t]) /\ task[t].status = "running"

\* A claimed task and its last attempt tell the same story: a task has
\* succeeded or failed only as its last attempt did, and no earlier attempt
\* ever succeeded (nothing runs again after a success).
OutcomesAgree ==
    \A t \in Tasks : \A n \in DOMAIN attempts[t] :
      /\ attempts[t][n] = "succeeded" =>
           n = Len(attempts[t]) /\ task[t].status = "succeeded"
      /\ n = Len(attempts[t]) /\ task[t].status \in {"succeeded", "failed"} =>
           attempts[t][n] = task[t].status

\* Running tasks and containers that are not yet known to be gone never
\* outnumber max_running_tasks, through claims, retries, takeovers, timeouts
\* and cancellations.
RunningCapacity == Cardinality(SlotHolders) <= MaxRunningTasks

\* Retries and takeovers together never use more attempts than the
\* submitter allowed.
AttemptBudget ==
    \A t \in Tasks : Len(attempts[t]) <= task[t].max_attempts

\* A registered cancel request is never lost: the task still runs or it was
\* cancelled, it cannot have succeeded, failed or gone back to the queue.
\* And nothing is cancelled without a request.
CancelIsNotLost ==
    \A t \in Tasks :
      /\ task[t].cancel_requested => task[t].status \in {"running", "cancelled"}
      /\ task[t].status = "cancelled" => task[t].cancel_requested

\* A container that awaits cleanup belongs to the last attempt of a task
\* that failed or was cancelled: no new attempt starts beside it, and the
\* slot it holds is never a second slot of a running task.
CleanupIsOfLastAttempt ==
    \A t \in Tasks : CleanupPending(t) =>
      /\ task[t].status \in {"failed", "cancelled"}
      /\ task[t].cleanup_attempt = Len(attempts[t])
      /\ attempts[t][Len(attempts[t])] \in {"failed", "interrupted"}

\* A planned retry could be claimed at its planned time: the task still is
\* failed and not cancelled, an attempt is left, and the time lies before
\* the deadline.
PlannedRetryIsFeasible ==
    \A t \in Tasks : task[t].next_retry_at # NULL =>
      /\ task[t].status = "failed"
      /\ ~task[t].cancel_requested
      /\ Len(attempts[t]) < task[t].max_attempts
      /\ task[t].retry_deadline_at # NULL
      /\ task[t].next_retry_at < task[t].retry_deadline_at

\* The two tables tell one story of every task, through every order of calls
\* by live and by stale callers: which attempt runs and how the others
\* ended, that a cancel, a planned retry and a container awaiting cleanup
\* exclude what they must, and that the budget of attempts is kept.  No part
\* is inductive alone: a retry keeps the tables in step only because no
\* cleanup is pending, and a cancel is not lost only because it takes the
\* planned retry with it.
Consistent == /\ OneRunningAttempt
              /\ OutcomesAgree
              /\ AttemptBudget
              /\ CancelIsNotLost
              /\ CleanupIsOfLastAttempt
              /\ PlannedRetryIsFeasible

\* What an attempt ended as is history: no late call of an old worker, no
\* retry and no takeover rewrites or removes it.
HistoryIsFinal ==
    [][\A t \in Tasks : \A n \in DOMAIN attempts[t] :
         attempts[t][n] # "running" =>
           n \in DOMAIN attempts'[t] /\ attempts'[t][n] = attempts[t][n]]_vars

\* Succeeded and cancelled tasks never move again.  A failed task moves only
\* along a planned retry.
TerminalIsFinal ==
    [][\A t \in Tasks :
         task[t].status \in Terminal /\ task'[t].status # task[t].status =>
           /\ task[t].status = "failed"
           /\ task[t].next_retry_at # NULL
           /\ task'[t].status \in {"running", "cancelled"}]_vars

\* A task whose lease ran out with no attempt or no time left for a takeover
\* is beyond every operation of the store: it stays running, holds its slot
\* and ignores a cancel request for good.
Stranded(t) ==
    /\ task[t].status = "running"
    /\ task[t].lease_expires_at # NULL
    /\ now >= task[t].lease_expires_at
    /\ \/ Len(attempts[t]) >= task[t].max_attempts
       \/ task[t].retry_deadline_at # NULL /\ now >= task[t].retry_deadline_at

StrandedForGood ==
    [][\A t \in Tasks : Stranded(t) => Stranded(t)']_vars

\* The store's capacity is a pool of max_running_tasks slots: taken one at a
\* time by a claim, given back one at a time by an end or a cleanup, and
\* kept through a takeover and through a failure that leaves a container.
Pool == INSTANCE SlotPool WITH Clients <- Tasks, Slots <- MaxRunningTasks,
                               holding <- SlotHolders
ImplementsSlotPool == Pool!Spec
=============================================================================

-------------------------- MODULE DurableWorkerProofs --------------------------
(***************************************************************************)
(* Proofs about the durable task store and the processes that use it, for  *)
(* any number of tasks, workers, steps and deaths, any limits, budgets and *)
(* deadlines, and leases of any length.                                    *)
(*                                                                         *)
(* First the store alone (TaskStore).  Then the worker processes: they use *)
(* the store only as its own specification allows, so everything proved of *)
(* the store holds of them; two processes never hold a claim of the same   *)
(* task, given that --resume is only used as its operator promises; and,   *)
(* without that promise too, the saved steps of a task have no gap and no  *)
(* repetition, only the latest attempt adds to them, and a succeeded task  *)
(* has them all.                                                           *)
(***************************************************************************)
EXTENDS DurableWorker, TLAPS, FiniteSetTheorems

-----------------------------------------------------------------------------
(* The store.                                                              *)

\* Assigning well-typed values to the columns of a row gives a row.
LEMMA RowUpdate ==
    ASSUME NEW r \in TaskRow,
           NEW s \in {"absent", "queued", "running"} \cup Terminal,
           NEW v \in Nat, NEW x \in TimeOrNull, NEW y \in TimeOrNull,
           NEW c \in (Nat \ {0}) \cup {NULL}
    PROVE  /\ [r EXCEPT !.status = s] \in TaskRow
           /\ [r EXCEPT !.status = s, !.lease_version = v, !.lease_expires_at = x]
                \in TaskRow
           /\ [r EXCEPT !.status = s, !.lease_expires_at = x, !.next_retry_at = y,
                        !.cleanup_attempt = c] \in TaskRow
           /\ [r EXCEPT !.lease_expires_at = x] \in TaskRow
           /\ [r EXCEPT !.next_retry_at = y] \in TaskRow
           /\ [r EXCEPT !.cleanup_attempt = c] \in TaskRow
           /\ [r EXCEPT !.cancel_requested = TRUE] \in TaskRow
           /\ [r EXCEPT !.status = s, !.next_retry_at = y] \in TaskRow
<1>1. [r EXCEPT !.status = s] \in TaskRow
  BY DEF TaskRow
<1>2. [r EXCEPT !.status = s, !.lease_version = v, !.lease_expires_at = x] \in TaskRow
  BY DEF TaskRow
<1>3. [r EXCEPT !.status = s, !.lease_expires_at = x, !.next_retry_at = y,
                !.cleanup_attempt = c] \in TaskRow
  BY DEF TaskRow
<1>4. [r EXCEPT !.status = s, !.next_retry_at = y] \in TaskRow
  BY DEF TaskRow
<1> QED
  BY <1>1, <1>2, <1>3, <1>4 DEF TaskRow

\* A claim of a row is a row again.
LEMMA ClaimedType ==
    ASSUME TypeOK, NEW t \in Tasks
    PROVE  Claimed(task[t]) \in TaskRow
<1>1. task[t] \in TaskRow /\ task[t].lease_version + 1 \in Nat
  BY DEF TypeOK, TaskRow
<1>2. now + LeaseTime \in TimeOrNull
  BY LimitsAssumption DEF TypeOK, TimeOrNull
<1> QED
  BY <1>1, <1>2, RowUpdate DEF Claimed

\* Ending an attempt keeps the tables well typed.
LEMMA WriteTerminalType ==
    ASSUME TypeOK, NEW t \in Tasks, NEW n \in DOMAIN attempts[t],
           NEW status \in Terminal, NEW cleanup \in (Nat \ {0}) \cup {NULL},
           WriteTerminal(t, n, status, cleanup)
    PROVE  TypeOK'
<1> DEFINE retry == IF status = "cancelled" THEN NULL ELSE task[t].next_retry_at
           row == [task[t] EXCEPT !.status = status,
                                  !.lease_expires_at = NULL,
                                  !.next_retry_at = retry,
                                  !.cleanup_attempt = cleanup]
<1>1. row \in TaskRow
  <2>1. task[t] \in TaskRow
    BY DEF TypeOK
  <2>2. retry \in TimeOrNull
    BY <2>1 DEF TaskRow, TimeOrNull
  <2>3. NULL \in TimeOrNull
    BY DEF TimeOrNull
  <2> HIDE DEF retry
  <2> QED
    BY <2>1, <2>2, <2>3, RowUpdate
<1>2. task' \in [Tasks -> TaskRow]
  BY <1>1 DEF WriteTerminal, TypeOK
<1>3. [attempts[t] EXCEPT ![n] = AttemptOutcome(status)] \in Seq(AttemptStatus)
  BY DEF TypeOK, AttemptOutcome, AttemptStatus, Terminal
<1> QED
  BY <1>2, <1>3 DEF WriteTerminal, TypeOK

LEMMA TypeInit == Init => TypeOK
BY InputsAssumption, NullAssumption
   DEF Init, TypeOK, NewRow, TaskRow, TimeOrNull, Terminal

\* Every step keeps the types.
LEMMA TypeKept == TypeOK /\ [Next]_vars => TypeOK'
<1> SUFFICES ASSUME TypeOK, [Next]_vars PROVE TypeOK'
  OBVIOUS
<1>1. CASE UNCHANGED vars
  BY <1>1 DEF TypeOK, vars
<1>2. CASE Tick
  BY <1>2 DEF Tick, TypeOK
<1>3. ASSUME NEW t \in Tasks, Call(t) PROVE TypeOK'
  <2>1. ASSUME NEW d \in Deadlines, NEW b \in Budgets, CreateTask(t, d, b)
        PROVE  TypeOK'
    BY <2>1, InputsAssumption
       DEF CreateTask, TypeOK, NewRow, TaskRow, TimeOrNull, Terminal
  <2>2. CASE StartTaskWithAttempt(t)
    BY <2>2, ClaimedType DEF StartTaskWithAttempt, TypeOK, AttemptStatus
  <2>3. CASE StartTask(t)
    <3>1. [task[t] EXCEPT !.status = "running"] \in TaskRow
      BY RowUpdate DEF TypeOK, TimeOrNull
    <3> QED
      BY <2>3, <3>1 DEF StartTask, TypeOK
  <2>4. CASE SucceedTask(t)
    <3>1. [task[t] EXCEPT !.status = "succeeded"] \in TaskRow
      BY RowUpdate DEF TypeOK, TimeOrNull, Terminal
    <3> QED
      BY <2>4, <3>1 DEF SucceedTask, TypeOK
  <2>5. CASE RequestTaskCancel(t)
    <3> DEFINE asked == [task[t] EXCEPT !.cancel_requested = TRUE]
    <3>1. asked \in TaskRow
      BY RowUpdate DEF TypeOK, TimeOrNull
    <3>2. [asked EXCEPT !.status = "cancelled", !.next_retry_at = NULL] \in TaskRow
      <4> HIDE DEF asked
      <4> QED
        BY <3>1, RowUpdate DEF TimeOrNull, Terminal
    <3>3. (IF task[t].status = "running" THEN asked ELSE CancelWaiting(asked))
            \in TaskRow
      BY <3>1, <3>2 DEF CancelWaiting
    <3> QED
      BY <2>5, <3>3 DEF RequestTaskCancel, TypeOK
  <2>6. ASSUME NEW n \in Numbers(t), ConfirmTaskCleanup(t, n) PROVE TypeOK'
    BY <2>6 DEF ConfirmTaskCleanup, TypeOK, TaskRow
  <2>7. ASSUME NEW n \in Numbers(t), NEW v \in Versions(t), ConfirmCancel(t, n, v)
        PROVE  TypeOK'
    BY <2>7, WriteTerminalType
       DEF ConfirmCancel, ClaimHeld, TypeOK, TaskRow, Terminal
  <2>8. ASSUME NEW n \in Numbers(t), NEW v \in Versions(t),
               NEW outcome \in {"succeeded", "failed"}, NEW c \in BOOLEAN,
               FinishClaimedTask(t, n, v, outcome, c)
        PROVE  TypeOK'
    <3>1. FinalStatus(t, outcome) \in Terminal
      BY DEF FinalStatus, Terminal
    <3>2. (IF c THEN n ELSE task[t].cleanup_attempt) \in (Nat \ {0}) \cup {NULL}
      BY DEF Numbers, TypeOK, TaskRow
    <3>3. n \in DOMAIN attempts[t]
      BY <2>8 DEF FinishClaimedTask, ClaimHeld
    <3> QED
      BY <2>8, <3>1, <3>2, <3>3, WriteTerminalType DEF FinishClaimedTask
  <2>9. ASSUME NEW n \in Numbers(t), NEW error \in Judgements,
               NEW delay \in Delays, ScheduleTaskRetry(t, n, error, delay)
        PROVE  TypeOK'
    <3>1. now + delay \in TimeOrNull
      BY InputsAssumption DEF TypeOK, TimeOrNull
    <3>2. [task[t] EXCEPT !.next_retry_at = now + delay] \in TaskRow
      BY <3>1, RowUpdate DEF TypeOK
    <3> QED
      BY <2>9, <3>2 DEF ScheduleTaskRetry, TypeOK
  <2>10. ASSUME NEW n \in Numbers(t), NEW error \in Judgements,
                RetryTaskWithAttempt(t, n, error)
         PROVE  TypeOK'
    <3>1. [Claimed(task[t]) EXCEPT !.next_retry_at = NULL] \in TaskRow
      BY ClaimedType DEF TaskRow, TimeOrNull
    <3> QED
      BY <2>10, <3>1 DEF RetryTaskWithAttempt, TypeOK, AttemptStatus
  <2>11. ASSUME NEW v \in Versions(t), RenewTaskLease(t, v) PROVE TypeOK'
    <3>1. now + LeaseTime \in TimeOrNull
      BY LimitsAssumption DEF TypeOK, TimeOrNull
    <3>2. [task[t] EXCEPT !.lease_expires_at = now + LeaseTime] \in TaskRow
      BY <3>1, RowUpdate DEF TypeOK
    <3> QED
      BY <2>11, <3>2 DEF RenewTaskLease, TypeOK
  <2>12. ASSUME NEW v \in Versions(t), TakeOverExpiredTask(t, v) PROVE TypeOK'
    <3>1. Succession(attempts[t]) \in Seq(AttemptStatus)
      BY <2>12 DEF TakeOverExpiredTask, Succession, TypeOK, AttemptStatus
    <3> QED
      BY <2>12, <3>1, ClaimedType DEF TakeOverExpiredTask, TypeOK
  <2> QED
    BY <1>3, <2>1, <2>2, <2>3, <2>4, <2>5, <2>6, <2>7, <2>8, <2>9, <2>10,
       <2>11, <2>12
       DEF Call, SucceedTaskWithAttempt, FailTaskWithAttempt
<1> QED
  BY <1>1, <1>2, <1>3 DEF Next

\* The type invariant of the tables is preserved by every call.
THEOREM TypeCorrect == Spec => []TypeOK
BY TypeInit, TypeKept, PTL DEF Spec

-----------------------------------------------------------------------------
(* The inductive invariant.  No property of the tables is inductive alone: *)
(* that a takeover leaves one running attempt needs that only the last one *)
(* ran; that a retry never starts beside a container needs that a pending  *)
(* cleanup belongs to the last attempt; that a cancel is not lost by a     *)
(* retry needs that no retry is planned once it is registered.  Together   *)
(* they are, row by row: RowInv is their body for a task row r and its     *)
(* attempt history h.                                                      *)

RowInv(r, h) ==
    /\ Len(h) = r.lease_version
    /\ r.status \in {"absent", "queued"} => h = << >>
    /\ r.lease_expires_at # NULL <=> r.status = "running" /\ r.lease_version > 0
    /\ \A n \in DOMAIN h : h[n] = "running" <=> n = Len(h) /\ r.status = "running"
    /\ \A n \in DOMAIN h :
         /\ h[n] = "succeeded" => n = Len(h) /\ r.status = "succeeded"
         /\ n = Len(h) /\ r.status \in {"succeeded", "failed"} => h[n] = r.status
    /\ Len(h) <= r.max_attempts
    /\ r.cancel_requested => r.status \in {"running", "cancelled"}
    /\ r.status = "cancelled" => r.cancel_requested
    /\ r.cleanup_attempt # NULL =>
         /\ r.status \in {"failed", "cancelled"}
         /\ r.cleanup_attempt = Len(h)
         /\ h[Len(h)] \in {"failed", "interrupted"}
    /\ r.next_retry_at # NULL =>
         /\ r.status = "failed"
         /\ ~r.cancel_requested
         /\ Len(h) < r.max_attempts
         /\ r.retry_deadline_at # NULL
         /\ r.next_retry_at < r.retry_deadline_at

LEMMA ConsistentByRow ==
    /\ Consistent <=> \A t \in Tasks : RowInv(task[t], attempts[t])
    /\ Consistent' <=> \A t \in Tasks : RowInv(task'[t], attempts'[t])
BY DEF Consistent, OneRunningAttempt, OutcomesAgree, AttemptBudget,
       CancelIsNotLost, CleanupIsOfLastAttempt, PlannedRetryIsFeasible, RowInv,
       CleanupPending

\* A first claim: the row becomes running, the history gets its first entry.
LEMMA FirstClaimKeepsRow ==
    ASSUME NEW r \in TaskRow, NEW h \in Seq(AttemptStatus), RowInv(r, h),
           r.status = "queued", r.cleanup_attempt = NULL, NEW x \in Nat
    PROVE  RowInv([r EXCEPT !.status = "running",
                            !.lease_version = r.lease_version + 1,
                            !.lease_expires_at = x],
                  Append(h, "running"))
BY NullAssumption DEF RowInv, TaskRow, AttemptStatus, Terminal

\* A claimed retry.
LEMMA RetryKeepsRow ==
    ASSUME NEW r \in TaskRow, NEW h \in Seq(AttemptStatus), RowInv(r, h),
           r.status = "failed", r.cleanup_attempt = NULL,
           r.next_retry_at # NULL, NEW x \in Nat
    PROVE  RowInv([r EXCEPT !.status = "running",
                            !.lease_version = r.lease_version + 1,
                            !.lease_expires_at = x,
                            !.next_retry_at = NULL],
                  Append(h, "running"))
BY NullAssumption DEF RowInv, TaskRow, AttemptStatus, Terminal

\* A takeover: the last attempt is interrupted, its successor opened.
LEMMA TakeOverKeepsRow ==
    ASSUME NEW r \in TaskRow, NEW h \in Seq(AttemptStatus), RowInv(r, h),
           r.status = "running", r.lease_version > 0,
           Len(h) < r.max_attempts, NEW x \in Nat
    PROVE  RowInv([r EXCEPT !.status = "running",
                            !.lease_version = r.lease_version + 1,
                            !.lease_expires_at = x],
                  Succession(h))
BY NullAssumption DEF RowInv, TaskRow, AttemptStatus, Terminal, Succession

\* The end of a running attempt, with or without a container left behind
\* (a succeeded attempt leaves none).
LEMMA EndKeepsRow ==
    ASSUME NEW r \in TaskRow, NEW h \in Seq(AttemptStatus), RowInv(r, h),
           NEW n \in DOMAIN h, h[n] = "running",
           NEW s \in Terminal, s = "cancelled" <=> r.cancel_requested,
           NEW c \in {NULL, n}, s = "succeeded" => c = NULL
    PROVE  RowInv([r EXCEPT !.status = s,
                            !.lease_expires_at = NULL,
                            !.next_retry_at = IF s = "cancelled" THEN NULL
                                              ELSE r.next_retry_at,
                            !.cleanup_attempt = c],
                  [h EXCEPT ![n] = AttemptOutcome(s)])
BY NullAssumption DEF RowInv, TaskRow, AttemptStatus, Terminal, AttemptOutcome

\* Every call keeps the invariant of the row it works on.
LEMMA CallKeepsRow ==
    ASSUME TypeOK, Consistent, NEW t \in Tasks, Call(t)
    PROVE  RowInv(task'[t], attempts'[t])
<1> DEFINE r == task[t]
           h == attempts[t]
<1>0. /\ r \in TaskRow /\ h \in Seq(AttemptStatus) /\ RowInv(r, h)
      /\ now \in Nat /\ now + LeaseTime \in Nat
      /\ t \in DOMAIN task /\ t \in DOMAIN attempts
  BY ConsistentByRow, LimitsAssumption DEF TypeOK
<1>1. ASSUME NEW d \in Deadlines, NEW b \in Budgets, CreateTask(t, d, b)
      PROVE  RowInv(task'[t], attempts'[t])
  BY <1>0, <1>1, InputsAssumption, NullAssumption
     DEF CreateTask, NewRow, RowInv
<1>2. CASE StartTaskWithAttempt(t)
  BY <1>0, <1>2, FirstClaimKeepsRow
     DEF StartTaskWithAttempt, Claimed, CleanupPending
<1>3. CASE StartTask(t)
  <2>1. /\ task'[t] = [r EXCEPT !.status = "running"] /\ attempts'[t] = h
        /\ r.status = "queued" /\ r.cleanup_attempt = NULL
    BY <1>0, <1>3 DEF StartTask, CleanupPending
  <2> HIDE DEF r, h
  <2> QED
    BY <1>0, <2>1, NullAssumption DEF RowInv, TaskRow
<1>4. CASE SucceedTask(t)
  <2>1. /\ task'[t] = [r EXCEPT !.status = "succeeded"] /\ attempts'[t] = h
        /\ r.status = "running" /\ r.lease_version = 0 /\ ~r.cancel_requested
        /\ h = << >>
    BY <1>0, <1>4 DEF SucceedTask
  <2> HIDE DEF r, h
  <2> QED
    BY <1>0, <2>1, NullAssumption DEF RowInv, TaskRow
<1>5. CASE RequestTaskCancel(t)
  <2>1. /\ task'[t] = IF r.status = "running"
                        THEN [r EXCEPT !.cancel_requested = TRUE]
                        ELSE [r EXCEPT !.cancel_requested = TRUE,
                                       !.status = "cancelled",
                                       !.next_retry_at = NULL]
        /\ attempts'[t] = h
        /\ r.status \in {"queued", "running", "failed"}
    BY <1>0, <1>5 DEF RequestTaskCancel, CancelWaiting, Cancellable
  <2> HIDE DEF r, h
  <2> QED
    BY <1>0, <2>1, NullAssumption DEF RowInv, TaskRow
<1>6. ASSUME NEW n \in Numbers(t), ConfirmTaskCleanup(t, n)
      PROVE  RowInv(task'[t], attempts'[t])
  <2>1. /\ task'[t] = [r EXCEPT !.cleanup_attempt = NULL] /\ attempts'[t] = h
    BY <1>0, <1>6 DEF ConfirmTaskCleanup
  <2> HIDE DEF r, h
  <2> QED
    BY <1>0, <2>1, NullAssumption DEF RowInv, TaskRow
<1>7. ASSUME NEW n \in Numbers(t), NEW v \in Versions(t), ConfirmCancel(t, n, v)
      PROVE  RowInv(task'[t], attempts'[t])
  <2>1. /\ task'[t] = [r EXCEPT !.status = "cancelled",
                                !.lease_expires_at = NULL,
                                !.next_retry_at = NULL,
                                !.cleanup_attempt = r.cleanup_attempt]
        /\ attempts'[t] = [h EXCEPT ![n] = AttemptOutcome("cancelled")]
        /\ n \in DOMAIN h /\ h[n] = "running" /\ r.status = "running"
        /\ r.cancel_requested
    BY <1>0, <1>7 DEF ConfirmCancel, ClaimHeld, WriteTerminal
  <2>2. r.cleanup_attempt = NULL
    BY <1>0, <2>1 DEF RowInv
  <2>3. RowInv([r EXCEPT !.status = "cancelled",
                         !.lease_expires_at = NULL,
                         !.next_retry_at = IF "cancelled" = "cancelled" THEN NULL
                                           ELSE r.next_retry_at,
                         !.cleanup_attempt = NULL],
               [h EXCEPT ![n] = AttemptOutcome("cancelled")])
    <3>1. "cancelled" \in Terminal /\ NULL \in {NULL, n}
      BY DEF Terminal
    <3> HIDE DEF r, h
    <3> QED
      BY <1>0, <2>1, <3>1, EndKeepsRow
  <2> QED
    BY <2>1, <2>2, <2>3
<1>8. ASSUME NEW n \in Numbers(t), NEW v \in Versions(t),
             NEW outcome \in {"succeeded", "failed"}, NEW c \in BOOLEAN,
             outcome = "succeeded" => c = FALSE,
             FinishClaimedTask(t, n, v, outcome, c)
      PROVE  RowInv(task'[t], attempts'[t])
  <2> DEFINE s == FinalStatus(t, outcome)
             cleanup == IF c THEN n ELSE NULL
  <2>1. /\ n \in DOMAIN h /\ h[n] = "running" /\ r.status = "running"
    BY <1>8 DEF FinishClaimedTask, ClaimHeld
  <2>2. r.cleanup_attempt = NULL
    BY <1>0, <2>1 DEF RowInv
  <2>3. /\ task'[t] = [r EXCEPT !.status = s,
                                !.lease_expires_at = NULL,
                                !.next_retry_at = IF s = "cancelled" THEN NULL
                                                  ELSE r.next_retry_at,
                                !.cleanup_attempt = cleanup]
        /\ attempts'[t] = [h EXCEPT ![n] = AttemptOutcome(s)]
    BY <1>0, <1>8, <2>2 DEF FinishClaimedTask, WriteTerminal
  <2>4. /\ s \in Terminal /\ (s = "cancelled" <=> r.cancel_requested)
        /\ cleanup \in {NULL, n} /\ (s = "succeeded" => cleanup = NULL)
    BY <1>0, <1>8 DEF FinalStatus, Terminal, TaskRow
  <2>5. RowInv([r EXCEPT !.status = s,
                         !.lease_expires_at = NULL,
                         !.next_retry_at = IF s = "cancelled" THEN NULL
                                           ELSE r.next_retry_at,
                         !.cleanup_attempt = cleanup],
               [h EXCEPT ![n] = AttemptOutcome(s)])
    <3> HIDE DEF r, h, s, cleanup
    <3> QED
      BY <1>0, <2>1, <2>4, EndKeepsRow
  <2> QED
    BY <2>3, <2>5
<1>9. ASSUME NEW n \in Numbers(t), NEW error \in Judgements,
             NEW delay \in Delays, ScheduleTaskRetry(t, n, error, delay)
      PROVE  RowInv(task'[t], attempts'[t])
  <2>1. /\ task'[t] = [r EXCEPT !.next_retry_at = now + delay]
        /\ attempts'[t] = h
        /\ r.status = "failed" /\ now + delay < r.retry_deadline_at
    BY <1>0, <1>9 DEF ScheduleTaskRetry, MayRetry
  <2>2. Len(h) < r.max_attempts /\ r.retry_deadline_at # NULL
    BY <1>0, <1>9
       DEF ScheduleTaskRetry, MayRetry, DecideRetry, TimeLeft, Numbers, TaskRow
  <2> HIDE DEF r, h
  <2> QED
    BY <1>0, <2>1, <2>2 DEF RowInv, TaskRow
<1>10. ASSUME NEW n \in Numbers(t), NEW error \in Judgements,
              RetryTaskWithAttempt(t, n, error)
       PROVE  RowInv(task'[t], attempts'[t])
  <2>1. /\ task'[t] = [r EXCEPT !.status = "running",
                                !.lease_version = r.lease_version + 1,
                                !.lease_expires_at = now + LeaseTime,
                                !.next_retry_at = NULL]
        /\ attempts'[t] = Append(h, "running")
        /\ r.status = "failed" /\ r.cleanup_attempt = NULL
        /\ r.next_retry_at # NULL
    BY <1>0, <1>10
       DEF RetryTaskWithAttempt, MayRetry, RetryDue, CleanupPending, Claimed
  <2>2. RowInv([r EXCEPT !.status = "running",
                         !.lease_version = r.lease_version + 1,
                         !.lease_expires_at = now + LeaseTime,
                         !.next_retry_at = NULL],
               Append(h, "running"))
    <3> HIDE DEF r, h
    <3> QED
      BY <1>0, <2>1, RetryKeepsRow
  <2> QED
    BY <2>1, <2>2
<1>11. ASSUME NEW v \in Versions(t), RenewTaskLease(t, v)
       PROVE  RowInv(task'[t], attempts'[t])
  <2>1. /\ task'[t] = [r EXCEPT !.lease_expires_at = now + LeaseTime]
        /\ attempts'[t] = h
        /\ r.status = "running" /\ r.lease_expires_at # NULL
    BY <1>0, <1>11 DEF RenewTaskLease, LeaseValid
  <2> HIDE DEF r, h
  <2> QED
    BY <1>0, <2>1, NullAssumption DEF RowInv, TaskRow
<1>12. ASSUME NEW v \in Versions(t), TakeOverExpiredTask(t, v)
       PROVE  RowInv(task'[t], attempts'[t])
  <2>1. /\ task'[t] = [r EXCEPT !.status = "running",
                                !.lease_version = r.lease_version + 1,
                                !.lease_expires_at = now + LeaseTime]
        /\ attempts'[t] = Succession(h)
        /\ r.status = "running" /\ r.lease_expires_at # NULL
        /\ Len(h) < r.max_attempts
    BY <1>0, <1>12 DEF TakeOverExpiredTask, LeaseExpired, Claimed
  <2>2. r.lease_version > 0
    BY <1>0, <2>1 DEF RowInv
  <2>3. RowInv([r EXCEPT !.status = "running",
                         !.lease_version = r.lease_version + 1,
                         !.lease_expires_at = now + LeaseTime],
               Succession(h))
    <3> HIDE DEF r, h
    <3> QED
      BY <1>0, <2>1, <2>2, TakeOverKeepsRow
  <2> QED
    BY <2>1, <2>3
<1> QED
  BY <1>1, <1>2, <1>3, <1>4, <1>5, <1>6, <1>7, <1>8, <1>9, <1>10, <1>11, <1>12
     DEF Call, SucceedTaskWithAttempt, FailTaskWithAttempt

\* A call on one task leaves the rows of every other task alone.
LEMMA CallIsLocal ==
    ASSUME TypeOK, NEW t \in Tasks, Call(t), NEW u \in Tasks \ {t}
    PROVE  task'[u] = task[u] /\ attempts'[u] = attempts[u]
BY DEF Call, TypeOK, CreateTask, StartTaskWithAttempt, StartTask, SucceedTask,
       RequestTaskCancel, ConfirmTaskCleanup, ConfirmCancel, WriteTerminal,
       SucceedTaskWithAttempt, FailTaskWithAttempt, FinishClaimedTask,
       ScheduleTaskRetry, RetryTaskWithAttempt, RenewTaskLease,
       TakeOverExpiredTask

LEMMA ConsistentInit == Init => Consistent
<1> SUFFICES ASSUME Init, NEW t \in Tasks PROVE RowInv(task[t], attempts[t])
  BY ConsistentByRow
<1> QED
  BY NullAssumption DEF Init, NewRow, RowInv

\* Every step keeps the two tables consistent.
LEMMA ConsistentKept == TypeOK /\ Consistent /\ [Next]_vars => Consistent'
<1> SUFFICES ASSUME TypeOK, Consistent, [Next]_vars, NEW u \in Tasks
             PROVE  RowInv(task'[u], attempts'[u])
  BY ConsistentByRow
<1>1. CASE UNCHANGED vars
  BY <1>1, ConsistentByRow DEF vars
<1>2. CASE Tick
  BY <1>2, ConsistentByRow DEF Tick
<1>3. ASSUME NEW t \in Tasks, Call(t) PROVE RowInv(task'[u], attempts'[u])
  <2>1. CASE u = t
    BY <1>3, <2>1, CallKeepsRow
  <2>2. CASE u # t
    BY <1>3, <2>2, CallIsLocal, ConsistentByRow
  <2> QED
    BY <2>1, <2>2
<1> QED
  BY <1>1, <1>2, <1>3 DEF Next

\* The two tables stay consistent through every interleaving of calls, by
\* live and by stale callers.
THEOREM TablesConsistent == Spec => []Consistent
BY ConsistentInit, ConsistentKept, TypeCorrect, PTL DEF Spec

-----------------------------------------------------------------------------
(* What follows from the invariant.                                        *)

\* At most one attempt of a task runs, under the newest lease.
THEOREM OneRunningAttemptHolds == Spec => []OneRunningAttempt
<1>1. Consistent => OneRunningAttempt
  BY DEF Consistent
<1> QED
  BY <1>1, TablesConsistent, PTL

\* No task uses more attempts than it was given.
THEOREM AttemptBudgetHolds == Spec => []AttemptBudget
<1>1. Consistent => AttemptBudget
  BY DEF Consistent
<1> QED
  BY <1>1, TablesConsistent, PTL

\* A registered cancel request ends only in cancelled.
THEOREM CancelIsNotLostHolds == Spec => []CancelIsNotLost
<1>1. Consistent => CancelIsNotLost
  BY DEF Consistent
<1> QED
  BY <1>1, TablesConsistent, PTL

\* No attempt starts beside a container that awaits cleanup.
THEOREM CleanupIsOfLastAttemptHolds == Spec => []CleanupIsOfLastAttempt
<1>1. Consistent => CleanupIsOfLastAttempt
  BY DEF Consistent
<1> QED
  BY <1>1, TablesConsistent, PTL

\* A planned retry stays feasible until it is claimed or cancelled.
THEOREM PlannedRetryIsFeasibleHolds == Spec => []PlannedRetryIsFeasible
<1>1. Consistent => PlannedRetryIsFeasible
  BY DEF Consistent
<1> QED
  BY <1>1, TablesConsistent, PTL

\* The history of a task is append-only below its running attempt.
THEOREM HistoryHolds == Spec => HistoryIsFinal
<1> DEFINE Kept == \A t \in Tasks : \A n \in DOMAIN attempts[t] :
                     attempts[t][n] # "running" =>
                       n \in DOMAIN attempts'[t] /\ attempts'[t][n] = attempts[t][n]
<1>1. TypeOK /\ Consistent /\ [Next]_vars => [Kept]_vars
  <2> SUFFICES ASSUME TypeOK, Consistent, Next, NEW u \in Tasks,
                      NEW n \in DOMAIN attempts[u], attempts[u][n] # "running"
               PROVE  n \in DOMAIN attempts'[u] /\ attempts'[u][n] = attempts[u][n]
    OBVIOUS
  <2>0. attempts[u] \in Seq(AttemptStatus) /\ u \in DOMAIN attempts
    BY DEF TypeOK
  <2>1. CASE Tick
    BY <2>1 DEF Tick
  <2>2. ASSUME NEW t \in Tasks, Call(t), u # t
        PROVE  n \in DOMAIN attempts'[u] /\ attempts'[u][n] = attempts[u][n]
    BY <2>2, CallIsLocal
  <2>3. ASSUME Call(u)
        PROVE  n \in DOMAIN attempts'[u] /\ attempts'[u][n] = attempts[u][n]
    <3>1. CASE attempts'[u] = attempts[u]
      BY <3>1
    <3>2. CASE attempts'[u] = Append(attempts[u], "running")
      BY <2>0, <3>2
    <3>3. CASE /\ attempts'[u] = Succession(attempts[u])
               /\ attempts[u][Len(attempts[u])] = "running"
      BY <2>0, <3>3 DEF Succession
    <3>4. ASSUME NEW m \in DOMAIN attempts[u], NEW s,
                 attempts[u][m] = "running",
                 attempts'[u] = [attempts[u] EXCEPT ![m] = s]
          PROVE  n \in DOMAIN attempts'[u] /\ attempts'[u][n] = attempts[u][n]
      BY <2>0, <3>4
    <3> QED
      BY <2>0, <2>3, <3>1, <3>2, <3>3, <3>4
         DEF Call, CreateTask, StartTaskWithAttempt, StartTask, SucceedTask,
             RequestTaskCancel, ConfirmTaskCleanup, ConfirmCancel,
             WriteTerminal, SucceedTaskWithAttempt, FailTaskWithAttempt,
             FinishClaimedTask, ScheduleTaskRetry, RetryTaskWithAttempt,
             RenewTaskLease, TakeOverExpiredTask, ClaimHeld
  <2> QED
    BY <2>1, <2>2, <2>3 DEF Next
<1> QED
  BY <1>1, TypeCorrect, TablesConsistent, PTL DEF Spec, HistoryIsFinal

\* A succeeded or cancelled task never moves; a failed one only along a
\* planned retry.
THEOREM TerminalHolds == Spec => TerminalIsFinal
<1> DEFINE Moves(t) ==
      task[t].status \in Terminal /\ task'[t].status # task[t].status =>
        /\ task[t].status = "failed"
        /\ task[t].next_retry_at # NULL
        /\ task'[t].status \in {"running", "cancelled"}
<1>1. TypeOK /\ [Next]_vars => [\A t \in Tasks : Moves(t)]_vars
  <2> SUFFICES ASSUME TypeOK, Next, NEW u \in Tasks PROVE Moves(u)
    OBVIOUS
  <2>0. u \in DOMAIN task /\ task[u] \in TaskRow
    BY DEF TypeOK
  <2>1. CASE task'[u] = task[u]
    BY <2>1
  <2>2. ASSUME Call(u) PROVE Moves(u)
    <3>1. CASE task[u].status \in {"absent", "queued", "running"}
      BY <3>1 DEF Terminal
    <3>2. CASE RequestTaskCancel(u) /\ task[u].status # "running"
      <4>1. task'[u].status = "cancelled"
        BY <2>0, <3>2 DEF RequestTaskCancel, CancelWaiting, TaskRow
      <4> QED
        BY <3>2, <4>1 DEF RequestTaskCancel, Cancellable, Terminal
    <3>3. ASSUME NEW n, NEW error, RetryTaskWithAttempt(u, n, error)
          PROVE  Moves(u)
      BY <2>0, <3>3
         DEF RetryTaskWithAttempt, MayRetry, RetryDue, Claimed, TaskRow
    <3>4. ASSUME NEW n, NEW error, NEW d, ScheduleTaskRetry(u, n, error, d)
          PROVE  Moves(u)
      BY <2>0, <3>4 DEF ScheduleTaskRetry, TaskRow
    <3>5. ASSUME NEW n, ConfirmTaskCleanup(u, n)
          PROVE  Moves(u)
      BY <2>0, <3>5 DEF ConfirmTaskCleanup, TaskRow
    <3> HIDE DEF Moves
    <3> QED
      BY <2>0, <2>2, <3>1, <3>2, <3>3, <3>4, <3>5
         DEF Call, CreateTask, StartTaskWithAttempt, StartTask, SucceedTask,
             ConfirmCancel, SucceedTaskWithAttempt, FailTaskWithAttempt,
             FinishClaimedTask, ClaimHeld, RenewTaskLease, LeaseValid,
             TakeOverExpiredTask, LeaseExpired
  <2>3. CASE Tick
    BY <2>3, <2>1 DEF Tick
  <2>4. ASSUME NEW t \in Tasks, Call(t), t # u PROVE Moves(u)
    BY <2>1, <2>4, CallIsLocal
  <2> QED
    BY <2>2, <2>3, <2>4 DEF Next
<1> QED
  BY <1>1, TypeCorrect, PTL DEF Spec, TerminalIsFinal

\* A stranded task is out of reach of every call, for ever.
THEOREM StrandedHolds == Spec => StrandedForGood
<1>1. TypeOK /\ Consistent /\ [Next]_vars
        => [\A t \in Tasks : Stranded(t) => Stranded(t)']_vars
  <2> SUFFICES ASSUME TypeOK, Consistent, Next, NEW u \in Tasks, Stranded(u)
               PROVE  Stranded(u)'
    OBVIOUS
  <2>0. /\ u \in DOMAIN task /\ task[u] \in TaskRow
        /\ now \in Nat /\ RowInv(task[u], attempts[u])
    BY ConsistentByRow DEF TypeOK
  <2>1. CASE Tick
    BY <2>0, <2>1 DEF Tick, Stranded, TaskRow, TimeOrNull
  <2>2. CASE UNCHANGED <<now, task[u], attempts[u]>>
    BY <2>2 DEF Stranded
  <2>3. ASSUME Call(u) PROVE Stranded(u)'
    <3>1. CASE RequestTaskCancel(u)
      BY <2>0, <3>1 DEF RequestTaskCancel, Stranded, TaskRow
    <3>2. ASSUME NEW n, ConfirmTaskCleanup(u, n) PROVE Stranded(u)'
      BY <2>0, <3>2 DEF ConfirmTaskCleanup, Stranded, TaskRow
    <3>3. ASSUME NEW n, NEW v, ClaimHeld(u, n, v) PROVE FALSE
      BY <2>0, <3>3 DEF ClaimHeld, Stranded, TaskRow, TimeOrNull
    <3>4. ASSUME NEW v, LeaseValid(u, v) PROVE FALSE
      BY <2>0, <3>4 DEF LeaseValid, Stranded, TaskRow, TimeOrNull
    <3>5. ASSUME NEW v, TakeOverExpiredTask(u, v) PROVE FALSE
      <4>1. Len(attempts[u]) \in Nat /\ task[u].max_attempts \in Nat
        BY <2>0 DEF TypeOK, TaskRow
      <4> QED
        BY <2>0, <3>5, <4>1 DEF TakeOverExpiredTask, Stranded, TaskRow, TimeOrNull
    <3> QED
      BY <2>3, <3>1, <3>2, <3>3, <3>4, <3>5
         DEF Call, Stranded, CreateTask, StartTaskWithAttempt, StartTask,
             SucceedTask, ConfirmCancel, SucceedTaskWithAttempt,
             FailTaskWithAttempt, FinishClaimedTask, ScheduleTaskRetry,
             RetryTaskWithAttempt, MayRetry, RenewTaskLease
  <2>4. ASSUME NEW t \in Tasks, Call(t), t # u PROVE Stranded(u)'
    <3>1. now' = now
      BY <2>4
         DEF Call, CreateTask, StartTaskWithAttempt, StartTask, SucceedTask,
             RequestTaskCancel, ConfirmTaskCleanup, ConfirmCancel,
             WriteTerminal, SucceedTaskWithAttempt, FailTaskWithAttempt,
             FinishClaimedTask, ScheduleTaskRetry, RetryTaskWithAttempt,
             RenewTaskLease, TakeOverExpiredTask
    <3> QED
      BY <2>2, <2>4, <3>1, CallIsLocal
  <2> QED
    BY <2>1, <2>3, <2>4 DEF Next
<1> QED
  BY <1>1, TypeCorrect, TablesConsistent, PTL DEF Spec, StrandedForGood

-----------------------------------------------------------------------------
(* Capacity: the store implements a pool of slots.                         *)

\* A call changes the slots of its own task only, and gives it one only if
\* one is free.
LEMMA CallOnSlots ==
    ASSUME TypeOK, NEW t \in Tasks, Call(t)
    PROVE  \/ SlotHolders' = SlotHolders
           \/ /\ t \notin SlotHolders /\ HasRunningSlot
              /\ SlotHolders' = SlotHolders \cup {t}
           \/ /\ t \in SlotHolders
              /\ SlotHolders' = SlotHolders \ {t}
<1> DEFINE HasSlot(r) == r.status = "running" \/ r.cleanup_attempt # NULL
<1>0. t \in DOMAIN task /\ task[t] \in TaskRow
  BY DEF TypeOK
<1>1. /\ \A u \in Tasks : u \in SlotHolders <=> HasSlot(task[u])
      /\ \A u \in Tasks : u \in SlotHolders' <=> HasSlot(task'[u])
      /\ SlotHolders \subseteq Tasks /\ SlotHolders' \subseteq Tasks
  BY DEF SlotHolders, CleanupPending
<1>2. \A u \in Tasks \ {t} : u \in SlotHolders' <=> u \in SlotHolders
  BY <1>1, CallIsLocal
<1>3. HasSlot(task'[t]) => HasSlot(task[t]) \/ HasRunningSlot
  <2> SUFFICES ASSUME ~HasRunningSlot, HasSlot(task'[t]) PROVE HasSlot(task[t])
    OBVIOUS
  <2>1. ASSUME NEW d \in Deadlines, NEW b \in Budgets, CreateTask(t, d, b)
        PROVE  FALSE
    BY <1>0, <2>1 DEF CreateTask, NewRow
  <2>2. CASE SucceedTask(t) \/ RequestTaskCancel(t)
    <3>1. /\ task'[t].cleanup_attempt = task[t].cleanup_attempt
          /\ task'[t].status = "running" => task[t].status = "running"
      <4>1. CASE SucceedTask(t)
        BY <1>0, <4>1 DEF SucceedTask, TaskRow
      <4>2. CASE RequestTaskCancel(t) /\ task[t].status = "running"
        BY <1>0, <4>2 DEF RequestTaskCancel, TaskRow
      <4>3. CASE RequestTaskCancel(t) /\ task[t].status # "running"
        BY <1>0, <4>3 DEF RequestTaskCancel, CancelWaiting, TaskRow
      <4> QED
        BY <2>2, <4>1, <4>2, <4>3
    <3> QED
      BY <3>1
  <2>3. ASSUME NEW n \in Numbers(t), ConfirmTaskCleanup(t, n)
        PROVE  HasSlot(task[t])
    BY <1>0, <2>3, NullAssumption DEF ConfirmTaskCleanup, Numbers
  <2>4. ASSUME NEW n, NEW v, ClaimHeld(t, n, v)
        PROVE  HasSlot(task[t])
    BY <2>4 DEF ClaimHeld
  <2>5. ASSUME NEW n \in Numbers(t), NEW error \in Judgements,
               NEW delay \in Delays, ScheduleTaskRetry(t, n, error, delay)
        PROVE  HasSlot(task[t])
    BY <1>0, <2>5 DEF ScheduleTaskRetry, TaskRow
  <2>6. ASSUME NEW v, LeaseValid(t, v) \/ LeaseExpired(t, v)
        PROVE  HasSlot(task[t])
    BY <2>6 DEF LeaseValid, LeaseExpired
  <2> QED
    <3> HIDE DEF HasSlot
    <3> QED
      BY <2>1, <2>2, <2>3, <2>4, <2>5, <2>6
         DEF Call, StartTaskWithAttempt, StartTask, RetryTaskWithAttempt,
             ConfirmCancel, SucceedTaskWithAttempt, FailTaskWithAttempt,
             FinishClaimedTask, RenewTaskLease, TakeOverExpiredTask
<1> QED
  BY <1>1, <1>2, <1>3

\* Every step of the store is a step of the pool or changes no slot.
THEOREM StoreIsASlotPool == Spec => ImplementsSlotPool
<1>1. Init => Pool!Init
  BY DEF Init, Pool!Init, SlotHolders, CleanupPending, NewRow
<1>2. TypeOK /\ [Next]_vars => [Pool!Next]_SlotHolders
  <2> SUFFICES ASSUME TypeOK, [Next]_vars PROVE [Pool!Next]_SlotHolders
    OBVIOUS
  <2>1. CASE UNCHANGED vars
    BY <2>1 DEF vars, SlotHolders, CleanupPending
  <2>2. CASE Tick
    BY <2>2 DEF Tick, SlotHolders, CleanupPending
  <2>3. ASSUME NEW t \in Tasks, Call(t) PROVE [Pool!Next]_SlotHolders
    <3>1. CASE SlotHolders' = SlotHolders
      BY <3>1
    <3>2. CASE /\ t \notin SlotHolders /\ HasRunningSlot
               /\ SlotHolders' = SlotHolders \cup {t}
      <4>1. Pool!Acquire(t)
        BY <3>2 DEF Pool!Acquire, HasRunningSlot, Cardinality, Pool!Cardinality
      <4> QED
        BY <4>1 DEF Pool!Next
    <3>3. CASE t \in SlotHolders /\ SlotHolders' = SlotHolders \ {t}
      <4>1. Pool!Release(t)
        BY <3>3 DEF Pool!Release
      <4> QED
        BY <4>1 DEF Pool!Next
    <3> QED
      BY <2>3, <3>1, <3>2, <3>3, CallOnSlots
  <2> QED
    BY <2>1, <2>2, <2>3 DEF Next
<1> QED
  BY <1>1, <1>2, TypeCorrect, PTL DEF Spec, ImplementsSlotPool, Pool!Spec

\* Running tasks and unconfirmed containers never outnumber the limit.
THEOREM RunningCapacityHolds == Spec => []RunningCapacity
<1>0. IsFiniteSet(SlotHolders) /\ Cardinality(SlotHolders) \in Nat
  BY TasksAssumption, FS_Subset, FS_CardinalityType DEF SlotHolders
<1>1. Init => RunningCapacity
  <2> SUFFICES ASSUME Init PROVE SlotHolders = {}
    BY FS_EmptySet, LimitsAssumption DEF RunningCapacity
  <2> QED
    BY DEF Init, SlotHolders, CleanupPending, NewRow
<1>2. TypeOK /\ RunningCapacity /\ [Next]_vars => RunningCapacity'
  <2> SUFFICES ASSUME TypeOK, RunningCapacity, [Next]_vars PROVE RunningCapacity'
    OBVIOUS
  <2>1. CASE UNCHANGED vars
    BY <2>1 DEF vars, RunningCapacity, SlotHolders, CleanupPending
  <2>2. CASE Tick
    BY <2>2 DEF Tick, RunningCapacity, SlotHolders, CleanupPending
  <2>3. ASSUME NEW t \in Tasks, Call(t) PROVE RunningCapacity'
    <3>1. CASE SlotHolders' = SlotHolders
      BY <3>1 DEF RunningCapacity
    <3>2. CASE /\ t \notin SlotHolders /\ HasRunningSlot
               /\ SlotHolders' = SlotHolders \cup {t}
      <4>1. Cardinality(SlotHolders') = Cardinality(SlotHolders) + 1
        BY <1>0, <3>2, FS_AddElement
      <4> QED
        BY <1>0, <3>2, <4>1, LimitsAssumption DEF RunningCapacity, HasRunningSlot
    <3>3. CASE t \in SlotHolders /\ SlotHolders' = SlotHolders \ {t}
      <4>1. Cardinality(SlotHolders') = Cardinality(SlotHolders) - 1
        BY <1>0, <3>3, FS_RemoveElement
      <4> QED
        BY <1>0, <4>1, LimitsAssumption DEF RunningCapacity
    <3> QED
      BY <2>3, <3>1, <3>2, <3>3, CallOnSlots
  <2> QED
    BY <2>1, <2>2, <2>3 DEF Next
<1> QED
  BY <1>1, <1>2, TypeCorrect, PTL DEF Spec

-----------------------------------------------------------------------------
(* The worker processes.                                                   *)

\* A process that executes a task names a real task and a lease version that
\* the task has reached.
ClaimsKnown ==
    \A w \in Workers :
      /\ worker[w].pc # "idle" =>
           /\ worker[w].t \in Tasks
           /\ worker[w].v \in Nat
           /\ worker[w].v <= task[worker[w].t].lease_version
      /\ worker[w].pc = "save" => worker[w].next < NumSteps

\* Two processes on one task have different lease versions.  ClaimIsExclusive
\* alone is not inductive: an expired holder is no holder, but it must stay
\* told apart from its successor.
ClaimsDiffer ==
    ResumeAlone =>
      \A u, w \in Workers :
        /\ u # w
        /\ worker[u].pc # "idle" /\ worker[w].pc # "idle"
        /\ worker[u].t = worker[w].t
        => worker[u].v # worker[w].v

WorkerInv == WorkerTypeOK /\ Consistent /\ ClaimsKnown /\ ClaimsDiffer

\* Lease versions never fall: a fresh row starts at 0 and was at 0.
LEMMA VersionsGrow ==
    ASSUME TypeOK, Consistent, [Next]_vars, NEW t \in Tasks
    PROVE  task'[t].lease_version >= task[t].lease_version
<1>0. /\ task[t] \in TaskRow /\ t \in DOMAIN task
      /\ task[t].lease_version \in Nat
      /\ task[t].status = "absent" => task[t].lease_version = 0
  BY DEF TypeOK, TaskRow, Consistent, OneRunningAttempt
<1>1. CASE UNCHANGED vars \/ Tick
  BY <1>0, <1>1 DEF vars, Tick
<1>2. ASSUME NEW u \in Tasks \ {t}, Call(u) PROVE task'[t] = task[t]
  BY <1>2, CallIsLocal
<1>3. ASSUME Call(t) PROVE task'[t].lease_version >= task[t].lease_version
  <2>1. ASSUME NEW d \in Deadlines, NEW b \in Budgets, CreateTask(t, d, b)
        PROVE  task'[t].lease_version >= task[t].lease_version
    BY <1>0, <2>1 DEF CreateTask, NewRow
  <2>2. Claimed(task[t]).lease_version = task[t].lease_version + 1
    BY <1>0 DEF Claimed, TaskRow
  <2>3. CASE StartTaskWithAttempt(t)
    BY <1>0, <2>2, <2>3 DEF StartTaskWithAttempt
  <2>4. CASE StartTask(t) \/ SucceedTask(t)
    BY <1>0, <2>4 DEF StartTask, SucceedTask, TaskRow
  <2>5. CASE RequestTaskCancel(t)
    <3> DEFINE asked == [task[t] EXCEPT !.cancel_requested = TRUE]
    <3>1. /\ asked.lease_version = task[t].lease_version
          /\ CancelWaiting(asked).lease_version = task[t].lease_version
      BY <1>0 DEF CancelWaiting, TaskRow
    <3>2. task'[t] = IF task[t].status = "running" THEN asked ELSE CancelWaiting(asked)
      BY <1>0, <2>5, Zenon DEF RequestTaskCancel
    <3> QED
      BY <1>0, <3>1, <3>2
  <2>6. ASSUME NEW n \in Numbers(t), ConfirmTaskCleanup(t, n)
        PROVE  task'[t].lease_version >= task[t].lease_version
    BY <1>0, <2>6 DEF ConfirmTaskCleanup, TaskRow
  <2>7. ASSUME NEW n, NEW s, NEW c, WriteTerminal(t, n, s, c)
        PROVE  task'[t].lease_version >= task[t].lease_version
    <3> DEFINE plan == IF s = "cancelled" THEN NULL ELSE task[t].next_retry_at
               row  == [task[t] EXCEPT !.status = s,
                                       !.lease_expires_at = NULL,
                                       !.next_retry_at = plan,
                                       !.cleanup_attempt = c]
    <3>1. task' = [task EXCEPT ![t] = row]
      BY <2>7 DEF WriteTerminal
    <3> HIDE DEF plan
    <3>2. row.lease_version = task[t].lease_version
      BY <1>0 DEF TaskRow
    <3> HIDE DEF row
    <3> QED
      BY <1>0, <3>1, <3>2
  <2>8. ASSUME NEW n \in Numbers(t), NEW error \in Judgements,
               NEW delay \in Delays, ScheduleTaskRetry(t, n, error, delay)
        PROVE  task'[t].lease_version >= task[t].lease_version
    BY <1>0, <2>8 DEF ScheduleTaskRetry, TaskRow
  <2>9. ASSUME NEW n \in Numbers(t), NEW error \in Judgements,
               RetryTaskWithAttempt(t, n, error)
        PROVE  task'[t].lease_version >= task[t].lease_version
    <3> DEFINE row == Claimed(task[t])
    <3>1. row.lease_version = task[t].lease_version + 1
          /\ row \in TaskRow
      BY <2>2, ClaimedType
    <3>2. task'[t] = [row EXCEPT !.next_retry_at = NULL]
      BY <1>0, <2>9 DEF RetryTaskWithAttempt
    <3> HIDE DEF row
    <3>3. [row EXCEPT !.next_retry_at = NULL].lease_version = row.lease_version
      BY <3>1 DEF TaskRow
    <3> QED
      BY <1>0, <3>1, <3>2, <3>3
  <2>10. ASSUME NEW v \in Versions(t), RenewTaskLease(t, v)
         PROVE  task'[t].lease_version >= task[t].lease_version
    BY <1>0, <2>10 DEF RenewTaskLease, TaskRow
  <2>11. ASSUME NEW v \in Versions(t), TakeOverExpiredTask(t, v)
         PROVE  task'[t].lease_version >= task[t].lease_version
    BY <1>0, <2>2, <2>11 DEF TakeOverExpiredTask
  <2>12. ASSUME NEW n \in Numbers(t), NEW v \in Versions(t),
                \/ ConfirmCancel(t, n, v)
                \/ SucceedTaskWithAttempt(t, n, v)
                \/ \E c \in BOOLEAN : FailTaskWithAttempt(t, n, v, c)
         PROVE  task'[t].lease_version >= task[t].lease_version
    BY <2>7, <2>12 DEF ConfirmCancel, SucceedTaskWithAttempt,
                       FailTaskWithAttempt, FinishClaimedTask
  <2> QED
    BY <1>3, <2>1, <2>3, <2>4, <2>5, <2>6, <2>8, <2>9, <2>10, <2>11, <2>12 DEF Call
<1> QED
  BY <1>0, <1>1, <1>2, <1>3 DEF Next

\* A claim raises it.
LEMMA ClaimGrows ==
    ASSUME TypeOK, NEW t \in Tasks,
           \/ StartTaskWithAttempt(t)
           \/ \E v \in Versions(t) : TakeOverExpiredTask(t, v)
           \/ \E n \in Numbers(t), error \in Judgements :
                RetryTaskWithAttempt(t, n, error)
    PROVE  task'[t].lease_version > task[t].lease_version
<1>1. /\ task[t] \in TaskRow /\ t \in DOMAIN task
      /\ task[t].lease_version \in Nat
      /\ Claimed(task[t]) \in TaskRow
  BY ClaimedType DEF TypeOK, TaskRow
<1>2. Claimed(task[t]).lease_version = task[t].lease_version + 1
  BY <1>1 DEF Claimed, TaskRow
<1>3. [Claimed(task[t]) EXCEPT !.next_retry_at = NULL].lease_version
        = task[t].lease_version + 1
  BY <1>1, <1>2 DEF TaskRow
<1> DEFINE claimed == Claimed(task[t])
<1>4. \/ task' = [task EXCEPT ![t] = claimed]
      \/ task' = [task EXCEPT ![t] = [claimed EXCEPT !.next_retry_at = NULL]]
  <2>1. CASE StartTaskWithAttempt(t)
    BY <2>1 DEF StartTaskWithAttempt
  <2>2. ASSUME NEW v \in Versions(t), TakeOverExpiredTask(t, v)
        PROVE  task' = [task EXCEPT ![t] = claimed]
    BY <2>2 DEF TakeOverExpiredTask
  <2>3. ASSUME NEW n \in Numbers(t), NEW error \in Judgements,
               RetryTaskWithAttempt(t, n, error)
        PROVE  task' = [task EXCEPT ![t] = [claimed EXCEPT !.next_retry_at = NULL]]
    BY <2>3 DEF RetryTaskWithAttempt
  <2> HIDE DEF claimed
  <2> QED
    BY <2>1, <2>2, <2>3
<1> HIDE DEF claimed
<1>5. CASE task' = [task EXCEPT ![t] = claimed]
  <2>1. task'[t] = claimed
    BY <1>1, <1>5
  <2> QED
    BY <1>1, <1>2, <2>1 DEF claimed
<1>6. CASE task' = [task EXCEPT ![t] = [claimed EXCEPT !.next_retry_at = NULL]]
  <2>1. task'[t] = [claimed EXCEPT !.next_retry_at = NULL]
    BY <1>1, <1>6
  <2> QED
    BY <1>1, <1>3, <2>1 DEF claimed
<1> QED
  BY <1>4, <1>5, <1>6

\* A claim that a process holds is one the store knows.
LEMMA HeldIsKnown ==
    ASSUME TypeOK, ClaimsKnown, NEW w \in Workers, Holds(w)
    PROVE  /\ worker[w].t \in Tasks
           /\ worker[w].n \in Numbers(worker[w].t)
           /\ worker[w].v \in Versions(worker[w].t)
<1>1. worker[w].t \in Tasks
  BY DEF Holds, ClaimsKnown
<1>2. task[worker[w].t] \in TaskRow /\ attempts[worker[w].t] \in Seq(AttemptStatus)
  BY <1>1 DEF TypeOK
<1> QED
  BY <1>1, <1>2 DEF Holds, ClaimHeld, Numbers, Versions, TaskRow

\* Every step of a worker, of the API or of the clock is a step of the
\* store, or leaves its tables alone.
LEMMA StoreStep ==
    ASSUME TypeOK, ClaimsKnown, [WorkerNext]_workerVars
    PROVE  [Next]_vars
<1>1. CASE UNCHANGED workerVars
  BY <1>1 DEF workerVars, vars
<1>2. CASE WorkerTick
  BY <1>2 DEF WorkerTick, Next
<1>3. ASSUME NEW t \in Tasks, Submit(t) \/ Cancel(t) PROVE Next
  BY <1>3 DEF Submit, Cancel, Next, Call
<1>4. ASSUME NEW t \in Tasks, Dispatch(t) PROVE Next
  BY <1>4 DEF Dispatch, RunTask, RetryTask, TakeOverTask, Next, Call
<1>5. ASSUME NEW t \in Tasks, NEW n \in Numbers(t), NEW error \in Judgements,
             ScheduleRetry(t, n, error)
      PROVE  Next
  BY <1>5 DEF ScheduleRetry, Next, Call
<1>6. ASSUME NEW t \in Tasks, NEW w \in Workers, ResumeTask(w, t)
      PROVE  UNCHANGED vars
  BY <1>6 DEF ResumeTask, StoreUnchanged
<1>7. ASSUME NEW w \in Workers, Crash(w) \/ ResumeAttempt(w) \/ ReadProgress(w)
      PROVE  UNCHANGED vars
  BY <1>7 DEF ResumeAttempt, Crash, ReadProgress, StoreUnchanged
<1>8. ASSUME NEW w \in Workers, StoppedAtBoundary(w) PROVE [Next]_vars
  BY <1>8, HeldIsKnown DEF StoppedAtBoundary, StoreUnchanged, Next, Call
<1>9. ASSUME NEW w \in Workers, RestoreBoundary(w) \/ RunStep(w) \/ SaveStep(w)
      PROVE  [Next]_vars
  BY <1>8, <1>9 DEF RestoreBoundary, RunStep, SaveStep, StoreUnchanged
<1>10. ASSUME NEW w \in Workers, FailStep(w) \/ FinishTask(w)
       PROVE  [Next]_vars
  BY <1>10, HeldIsKnown DEF FailStep, FinishTask, EndClaim, StoreUnchanged, Next, Call
<1> QED
  BY <1>1, <1>2, <1>3, <1>4, <1>5, <1>6, <1>7, <1>9, <1>10 DEF WorkerNext, WorkerStep

-----------------------------------------------------------------------------
(* The invariant.                                                          *)

\* A step in which no process, or one, goes on with its claim or exits.
LEMMA GoingOn ==
    ASSUME WorkerInv, [Next]_vars,
           NEW w \in Workers, NEW r \in WorkerState,
           worker' = [worker EXCEPT ![w] = r],
           \/ r.pc = "idle"
           \/ /\ worker[w].pc # "idle"
              /\ r.t = worker[w].t
              /\ r.v = worker[w].v,
           r.pc = "save" => r.next < NumSteps,
           steps' \in [Tasks -> SUBSET StepRow],
           crashes' \in 0..MaxCrashes
    PROVE  WorkerInv'
<1>1. TypeOK' /\ Consistent'
  BY TypeKept, ConsistentKept DEF WorkerInv, WorkerTypeOK
<1>2. WorkerTypeOK'
  BY <1>1 DEF WorkerInv, WorkerTypeOK
<1>3. /\ worker \in [Workers -> WorkerState]
      /\ worker'[w] = r
      /\ \A u \in Workers \ {w} : worker'[u] = worker[u]
  BY DEF WorkerInv, WorkerTypeOK
<1>4. ASSUME NEW u \in Workers, worker'[u].pc # "idle"
      PROVE  /\ worker[u].pc # "idle"
             /\ worker'[u].t = worker[u].t
             /\ worker'[u].v = worker[u].v
  BY <1>3, <1>4
<1>5. ClaimsKnown'
  <2> SUFFICES ASSUME NEW u \in Workers
               PROVE  /\ worker'[u].pc # "idle" =>
                           /\ worker'[u].t \in Tasks
                           /\ worker'[u].v \in Nat
                           /\ worker'[u].v <= task'[worker'[u].t].lease_version
                      /\ worker'[u].pc = "save" => worker'[u].next < NumSteps
    BY DEF ClaimsKnown
  <2>1. worker'[u].pc = "save" => worker'[u].next < NumSteps
    BY <1>3 DEF WorkerInv, ClaimsKnown
  <2>2. ASSUME worker'[u].pc # "idle"
        PROVE  /\ worker'[u].t \in Tasks
               /\ worker'[u].v \in Nat
               /\ worker'[u].v <= task'[worker'[u].t].lease_version
    <3>1. /\ worker'[u].t \in Tasks
          /\ worker'[u].v \in Nat
          /\ worker'[u].v <= task[worker'[u].t].lease_version
      BY <1>4, <2>2 DEF WorkerInv, ClaimsKnown
    <3>2. task'[worker'[u].t].lease_version >= task[worker'[u].t].lease_version
      BY <3>1, VersionsGrow DEF WorkerInv, WorkerTypeOK
    <3>3. /\ task[worker'[u].t].lease_version \in Nat
          /\ task'[worker'[u].t].lease_version \in Nat
      BY <1>1, <3>1 DEF WorkerInv, WorkerTypeOK, TypeOK, TaskRow
    <3> QED
      BY <3>1, <3>2, <3>3
  <2> QED
    BY <2>1, <2>2
<1>6. ClaimsDiffer'
  BY <1>4 DEF ClaimsDiffer, WorkerInv
<1> QED
  BY <1>1, <1>2, <1>5, <1>6 DEF WorkerInv

\* A step in which an idle process begins with a task: with a version above
\* all earlier ones, or where nobody else is.
LEMMA Beginning ==
    ASSUME WorkerInv, [Next]_vars,
           NEW w \in Workers, NEW t \in Tasks, worker[w].pc = "idle",
           NEW pc \in {"resume", "restore", "step"}, NEW n \in Nat \cup {NULL},
           Begin(w, pc, t, n),
           \/ task'[t].lease_version > task[t].lease_version
           \/ ResumeAlone => \A u \in Workers : worker[u].t # t,
           UNCHANGED <<steps, crashes>>
    PROVE  WorkerInv'
<1>1. TypeOK' /\ Consistent'
  BY TypeKept, ConsistentKept DEF WorkerInv, WorkerTypeOK
<1>2. task'[t].lease_version \in Nat /\ task[t].lease_version \in Nat
  BY <1>1 DEF WorkerInv, WorkerTypeOK, TypeOK, TaskRow
<1> DEFINE r == [pc |-> pc, t |-> t, n |-> n,
                 v |-> task'[t].lease_version, next |-> 0]
<1>3. /\ r \in WorkerState
      /\ worker \in [Workers -> WorkerState]
      /\ worker' = [worker EXCEPT ![w] = r]
  BY <1>2, WorkerAssumption DEF Begin, WorkerState, WorkerInv, WorkerTypeOK
<1>4. /\ worker'[w] = r
      /\ \A u \in Workers \ {w} : worker'[u] = worker[u]
  BY <1>3
<1>5. WorkerTypeOK'
  BY <1>1, <1>3 DEF WorkerInv, WorkerTypeOK
<1>6. ASSUME NEW u \in Workers \ {w}, worker[u].pc # "idle"
      PROVE  /\ worker[u].t \in Tasks /\ worker[u].v \in Nat
             /\ worker[u].v <= task[worker[u].t].lease_version
             /\ worker[u].v <= task'[worker[u].t].lease_version
  <2>1. /\ worker[u].t \in Tasks /\ worker[u].v \in Nat
        /\ worker[u].v <= task[worker[u].t].lease_version
    BY <1>6 DEF WorkerInv, ClaimsKnown
  <2>2. task'[worker[u].t].lease_version >= task[worker[u].t].lease_version
    BY <2>1, VersionsGrow DEF WorkerInv, WorkerTypeOK
  <2>3. /\ task[worker[u].t].lease_version \in Nat
        /\ task'[worker[u].t].lease_version \in Nat
    BY <1>1, <2>1 DEF WorkerInv, WorkerTypeOK, TypeOK, TaskRow
  <2> QED
    BY <2>1, <2>2, <2>3
<1>7. ClaimsKnown'
  <2>1. r.pc # "save" /\ r.t = t /\ r.v = task'[t].lease_version
    OBVIOUS
  <2>2. \A u \in Workers \ {w} : worker[u].pc = "save" => worker[u].next < NumSteps
    BY DEF WorkerInv, ClaimsKnown
  <2> HIDE DEF r
  <2> QED
    BY <1>2, <1>4, <1>6, <2>1, <2>2 DEF ClaimsKnown
<1>8. ClaimsDiffer'
  <2>1. ASSUME ResumeAlone, NEW u \in Workers \ {w},
               worker[u].pc # "idle", worker[u].t = t
        PROVE  worker[u].v # task'[t].lease_version
    BY <1>2, <1>6, <2>1
  <2>2. r.t = t /\ r.v = task'[t].lease_version
    OBVIOUS
  <2> HIDE DEF r
  <2> QED
    BY <1>4, <2>1, <2>2 DEF ClaimsDiffer, WorkerInv
<1> QED
  BY <1>1, <1>5, <1>7, <1>8 DEF WorkerInv

LEMMA WorkerInvNext ==
    ASSUME WorkerInv, [WorkerNext]_workerVars
    PROVE  WorkerInv'
<1>0. /\ [Next]_vars
      /\ worker \in [Workers -> WorkerState]
      /\ steps \in [Tasks -> SUBSET StepRow]
      /\ crashes \in 0..MaxCrashes
      /\ TypeOK
  BY StoreStep DEF WorkerInv, WorkerTypeOK
<1>1. CASE UNCHANGED <<steps, worker, crashes>>
  <2>1. CASE Workers = {}
    <3>1. TypeOK' /\ Consistent'
      BY <1>0, TypeKept, ConsistentKept DEF WorkerInv, WorkerTypeOK
    <3> QED
      BY <1>1, <2>1, <3>1 DEF WorkerInv, WorkerTypeOK, ClaimsKnown, ClaimsDiffer
  <2>2. ASSUME NEW w \in Workers PROVE WorkerInv'
    <3>1. worker' = [worker EXCEPT ![w] = worker[w]] /\ worker[w] \in WorkerState
      BY <1>0, <1>1
    <3>2. worker[w].pc = "save" => worker[w].next < NumSteps
      BY DEF WorkerInv, ClaimsKnown
    <3> QED
      BY <1>0, <1>1, <3>1, <3>2, GoingOn
  <2> QED
    BY <2>1, <2>2
<1>2. CASE UNCHANGED workerVars
  BY <1>1, <1>2 DEF workerVars
<1>3. CASE \/ WorkerTick
           \/ \E t \in Tasks :
                \/ Submit(t) \/ Cancel(t)
                \/ \E n \in Numbers(t), error \in Judgements :
                     ScheduleRetry(t, n, error)
  BY <1>1, <1>3 DEF WorkerTick, Submit, Cancel, ScheduleRetry, Outside
<1>4. ASSUME NEW w \in Workers, Exit(w), steps' = steps,
             crashes' \in 0..MaxCrashes
      PROVE  WorkerInv'
  <2>1. Idle \in WorkerState /\ Idle.pc = "idle"
    BY WorkerAssumption DEF Idle, WorkerState
  <2> QED
    BY <1>0, <1>4, <2>1, GoingOn DEF Exit
<1>5. ASSUME NEW w \in Workers, NEW p \in {"read", "step", "save", "fail"},
             worker[w].pc # "idle", GoTo(w, p), UNCHANGED <<steps, crashes>>,
             p = "save" => worker[w].next < NumSteps
      PROVE  WorkerInv'
  <2> DEFINE r == [worker[w] EXCEPT !.pc = p]
  <2>1. /\ r \in WorkerState
        /\ r.pc = p /\ r.t = worker[w].t /\ r.v = worker[w].v
        /\ r.next = worker[w].next
    BY <1>0 DEF WorkerState
  <2>2. worker' = [worker EXCEPT ![w] = r]
    BY <1>5 DEF GoTo
  <2> HIDE DEF r
  <2> QED
    BY <1>0, <1>5, <2>1, <2>2, GoingOn
<1>6. ASSUME NEW w \in Workers, NEW t \in Tasks, RunTask(w, t) PROVE WorkerInv'
  <2>1. task'[t].lease_version > task[t].lease_version
    BY <1>0, <1>6, ClaimGrows DEF RunTask
  <2>2. Len(attempts'[t]) \in Nat
    BY <1>0, TypeKept DEF TypeOK
  <2> QED
    BY <1>0, <1>6, <2>1, <2>2, Beginning DEF RunTask, At, Rest
<1>7. ASSUME NEW w \in Workers, NEW t \in Tasks,
             \/ \E v \in Versions(t) : TakeOverTask(w, t, v)
             \/ \E n \in Numbers(t), error \in Judgements :
                  RetryTask(w, t, n, error)
      PROVE  WorkerInv'
  <2>1. task'[t].lease_version > task[t].lease_version
    BY <1>0, <1>7, ClaimGrows DEF TakeOverTask, RetryTask
  <2>2. Len(attempts'[t]) \in Nat
    BY <1>0, TypeKept DEF TypeOK
  <2> QED
    BY <1>0, <1>7, <2>1, <2>2, Beginning DEF TakeOverTask, RetryTask, At, Rest
<1>8. ASSUME NEW w \in Workers, NEW t \in Tasks, ResumeTask(w, t)
      PROVE  WorkerInv'
  BY <1>0, <1>8, Beginning DEF ResumeTask, At, Rest
<1>9. ASSUME NEW w \in Workers, ResumeAttempt(w) PROVE WorkerInv'
  <2>1. CASE Exit(w)
    BY <1>0, <1>4, <1>9, <2>1 DEF ResumeAttempt, Rest
  <2>2. ASSUME NEW n \in DOMAIN attempts[worker[w].t],
               worker' = [worker EXCEPT ![w].n = n, ![w].pc = "restore"]
        PROVE  WorkerInv'
    <3> DEFINE r == [worker[w] EXCEPT !.n = n, !.pc = "restore"]
    <3>1. n \in Nat
      <4>1. worker[w].t \in Tasks
        BY <1>9 DEF WorkerInv, ClaimsKnown, ResumeAttempt, At
      <4>2. attempts[worker[w].t] \in Seq(AttemptStatus)
        BY <1>0, <4>1 DEF TypeOK
      <4> QED
        BY <4>2
    <3>2. /\ r \in WorkerState
          /\ r.pc = "restore" /\ r.t = worker[w].t /\ r.v = worker[w].v
      BY <1>0, <3>1 DEF WorkerState
    <3>3. worker' = [worker EXCEPT ![w] = r]
      BY <1>0, <2>2
    <3> HIDE DEF r
    <3> QED
      BY <1>0, <1>9, <3>2, <3>3, GoingOn DEF ResumeAttempt, At, Rest
  <2> QED
    BY <1>9, <2>1, <2>2 DEF ResumeAttempt
<1>10. ASSUME NEW w \in Workers, RestoreBoundary(w) PROVE WorkerInv'
  BY <1>0, <1>4, <1>5, <1>10
     DEF RestoreBoundary, StoppedAtBoundary, At, Rest
<1>11. ASSUME NEW w \in Workers, ReadProgress(w) PROVE WorkerInv'
  <2> DEFINE saved == SavedIndexes(worker[w].t)
  <2>1. Cardinality(saved) \in 0..NumSteps
    <3>1. worker[w].t \in Tasks
      BY <1>11 DEF WorkerInv, ClaimsKnown, ReadProgress, At
    <3>2. steps[worker[w].t] \subseteq StepRow
      BY <1>0, <3>1
    <3>3. saved \subseteq 0..(NumSteps - 1)
      BY <3>2 DEF SavedIndexes, StepRow
    <3> HIDE DEF saved
    <3>4. /\ IsFiniteSet(0..(NumSteps - 1))
          /\ Cardinality(0..(NumSteps - 1)) = NumSteps
      BY FS_Interval, WorkerAssumption
    <3>5. /\ IsFiniteSet(saved)
          /\ Cardinality(saved) <= NumSteps
      BY <3>3, <3>4, FS_Subset
    <3> QED
      BY <3>5, FS_CardinalityType, WorkerAssumption
  <2>2. CASE Exit(w)
    BY <1>0, <1>4, <1>11, <2>2 DEF ReadProgress, Rest
  <2>3. CASE worker' = [worker EXCEPT ![w].next = NextStep(saved), ![w].pc = "step"]
    <3> DEFINE r == [worker[w] EXCEPT !.next = NextStep(saved), !.pc = "step"]
    <3>1. NextStep(saved) \in 0..NumSteps
      BY <2>1 DEF NextStep
    <3> HIDE DEF saved
    <3>2. /\ r \in WorkerState
          /\ r.pc = "step" /\ r.t = worker[w].t /\ r.v = worker[w].v
      BY <1>0, <3>1 DEF WorkerState
    <3>3. worker' = [worker EXCEPT ![w] = r]
      BY <1>0, <2>3
    <3> HIDE DEF r
    <3> QED
      BY <1>0, <1>11, <3>2, <3>3, GoingOn DEF ReadProgress, At, Rest
  <2> QED
    BY <1>11, <2>2, <2>3 DEF ReadProgress
<1>12. ASSUME NEW w \in Workers, RunStep(w) PROVE WorkerInv'
  <2>1. CASE StoppedAtBoundary(w)
    BY <1>0, <1>4, <2>1 DEF StoppedAtBoundary, Rest
  <2>2. ASSUME NEW p \in {"save", "fail"}, GoTo(w, p), Rest PROVE WorkerInv'
    BY <1>5, <1>12, <2>2 DEF RunStep, At, StepsLeft, Rest
  <2> QED
    BY <1>12, <2>1, <2>2 DEF RunStep
<1>13. ASSUME NEW w \in Workers, SaveStep(w) PROVE WorkerInv'
  <2> DEFINE t == worker[w].t
             i == worker[w].next
             row == [index |-> i, attempt |-> worker[w].n]
  <2>1. CASE StoppedAtBoundary(w)
    BY <1>0, <1>4, <2>1 DEF StoppedAtBoundary, Rest
  <2>2. CASE Exit(w) /\ UNCHANGED <<steps, crashes>>
    BY <1>0, <1>4, <2>2
  <2>3. CASE /\ PassedBoundary(w)
             /\ steps' = [steps EXCEPT ![t] = @ \cup {row}]
             /\ worker' = [worker EXCEPT ![w].next = i + 1, ![w].pc = "step"]
             /\ UNCHANGED crashes
    <3> DEFINE r == [worker[w] EXCEPT !.next = i + 1, !.pc = "step"]
    <3>1. worker[w].pc = "save" /\ i < NumSteps /\ i \in 0..NumSteps
      BY <1>0, <1>13 DEF SaveStep, At, WorkerInv, ClaimsKnown, WorkerState
    <3>2. t \in Tasks /\ worker[w].n \in Numbers(t)
      BY <1>0, <2>3, HeldIsKnown DEF PassedBoundary, WorkerInv
    <3>3. row \in StepRow
      <4>1. Len(attempts[t]) \in Nat
        BY <1>0, <3>2 DEF TypeOK
      <4> QED
        BY <3>1, <3>2, <4>1, WorkerAssumption DEF StepRow, Numbers
    <3>4. steps' \in [Tasks -> SUBSET StepRow]
      BY <1>0, <2>3, <3>2, <3>3
    <3>5. /\ r \in WorkerState
          /\ r.pc = "step" /\ r.t = worker[w].t /\ r.v = worker[w].v
      <4>1. worker[w] \in WorkerState /\ i + 1 \in 0..NumSteps
        BY <1>0, <3>1, WorkerAssumption
      <4> HIDE DEF i
      <4> QED
        BY <4>1 DEF WorkerState
    <3>6. worker' = [worker EXCEPT ![w] = r]
      BY <1>0, <2>3
    <3> HIDE DEF r
    <3> QED
      BY <1>0, <2>3, <3>1, <3>4, <3>5, <3>6, GoingOn
  <2> QED
    BY <1>13, <2>1, <2>2, <2>3 DEF SaveStep
<1>14. ASSUME NEW w \in Workers, FailStep(w) \/ FinishTask(w) PROVE WorkerInv'
  BY <1>0, <1>4, <1>14 DEF FailStep, FinishTask, EndClaim, Rest
<1>15. ASSUME NEW w \in Workers, Crash(w) PROVE WorkerInv'
  <2>1. crashes' \in 0..MaxCrashes
    BY <1>0, <1>15, WorkerAssumption DEF Crash
  <2> QED
    BY <1>4, <1>15, <2>1 DEF Crash
<1> QED
  BY <1>2, <1>3, <1>6, <1>7, <1>8, <1>9, <1>10, <1>11, <1>12, <1>13, <1>14, <1>15
     DEF WorkerNext, WorkerStep, Dispatch

LEMMA WorkerInvHolds == WorkerSpec => []WorkerInv
<1>1. WorkerInit => WorkerInv
  <2> SUFFICES ASSUME WorkerInit PROVE WorkerInv
    OBVIOUS
  <2>1. TypeOK /\ Consistent
    BY TypeInit, ConsistentInit DEF WorkerInit
  <2>2. \A w \in Workers : worker[w] = Idle /\ worker[w].pc = "idle"
    BY DEF WorkerInit, Idle
  <2>3. WorkerTypeOK
    BY <2>1, WorkerAssumption DEF WorkerInit, WorkerTypeOK, WorkerState, Idle
  <2> QED
    BY <2>1, <2>2, <2>3 DEF WorkerInv, ClaimsKnown, ClaimsDiffer
<1> QED
  BY <1>1, WorkerInvNext, PTL DEF WorkerSpec

-----------------------------------------------------------------------------
(* What follows.                                                           *)

\* Types of the worker model.
THEOREM WorkerTypeCorrect == WorkerSpec => []WorkerTypeOK
<1>1. WorkerInv => WorkerTypeOK
  BY DEF WorkerInv
<1> QED
  BY <1>1, WorkerInvHolds, PTL

\* The processes, with all their crashes, stale claims and resumes, are one
\* of the callers the store is specified for: by construction.
LEMMA WorkersImplementTheStore == WorkerSpec => ImplementsTaskStore
<1>1. WorkerInit => Init
  BY DEF WorkerInit
<1>2. WorkerInv /\ [WorkerNext]_workerVars => [Next]_vars
  BY StoreStep DEF WorkerInv, WorkerTypeOK
<1> QED
  BY <1>1, <1>2, WorkerInvHolds, PTL DEF WorkerSpec, ImplementsTaskStore, Spec

\* So running workers and uncleaned containers never exceed the limit ...
THEOREM WorkersKeepCapacity == WorkerSpec => []RunningCapacity
BY WorkersImplementTheStore, RunningCapacityHolds, PTL DEF ImplementsTaskStore

\* ... and no cancel that was registered is lost by a worker.
THEOREM WorkersKeepCancels == WorkerSpec => []CancelIsNotLost
BY WorkersImplementTheStore, CancelIsNotLostHolds, PTL DEF ImplementsTaskStore

\* What an attempt ended as is not rewritten, by a worker that comes late ...
THEOREM WorkersKeepHistory == WorkerSpec => HistoryIsFinal
BY WorkersImplementTheStore, HistoryHolds, PTL DEF ImplementsTaskStore

\* ... a stranded task stays stranded, whatever workers and operators do ...
THEOREM WorkersLeaveStranded == WorkerSpec => StrandedForGood
BY WorkersImplementTheStore, StrandedHolds, PTL DEF ImplementsTaskStore

\* ... and all of them together are a pool of slots, deaths included.
THEOREM WorkersAreASlotPool == WorkerSpec => ImplementsSlotPool
BY WorkersImplementTheStore, StoreIsASlotPool, PTL DEF ImplementsTaskStore

\* Two processes never hold a claim of one task at the same time, if
\* --resume is used only where no other process works on the task.
THEOREM ClaimIsExclusiveHolds ==
    ASSUME ResumeAlone
    PROVE  WorkerSpec => []ClaimIsExclusive
<1>1. WorkerInv => ClaimIsExclusive
  <2> SUFFICES ASSUME WorkerInv, NEW u \in Workers, NEW w \in Workers,
                      u # w, Holds(u), Holds(w)
               PROVE  worker[u].t # worker[w].t
    BY DEF ClaimIsExclusive
  <2>1. /\ worker[u].pc # "idle" /\ worker[w].pc # "idle"
        /\ worker[u].v = task[worker[u].t].lease_version
        /\ worker[w].v = task[worker[w].t].lease_version
    BY DEF Holds, ClaimHeld
  <2> QED
    BY <2>1, ResumeAlone DEF WorkerInv, ClaimsDiffer
<1> QED
  BY <1>1, WorkerInvHolds, PTL

-----------------------------------------------------------------------------
(* The saved steps.  Nothing here needs ResumeAlone: what keeps the history *)
(* whole when two processes work with one claim is the primary key.         *)

\* One row of task_steps per index, and no index left out.
RowPerStep ==
    \A t \in Tasks :
      /\ IsFiniteSet(steps[t])
      /\ SavedIndexes(t) = 0..(Cardinality(steps[t]) - 1)

\* A process may be behind the saved history (another one went on with the
\* same claim) but never ahead of it.
NoneAhead ==
    \A w \in Workers : worker[w].pc # "idle" =>
      worker[w].next <= Cardinality(steps[worker[w].t])

ProgressInv == RowPerStep /\ NoneAhead /\ SucceededIsComplete

NoNewSuccess ==
    \A u \in Tasks : task'[u].status = "succeeded" => task[u].status = "succeeded"

\* A call that leaves a status alone, or writes another one than succeeded.
LEMMA NotASuccess ==
    ASSUME TypeOK, NEW t \in Tasks, NEW r \in TaskRow,
           task' = [task EXCEPT ![t] = r],
           r.status = task[t].status \/ r.status # "succeeded"
    PROVE  NoNewSuccess
BY DEF NoNewSuccess, TypeOK

\* Only the end of a claim with the outcome succeeded makes a task succeed.
LEMMA ClaimsDoNotSucceed ==
    ASSUME TypeOK, NEW t \in Tasks,
           \/ StartTaskWithAttempt(t)
           \/ \E v \in Versions(t) : TakeOverExpiredTask(t, v)
           \/ \E n \in Numbers(t), error \in Judgements :
                RetryTaskWithAttempt(t, n, error)
    PROVE  NoNewSuccess
<1> DEFINE claimed == Claimed(task[t])
           retried == [claimed EXCEPT !.next_retry_at = NULL]
<1>1. claimed \in TaskRow /\ claimed.status = "running"
  BY ClaimedType DEF Claimed, TypeOK, TaskRow
<1>2. \/ task' = [task EXCEPT ![t] = claimed]
      \/ task' = [task EXCEPT ![t] = retried]
  <2>1. CASE StartTaskWithAttempt(t)
    BY <2>1 DEF StartTaskWithAttempt
  <2>2. ASSUME NEW v \in Versions(t), TakeOverExpiredTask(t, v)
        PROVE  task' = [task EXCEPT ![t] = claimed]
    BY <2>2 DEF TakeOverExpiredTask
  <2>3. ASSUME NEW n \in Numbers(t), NEW error \in Judgements,
               RetryTaskWithAttempt(t, n, error)
        PROVE  task' = [task EXCEPT ![t] = retried]
    BY <2>3 DEF RetryTaskWithAttempt
  <2> QED
    BY <2>1, <2>2, <2>3
<1> HIDE DEF claimed
<1>3. retried \in TaskRow /\ retried.status = "running"
  BY <1>1 DEF TaskRow, TimeOrNull
<1> HIDE DEF retried
<1> QED
  BY <1>1, <1>2, <1>3, NotASuccess

LEMMA EndsWithoutSuccess ==
    ASSUME TypeOK, NEW t \in Tasks, NEW n \in DOMAIN attempts[t],
           NEW s \in Terminal \ {"succeeded"}, NEW c \in (Nat \ {0}) \cup {NULL},
           WriteTerminal(t, n, s, c)
    PROVE  NoNewSuccess
<1> DEFINE plan == IF s = "cancelled" THEN NULL ELSE task[t].next_retry_at
           row  == [task[t] EXCEPT !.status = s, !.lease_expires_at = NULL,
                                   !.next_retry_at = plan, !.cleanup_attempt = c]
<1>1. task' = [task EXCEPT ![t] = row]
  BY DEF WriteTerminal
<1>2. task[t] \in TaskRow /\ plan \in TimeOrNull /\ NULL \in TimeOrNull
  BY DEF TypeOK, TaskRow, TimeOrNull
<1> HIDE DEF plan
<1>3. row \in TaskRow /\ row.status = s
  BY <1>2 DEF TaskRow
<1> HIDE DEF row
<1> QED
  BY <1>1, <1>3, NotASuccess

\* Cancelling at a boundary and failing are not successes.
LEMMA StopsAreNoSuccess ==
    ASSUME TypeOK, ClaimsKnown, NEW w \in Workers,
           \/ StoppedAtBoundary(w)
           \/ FailStep(w)
    PROVE  NoNewSuccess
<1> DEFINE t == worker[w].t
           n == worker[w].n
           v == worker[w].v
<1>1. CASE StoreUnchanged
  BY <1>1 DEF StoreUnchanged, vars, NoNewSuccess
<1>2. ASSUME Holds(w)
      PROVE  /\ t \in Tasks /\ n \in DOMAIN attempts[t]
             /\ task[t].cleanup_attempt \in (Nat \ {0}) \cup {NULL}
  BY <1>2, HeldIsKnown DEF Holds, ClaimHeld, TypeOK, TaskRow
<1>3. CASE Holds(w) /\ ConfirmCancel(t, n, v)
  BY <1>2, <1>3, EndsWithoutSuccess DEF ConfirmCancel, Terminal
<1>4. CASE Holds(w) /\ FailTaskWithAttempt(t, n, v, FALSE)
  <2>1. WriteTerminal(t, n, FinalStatus(t, "failed"), task[t].cleanup_attempt)
    BY <1>4 DEF FailTaskWithAttempt, FinishClaimedTask
  <2>2. FinalStatus(t, "failed") \in Terminal \ {"succeeded"}
    BY DEF FinalStatus, Terminal
  <2> QED
    BY <1>2, <1>4, <2>1, <2>2, EndsWithoutSuccess
<1> QED
  BY <1>1, <1>3, <1>4 DEF StoppedAtBoundary, FailStep, EndClaim

\* The API, the retry scheduler and the clock make no task succeed.
LEMMA OutsideIsNoSuccess ==
    ASSUME TypeOK,
           \/ WorkerTick
           \/ \E t \in Tasks :
                \/ Submit(t) \/ Cancel(t)
                \/ \E n \in Numbers(t), error \in Judgements :
                     ScheduleRetry(t, n, error)
    PROVE  NoNewSuccess
<1>1. CASE WorkerTick
  BY <1>1 DEF WorkerTick, Tick, NoNewSuccess
<1>2. ASSUME NEW t \in Tasks, Submit(t) PROVE NoNewSuccess
  <2>1. PICK d \in Deadlines, b \in Budgets : CreateTask(t, d, b)
    BY <1>2 DEF Submit
  <2>2. NewRow("queued", d, b) \in TaskRow /\ NewRow("queued", d, b).status = "queued"
    BY InputsAssumption DEF NewRow, TaskRow, TimeOrNull
  <2> QED
    BY <2>1, <2>2, NotASuccess DEF CreateTask
<1>3. ASSUME NEW t \in Tasks, Cancel(t) PROVE NoNewSuccess
  <2> DEFINE asked == [task[t] EXCEPT !.cancel_requested = TRUE]
             row == IF task[t].status = "running" THEN asked ELSE CancelWaiting(asked)
  <2>1. task[t] \in TaskRow
    BY DEF TypeOK
  <2>2. asked \in TaskRow /\ asked.status = task[t].status
    BY <2>1 DEF TaskRow
  <2> HIDE DEF asked
  <2>3. CancelWaiting(asked) \in TaskRow /\ CancelWaiting(asked).status = "cancelled"
    BY <2>2 DEF CancelWaiting, TaskRow, TimeOrNull, Terminal
  <2>4. /\ row \in TaskRow
        /\ row.status = task[t].status \/ row.status # "succeeded"
    BY <2>2, <2>3
  <2>5. task' = [task EXCEPT ![t] = row]
    BY <1>3 DEF Cancel, RequestTaskCancel, asked
  <2> HIDE DEF row
  <2> QED
    BY <2>4, <2>5, NotASuccess
<1>4. ASSUME NEW t \in Tasks, NEW n \in Numbers(t), NEW error \in Judgements,
             ScheduleRetry(t, n, error)
      PROVE  NoNewSuccess
  <2>1. PICK delay \in Delays : ScheduleTaskRetry(t, n, error, delay)
    BY <1>4 DEF ScheduleRetry
  <2> DEFINE due == now + delay
             row == [task[t] EXCEPT !.next_retry_at = due]
  <2>4. task[t] \in TaskRow /\ due \in TimeOrNull
    BY InputsAssumption DEF TypeOK, TimeOrNull
  <2>3. task' = [task EXCEPT ![t] = row]
    BY <2>1 DEF ScheduleTaskRetry
  <2> HIDE DEF due
  <2>2. row \in TaskRow /\ row.status = task[t].status
    BY <2>4 DEF TaskRow
  <2> HIDE DEF row
  <2> QED
    BY <2>2, <2>3, NotASuccess
<1> QED
  BY <1>1, <1>2, <1>3, <1>4

\* The row that a process may save is the next one of the task: it is not
\* ahead, and the primary key refuses what is behind.
LEMMA SavedRowIsNext ==
    ASSUME WorkerInv, ProgressInv, NEW w \in Workers,
           At(w, "save"), worker[w].next \notin SavedIndexes(worker[w].t)
    PROVE  /\ worker[w].t \in Tasks
           /\ IsFiniteSet(steps[worker[w].t])
           /\ Cardinality(steps[worker[w].t]) \in Nat
           /\ worker[w].next = Cardinality(steps[worker[w].t])
<1> DEFINE t == worker[w].t
<1>1. t \in Tasks /\ worker[w].next \in Nat
  BY DEF At, WorkerInv, ClaimsKnown, WorkerTypeOK, WorkerState
<1>2. IsFiniteSet(steps[t]) /\ Cardinality(steps[t]) \in Nat
  BY <1>1, FS_CardinalityType DEF ProgressInv, RowPerStep
<1>3. worker[w].next <= Cardinality(steps[t])
  BY DEF At, ProgressInv, NoneAhead
<1>4. ~(worker[w].next < Cardinality(steps[t]))
  BY <1>1, <1>2 DEF ProgressInv, RowPerStep
<1> QED
  BY <1>1, <1>2, <1>3, <1>4

\* A step that saves nothing keeps the history, if its process takes its
\* place at the start, where it was, or behind the whole history.
LEMMA NothingSaved ==
    ASSUME WorkerInv, ProgressInv, NoNewSuccess, steps' = steps,
           \A w \in Workers : worker'[w].pc # "idle" =>
             \/ worker'[w].t \in Tasks /\ worker'[w].next = 0
             \/ /\ worker[w].pc # "idle"
                /\ worker'[w].t = worker[w].t
                /\ worker'[w].next = worker[w].next
             \/ /\ worker'[w].t \in Tasks
                /\ worker'[w].next = Cardinality(steps[worker'[w].t])
    PROVE  ProgressInv'
<1>1. \A t \in Tasks : Cardinality(steps[t]) \in Nat
  BY FS_CardinalityType DEF ProgressInv, RowPerStep
<1>2. RowPerStep'
  BY DEF ProgressInv, RowPerStep, SavedIndexes
<1>3. NoneAhead'
  BY <1>1 DEF ProgressInv, NoneAhead
<1>4. SucceededIsComplete'
  BY DEF ProgressInv, SucceededIsComplete, NoNewSuccess, SavedIndexes
<1> QED
  BY <1>2, <1>3, <1>4 DEF ProgressInv

\* A process that has no step left has the whole history behind it.
LEMMA FinishIsComplete ==
    ASSUME WorkerInv, ProgressInv, NEW w \in Workers, At(w, "step"), AllDone(w)
    PROVE  /\ worker[w].t \in Tasks
           /\ SavedIndexes(worker[w].t) = 0..(NumSteps - 1)
<1> DEFINE t == worker[w].t
           c == Cardinality(steps[t])
<1>1. t \in Tasks
  BY DEF At, WorkerInv, ClaimsKnown
<1>2. c \in Nat /\ SavedIndexes(t) = 0..(c - 1)
  BY <1>1, FS_CardinalityType DEF ProgressInv, RowPerStep
<1>3. NumSteps <= c
  BY DEF At, AllDone, ProgressInv, NoneAhead
<1>4. SavedIndexes(t) \subseteq 0..(NumSteps - 1)
  BY <1>1 DEF SavedIndexes, WorkerInv, WorkerTypeOK, StepRow
<1>5. c <= NumSteps
  <2> SUFFICES ASSUME NumSteps < c PROVE FALSE
    BY <1>2, WorkerAssumption
  <2>1. NumSteps \in 0..(c - 1)
    BY <1>2, WorkerAssumption
  <2> HIDE DEF c
  <2> QED
    BY <1>2, <1>4, <2>1, WorkerAssumption
<1> HIDE DEF c
<1> QED
  BY <1>1, <1>2, <1>3, <1>5, WorkerAssumption

\* What SaveStep does when it saves.
Saves(w) ==
    LET t == worker[w].t
        i == worker[w].next
    IN  /\ At(w, "save")
        /\ PassedBoundary(w)
        /\ i \notin SavedIndexes(t)
        /\ steps' = [steps EXCEPT ![t] = @ \cup
                       {[index |-> i, attempt |-> worker[w].n]}]
        /\ worker' = [worker EXCEPT ![w].next = i + 1, ![w].pc = "step"]
        /\ StoreUnchanged

\* It keeps the history whole.
LEMMA SavingKeepsProgress ==
    ASSUME WorkerInv, ProgressInv, NEW w \in Workers, Saves(w),
           NEW t, t = worker[w].t, NEW i, i = worker[w].next
    PROVE  ProgressInv'
<1> DEFINE c == Cardinality(steps[t])
           row == [index |-> i, attempt |-> worker[w].n]
<1>1. t \in Tasks /\ IsFiniteSet(steps[t]) /\ c \in Nat /\ i = c
  BY SavedRowIsNext DEF Saves
<1>2. /\ steps \in [Tasks -> SUBSET StepRow]
      /\ worker \in [Workers -> WorkerState]
  BY DEF WorkerInv, WorkerTypeOK
<1>3. /\ steps'[t] = steps[t] \cup {row}
      /\ \A u \in Tasks \ {t} : steps'[u] = steps[u]
  BY <1>1, <1>2 DEF Saves
<1>4. row \notin steps[t]
  BY DEF Saves, SavedIndexes
<1>5. IsFiniteSet(steps'[t]) /\ Cardinality(steps'[t]) = c + 1
  <2> HIDE DEF row
  <2> DEFINE old == steps[t]
             new == steps'[t]
  <2>1. IsFiniteSet(old) /\ row \notin old /\ new = old \cup {row}
    BY <1>1, <1>3, <1>4
  <2> HIDE DEF old, new
  <2>2. IsFiniteSet(new) /\ Cardinality(new) = Cardinality(old) + 1
    BY <2>1, FS_AddElement
  <2> QED
    BY <2>2 DEF old, new
<1>6. SavedIndexes(t)' = SavedIndexes(t) \cup {i}
  <2>1. row.index = i
    OBVIOUS
  <2> HIDE DEF row
  <2> QED
    BY <1>3, <2>1 DEF SavedIndexes
<1>7. SavedIndexes(t)' = 0..(Cardinality(steps'[t]) - 1)
  <2>1. SavedIndexes(t) = 0..(c - 1)
    BY <1>1 DEF ProgressInv, RowPerStep
  <2> HIDE DEF c
  <2> QED
    BY <1>1, <1>5, <1>6, <2>1
<1>8. \A u \in Tasks \ {t} : SavedIndexes(u)' = SavedIndexes(u)
  BY <1>3 DEF SavedIndexes
<1>9. RowPerStep'
  <2> SUFFICES ASSUME NEW u \in Tasks
               PROVE  /\ IsFiniteSet(steps'[u])
                      /\ SavedIndexes(u)' = 0..(Cardinality(steps'[u]) - 1)
    BY DEF RowPerStep
  <2>1. CASE u = t
    BY <1>5, <1>7, <2>1 DEF SavedIndexes
  <2>2. CASE u # t
    BY <1>3, <1>8, <2>2 DEF ProgressInv, RowPerStep
  <2> QED
    BY <2>1, <2>2
<1>10. NoneAhead'
  <2> SUFFICES ASSUME NEW u \in Workers, worker'[u].pc # "idle"
               PROVE  worker'[u].next <= Cardinality(steps'[worker'[u].t])
    BY DEF NoneAhead
  <2>1. CASE u = w
    <3>1. worker'[u].next = i + 1 /\ worker'[u].t = t
      BY <1>2, <2>1 DEF Saves, WorkerState
    <3> QED
      BY <1>1, <1>5, <3>1
  <2>2. CASE u # w
    <3>1. worker'[u] = worker[u]
      BY <1>2, <2>2 DEF Saves
    <3>2. /\ worker[u].t \in Tasks /\ worker[u].next \in Nat
          /\ worker[u].next <= Cardinality(steps[worker[u].t])
      BY <1>2, <2>2, <3>1 DEF WorkerInv, ClaimsKnown, ProgressInv, NoneAhead, WorkerState
    <3>3. CASE worker[u].t = t
      BY <1>1, <1>5, <3>1, <3>2, <3>3
    <3>4. CASE worker[u].t # t
      BY <1>3, <3>1, <3>2, <3>4
    <3> QED
      BY <3>3, <3>4
  <2> QED
    BY <2>1, <2>2
<1>11. SucceededIsComplete'
  <2>1. \A u \in Tasks : task'[u].status = "succeeded" => u # t
    BY DEF Saves, StoreUnchanged, vars, PassedBoundary, Holds, ClaimHeld
  <2> QED
    BY <1>8, <2>1 DEF ProgressInv, SucceededIsComplete, Saves, StoreUnchanged, vars
<1> QED
  BY <1>9, <1>10, <1>11 DEF ProgressInv

\* Finishing changes no step, and succeeds only a complete task.
LEMMA FinishKeepsProgress ==
    ASSUME WorkerInv, ProgressInv, NEW w \in Workers, FinishTask(w)
    PROVE  ProgressInv'
<1> DEFINE t == worker[w].t
<1>1. t \in Tasks /\ SavedIndexes(t) = 0..(NumSteps - 1)
  BY FinishIsComplete DEF FinishTask
<1>2. steps' = steps /\ worker' = [worker EXCEPT ![w] = Idle]
  BY DEF FinishTask, EndClaim, Exit, Rest
<1>3. /\ worker \in [Workers -> WorkerState] /\ Idle.pc = "idle"
      /\ task \in [Tasks -> TaskRow]
  BY DEF WorkerInv, WorkerTypeOK, TypeOK, Idle
<1>4. RowPerStep'
  BY <1>2 DEF ProgressInv, RowPerStep, SavedIndexes
<1>5. NoneAhead'
  BY <1>2, <1>3 DEF ProgressInv, NoneAhead
<1>6. \A u \in Tasks \ {t} : task'[u] = task[u]
  BY <1>3 DEF FinishTask, EndClaim, SucceedTaskWithAttempt, FinishClaimedTask,
              WriteTerminal, StoreUnchanged, vars
<1>7. \A u \in Tasks : SavedIndexes(u)' = SavedIndexes(u)
  BY <1>2 DEF SavedIndexes
<1>8. SucceededIsComplete'
  BY <1>1, <1>6, <1>7 DEF ProgressInv, SucceededIsComplete
<1> QED
  BY <1>4, <1>5, <1>8 DEF ProgressInv

\* A saving step is SaveStep, all others leave the table of steps alone.
LEMMA StepsOfSave ==
    ASSUME WorkerInv, NEW w \in Workers, SaveStep(w)
    PROVE  \/ StoppedAtBoundary(w)
           \/ Exit(w) /\ StoreUnchanged /\ UNCHANGED <<steps, crashes>>
           \/ Saves(w)
BY DEF SaveStep, Saves

LEMMA OthersSaveNothing ==
    ASSUME WorkerNext, ~\E w \in Workers : SaveStep(w) /\ Saves(w)
    PROVE  steps' = steps
<1>1. CASE \E w \in Workers : WorkerStep(w) \/ Crash(w)
  BY <1>1 DEF WorkerStep, Crash, ResumeAttempt, RestoreBoundary, ReadProgress,
              RunStep, SaveStep, Saves, FailStep, FinishTask, EndClaim, StoppedAtBoundary, Rest
<1>2. CASE ~\E w \in Workers : WorkerStep(w) \/ Crash(w)
  BY <1>2 DEF WorkerNext, WorkerTick, Submit, Cancel, ScheduleRetry, Outside,
              Dispatch, RunTask, RetryTask, TakeOverTask, ResumeTask, Rest
<1> QED
  BY <1>1, <1>2

LEMMA ProgressNext ==
    ASSUME WorkerInv, ProgressInv, [WorkerNext]_workerVars
    PROVE  ProgressInv'
<1>0. /\ worker \in [Workers -> WorkerState] /\ TypeOK /\ ClaimsKnown
      /\ Idle.pc = "idle"
  BY DEF WorkerInv, WorkerTypeOK, Idle
<1>1. CASE UNCHANGED workerVars
  BY <1>1 DEF workerVars, ProgressInv, RowPerStep, NoneAhead,
              SucceededIsComplete, SavedIndexes
<1>2. ASSUME NoNewSuccess, worker' = worker, steps' = steps PROVE ProgressInv'
  BY <1>2, NothingSaved
<1>3. CASE \/ WorkerTick
           \/ \E t \in Tasks :
                \/ Submit(t) \/ Cancel(t)
                \/ \E n \in Numbers(t), error \in Judgements :
                     ScheduleRetry(t, n, error)
  <2>1. worker' = worker /\ steps' = steps
    BY <1>3 DEF WorkerTick, Submit, Cancel, ScheduleRetry, Outside
  <2> QED
    BY <1>0, <1>2, <1>3, <2>1, OutsideIsNoSuccess
<1>4. ASSUME NEW w \in Workers, Exit(w), steps' = steps, NoNewSuccess
      PROVE  ProgressInv'
  <2>1. \A u \in Workers : worker'[u].pc # "idle" => worker'[u] = worker[u]
    BY <1>0, <1>4 DEF Exit
  <2> QED
    BY <1>4, <2>1, NothingSaved
<1>5. ASSUME NEW w \in Workers, NEW t \in Tasks, NEW p, NEW n, NoNewSuccess,
             Begin(w, p, t, n), steps' = steps
      PROVE  ProgressInv'
  <2>1. \A u \in Workers : \/ worker'[u] = worker[u]
                           \/ /\ worker'[u].t \in Tasks
                              /\ worker'[u].next = 0
    <3> DEFINE r == [pc |-> p, t |-> t, n |-> n,
                     v |-> task'[t].lease_version, next |-> 0]
    <3>1. worker' = [worker EXCEPT ![w] = r]
      BY <1>5 DEF Begin
    <3>2. r.t = t /\ r.next = 0
      OBVIOUS
    <3> HIDE DEF r
    <3>3. worker'[w] = r /\ \A u \in Workers \ {w} : worker'[u] = worker[u]
      BY <1>0, <3>1
    <3>4. \A u \in Workers : u = w \/ worker'[u] = worker[u]
      BY <3>3
    <3> QED
      BY <3>2, <3>3, <3>4
  <2> QED
    BY <1>5, <2>1, NothingSaved
<1>6. ASSUME NEW t \in Tasks, Dispatch(t) PROVE ProgressInv'
  <2>1. NoNewSuccess
    BY <1>0, <1>6, ClaimsDoNotSucceed DEF Dispatch, RunTask, TakeOverTask, RetryTask
  <2> QED
    BY <1>5, <1>6, <2>1 DEF Dispatch, RunTask, TakeOverTask, RetryTask, Rest
<1>7. ASSUME NEW t \in Tasks, NEW w \in Workers, ResumeTask(w, t)
      PROVE  ProgressInv'
  BY <1>5, <1>7 DEF ResumeTask, StoreUnchanged, vars, NoNewSuccess, Rest
<1>8. ASSUME NEW w \in Workers, StoppedAtBoundary(w) \/ FailStep(w)
      PROVE  ProgressInv'
  BY <1>0, <1>4, <1>8, StopsAreNoSuccess DEF StoppedAtBoundary, FailStep, EndClaim, Rest
<1>9. ASSUME NEW w \in Workers, worker[w].pc # "idle", steps' = steps, StoreUnchanged,
             \A u \in Workers \ {w} : worker'[u] = worker[u],
             worker'[w].t = worker[w].t,
             \/ worker'[w].next = worker[w].next
             \/ worker[w].t \in Tasks
                  /\ worker'[w].next = Cardinality(steps[worker[w].t])
      PROVE  ProgressInv'
  <2>1. NoNewSuccess
    BY <1>9 DEF StoreUnchanged, vars, NoNewSuccess
  <2> QED
    BY <1>9, <2>1, NothingSaved
<1>10. ASSUME NEW w \in Workers, Exit(w), steps' = steps, StoreUnchanged
       PROVE  ProgressInv'
  BY <1>4, <1>10 DEF StoreUnchanged, vars, NoNewSuccess
<1>11. ASSUME NEW w \in Workers, NEW p, worker[w].pc # "idle", GoTo(w, p),
              StoreUnchanged, Rest
       PROVE  ProgressInv'
  <2>1. /\ \A u \in Workers \ {w} : worker'[u] = worker[u]
        /\ worker'[w].t = worker[w].t
        /\ worker'[w].next = worker[w].next
    BY <1>0, <1>11 DEF GoTo, WorkerState
  <2> QED
    BY <1>9, <1>11, <2>1 DEF Rest
<1>12. ASSUME NEW w \in Workers, ResumeAttempt(w) PROVE ProgressInv'
  <2>1. ASSUME NEW n, worker' = [worker EXCEPT ![w].n = n, ![w].pc = "restore"]
        PROVE  ProgressInv'
    <3>1. /\ \A u \in Workers \ {w} : worker'[u] = worker[u]
          /\ worker'[w].t = worker[w].t
          /\ worker'[w].next = worker[w].next
      BY <1>0, <2>1 DEF WorkerState
    <3> QED
      BY <1>9, <1>12, <3>1 DEF ResumeAttempt, At, Rest
  <2> QED
    BY <1>10, <1>12, <2>1 DEF ResumeAttempt, Rest
<1>13. ASSUME NEW w \in Workers, RestoreBoundary(w) \/ RunStep(w) PROVE ProgressInv'
  BY <1>8, <1>11, <1>13 DEF RestoreBoundary, RunStep, At
<1>14. ASSUME NEW w \in Workers, ReadProgress(w) PROVE ProgressInv'
  <2> DEFINE t == worker[w].t
             saved == SavedIndexes(t)
  <2>1. CASE worker' = [worker EXCEPT ![w].next = NextStep(saved), ![w].pc = "step"]
    <3>1. t \in Tasks
      BY <1>0, <1>14 DEF ClaimsKnown, ReadProgress, At
    <3>2. NextStep(saved) = Cardinality(steps[t])
      <4>1. Cardinality(steps[t]) \in Nat /\ saved = 0..(Cardinality(steps[t]) - 1)
        BY <3>1, FS_CardinalityType DEF ProgressInv, RowPerStep
      <4> HIDE DEF saved
      <4> QED
        BY <4>1, FS_Interval DEF NextStep
    <3> HIDE DEF saved
    <3>3. /\ \A u \in Workers \ {w} : worker'[u] = worker[u]
          /\ worker'[w].t = worker[w].t
          /\ worker'[w].next = Cardinality(steps[t])
      BY <1>0, <2>1, <3>2 DEF WorkerState
    <3> QED
      BY <1>9, <1>14, <3>1, <3>3 DEF ReadProgress, At, Rest
  <2> QED
    BY <1>10, <1>14, <2>1 DEF ReadProgress, Rest
<1>15. ASSUME NEW w \in Workers, SaveStep(w) PROVE ProgressInv'
  BY <1>8, <1>10, <1>15, StepsOfSave, SavingKeepsProgress
<1>16. ASSUME NEW w \in Workers, Crash(w) PROVE ProgressInv'
  BY <1>10, <1>16 DEF Crash
<1> QED
  BY <1>1, <1>3, <1>6, <1>7, <1>8, <1>12, <1>13, <1>14, <1>15, <1>16,
     FinishKeepsProgress DEF WorkerNext, WorkerStep

LEMMA ProgressHolds == WorkerSpec => [](WorkerInv /\ ProgressInv)
<1>1. WorkerInit => ProgressInv
  <2> SUFFICES ASSUME WorkerInit PROVE ProgressInv
    OBVIOUS
  <2>1. \A t \in Tasks : steps[t] = {} /\ SavedIndexes(t) = {}
    BY DEF WorkerInit, SavedIndexes
  <2>2. RowPerStep
    <3>1. 0..(0 - 1) = {}
      OBVIOUS
    <3> QED
      BY <2>1, <3>1, FS_EmptySet DEF RowPerStep
  <2>3. NoneAhead
    BY DEF WorkerInit, NoneAhead, Idle
  <2>4. SucceededIsComplete
    BY DEF WorkerInit, Init, NewRow, SucceededIsComplete
  <2> QED
    BY <2>2, <2>3, <2>4 DEF ProgressInv
<1> QED
  BY <1>1, WorkerInvHolds, ProgressNext, PTL DEF WorkerSpec

\* No worker ever meets a gap in the saved steps of a task: restore_progress
\* never refuses, whoever saved them and however often they were interrupted.
THEOREM StepsArePrefixHolds == WorkerSpec => []StepsArePrefix
<1>1. ProgressInv => StepsArePrefix
  <2> SUFFICES ASSUME ProgressInv, NEW t \in Tasks
               PROVE  SavedIndexes(t) = 0..(Cardinality(SavedIndexes(t)) - 1)
    BY DEF StepsArePrefix
  <2>1. Cardinality(steps[t]) \in Nat /\ SavedIndexes(t) = 0..(Cardinality(steps[t]) - 1)
    BY FS_CardinalityType DEF ProgressInv, RowPerStep
  <2>2. Cardinality(SavedIndexes(t)) = Cardinality(steps[t])
    BY <2>1, FS_Interval
  <2> QED
    BY <2>1, <2>2
<1> QED
  BY <1>1, ProgressHolds, PTL

\* A task is finished as succeeded only with every one of its steps saved.
THEOREM SucceededIsCompleteHolds == WorkerSpec => []SucceededIsComplete
<1>1. ProgressInv => SucceededIsComplete
  BY DEF ProgressInv
<1> QED
  BY <1>1, ProgressHolds, PTL

\* A step is saved once, next in order, by the latest attempt of a running
\* task that nobody has asked to cancel.
THEOREM OnlyTheHolderSavesHolds == WorkerSpec => OnlyTheHolderSaves
<1>1. ASSUME WorkerInv, ProgressInv, [WorkerNext]_workerVars,
             NEW t \in Tasks, steps'[t] # steps[t]
      PROVE  /\ steps'[t] = steps[t] \cup
                  {[index |-> Cardinality(steps[t]), attempt |-> Len(attempts[t])]}
             /\ task[t].status = "running"
             /\ ~task[t].cancel_requested
  <2>1. steps' # steps
    BY <1>1
  <2>2. PICK w \in Workers : Saves(w)
    BY <1>1, <2>1, OthersSaveNothing DEF workerVars
  <2>3. /\ worker[w].t \in Tasks
        /\ worker[w].next = Cardinality(steps[worker[w].t])
    BY <1>1, <2>2, SavedRowIsNext DEF Saves
  <2>4. worker[w].t = t
    BY <1>1, <2>2, <2>3 DEF Saves, WorkerInv, WorkerTypeOK
  <2>5. /\ task[t].status = "running"
        /\ ~task[t].cancel_requested
        /\ worker[w].n = Len(attempts[t])
    BY <1>1, <2>2, <2>4 DEF Saves, PassedBoundary, Holds, ClaimHeld,
                            WorkerInv, Consistent, OneRunningAttempt
  <2> QED
    BY <1>1, <2>2, <2>3, <2>4, <2>5 DEF Saves, WorkerInv, WorkerTypeOK
<1>2. WorkerInv /\ ProgressInv /\ [WorkerNext]_workerVars =>
        [\A t \in Tasks : steps'[t] # steps[t] =>
           /\ steps'[t] = steps[t] \cup
                {[index |-> Cardinality(steps[t]), attempt |-> Len(attempts[t])]}
           /\ task[t].status = "running"
           /\ ~task[t].cancel_requested]_workerVars
  BY <1>1
<1> QED
  BY <1>2, ProgressHolds, PTL DEF WorkerSpec, OnlyTheHolderSaves
=============================================================================

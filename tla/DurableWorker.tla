---------------------------- MODULE DurableWorker ----------------------------
(***************************************************************************)
(* The worker processes of month04_deploy/app/durable/worker.py over the   *)
(* task store: claim, restore the saved progress, run the steps one by     *)
(* one, finish.  Between any two transactions of a worker the clock, the   *)
(* API, the retry scheduler and other workers may act, and the worker may  *)
(* die (os._exit, a kill, or an exception of the database client, which    *)
(* may come after the transaction has committed).                          *)
(***************************************************************************)
EXTENDS TaskStore

CONSTANTS
    Workers,      \* worker processes, each runs one command at a time
    NumSteps,     \* len(STEPS)
    MaxCrashes,   \* bound of the model on deaths of workers
    ResumeAlone,  \* --resume: the operator has made sure that the old worker
                  \* exited and that no other works on the task
    Timely        \* environment for liveness: no lease runs out under a live
                  \* holder, and time passes only while someone waits for it

ASSUME WorkerAssumption == /\ NumSteps \in Nat \ {0}
                           /\ MaxCrashes \in Nat
                           /\ ResumeAlone \in BOOLEAN
                           /\ Timely \in BOOLEAN

VARIABLES
    steps,    \* task_steps: per task the rows [index, attempt that saved it]
    worker,   \* the processes
    crashes   \* deaths so far

workerVars == <<now, task, attempts, steps, worker, crashes>>

StepRow == [index : 0..(NumSteps - 1), attempt : Nat \ {0}]

Idle == [pc |-> "idle", t |-> NULL, n |-> NULL, v |-> NULL, next |-> 0]

WorkerState ==
    [pc   : {"idle", "resume", "restore", "read", "step", "save", "fail"},
     t    : Tasks \cup {NULL},
     n    : Nat \cup {NULL},
     v    : Nat \cup {NULL},
     next : 0..NumSteps]

WorkerTypeOK == /\ TypeOK
                /\ steps \in [Tasks -> SUBSET StepRow]
                /\ worker \in [Workers -> WorkerState]
                /\ crashes \in 0..MaxCrashes

WorkerInit == /\ Init
              /\ steps = [t \in Tasks |-> {}]
              /\ worker = [w \in Workers |-> Idle]
              /\ crashes = 0

SavedIndexes(t) == {row.index : row \in steps[t]}

\* restore_progress: the first step that is not saved.
NextStep(saved) == Cardinality(saved)

StepsLeft(w)  == worker[w].next < NumSteps

OneTooFew(w) == worker[w].next >= NumSteps - 1                      \* mutant
AllDone(w)   == worker[w].next = NumSteps

\* The claim of a worker, as the store checks it in every transaction.
Holds(w) == /\ worker[w].pc \notin {"idle", "resume"}
            /\ ClaimHeld(worker[w].t, worker[w].n, worker[w].v)

At(w, pc) == worker[w].pc = pc

GoTo(w, pc) == worker' = [worker EXCEPT ![w].pc = pc]

\* The process ends: it returned, or an exception left it.
Exit(w) == worker' = [worker EXCEPT ![w] = Idle]

StoreUnchanged == UNCHANGED vars
Rest == UNCHANGED <<steps, crashes>>

Begin(w, pc, t, n) ==
    worker' = [worker EXCEPT ![w] =
                 [pc |-> pc, t |-> t, n |-> n,
                  v |-> task'[t].lease_version, next |-> 0]]

-----------------------------------------------------------------------------
(* The four ways into a task.                                              *)

\* run_task_once
RunTask(w, t) ==
    /\ At(w, "idle")
    /\ StartTaskWithAttempt(t)
    /\ Begin(w, "step", t, Len(attempts'[t]))
    /\ Rest

\* retry_task_once
RetryTask(w, t, n, error) ==
    /\ At(w, "idle")
    /\ RetryTaskWithAttempt(t, n, error)
    /\ Begin(w, "restore", t, Len(attempts'[t]))
    /\ Rest

\* take_over_task_once
TakeOverTask(w, t, v) ==
    /\ At(w, "idle")
    /\ TakeOverExpiredTask(t, v)
    /\ Begin(w, "restore", t, Len(attempts'[t]))
    /\ Rest

\* run_task_once(resume=True) reads the task and its running attempt in two
\* transactions, and goes on with the same attempt and lease version.
ResumeTask(w, t) ==
    /\ At(w, "idle")
    /\ task[t].status = "running"
    /\ ResumeAlone => \A u \in Workers : worker[u].t # t
    /\ StoreUnchanged
    /\ Begin(w, "resume", t, NULL)
    /\ Rest

ResumeAttempt(w) ==
    /\ At(w, "resume")
    /\ LET t == worker[w].t
           running == {n \in DOMAIN attempts[t] : attempts[t][n] = "running"}
       IN  IF running = {}
             THEN Exit(w)
             ELSE \E n \in running :
                    worker' = [worker EXCEPT ![w].n = n, ![w].pc = "restore"]
    /\ StoreUnchanged /\ Rest

-----------------------------------------------------------------------------
(* _execute_claimed_task                                                   *)

\* A boundary that the worker does not pass: its claim is gone, or a cancel
\* request waited and is confirmed now.  Either way the command is over.
StoppedAtBoundary(w) ==
    /\ Exit(w)
    /\ \/ ~Holds(w) /\ StoreUnchanged
       \/ Holds(w) /\ ConfirmCancel(worker[w].t, worker[w].n, worker[w].v)
    /\ Rest

PassedBoundary(w) == /\ Holds(w)
                     /\ ~task[worker[w].t].cancel_requested

RestoreBoundary(w) ==
    /\ At(w, "restore")
    /\ \/ StoppedAtBoundary(w)
       \/ PassedBoundary(w) /\ GoTo(w, "read") /\ StoreUnchanged /\ Rest

\* get_completed_steps and restore_progress, which refuses a gap.
ReadProgress(w) ==
    /\ At(w, "read")
    /\ LET saved == SavedIndexes(worker[w].t)
       IN  IF saved = 0..(Cardinality(saved) - 1)
             THEN worker' = [worker EXCEPT ![w].next = NextStep(saved),
                                           ![w].pc = "step"]
             ELSE Exit(w)
    /\ StoreUnchanged /\ Rest

\* The boundary before a step, and the step itself, which works on local
\* state: it yields a result or raises ValueError.
RunStep(w) ==
    /\ At(w, "step")
    /\ StepsLeft(w)
    /\ \/ StoppedAtBoundary(w)
       \/ /\ PassedBoundary(w)
          /\ \E pc \in {"save", "fail"} : GoTo(w, pc)
          /\ StoreUnchanged /\ Rest

\* try_save_completed_step: the boundary again, then the insert, which the
\* primary key (task_id, step_index) may refuse with an exception.
SaveStep(w) ==
    /\ At(w, "save")
    /\ LET t == worker[w].t
           i == worker[w].next
       IN  \/ StoppedAtBoundary(w)
           \/ /\ PassedBoundary(w)
              /\ IF i \in SavedIndexes(t)
                   THEN Exit(w) /\ UNCHANGED steps
                   ELSE /\ steps' = [steps EXCEPT ![t] = @ \cup
                              {[index |-> i, attempt |-> worker[w].n]}]
                        /\ worker' = [worker EXCEPT ![w].next = i + 1,
                                                    ![w].pc = "step"]
              /\ StoreUnchanged /\ UNCHANGED crashes

\* The last transaction of a command, after a ValueError or the last step.
\* Without the claim nothing is written.
LeavesItRunning(w, finish) == Exit(w) /\ StoreUnchanged /\ Rest      \* mutant
EndClaim(w, finish) ==
    /\ Exit(w)
    /\ IF Holds(w) THEN finish ELSE StoreUnchanged
    /\ Rest

FailStep(w) ==
    /\ At(w, "fail")
    /\ EndClaim(w, FailTaskWithAttempt(worker[w].t, worker[w].n,
                                       worker[w].v, FALSE))

FinishTask(w) ==
    /\ At(w, "step")
    /\ AllDone(w)
    /\ EndClaim(w, SucceedTaskWithAttempt(worker[w].t, worker[w].n,
                                          worker[w].v))

Crash(w) ==
    /\ ~At(w, "idle")
    /\ crashes < MaxCrashes
    /\ crashes' = crashes + 1
    /\ Exit(w)
    /\ StoreUnchanged /\ UNCHANGED steps

-----------------------------------------------------------------------------
(* The API, the retry scheduler and the clock.                             *)

Outside == UNCHANGED <<steps, worker, crashes>>

\* A repeated submission with the same key finds its task or is refused as
\* a conflict; neither changes anything.
Submit(t) == \E d \in Deadlines, b \in Budgets : CreateTask(t, d, b) /\ Outside

Cancel(t) == RequestTaskCancel(t) /\ Outside

ScheduleRetry(t, n, error) ==
    \E delay \in Delays : ScheduleTaskRetry(t, n, error, delay) /\ Outside

\* Time that someone waits for: a lease to run out, a retry to come due.
AwaitedTime ==
    {task[t].next_retry_at : t \in Tasks}
      \cup {task[t].lease_expires_at : t \in Tasks}

WorkerTick ==
    /\ Tick
    /\ Timely => /\ \E time \in AwaitedTime \ {NULL} : now < time
                 /\ \A w \in Workers : Holds(w) =>
                      now' < task[worker[w].t].lease_expires_at
    /\ Outside

WorkerStep(w) ==
    \/ ResumeAttempt(w)
    \/ RestoreBoundary(w)
    \/ ReadProgress(w)
    \/ RunStep(w)
    \/ SaveStep(w)
    \/ FailStep(w)
    \/ FinishTask(w)

\* Some idle worker is started on the task.
Dispatch(t) ==
    \E w \in Workers :
      \/ RunTask(w, t)
      \/ \E v \in Versions(t) : TakeOverTask(w, t, v)
      \/ \E n \in Numbers(t), error \in Judgements : RetryTask(w, t, n, error)

WorkerNext ==
    \/ WorkerTick
    \/ \E w \in Workers : WorkerStep(w) \/ Crash(w)
    \/ \E t \in Tasks :
         \/ Submit(t)
         \/ Cancel(t)
         \/ Dispatch(t)
         \/ \E w \in Workers : ResumeTask(w, t)
         \/ \E n \in Numbers(t), error \in Judgements : ScheduleRetry(t, n, error)

WorkerSpec == WorkerInit /\ [][WorkerNext]_workerVars

\* A started process runs on, time passes, and a task that can be started
\* is started.
FairWorkerSpec ==
    /\ WorkerSpec
    /\ WF_workerVars(WorkerTick)
    /\ \A w \in Workers : WF_workerVars(WorkerStep(w))
    /\ \A t \in Tasks : SF_workerVars(Dispatch(t))

-----------------------------------------------------------------------------
(* Properties.                                                             *)

\* Every action above is made of an action of TaskStore or leaves its
\* variables alone, so this holds by construction; it carries what is proved
\* of the store over to the processes.
ImplementsTaskStore == Spec

\* Lease and fencing: at no time do two processes hold a valid claim of the
\* same task, through crashes, takeovers, retries and resumes.
ClaimIsExclusive ==
    \A u, w \in Workers :
      u # w /\ Holds(u) /\ Holds(w) => worker[u].t # worker[w].t

\* The saved steps of a task are 0, 1, ... without a gap, whoever saved
\* them: restore_progress never meets a history it has to refuse.
StepsArePrefix ==
    \A t \in Tasks : SavedIndexes(t) = 0..(Cardinality(SavedIndexes(t)) - 1)

\* A task that a worker finished as succeeded has every step saved.
SucceededIsComplete ==
    \A t \in Tasks : task[t].status = "succeeded" =>
      SavedIndexes(t) = 0..(NumSteps - 1)

\* A step is saved only by the latest attempt of a running task, behind all
\* the steps saved before, and never after a cancel was registered: a worker
\* that lost its claim adds nothing behind its successor's back.
OnlyTheHolderSaves ==
    [][\A t \in Tasks : steps'[t] # steps[t] =>
         /\ steps'[t] = steps[t] \cup
              {[index |-> Cardinality(steps[t]), attempt |-> Len(attempts[t])]}
         /\ task[t].status = "running"
         /\ ~task[t].cancel_requested]_workerVars

\* With more attempts than crashes, and no lease lost by slowness, every
\* task that is submitted ends, however its workers die.
EveryTaskEnds ==
    \A t \in Tasks : task[t].status = "queued" ~> task[t].status \in Terminal
=============================================================================

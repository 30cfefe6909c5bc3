# TLA+ verification of the agent service

TLA+ modules, TLC configurations and TLAPS proofs for the parts of this
repository that coordinate several actors: the durable task service and the
in-process request service of `month04_deploy`, the batch scheduler of
`month03_llm_serving`, the RAG service of `month02_rag_agent`, and the tool
runtime and the resumable agent of `month01_agent_loop`. Paths below are relative to the repository (`src/` here).

```
tlc -workers 2 -config TaskStore_safety.cfg MCTaskStore      # one run
tlapm DurableWorkerProofs.tla                                 # one proof module
```

## 1. The system

The repository is a study project in monthly parts. Its weight lies in
`month04_deploy`; the other parts are simulators, scripts and exercises.

| Part | State | Operations | Talks to |
|---|---|---|---|
| **Durable task store** `app/durable/task_store.py`, `migrations/` | PostgreSQL tables `tasks`, `task_attempts`, `task_steps`, `tool_calls`, `demo_counters`, `task_runtime_limits` | about 25 methods, each one transaction under row locks | called by the API, the workers, operators |
| **Durable worker** `app/durable/worker.py` | a process: task, attempt, lease version, next step | run, resume, retry, take over; execute the steps; external tools | the store, an external service |
| **Durable API** `app/durable/routes.py` | none | submit, cancel, query | the store |
| **Request service** `app/api.py`, `admission.py`, `active_requests.py`, `request_lifecycle.py`, `request_runner.py`, monitors | semaphores for execution permits, queue slots and active requests; a `RequestContext` and three tasks per request | admit, wait for a permit, run, claim the finalization, clean up, release | asyncio tasks that share the context |
| **Streaming** `app/stream_*.py`, `send_timeout.py` | a token queue of 8, transport outcome | produce, consume, send with timeouts | the request service, the ASGI server |
| **Container cleanup demos** `demos/w6_*.py` | a docker container | start, time out, kill, confirm | the store's cleanup columns |
| **Batch scheduler** `month03_llm_serving/scheduler.py`, `request_queue.py`, `paged_kv_cache.py` | waiting queue, active and preempted requests; two paged caches, one for what is written and one for what is reserved | submit, step, preempt | one thread, driven by `simulation.py` |
| **Tool runtime** `month01_agent_loop/tool_runtime.py` | a bounded semaphore, a gauge, futures of a thread pool | run with a timeout, done callback | calling threads, pool threads |
| **Agent loop** `agent.py`, `executor.py`, `checkpoint.py` of `month01_agent_loop` | step, action history, execution context; checkpoint files per thread | run, resume, save, load the latest | a language model, the tool runtime |
| **RAG task manager** `month02_rag_agent/task_manager.py` | status per task, bounded queue with its unfinished count, worker coroutines | start, submit, take, settle, close | threads that run the operations |
| **RAG service** `api.py`, `app.py`, `ingest.py`, `indexer.py`, `retriever.py`, `rag_chain.py` | build slots, the index file and the temporary files beside it | lifespan, index builds as tasks, as requests and from the command line, questions | the task manager, the file system, a language model |
| **Metrics, deployment, benchmarks, exercises** | counters, files | | |

### What is hard here

*Durable side.* A worker may stop anywhere, be replaced when its lease runs
out, and come back late. Everything it does is a sequence of transactions, and
between any two of them other workers, the API, a retry scheduler, an operator
and the clock may act. A cancel may arrive at any of these points. A timed-out
container lives on after its attempt. A call to an external service cannot be
taken back, and its answer may be lost.

*In-process side.* asyncio switches tasks only where one really waits, so the
hazards sit at the waits: the wait for a permit, the wait for a cancelled agent
to exit, and the wait of a finalizer's competitors. Completion, deadline,
client disconnect, send timeout and response deadline compete for one outcome,
and whoever wins must give back exactly what the request holds.

*Scheduler.* One thread, but long sequences: a request is admitted, prefilled in
chunks, preempted, readmitted, recomputed and finished, while two caches have
to agree with its progress at every token; an exception in the middle of a
step would leave it half done.

*Streams.* A producer waits on a full queue, a consumer on an empty one and on
the end of the request at once, and the loser of that wait is cancelled. The
response may be broken off in any send, by a client, by a deadline of its own.

*Transactions.* Under READ COMMITTED each statement sees what is committed when
it runs. What a method has read holds at its commit only because of the locks it
took first, and slots are counted by a query that locks nothing.

*RAG service.* Builds that are queued, called directly and started as processes
of their own write one file; the power may fail between any two of their system
calls. Shutdown has to outwait what was accepted, behind a slot others take too.

*Agent.* A caller that times out leaves an operation behind that holds a permit
and will still have its effect. The process may die between an effect and the
checkpoint that records it.

### What makes each part correct

* Store: a task and its attempts always tell one story; history is final;
  capacity, attempt budget and deadline are respected; a cancel is not lost.
* Worker: one holder of a valid claim per task; the saved steps are a prefix;
  a success has all of them; workers bring a task to an end.
* External tools: a call is sent at most once, a recorded success happened.
* Scheduler: the cache holds exactly what the next step builds on; a step never
  fails for lack of space; blocks are neither lost nor shared; a preemption
  costs no output; every request finishes.
* Tool runtime and agent: a permit belongs to exactly one operation in flight;
  a checkpoint says only what happened; what it names is not repeated.
* Transactions: what was read still holds when it is written; a key has one task.
* Streams: no token is lost or overtaken; the last message says what was
  recorded and follows every token.
* RAG service: table, queue and workers agree; a build slot comes back exactly
  once; nothing is cleared that is in use; the index at the path is always whole;
  answers cite what was retrieved; accepted tasks and a shutdown come to an end.
* Requests: one finalizer and one outcome; capacity is conserved; nothing that
  still runs is without a permit; no waiter sleeps beside a free permit; every
  request ends.

`PROJECT.json` lists the hazards with their source lines and the properties
aimed at each.

## 2. The modules

```
SlotPool  <--- refined by ---  TaskStore  <--- refined by ---  DurableWorker
    ^  ^                           ^
    |  |                           +--- extended by --- ToolCalls
    |  +---- refined by ---  StoreTransactions
    +------- refined by ---  RequestLifecycle  <--- refined by ---  StreamService

PagedKVCache  <--- extended by ---  BatchScheduler
ToolRuntime   <--- extended by ---  AgentLoop
IndexFile     <--- extended by ---  RagQuery  <---+
                                                  +--- extended by ---  RagService
                                  TaskManager  <--+
```

**`SlotPool`**: the abstract promise of a capacity limit. Slots are taken one at
a time while one is free and given back one at a time by their holder. Both
services implement it: the store with its running tasks and uncleaned
containers (`TaskStore` and, statement by statement, `StoreTransactions`), the
request service with its execution permits.

**`TaskStore`**: the methods of `TaskStore` (the class) on `tasks` and
`task_attempts`. A method is one transaction and one action; a refused call
(`None`, a `RetryDecision`, an exception) changes nothing and is a stuttering
step.

| Variable | Code |
|---|---|
| `now` | `clock_timestamp()`, read inside the transaction after the row locks |
| `task[t]` | the row of `tasks`; `"absent"` before the insert; `cleanup_attempt # NULL` is `cleanup_pending` |
| `attempts[t]` | `task_attempts` by `attempt_no`, only the status |

Attempt ids are the attempt numbers. `result`, `error` and timestamps for
display are left out. The callers are arbitrary: an action may be called with
any attempt and any lease version that ever existed, so everything that is
proved holds for stale workers as well. `StartTask`/`SucceedTask` are the older
interface without attempts, which the class still offers. `Call` gathers the
methods; an error is judged by the caller of the retry (`Judgements`), as in
`decide_retry`.

**`StoreTransactions`**: the same methods statement by statement, by connections
that run one transaction each. It is why `TaskStore` may take a transaction as
one step.

| Variable | Code |
|---|---|
| `row[t]`, `attempts[t]` | what is committed in `tasks` and `task_attempts` |
| `limitsLock` | who holds the row of `task_runtime_limits` (`_lock_queue_limit`, `_lock_running_limit`) |
| `rowLock[t]` | who holds the row of the task (`FOR UPDATE`, or an `UPDATE`) |
| `txn[c]` | the transaction of a connection: method, arguments, next statement, answer |

A submission, a claim and a retry lock the limits first (`LockLimits`), the others
the row of their task (`CallOnRow`). Then come the key (`LookUp`), the counts
(`CountQueued`, `CountRunning`), the row with its condition (`LockRow`) and the clock
(`ReadClock`), and `Commit` writes; `RollBack` may come at any of these points and
stands for a refusal, an error or a lost connection. Leases, plans and deadlines
are due or not as the clock will have it, so this module has no time: it has more
behaviours than the code. Attempt n has lease version n, they are counted up
together.

**`DurableWorker`** (extends `TaskStore`): processes with a program counter. Each
transaction of `_execute_claimed_task` and its callers is an action of its own
(boundary check, reading the progress, saving a step, failing, finishing);
`Crash` may come between any two, also right after a commit whose answer is
lost, which is the same thing for the tables. `steps[t]` is `task_steps`. A
step yields a result or raises `ValueError`. A worker that finds its claim gone
stops, as the code returns `None`. With `ResumeAlone` the operator keeps the
promise documented in `run_task_once(resume=True)`; without it, `--resume` is
used beside living workers.

**`ToolCalls`** (extends `TaskStore`): the rows of `tool_calls`, the counter tool
(effect and row in one transaction) and `run_external_tool_once`: prepare, send,
receive or time out, record. The external service is an environment that may
perform a received request at any later time or never; `requests` and
`performed` count what it saw and did. Only a sender that really has a receipt
records success. `Die` covers the death of a sender and every exception that
leaves a row in `started`.

**`RequestLifecycle`**: requests of `/v1/agent/run` and `/v1/agent/stream`.

| Variable | Code |
|---|---|
| `stage[r]` | where the HTTP request is: outside, behind the middleware, admitted, being refused |
| `ctx[r]` | the `RequestContext`: phase, outcome, `permit_acquired`, `queue_slot_acquired`; the agent task with its pending `CancelledError`; the two monitors; which deadlines have passed; how often the outcome was recorded |
| `permits`, `line`, `future` | `execution_semaphore`: its value, its waiters in order, the future each waits for |
| `queueSlots` | `queue_semaphore` |

An action is what a task does between two waits. `state_lock` is never held
across a wait, so `try_claim_finalize` is one step. An agent that wins
finalizes without a wait, so `AgentWins` is one step; a monitor that wins
claims and cancels (`MonitorWins`), then waits for the agent's exit (`Finish`).
The losers wait for `finalized_event` (`AgentLoses`, `MonitorLoses`, `Notice`).
The semaphore follows asyncio of Python 3.11, the version the repository's CI
uses: `locked()` also counts woken waiters, a released permit is handed to the
first pending waiter, a waiter that is cancelled with a permit in hand passes
it on, and a resumed waiter wakes the next while permits are free. The
transport of `/run` is the disconnect monitor, that of `/stream` the response
object with its send timeout, response deadline and error paths. `Stubborn`
requests have an agent that may swallow a cancellation.

**`StreamService`** (extends `RequestLifecycle`): what `/v1/agent/stream` adds.
`stream[r]` has the way of a token in its parts: the one `put` waits to put, the
`queue`, the one in the consumer's `hand`, what was `sent`; and the place of the
response. `Produce`, `PutResumes`, `ProducerEnds` are the runner; `Pull`, `WaitEnds`,
`SendReturns` the consumer and the sends; `SendTimesOut`, `SendFails`, `Disconnects`,
`RunsOutOfTime` break a response off, and `ResponseEnds` is the `finally` of
`AgentStreamingResponse.__call__`, which finalizes a request nobody has finalized.
`ResponseEnds` and the agent's steps are the steps of `RequestLifecycle` with the
queue beside them, so streams are requests once their tokens are hidden
(`ImplementsLifecycle`); this holds by construction and is no claim about the code. Requests to `/run` are in it too, as they
contend for the same permits.

**`PagedKVCache`** has no variables: a cache is a record of token counts, block
tables and the queue of free blocks, and `append_tokens` and `release` are
operators on it, because the scheduler keeps two of them.

**`BatchScheduler`** (extends `PagedKVCache`): `submit`, `preempt` and `step`. One
call of `step()` is the sequence `Begin`, `Admit` or `PreemptForHead`, `Readmit`,
`Serve` or `Pass`, `End`, one action per turn of its loops; nothing comes in
between, as the scheduler has one thread.

| Variable | Code |
|---|---|
| `request[r]` | the `InferenceRequest` and its `RequestState` |
| `waiting`, `active`, `preempted` | `_request_queue`, `_request_states`, `_preempted_states` |
| `kv`, `reservations` | `_kv_cache`, `_kv_reservations` |
| `pc`, `cursor`, `remaining`, `spent` | the place in `step()`, the position of its batch loop, `remaining_states`, `_last_step_token_count`; `"raised"` when `append_tokens` fails in the batch loop |

**`ToolRuntime`**: `run()` statement by statement, by any number of callers,
against `ThreadPoolExecutor` and its futures as the code uses them. A future's
callback (`_on_future_done`) has two steps, it runs in the pool's thread or, if
it is attached too late, in the caller's, and a result can be read before it.

**`AgentLoop`** (extends `ToolRuntime`): every caller is an agent with a thread_id
of its own.

| Variable | Code |
|---|---|
| `agent[c]` | the place in `LLMAgent.run`, `step`, `action_history`, the kind of `last_observation` |
| `context[c]` | the `ExecutionContext`: active, cancelled or past its deadline |
| `disk[c]` | the checkpoint files of the thread by `checkpoint_id`, each as its `action_history` and whether its `last_observation` is a `TOOL_ERROR`; `next_step` equals the id |
| `performed[c]` | operations of the thread that had their effect |

The model's answer is arbitrary. `Crash` is the death of the process with all
its threads, at any point. A file is written and replaced in one step, because
`os.replace` is atomic and temporary files are never loaded; half-written
checkpoints are therefore not examined here (`IndexFile` examines that pattern
for the index). A tool that fails, before its effect, in the middle or after it,
answers `TOOL_ERROR` (`Fail`), which is observed and saved like any other answer;
`CheckpointsAreTrue` claims an effect only for calls that did not fail.

**`TaskManager`**: `phase`, `record`, `queue`, `unfinished` and `worker` are the manager's
`_accepting`, `_tasks`, queue, the count `join()` waits for, and what each worker has
in hand. An action is what the event loop does from one wait to the next: a
worker that settles a task takes the next at once if there is one.

**`IndexFile`**: builders of one index, one action per system call: `CreateTemp`,
`WriteTemp`, `SyncTemp`, `Replace`, `RaiseInBuild`. `index` is the file at the path: who
made it, whether all of it has been written, whether it is on the disk;
`PowerFails` keeps only what is. `Chunks` is `split_text`, as intervals of the text.

**`RagQuery`** (extends `IndexFile`): questions to the index: `Retrieve` loads and
searches it, `Generate` is one turn of the loop that asks again when the citations
are not valid. Which ranks an answer cites is arbitrary, ranks that were never
given out included.

**`RagService`** (extends `TaskManager` and `RagQuery`): their composition in
`api.py`. `slots` is `index_build_slots`, `thread[b]` the thread of a build. A task
waits for a slot in its thread (`AcquireSlot`), a request is refused without one
(`PostIndex`). The lifespan is `StartUp`, `ShutDown`, `ClearResources`; `RunMain` are
processes that build from the command line without a slot; `PowerLoss` ends
everything but the files.

The `MC*` modules give TLC its small sets and symmetries. Operators marked
`mutant` are single wrong versions of a definition (a dropped guard, an
off-by-one, a missing reset). They are not part of any specification; replacing
the definition by one of them makes the property named in `PROJECT.json` fail,
which shows that the property looks at the code.

## 3. The runs

| Run | Instance | Shows |
|---|---|---|
| `store_safety` | 3 tasks, 2 slots, queue of 2, budgets {1, 2}, deadline none or 3, retry delays {0, 1}, leases of 1 tick, clock to 3 | tasks and attempts in step; cancels, planned retries, containers; final history; a stranded task stays stranded; the store is a `SlotPool` |
| `store_transactions` | 2 connections, 3 tasks, 1 slot, queue of 2, 1 key, 2 contents, 2 attempts | what a transaction has read still holds when it writes; repeated submissions find their task; no two transactions wait for each other (deadlock is checked); the committed rows are a `SlotPool` |
| `worker_safety` | 2 workers, 1 task, 2 steps, budget 3, leases of 2 ticks, clock to 4, 2 crashes, `ResumeAlone` | exclusive claims; no step saved by a worker without the claim |
| `worker_resume` | the same without `ResumeAlone`: operators resume beside living workers | steps are still saved once, in order and by the latest attempt; what ended is not rewritten; a success has every step |
| `worker_liveness` | 2 workers, 2 tasks, budget 3, 2 crashes | every submitted task ends |
| `tool_safety` | 2 senders, 2 positions, 2 inputs, 1 counter, 1 death; one position is reconciled without waiting for its sender's exit | at most one send; a recorded success happened; rows are settled once, whoever reports first; a sender owns its row where the reconciler waits; the counter equals its rows |
| `req_safety` | 3 requests, 2 permits, 2 queue slots; one of them a stream with a stubborn agent | one finalizer, final outcome, finalized means settled; capacity is conserved through cancelled hand-overs; no sleeping waiter; permits are a `SlotPool` |
| `req_stream` | 1 stream and 1 request to `/run`, 1 permit, 1 queue slot, up to 3 tokens through a queue of 1 | no token is lost, doubled or overtaken; the last message is true; every request that enters leaves |
| `req_stubborn` | 1 request with a stubborn agent | **violation**: finalizer and agent wait for each other (section 6) |
| `rag_service` | 1 index task and 2 demo tasks, 2 workers, queue of 1, 1 direct build whose overlap is refused, 1 build from the command line, 1 slot, 1 reader, one record asked for, one citation retry | table, queue and workers agree; slots are conserved; nothing is cleared in use; the index is whole through builds and power losses; answers are grounded; tasks and shutdown end |
| `scheduler` | 3 requests with prompts of 2 or 3 and outputs of 1 or 3 tokens, 2 active, queue of 2, 3 tokens per step, 4 blocks of 2 tokens, one preemption by the scheduler and one by its caller per request | the cache matches progress and reservation; no step raises; blocks are partitioned; output is kept; every request finishes |
| `agent_safety` | 1 agent, 2 operations, 2 steps, 3 runs, 1 crash, 3 futures, 2 permits, 1 pool thread | checkpoints are true; what they name is not repeated, beside operations left behind by timeouts and deaths; permits cover exactly the operations in flight |

*Bounds.* `MaxTime` stops the clock, `MaxCrashes` and `MaxDeaths` bound the
failures, `Delays`, `Deadlines` and `Budgets` the inputs; every other number
(lease versions, attempts, steps) is bounded by the code through them. In the
worker runs a lease of 2 ticks within 4 runs out twice, so that a takeover of a
takeover happens; a budget of 3 lets one task see a retry and a takeover; a
deadline at 3 or 4 falls before, at and after leases and delays. One task with two
workers is enough for fencing, since claims of different tasks share only the
slots; those are exercised with 3 tasks and 2 slots, where an attempt that must
wait for a container's cleanup has a free slot beside it. Three requests with
two permits are the least with a hand-over while another permit is free and a
waiter behind it; `req_stream` has one permit, so that the stream and the plain
request are each other's holder and waiter. A queue of one token is full after
one and empty after one, and three tokens put one in the queue, one in the
consumer's hand and one in a waiting `put` at the same time. In
`store_transactions` three tasks give a waiting, a running and a submitted one
beside one slot; two connections are enough, since every property speaks of one
transaction and of what others may commit under it, and any number follows from
the proofs. In `rag_service` one slot is what `create_app` gives by default,
contended for by the task and the direct request, and a queue of one is full
while both workers are busy. Request identities are used again after `Leave`, so runs of any
length are covered. In `scheduler` 4 blocks are less than two long requests
need and enough for three short ones, so both the blocks and the active limit
bind; a budget of 3 splits a prefill over steps; `MaxByCaller` bounds the calls
of `preempt()`, which could otherwise put off a request for ever. `MaxRuns` is
the number of runs of an agent's thread; with 3 a resume can be resumed.
Deadlock checking is off where the bounded clock, the bounded failures or the
end of all work really stop the system (the durable modules) and in
`req_stubborn`, and where the runs are used up (the agent module); it is on in
the other runs of the request service, in `store_transactions`, `rag_service` and
`scheduler`.

*Fairness.* `worker_liveness`: a started process goes on, time passes, and some
idle worker is started for a task that can be started (the repository starts
workers by command; strong fairness, since a slot may be taken and freed in
between). `Timely` excludes that a live worker is slower than its lease and lets
time pass only when somebody waits for it, so that the bounded clock is no
obstacle; crashes are bounded below the budget. `req_stream`: the event loop
runs every task that can go on, deadlines pass, and a send returns or times out.
Nothing is assumed of the agent's own work, it may run or wait to put for ever if
nobody cancels it, and no client is required to go away. `rag_service`: workers,
builds and the lifespan's `close()` go on (weak fairness; an operation ends).
`AcquireSlot` is strongly fair: the slot may be taken by direct requests again and
again, but these never wait, and a thread that waits in `acquire()` is not passed
over at every release. `scheduler`: `run_workload` calls
`step()` over and over while requests are left, so a step goes on (weak fairness
of `Step`); nobody has to submit anything.

## 4. The proofs

Every theorem is for arbitrary constants: any number of tasks, workers,
senders, requests, any capacity. Assumptions on constants are the `ASSUME`s of
the modules: finite sets of tasks and requests, positive limits, `NULL` outside
the numbers and outcomes.

**`DurableWorkerProofs`, the store.** No property of the tables is inductive alone: that a
takeover leaves one running attempt needs that only the last one ran; that a
retry never starts beside a container needs that the container belongs to the
last attempt. `Consistent` is their conjunction. `TypeCorrect` comes first, then
`TablesConsistent` by one lemma per kind of call, from which
`OneRunningAttemptHolds`, `AttemptBudgetHolds`, `CancelIsNotLostHolds`,
`CleanupIsOfLastAttemptHolds`, `PlannedRetryIsFeasibleHolds` follow; the action
properties `HistoryHolds`, `TerminalHolds`, `StrandedHolds` use it as the
invariant of each step. `StoreIsASlotPool` maps every call to an acquire, a
release or a stutter; `RunningCapacityHolds` follows along the same lines.

**`DurableWorkerProofs`, the workers.** Each worker action is a step
of `TaskStore` or leaves its variables alone, by the way it is written; the lemma
`WorkersImplementTheStore` says so, and by it the store's
theorems then hold of the workers (`WorkersKeepCapacity`, `WorkersKeepCancels`,
`WorkersKeepHistory`, `WorkersLeaveStranded`, `WorkersAreASlotPool`).
`ClaimIsExclusiveHolds` needs `ResumeAlone`: two workers with the same attempt
and version exist only if an operator resumes beside a live worker. The
invariant says that a claim in a worker's hands is never newer than the task's
lease version and that two workers never carry the same one.

What the workers save has an invariant of its own, `ProgressInv`: a task has one row
per saved step and its steps are 0, 1, 2, ... (`RowPerStep`), and no process is ahead
of them (`NoneAhead`). A process that is behind is refused by the primary key, so
whatever is saved is the next step (`SavedRowIsNext`); a process with no step left
has the whole history behind it (`FinishIsComplete`); and nothing else makes a task
succeed (`NotASuccess` and the lemmas after it). `StepsArePrefixHolds` and
`SucceededIsCompleteHolds` follow; `OnlyTheHolderSavesHolds` uses the invariant at
each step. None of the three needs `ResumeAlone`: a process resumed beside a
living one may do the work of a step twice, but it is saved once.

**`ToolCallsProofs`.** A call that was never inserted was never sent; one that a
prepared sender holds has not been sent yet; a sender with a receipt has
`performed` behind it. `SentAtMostOnceHolds` and `SucceededWasPerformedHolds`
follow, for whatever calls the reconciler waits for the sender of (`Verified`).
`OwnInv` adds that the row of a sender at work still waits for it (nobody settles
a verified call under a living sender) and that a counter is the number of its
rows; `SenderOwnsItsCallHolds`, `CounterMatchesLedgerHolds` and
`LedgerIsFinalHolds` follow.

**`RequestLifecycleProofs`.** Every step changes the context of one request and
hands a permit to at most one waiter beside it. The invariant `LifecycleInv` is
therefore a predicate `Good` of each request alone (what its phase says of its
tasks, `Settled`, and what its agent's place says of its capacity, `Holds`) and
the two sums of `CapacityConserved`. Each action gets a lemma that it `Keeps` its
request: good afterwards, others touched only by a hand-over, and owners moved
as `PermitsMove` and `SlotsMove` say; `OthersStayGood` and `SumsKept` conclude once for
all of them. The other safety properties, and the refinement of
`SlotPool` (`PermitsHolds`), are corollaries or use it as the invariant of a step.
`NoIdlePermitHolds` has an invariant of its own, `WakefulInv`: every waiter with a
pending future stands in line, so `WakeUpNext` finds a pending one whenever there is one.

**`StreamServiceProofs`.** The invariant `StreamInv` is again one predicate per
request: the tokens on their way (`sent`, `hand`, `queue`, `put` in a row) are
1, 2, 3, ... up to what was produced, short of at most the token that was waiting to
be put when the agent was cancelled; and what the place of the response says of
the queue and of the context. Lemmas about sequences (`Enqueues`, `PutsThrough`,
`Dequeues`, `Sends`, `DropsPut`) say how each operation moves the tokens on.
The lemma `StreamsAreRequests` has it that streams take only the steps of requests,
by the way they are written; by it the proofs of `RequestLifecycle` hold of
streams (`StreamsConserveCapacity`, `StreamsLeaveNoPermitIdle`, `StreamsAreSettled`,
`StreamsAreASlotPool`). `NoTokenIsLostHolds` and `LastWordIsTrueHolds` are
for streams and queues of any length. Assumption: no agent is stubborn.

**`StoreTransactionsProofs`.** The invariant `Inv` has, for each connection, where it
may be (`Placed`), which locks it holds there (`Locked`), what it relies on because
of them (`Relies`) and what it has answered (`Told`), and for the tables `TablesInv`.
A step that writes nothing disturbs nobody who keeps its locks (`OthersKeep`,
`OneMoves`). The heart is `CommitSparesOthers`: what one transaction commits leaves
intact what another relies on, because the other holds the row, or holds the
limits while the commit can only lower the counts, or is after another key.
`DecisionsHold`, `SubmissionsAreIdempotentHolds` and `TransactionsAreASlotPool` follow.

**`RagServiceProofs`.** `ChunksCover` is arithmetic about `split_text`: with n the
last turn of its loop, every position lies in the chunk of its quotient or in the
last one. `IndexIsWholeHolds` needs that a builder about to replace has a whole and
synced file, and holds for any number of builders and power losses.
`ServiceInvHolds` has the books (each waiting or taken task is counted once), the
slots (one per thread that builds) and which phase allows what;
`BooksBalanceHolds`, `BuildSlotsConservedHolds` and `ResourcesOutliveTasksHolds` follow
from it. `AnswersAreGroundedHolds` rests on `IndexIsWholeHolds` and an invariant per
reader.

**`BatchSchedulerProofs`.** The hard part is that a reservation made in one cache
guarantees room in the other, which gives out other blocks at other times:
`ReservedFits`. If each request holds no more tokens in `kv` than in
`reservations` and wants to write within its own reservation, yet too few blocks
were free, then mapping every block of `kv` to a place in a table of
`reservations` would be one-to-one and leave a place over, though both have the
same number of blocks. It rests on `Sound` (no block twice, none lost, tables as
long as the tokens need), which `AppendIsSound` and `ReleaseIsSound` keep for
caches of any size. `SchedInv` is the inductive invariant: `CacheMatchesProgress`
with what a phase says of the token counts (`RowFits`), each request in one queue
and there once (`Lines`), and which of the active requests the batch loop has
already finished (`BatchInv`). `BlocksPartitionedHolds`, `CacheMatchesProgressHolds`,
`StepNeverRaisesHolds` and `OutputIsKeptHolds` follow from it.

**`AgentLoopProofs`.** `RuntimeInv` is `PermitsCoverFutures` with `OwnFutures`: a
future a caller refers to is its own, and its callback is unset until the caller
attaches it, so that a step moves at most one permit from one term of the sum to
another. Cardinalities are taken step by step (`Books`, `QuietMoves`).
`AgentInv` adds, for each thread, the checkpoints (`Chain`: any of them begins
every later one), the run in progress (`Follows`: its history continues the last
checkpoint by at most one action, which had its effect unless its observation is
an error) and the tool call it waits for (`Serves`: it is for the action named
last). An operation that finished without failing had its effect
(`EffectsAreReal`). Neither is inductive without the other, because the
next checkpoint is the history of the run. `CheckpointsAreTrueHolds` follows; for
`SavedCallsAreNotRepeatedHolds`, only a caller can make its future queued
(`QueuedByItsCaller`), with the last action of its history, which the checkpoints
do not have. `AgentAssumption` has for it that `NULL`, the missing checkpoint, is
not a history.

*Proved, in no run*: the types of each module, `ChunksCoverTheDocument`,
`StepsArePrefix`, `AttemptBudget`, `TerminalIsFinal`, `RunningCapacity` and
`RunsWithPermit` have theorems for every instance; the runs check the properties
close to them.

*Only model-checked*: liveness (`EveryTaskEnds`, `EveryRequestEnds`,
`EveryRequestFinishes`, `ServiceSettles`), which is out of the prover's reach.
Every other property of a run that passes has a theorem; the
inductive invariants `SchedInv`, `RuntimeInv` and `AgentInv` also hold in TLC on the
instances of the runs `scheduler` and `agent_safety`.

## 5. Abstractions

* A transaction is one step of `TaskStore`, at its commit, after which nothing of it
  can be disturbed; `StoreTransactions` shows that what it decided by still holds
  then (`DecisionsStillHold`). It is not a refinement of `TaskStore`, which has time.
  In it a transaction begins when it gets its first lock, before which it has done
  nothing. The branch behind `ON CONFLICT DO NOTHING` in `create_task_idempotent`
  needs a submission without the limits lock and is never taken.
* The clock is discrete and shared: all comparisons are made by the database.
* Payloads, results, error texts, fingerprints and metrics are dropped;
  fingerprint equality is equality of `input`.
* `save_completed_step`, a method without fencing, is called by tests only and
  is left out, as is the renewal of a lease by the worker, which never renews
  (the store's renewal is an action).
* A request that the middleware turns away changes nothing and has no action.
* That the framework calls the response of an admitted stream is assumed, and
  the cancellation of handlers at server shutdown is not modelled.
* `StreamService` takes agents that let a `CancelledError` through; those that
  swallow one are in `req_safety` and `req_stubborn`. The helper task that gets a
  token and the consumer that it wakes are one step, and what is left in the
  queue of a response that was broken off is of no interest. A request is
  admitted and its response begins in one step, as nothing waits in between.
* Timers do not fire early; the guard for an early deadline in
  `try_claim_finalize` is kept in `Claimable`.
* In `TaskStore` a submission with a key that is in use changes nothing and has no
  action; the keys are in `StoreTransactions`.
* Requests of the scheduler have distinct ids and lengths of at least 1, which
  the code does not check. Totals kept for reports are left out.
* A worker of the thread pool counts as free a little early, between a result
  and its callback, and the pool may take queued operations in any order: the
  model has more behaviours than the code.
* An agent without a tool runtime, two runs of one thread_id at a time and a
  new run on a thread_id that has checkpoints are not modelled. In the last
  case the older checkpoints with higher ids stay, and `load_latest` returns them.
* The retry inside `call_llm` is one step, as it has no state of its own.
* The ASGI server finishes open requests before the lifespan goes on to its
  shutdown (`ShutDown` waits for direct builds), as uvicorn does.
* A crash between the temporary file and the rename leaves a file that nobody
  loads. A rename that a power loss undoes is a power loss before the rename.
* Opening and reading an index is one step: the opened file stays what it was.
  What an embedder returns is taken as vectors that `validate_index` accepts; a
  search is the number of records it returns, an answer the ranks it cites. The
  field checks of `validate_index` are not translated, only that a whole file passes
  them.

Not modelled at all, with the reasons in `PROJECT.json`: metrics, deployment files
and the load test (no state others depend on); the docker commands of the
container demos (a script with one actor; what it tells the store is in
`TaskStore`); evaluation and benchmark scripts (they compute numbers); message
memory, traces, the parsing of model answers and the file tools of the agent (data
with hardly any state); the exercises (not part of the system).

## 6. Findings

* **Finalizer and agent wait for each other** (`req_stubborn`). An agent that
  answers its cancellation with a result or another exception enters
  `finalize_request`, loses, and waits for the winner
  (`request_lifecycle.py:90`), which awaits the agent (`:132`) without a timeout.
  The request stays in `FINALIZING` and its permit is lost. A `finally` block that
  raises is enough. Everything else the service promises survives such an
  agent (`req_safety` has one).
* **Stranded tasks** are not a contradiction to any document but worth knowing:
  tasks submitted over HTTP have one attempt, so a worker that dies leaves a
  task that runs for ever, holds a slot and ignores cancels. `StrandedForGood`
  proves that no operation of the store gets it out.

## 7. Plan

Done: both services of month 4, with the statements of the store's transactions
and the tokens of streams; the scheduler of month 3; the RAG service of month 2;
the runtime and the agent of month 1. What is not modelled has no protocol to
check (section 5).

Every safety property, action property and refinement (to `SlotPool`) that a run checks is
proved, and the refinements carry the results of `TaskStore` and
`RequestLifecycle` to the workers and the streams. What could be added is an
abstract pool that a death empties at once and in which a slot passes from one
holder to another, as the permits of the tool runtime do; `SlotPool` has neither.

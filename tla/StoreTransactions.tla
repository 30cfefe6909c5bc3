-------------------------- MODULE StoreTransactions --------------------------
(***************************************************************************)
(* The transactions of month04_deploy/app/durable/task_store.py, statement *)
(* by statement, on PostgreSQL with its default isolation (READ            *)
(* COMMITTED): a query sees what is committed when it runs, a lock on a    *)
(* row is held until the transaction ends, and an UPDATE or SELECT FOR     *)
(* UPDATE that had to wait looks at the row again.                         *)
(*                                                                         *)
(* TaskStore takes a transaction as one step; here is why it may.  Attempt *)
(* n of a task has lease version n, the two are counted up together; and   *)
(* whether a lease or a plan is due is up to the clock, that is, open.  A  *)
(* transaction that waits for its first lock does nothing, so it begins    *)
(* here when it gets it.                                                   *)
(***************************************************************************)
EXTENDS Integers, Sequences, FiniteSets

CONSTANTS
    Tasks,             \* the ids uuid4() gives out
    Clients,           \* database connections with one transaction at a time
    Keys,              \* idempotency keys
    Contents,          \* request fingerprints
    MaxRunningTasks,   \* task_runtime_limits.max_running_tasks
    MaxQueuedTasks,    \* task_runtime_limits.max_queued_tasks
    MaxAttempts,       \* max_attempts of every task
    NULL               \* SQL NULL

ASSUME StoreAssumption == /\ IsFiniteSet(Tasks)
                          /\ MaxRunningTasks \in Nat \ {0}
                          /\ MaxQueuedTasks \in Nat \ {0}
                          /\ MaxAttempts \in Nat \ {0}
                          /\ NULL \notin Tasks \cup Clients \cup Keys \cup Contents
                          /\ NULL \notin {"succeeded", "failed", "conflict", "full"}
                          /\ Tasks \cap {"conflict", "full"} = {}

VARIABLES
    row,          \* committed rows of tasks
    attempts,     \* committed rows of task_attempts, per task by attempt_no
    limitsLock,   \* the client that has locked the row of task_runtime_limits
    rowLock,      \* per task: the client that has locked its row
    txn           \* per client: its transaction

tables == <<row, attempts>>
locks  == <<limitsLock, rowLock>>
vars   == <<tables, locks, txn>>

Row == [status  : {"absent", "queued", "running", "succeeded", "failed", "cancelled"},
        key     : Keys \cup {NULL},
        content : Contents \cup {NULL},
        cancel  : BOOLEAN,             \* cancel_requested_at IS NOT NULL
        planned : BOOLEAN,             \* next_retry_at IS NOT NULL
        cleanup : 0..MaxAttempts]      \* cleanup_attempt_id, 0 for NULL

NoRow == [status |-> "absent", key |-> NULL, content |-> NULL,
          cancel |-> FALSE, planned |-> FALSE, cleanup |-> 0]

\* The methods, and which statement of a transaction comes next.
UnderLimits == {"submit", "claim", "retry"}
OnRow       == {"schedule", "cancel", "finish", "confirm", "renew", "take_over"}

Txn == [op      : UnderLimits \cup OnRow \cup {NULL},
        pc      : {"idle", "lookup", "count", "row", "clock", "write", "answered"},
        task    : Tasks \cup {NULL},
        attempt : 0..MaxAttempts,
        key     : Keys \cup {NULL},
        content : Contents \cup {NULL},
        outcome : {"succeeded", "failed", "cancelled", NULL},
        leaves  : BOOLEAN,             \* cleanup_pending of the caller
        answer  : Tasks \cup {"conflict", "full", NULL}]

Idle == [op |-> NULL, pc |-> "idle", task |-> NULL, attempt |-> 0, key |-> NULL,
         content |-> NULL, outcome |-> NULL, leaves |-> FALSE, answer |-> NULL]

TypeOK == /\ row \in [Tasks -> Row]
          /\ attempts \in [Tasks -> Seq({"running", "succeeded", "failed", "interrupted"})]
          /\ limitsLock \in Clients \cup {NULL}
          /\ rowLock \in [Tasks -> Clients \cup {NULL}]
          /\ txn \in [Clients -> Txn]

Init == /\ row = [t \in Tasks |-> NoRow]
        /\ attempts = [t \in Tasks |-> << >>]
        /\ limitsLock = NULL
        /\ rowLock = [t \in Tasks |-> NULL]
        /\ txn = [c \in Clients |-> Idle]

-----------------------------------------------------------------------------
(* What the statements ask of the committed rows.                          *)

SlotHolders == {t \in Tasks : row[t].status = "running" \/ row[t].cleanup # 0}
Queued      == {t \in Tasks : row[t].status = "queued"}
WithKey(k)  == {t \in Tasks : row[t].status # "absent" /\ row[t].key = k}

HasRunningSlot == Cardinality(SlotHolders) < MaxRunningTasks
HasQueueSlot   == Cardinality(Queued) < MaxQueuedTasks

\* The statement that locks the row of its task.
RowAllows(q) ==
    LET r == row[q.task]
        latest == q.attempt = Len(attempts[q.task])
    IN  CASE q.op = "claim"     -> r.status = "queued" /\ r.cleanup = 0
          [] q.op = "retry"     -> /\ r.status = "failed" /\ latest
                                   /\ q.attempt < MaxAttempts
                                   /\ r.planned /\ r.cleanup = 0
          [] q.op = "schedule"  -> /\ r.status = "failed" /\ latest
                                   /\ q.attempt < MaxAttempts
                                   /\ ~r.planned
          [] q.op = "cancel"    -> /\ ~r.cancel
                                   /\ \/ r.status \in {"queued", "running"}
                                      \/ r.status = "failed" /\ r.planned
          [] q.op = "confirm"   -> r.cleanup # 0 /\ r.cleanup = q.attempt
          [] q.op = "take_over" -> /\ r.status = "running" /\ latest
                                   /\ q.attempt < MaxAttempts
                                   /\ r.cleanup = 0
          [] q.op \in {"finish", "renew"} -> r.status = "running" /\ latest

\* The rows after the transaction q.
Written(q) ==
    LET r == row[q.task]
    IN  CASE q.op = "submit" -> [NoRow EXCEPT !.status = "queued",
                                              !.key = q.key, !.content = q.content]
          [] q.op \in {"claim", "retry", "take_over"} ->
               [r EXCEPT !.status = "running", !.planned = FALSE]
          [] q.op = "schedule" -> [r EXCEPT !.planned = TRUE]
          [] q.op = "cancel" /\ r.status = "running" -> [r EXCEPT !.cancel = TRUE]
          [] q.op = "cancel" /\ r.status # "running" ->
               [r EXCEPT !.cancel = TRUE, !.status = "cancelled", !.planned = FALSE]
          [] q.op = "finish" -> [r EXCEPT !.status = q.outcome,
                                          !.cleanup = IF q.leaves THEN q.attempt ELSE @]
          [] q.op = "confirm" -> [r EXCEPT !.cleanup = 0]
          [] q.op = "renew" -> r

History(q) ==
    LET h == attempts[q.task]
        Closed(status) == [h EXCEPT ![Len(h)] = status]
    IN  CASE q.op \in {"claim", "retry"} -> Append(h, "running")
          [] q.op = "take_over" -> Append(Closed("interrupted"), "running")
          [] q.op = "finish" ->
               Closed(IF q.outcome = "cancelled" THEN "interrupted" ELSE q.outcome)
          [] OTHER -> h

-----------------------------------------------------------------------------
(* Calls: any method, any task, any attempt a caller ever saw, any outcome. *)

Submission(k, x)   == [Idle EXCEPT !.op = "submit", !.key = k, !.content = x]
CallOn(t, op)      == [Idle EXCEPT !.op = op, !.task = t]
CallFor(t, n, op)  == [CallOn(t, op) EXCEPT !.attempt = n]
Ending(t, n, end)  == [CallFor(t, n, "finish") EXCEPT !.outcome = end]
TimingOut(t, n)    == [Ending(t, n, "failed") EXCEPT !.leaves = TRUE]

Submissions == {Submission(k, x) : k \in Keys, x \in Contents}
                 \cup {Submission(NULL, NULL)}              \* without a key

CallsOn(t) ==
    LET seen == 1..Len(attempts[t])
    IN  {CallOn(t, op) : op \in {"claim", "cancel"}}
          \cup {CallFor(t, n, op) : n \in seen,
                   op \in {"retry", "schedule", "confirm", "renew", "take_over"}}
          \cup {Ending(t, n, end) : n \in seen, end \in {"succeeded", "failed"}}
          \cup {TimingOut(t, n) : n \in seen}

Requests == Submissions \cup UNION {CallsOn(t) : t \in Tasks \ {u \in Tasks : row[u].status = "absent"}}

-----------------------------------------------------------------------------
(* Statements.                                                             *)

GoTo(c, pc) == txn' = [txn EXCEPT ![c].pc = pc]

\* _lock_queue_limit, _lock_running_limit.
NotLocked == TRUE                                                   \* mutant
LimitsFree == limitsLock = NULL

LockLimits(c, q) ==
    /\ txn[c].pc = "idle"
    /\ q.op \in UnderLimits
    /\ LimitsFree
    /\ limitsLock' = c
    /\ txn' = [txn EXCEPT ![c] = [q EXCEPT !.pc =
         CASE q.op = "submit" -> IF q.key = NULL THEN "count" ELSE "lookup"
           [] q.op = "claim"  -> "count"
           [] q.op = "retry"  -> "row"]]
    /\ UNCHANGED <<tables, rowLock>>

\* COMMIT and ROLLBACK release what the transaction has locked.
Releases(c) ==
    /\ limitsLock' = IF limitsLock = c THEN NULL ELSE limitsLock
    /\ rowLock' = [t \in Tasks |-> IF rowLock[t] = c THEN NULL ELSE rowLock[t]]

RollsBack(c) == Releases(c) /\ txn' = [txn EXCEPT ![c] = Idle] /\ UNCHANGED tables

\* The task of the key, if there is one.
Answers(c, answer) == txn' = [txn EXCEPT ![c].pc = "answered", ![c].answer = answer]

LookUp(c) ==
    /\ txn[c].pc = "lookup"
    /\ LET found == WithKey(txn[c].key)
       IN  \/ found = {} /\ GoTo(c, "count")
           \/ \E t \in found :
                Answers(c, IF row[t].content = txn[c].content THEN t ELSE "conflict")
    /\ UNCHANGED <<tables, locks>>

\* _require_queue_slot, and a new uuid4().
CountQueued(c) ==
    /\ txn[c].op = "submit" /\ txn[c].pc = "count"
    /\ \/ ~HasQueueSlot /\ Answers(c, "full")
       \/ /\ HasQueueSlot
          /\ \E t \in Tasks :
               /\ row[t].status = "absent"
               /\ \A d \in Clients : txn[d].task # t
               /\ txn' = [txn EXCEPT ![c].pc = "write", ![c].task = t]
    /\ UNCHANGED <<tables, locks>>

\* _has_running_slot: a claim goes on to its row, a retry has it already.
CountRunning(c) ==
    /\ txn[c].op # "submit" /\ txn[c].pc = "count"
    /\ \/ ~HasRunningSlot /\ RollsBack(c)
       \/ /\ HasRunningSlot
          /\ GoTo(c, IF txn[c].op = "claim" THEN "row" ELSE "write")
          /\ UNCHANGED <<tables, locks>>

\* SELECT ... FOR UPDATE, or an UPDATE, which looks at the row when it has
\* the lock.
NotWaitedFor(t) == TRUE                                             \* mutant
RowFree(t) == rowLock[t] = NULL
AfterRow(op) == CASE op \in {"finish", "renew", "take_over"} -> "clock"
                  [] op = "retry" -> "count"
                  [] OTHER -> "write"

LocksRow(c, q) ==
    /\ RowFree(q.task)
    /\ RowAllows(q)
    /\ rowLock' = [rowLock EXCEPT ![q.task] = c]
    /\ txn' = [txn EXCEPT ![c] = [q EXCEPT !.pc = AfterRow(q.op)]]
    /\ UNCHANGED <<tables, limitsLock>>

CallOnRow(c, q) == txn[c].pc = "idle" /\ q.op \in OnRow /\ LocksRow(c, q)

LockRow(c) ==
    /\ txn[c].pc = "row"
    /\ \/ LocksRow(c, txn[c])
       \/ RowFree(txn[c].task) /\ ~RowAllows(txn[c]) /\ RollsBack(c)

\* clock_timestamp() decides; a cancel that is registered overrules.
ReadClock(c) ==
    /\ txn[c].pc = "clock"
    /\ txn' = [txn EXCEPT
         ![c].pc = "write",
         ![c].outcome = IF @ # NULL /\ row[txn[c].task].cancel THEN "cancelled" ELSE @]
    /\ UNCHANGED <<tables, locks>>

Commit(c) ==
    /\ txn[c].pc = "write"
    /\ row' = [row EXCEPT ![txn[c].task] = Written(txn[c])]
    /\ attempts' = [attempts EXCEPT ![txn[c].task] = History(txn[c])]
    /\ Releases(c)
    /\ txn' = [txn EXCEPT ![c] = Idle]

\* The end of a transaction that has its answer, the clock against it, an
\* error, or a lost connection.
RollBack(c) == txn[c].pc # "idle" /\ RollsBack(c)

Next == \E c \in Clients :
    \/ \E q \in Requests : LockLimits(c, q) \/ CallOnRow(c, q)
    \/ LookUp(c) \/ CountQueued(c) \/ CountRunning(c) \/ LockRow(c) \/ ReadClock(c)
    \/ Commit(c) \/ RollBack(c)

Spec == Init /\ [][Next]_vars

-----------------------------------------------------------------------------
(* Properties.                                                             *)

\* When a transaction is about to write, what its earlier statements read is
\* still so: the row of its task, the free slot it counted and the absence
\* of its key.  This is what lets TaskStore take a transaction as one step,
\* at its commit.
DecisionsStillHold ==
    \A q \in {txn[c] : c \in {d \in Clients : txn[d].pc = "write"}} :
      IF q.op = "submit"
        THEN /\ HasQueueSlot
             /\ row[q.task].status = "absent"
             /\ q.key # NULL => WithKey(q.key) = {}
        ELSE /\ RowAllows(q)
             /\ q.op \in {"claim", "retry"} => HasRunningSlot
             /\ q.op = "finish" => (row[q.task].cancel <=> q.outcome = "cancelled")

\* However often and by how many connections a submission is repeated, its
\* key has one task, and it is answered with that task; it is refused only
\* for another content, or when it has no task and the queue is full.
SubmissionsAreIdempotent ==
    /\ \A k \in Keys : Cardinality(WithKey(k)) <= 1
    /\ \A c \in Clients :
         /\ txn[c].answer \in Tasks => /\ row[txn[c].answer].key = txn[c].key
                                       /\ row[txn[c].answer].content = txn[c].content
         /\ txn[c].answer = "conflict" =>
              \E t \in WithKey(txn[c].key) : row[t].content # txn[c].content
         /\ txn[c].answer = "full" =>
              /\ Cardinality(Queued) <= MaxQueuedTasks
              /\ txn[c].key # NULL => WithKey(txn[c].key) = {}

\* The committed rows are a pool of max_running_tasks slots, though the
\* slots are counted by a query that locks nothing, and neither finish nor
\* cancel nor cleanup takes the lock that claims count under.
Pool == INSTANCE SlotPool WITH Clients <- Tasks, Slots <- MaxRunningTasks,
                               holding <- SlotHolders
ImplementsSlotPool == Pool!Spec
=============================================================================

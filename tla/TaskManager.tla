----------------------------- MODULE TaskManager -----------------------------
(***************************************************************************)
(* The task manager of month02_rag_agent/task_manager.py: a bounded        *)
(* asyncio queue and worker_count coroutines that run the operations of    *)
(* accepted tasks in threads.  An action is what the event loop does from  *)
(* one wait to the next; when an operation ends is up to its thread.       *)
(***************************************************************************)
EXTENDS Integers, Sequences, FiniteSets

CONSTANTS
    Tasks,           \* task ids; a manager never gives one out twice
    Workers,         \* the coroutines, worker_count of them
    QueueCapacity,   \* maxsize of the queue
    NULL

ASSUME ManagerAssumption == /\ IsFiniteSet(Tasks) /\ IsFiniteSet(Workers)
                            /\ Workers # {}
                            /\ QueueCapacity \in Nat \ {0}
                            /\ NULL \notin Tasks

VARIABLES
    phase,        \* of the manager: before start(), accepting, in close(), over
    record,       \* status per task; "absent" if _tasks does not have it
    queue,        \* the waiting tasks
    unfinished,   \* unfinished count of the queue, which join() waits for
    worker        \* per worker the task it has taken

managerVars == <<phase, record, queue, unfinished, worker>>

Status == {"absent", "queued", "running", "succeeded", "failed"}

ManagerTypeOK ==
    /\ phase \in {"new", "accepting", "closing", "closed"}
    /\ record \in [Tasks -> Status]
    /\ queue \in Seq(Tasks) /\ Len(queue) <= QueueCapacity
    /\ unfinished \in Nat
    /\ worker \in [Workers -> Tasks \cup {NULL}]

ManagerInit == /\ phase = "new"
               /\ record = [t \in Tasks |-> "absent"]
               /\ queue = << >>
               /\ unfinished = 0
               /\ worker = [w \in Workers |-> NULL]

Start == /\ phase = "new"
         /\ phase' = "accepting"
         /\ UNCHANGED <<record, queue, unfinished, worker>>

\* submit: the record comes first, and goes again when the queue is full.
StaysQueued(t) == [record EXCEPT ![t] = "queued"]                   \* mutant
RolledBack(t)  == record

Submit(t) ==
    /\ phase = "accepting"
    /\ record[t] = "absent"
    /\ IF Len(queue) < QueueCapacity
         THEN /\ record' = [record EXCEPT ![t] = "queued"]
              /\ queue' = Append(queue, t)
              /\ unfinished' = unfinished + 1
         ELSE /\ record' = RolledBack(t)
              /\ UNCHANGED <<queue, unfinished>>
    /\ UNCHANGED <<phase, worker>>

\* queue.get() by worker w, with the statuses r before it.
Get(w, r) == /\ worker' = [worker EXCEPT ![w] = Head(queue)]
             /\ record' = [r EXCEPT ![Head(queue)] = "running"]
             /\ queue' = Tail(queue)

\* A worker that waited in get() is resumed.
Take(w) == /\ phase \in {"accepting", "closing"}
           /\ worker[w] = NULL
           /\ queue # << >>
           /\ Get(w, record)
           /\ UNCHANGED <<phase, unfinished>>

\* The thread has ended: the status, task_done, and the next get(), which
\* does not wait if the queue has something.
Settle(w, status) ==
    /\ worker[w] # NULL
    /\ LET settled == [record EXCEPT ![worker[w]] = status]
       IN  IF queue # << >>
             THEN Get(w, settled)
             ELSE /\ worker' = [worker EXCEPT ![w] = NULL]
                  /\ record' = settled
                  /\ UNCHANGED queue
    /\ unfinished' = unfinished - 1
    /\ UNCHANGED phase

\* close(): no more submissions, then join().
BeginClose == /\ phase = "accepting"
              /\ phase' = "closing"
              /\ UNCHANGED <<record, queue, unfinished, worker>>

\* join() has returned: the workers, all of them in get(), are cancelled.
QueueIsEmpty == queue = << >>                                       \* mutant
Joined       == unfinished = 0

EndClose == /\ phase = "closing"
            /\ Joined
            /\ phase' = "closed"
            /\ worker' = [w \in Workers |-> NULL]
            /\ UNCHANGED <<record, queue, unfinished>>

ManagerNext ==
    \/ Start \/ BeginClose \/ EndClose
    \/ \E t \in Tasks : Submit(t)
    \/ \E w \in Workers : Take(w) \/ \E status \in {"succeeded", "failed"} : Settle(w, status)

ManagerSpec == ManagerInit /\ [][ManagerNext]_managerVars

-----------------------------------------------------------------------------
(* Properties.                                                             *)

Waiting   == {t \in Tasks : record[t] = "queued"}
InHand    == {worker[w] : w \in Workers} \ {NULL}

\* The table, the queue and the workers tell one story, through refused
\* submissions and failed operations: a queued task is in the queue once, a
\* running one is with exactly one worker, and join() counts both.
BooksBalance ==
    /\ {queue[i] : i \in DOMAIN queue} = Waiting
    /\ Len(queue) = Cardinality(Waiting)
    /\ InHand = {t \in Tasks : record[t] = "running"}
    /\ \A u, w \in Workers : u # w /\ worker[u] # NULL => worker[u] # worker[w]
    /\ unfinished = Cardinality(Waiting) + Cardinality(InHand)
=============================================================================

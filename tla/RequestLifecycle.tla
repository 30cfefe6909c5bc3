--------------------------- MODULE RequestLifecycle ---------------------------
(***************************************************************************)
(* The in-process request service of month04_deploy/app: admission to      *)
(* max_running execution permits and max_waiting queue slots, the tasks of *)
(* an admitted request (its agent, its deadline monitor and its transport: *)
(* the disconnect monitor of /run or the response of /stream), and the     *)
(* contest for finalizing it.                                              *)
(*                                                                         *)
(* asyncio switches tasks only where one really waits, so an action is     *)
(* what a task does from one such wait to the next.  state_lock is never   *)
(* held across a wait: a claim is one step.  The agent's own cleanup does  *)
(* not wait either, so an agent that wins finalizes in one step; any other *)
(* winner waits for the agent to exit.                                     *)
(***************************************************************************)
EXTENDS Integers, Sequences, FiniteSets, SequencesExt

CONSTANTS
    Requests,    \* identities of requests, used again for later requests
    Streams,     \* those that go to /v1/agent/stream, the others go to /run
    Stubborn,    \* those whose agent may not let a CancelledError through
    MaxRunning,  \* execution_semaphore
    MaxWaiting,  \* queue_semaphore
    MaxActive,   \* slots of ActiveRequestLimitMiddleware
    NULL         \* None

ASSUME RequestsAssumption == /\ IsFiniteSet(Requests)
                             /\ Streams \subseteq Requests
                             /\ Stubborn \subseteq Requests
ASSUME CapacityAssumption == /\ MaxRunning \in Nat \ {0}
                             /\ MaxWaiting \in Nat
                             /\ MaxActive \in Nat \ {0}
ASSUME NullAssumption     == NULL \notin {"succeeded", "timed_out", "cancelled", "failed"}

VARIABLES
    stage,       \* where the HTTP request is
    ctx,         \* its RequestContext and its tasks
    permits,     \* value of execution_semaphore
    line,        \* its waiters, in order of arrival
    future,      \* the future each of them waits for
    queueSlots   \* value of queue_semaphore

capacity == <<permits, line, future, queueSlots>>
vars == <<stage, ctx, capacity>>

Outcomes == {"succeeded", "timed_out", "cancelled", "failed"}
Monitors == {"deadline", "transport"}
TaskState == {"watching", "cleaning", "waiting", "done"}

OutcomeOf == [completed                  |-> "succeeded",
              client_disconnected        |-> "cancelled",
              deadline_exceeded          |-> "timed_out",
              internal_error             |-> "failed",
              send_timeout               |-> "cancelled",
              response_deadline_exceeded |-> "timed_out"]

\* The events a monitor finalizes with.
EventsOf(r, m) ==
    IF m = "deadline" THEN {"deadline_exceeded"}
    ELSE IF r \in Streams
         THEN {"client_disconnected", "send_timeout", "internal_error",
               "response_deadline_exceeded"}
         ELSE {"client_disconnected"}

\* due holds the events whose time has come; agent is the background task,
\* cancelling its pending CancelledError.
Context == [phase      : {"active", "finalizing", "finalized"},
            outcome    : Outcomes \cup {NULL},
            permit     : BOOLEAN,
            slot       : BOOLEAN,
            due        : SUBSET {"deadline_exceeded", "response_deadline_exceeded"},
            agent      : {"created", "queued", "running", "waiting", "done"},
            cancelling : BOOLEAN,
            monitor    : [Monitors -> TaskState],
            recorded   : Nat]

NewContext == [phase      |-> "active",
               outcome    |-> NULL,
               permit     |-> FALSE,
               slot       |-> FALSE,
               due        |-> {},
               agent      |-> "created",
               cancelling |-> FALSE,
               monitor    |-> [m \in Monitors |-> "watching"],
               recorded   |-> 0]

RequestTypeOK ==
    /\ stage \in [Requests -> {"new", "entered", "admitted", "leaving"}]
    /\ ctx \in [Requests -> Context]
    /\ permits \in 0..MaxRunning
    /\ line \in Seq(Requests)
    /\ future \in [Requests -> {"none", "pending", "set", "cancelled"}]
    /\ queueSlots \in 0..MaxWaiting

Init ==
    /\ stage = [r \in Requests |-> "new"]
    /\ ctx = [r \in Requests |-> NewContext]
    /\ permits = MaxRunning
    /\ line = << >>
    /\ future = [r \in Requests |-> "none"]
    /\ queueSlots = MaxWaiting

-----------------------------------------------------------------------------
(* asyncio.Semaphore: a permit that becomes free is handed to the first    *)
(* waiter whose future is still pending; it resumes in a later step.       *)

NeverLocked == FALSE                                                \* mutant
Locked == permits = 0 \/ \E r \in Requests : future[r] \in {"pending", "set"}

\* The next state of the futures f, the value n and the waiters q once the
\* first pending waiter has been woken.
WakeUpNext(f, n, q) ==
    LET Ready == {i \in DOMAIN q : f[q[i]] = "pending"}
    IN  IF Ready = {}
          THEN /\ future' = f
               /\ permits' = n
          ELSE \E i \in Ready :
                 /\ \A j \in Ready : i <= j
                 /\ future' = [f EXCEPT ![q[i]] = "set"]
                 /\ permits' = n - 1

LeavesLine(r) == \E i \in DOMAIN line : line[i] = r /\ line' = RemoveAt(line, i)

-----------------------------------------------------------------------------
(* Admission.                                                              *)

Active == {r \in Requests : stage[r] # "new"}

\* The middleware.  A request it turns away changes nothing.
Enter(r) ==
    /\ stage[r] = "new"
    /\ Cardinality(Active) < MaxActive
    /\ stage' = [stage EXCEPT ![r] = "entered"]
    /\ UNCHANGED <<ctx, capacity>>

\* try_admit, and the tasks the route starts for an admitted request.
Admit(r) ==
    /\ stage[r] = "entered"
    /\ \/ /\ ~Locked
          /\ permits' = permits - 1
          /\ ctx' = [ctx EXCEPT ![r] = [NewContext EXCEPT !.permit = TRUE]]
          /\ UNCHANGED queueSlots
       \/ /\ Locked
          /\ queueSlots > 0
          /\ queueSlots' = queueSlots - 1
          /\ ctx' = [ctx EXCEPT ![r] = [NewContext EXCEPT !.slot = TRUE]]
          /\ UNCHANGED permits
    /\ stage' = [stage EXCEPT ![r] = "admitted"]
    /\ UNCHANGED <<line, future>>

Refuse(r) ==
    /\ stage[r] = "entered"
    /\ Locked
    /\ queueSlots = 0
    /\ stage' = [stage EXCEPT ![r] = "leaving"]
    /\ UNCHANGED <<ctx, capacity>>

\* The response is out and the tasks of the request are gathered; the
\* middleware gives the active slot back.
Gathered(r) == /\ ctx[r].phase = "finalized"
               /\ ctx[r].agent = "done"
               /\ \A m \in Monitors : ctx[r].monitor[m] = "done"

Leave(r) ==
    /\ stage[r] = "leaving" \/ (stage[r] = "admitted" /\ Gathered(r))
    /\ stage' = [stage EXCEPT ![r] = "new"]
    /\ ctx' = [ctx EXCEPT ![r] = NewContext]
    /\ UNCHANGED capacity

-----------------------------------------------------------------------------
(* The agent's way to its permit: wait_for_execution.                      *)

Runs(row)  == [row EXCEPT !.agent = "running", !.permit = TRUE, !.slot = FALSE]
Exits(row) == [row EXCEPT !.agent = "done", !.cancelling = FALSE]

\* A task cancelled before its first step never enters its coroutine.
StartAgent(r) ==
    /\ stage[r] = "admitted"
    /\ ctx[r].agent = "created"
    /\ \/ /\ ctx[r].cancelling
          /\ ctx' = [ctx EXCEPT ![r] = Exits(@)]
          /\ UNCHANGED capacity
       \/ /\ ~ctx[r].cancelling
          /\ ctx[r].permit
          /\ ctx' = [ctx EXCEPT ![r].agent = "running"]
          /\ UNCHANGED capacity
       \/ /\ ~ctx[r].cancelling
          /\ ~ctx[r].permit
          /\ ~Locked
          /\ permits' = permits - 1
          /\ queueSlots' = queueSlots + 1
          /\ ctx' = [ctx EXCEPT ![r] = Runs(@)]
          /\ UNCHANGED <<line, future>>
       \/ /\ ~ctx[r].cancelling
          /\ ~ctx[r].permit
          /\ Locked
          /\ line' = Append(line, r)
          /\ future' = [future EXCEPT ![r] = "pending"]
          /\ ctx' = [ctx EXCEPT ![r].agent = "queued"]
          /\ UNCHANGED <<permits, queueSlots>>
    /\ UNCHANGED stage

\* Resumed with a permit: the queue slot is given back, and a permit that
\* is still free wakes the next waiter.
NoNeedToWake(r) == FALSE                                            \* mutant
WakesOn(r) == permits > 0

Promote(r) ==
    /\ ctx[r].agent = "queued"
    /\ ~ctx[r].cancelling
    /\ future[r] = "set"
    /\ LeavesLine(r)
    /\ LET left == [future EXCEPT ![r] = "none"]
       IN  IF WakesOn(r)
             THEN WakeUpNext(left, permits, line')
             ELSE future' = left /\ permits' = permits
    /\ queueSlots' = queueSlots + 1
    /\ ctx' = [ctx EXCEPT ![r] = Runs(@)]
    /\ UNCHANGED stage

\* Resumed by a CancelledError.  A permit handed over in the meantime goes
\* back to the semaphore and to the next waiter.
HoldsFuture(r) == future[r] = "set"

LeaveQueue(r) ==
    /\ ctx[r].agent = "queued"
    /\ ctx[r].cancelling
    /\ LeavesLine(r)
    /\ LET left == [future EXCEPT ![r] = "none"]
       IN  IF HoldsFuture(r)
             THEN WakeUpNext(left, permits + 1, line')
             ELSE future' = left /\ permits' = permits
    /\ queueSlots' = queueSlots + 1
    /\ ctx' = [ctx EXCEPT ![r] = [Exits(@) EXCEPT !.slot = FALSE]]
    /\ UNCHANGED stage

-----------------------------------------------------------------------------
(* Finalizing.                                                             *)

\* try_claim_finalize.
Claimable(r, e) ==
    /\ ctx[r].phase = "active"
    /\ e \in {"deadline_exceeded", "response_deadline_exceeded"} => e \in ctx[r].due

AsReported(r, e) == e                                               \* mutant
Effective(r, e) ==
    IF e = "completed" /\ "deadline_exceeded" \in ctx[r].due
      THEN "deadline_exceeded" ELSE e

\* release_capacity: by the flags, so what is gone already stays gone.
SlotTwice(row) == 1                                                 \* mutant
SlotsBack(row) == IF row.slot THEN 1 ELSE 0

ReleaseCapacity(row) ==
    /\ queueSlots' = queueSlots + SlotsBack(row)
    /\ IF row.permit
         THEN WakeUpNext(future, permits + 1, line)
         ELSE UNCHANGED <<future, permits>>
    /\ UNCHANGED line

\* The end of finalize_request: released, recorded, published.
Finalized(row) == [row EXCEPT !.phase = "finalized",
                              !.permit = FALSE,
                              !.slot = FALSE,
                              !.recorded = row.recorded + 1]

\* The agent has a result or an error and finalizes with it.
AgentWins(r, e) ==
    /\ ctx[r].agent = "running"
    /\ ~ctx[r].cancelling
    /\ Claimable(r, e)
    /\ ctx' = [ctx EXCEPT ![r] =
                 Finalized([@ EXCEPT !.outcome = OutcomeOf[Effective(r, e)],
                                     !.agent = "done"])]
    /\ ReleaseCapacity(ctx[r])
    /\ UNCHANGED stage

\* Or it comes too late and waits for the winner's cleanup.
AgentLoses(r) ==
    /\ ctx[r].agent = "running"
    /\ ~ctx[r].cancelling
    /\ ctx[r].phase = "finalizing"
    /\ ctx' = [ctx EXCEPT ![r].agent = "waiting"]
    /\ UNCHANGED <<stage, capacity>>

\* CancelledError passes through run_agent_request, which does not finalize.
Unwind(r) ==
    /\ ctx[r].agent = "running"
    /\ ctx[r].cancelling
    /\ ctx' = [ctx EXCEPT ![r] = Exits(@)]
    /\ UNCHANGED <<stage, capacity>>

\* An agent that turns the CancelledError into a result or another error.
Swallow(r) ==
    /\ r \in Stubborn
    /\ ctx[r].agent = "running"
    /\ ctx[r].cancelling
    /\ ctx' = [ctx EXCEPT ![r].cancelling = FALSE]
    /\ UNCHANGED <<stage, capacity>>

Expire(r, d) ==
    /\ stage[r] = "admitted"
    /\ d \notin ctx[r].due
    /\ d = "response_deadline_exceeded" => r \in Streams
    /\ ctx' = [ctx EXCEPT ![r].due = @ \cup {d}]
    /\ UNCHANGED <<stage, capacity>>

\* A monitor sees its event and wins: cleanup_request_resources cancels the
\* agent and waits for its exit.
OnlyRunning(r) == ctx[r].agent = "running"                          \* mutant
Cancels(r) == ctx[r].agent # "done"

MonitorWins(r, m, e) ==
    /\ stage[r] = "admitted"
    /\ ctx[r].monitor[m] = "watching"
    /\ Claimable(r, e)
    /\ ctx' = [ctx EXCEPT ![r] =
                 [@ EXCEPT !.phase = "finalizing",
                           !.outcome = OutcomeOf[Effective(r, e)],
                           !.cancelling = Cancels(r),
                           !.monitor[m] = "cleaning"]]
    /\ future' = [future EXCEPT ![r] = IF @ = "pending" /\ Cancels(r)
                                             THEN "cancelled" ELSE @]
    /\ UNCHANGED <<stage, permits, line, queueSlots>>

\* Or somebody else is finalizing: it waits for finalized_event.
MonitorLoses(r, m, e) ==
    /\ stage[r] = "admitted"
    /\ ctx[r].monitor[m] = "watching"
    /\ e \in {"deadline_exceeded", "response_deadline_exceeded"} => e \in ctx[r].due
    /\ ctx[r].phase = "finalizing"
    /\ ctx' = [ctx EXCEPT ![r].monitor[m] = "waiting"]
    /\ UNCHANGED <<stage, capacity>>

\* await task: a cancelled task is over only when it has exited.
RightAway(r) == TRUE                                                \* mutant
HasExited(r) == ctx[r].agent = "done"

Finish(r, m) ==
    /\ ctx[r].monitor[m] = "cleaning"
    /\ HasExited(r)
    /\ ctx' = [ctx EXCEPT ![r] = Finalized([@ EXCEPT !.monitor[m] = "done"])]
    /\ ReleaseCapacity(ctx[r])
    /\ UNCHANGED stage

\* finalized_event is set; a stream has sent its last message, or gives up.
Notice(r, m) ==
    /\ ctx[r].phase = "finalized"
    /\ ctx[r].monitor[m] \in {"watching", "waiting"}
    /\ ctx' = [ctx EXCEPT ![r].monitor[m] = "done"]
    /\ UNCHANGED <<stage, capacity>>

-----------------------------------------------------------------------------
AgentStep(r) == StartAgent(r) \/ Promote(r) \/ LeaveQueue(r) \/ Unwind(r)

Fires(r, m) == \E e \in EventsOf(r, m) : MonitorWins(r, m, e) \/ MonitorLoses(r, m, e)

Step(r) ==
    \/ Enter(r) \/ Admit(r) \/ Refuse(r) \/ Leave(r)
    \/ AgentStep(r) \/ Swallow(r) \/ AgentLoses(r)
    \/ \E e \in {"completed", "internal_error"} : AgentWins(r, e)
    \/ \E d \in {"deadline_exceeded", "response_deadline_exceeded"} : Expire(r, d)
    \/ \E m \in Monitors : Fires(r, m) \/ Finish(r, m) \/ Notice(r, m)

Next == \E r \in Requests : Step(r)

Spec == Init /\ [][Next]_vars

\* The event loop runs every task that can go on, and time passes.  Nothing
\* is asked of the agent's own work but that it exits when cancelled.
FairSpec ==
    /\ Spec
    /\ \A r \in Requests :
         /\ WF_vars(Admit(r) \/ Refuse(r)) /\ WF_vars(Leave(r))
         /\ WF_vars(AgentStep(r)) /\ WF_vars(AgentLoses(r))
         /\ WF_vars(Expire(r, "deadline_exceeded"))
         /\ WF_vars(Fires(r, "deadline"))
         /\ \A m \in Monitors : WF_vars(Finish(r, m)) /\ WF_vars(Notice(r, m))
-----------------------------------------------------------------------------
(* Properties.                                                             *)

\* No permit and no queue slot is lost or given back twice, whatever order
\* completions, deadlines, disconnects and hand-overs to waiters come in:
\* each is free, held by one request, or on its way to one waiter.
Owners == {r \in Requests : ctx[r].permit \/ future[r] = "set"}
Queued == {r \in Requests : ctx[r].slot}
CapacityConserved ==
    /\ permits + Cardinality(Owners) = MaxRunning
    /\ queueSlots + Cardinality(Queued) = MaxWaiting

\* No waiter sleeps beside a free permit: one is being woken, and will wake
\* the next, even when the waiter that was handed a permit is cancelled.
NoIdlePermit ==
    permits > 0 /\ (\E r \in Requests : future[r] = "pending") =>
      \E r \in Requests : future[r] = "set"

\* An agent that runs, one that was cancelled and still unwinds included,
\* holds a permit and no queue slot; one that waits in line holds a queue
\* slot and no permit.
RunsWithPermit ==
    \A r \in Requests :
      /\ ctx[r].agent = "running" => ctx[r].permit /\ ~ctx[r].slot
      /\ ctx[r].agent = "queued" => ctx[r].slot /\ ~ctx[r].permit
      /\ ctx[r].agent = "queued" <=> future[r] # "none"

\* A request is finalized by one task: while it is being finalized exactly
\* one monitor cleans up, and a cancel is pending only on its behalf.
OneFinalizer ==
    \A r \in Requests :
      LET Cleaners == {m \in Monitors : ctx[r].monitor[m] = "cleaning"}
      IN  /\ Cleaners # {} <=> ctx[r].phase = "finalizing"
          /\ \A m1, m2 \in Cleaners : m1 = m2
          /\ ctx[r].cancelling => ctx[r].phase = "finalizing"

\* What is published as finalized is over: the agent has exited, it holds
\* no capacity and its outcome was counted once, and not before.
FinalizedIsSettled ==
    \A r \in Requests :
      IF ctx[r].phase = "finalized"
        THEN /\ ctx[r].agent = "done"
             /\ ~ctx[r].permit /\ ~ctx[r].slot /\ future[r] = "none"
             /\ ctx[r].outcome # NULL
             /\ ctx[r].recorded = 1
        ELSE ctx[r].recorded = 0

\* The first claim decides the outcome, later events do not change it; and a
\* request that completes at or after its deadline never succeeds.
OutcomeIsFirst ==
    [][\A r \in Requests : stage'[r] = "admitted" /\ stage[r] = "admitted" =>
         /\ ctx[r].outcome # NULL => ctx'[r].outcome = ctx[r].outcome
         /\ ctx'[r].outcome = "succeeded" /\ ctx[r].outcome = NULL =>
              "deadline_exceeded" \notin ctx[r].due]_vars

\* Execution permits are a pool of max_running slots, seen from the requests
\* that hold them.
Holders == {r \in Requests : ctx[r].permit}
Pool == INSTANCE SlotPool WITH Clients <- Requests, Slots <- MaxRunning,
                               holding <- Holders
PermitsAreASlotPool == Pool!Spec

\* Every request that enters leaves again, with all its tasks gathered, if
\* agents let themselves be cancelled.
EveryRequestEnds ==
    \A r \in Requests : stage[r] = "entered" ~> stage[r] = "new"

\* What the docstring of finalize_request promises to the caller that lost:
\* that it waits for a cleanup that comes to its end.
CleanupEnds ==
    \A r \in Requests : ctx[r].phase = "finalizing" ~> ctx[r].phase = "finalized"
=============================================================================

------------------------------ MODULE RagService ------------------------------
(***************************************************************************)
(* The RAG service of month02_rag_agent/api.py: index builds as tasks of   *)
(* the task manager and as direct requests share index_build_slots; the    *)
(* lifespan closes the manager before it clears what tasks use.  Beside it *)
(* processes of their own build the same index from the command line       *)
(* (app.py) and ask questions to it.                                       *)
(***************************************************************************)
EXTENDS TaskManager, RagQuery

CONSTANTS
    DemoTasks,   \* tasks from POST /v1/tasks, the others are index builds
    Direct,      \* requests to POST /v1/indexes
    CommandLine, \* processes that run main() of app.py
    MaxBuilds    \* max_concurrent_index_builds

ASSUME ServiceAssumption ==
    /\ MaxBuilds \in Nat \ {0}
    /\ DemoTasks \subseteq Tasks
    /\ Builders = (Tasks \ DemoTasks) \cup Direct \cup CommandLine
    /\ Tasks \cap Direct = {} /\ (Tasks \cup Direct) \cap CommandLine = {}

VARIABLES
    slots,       \* index_build_slots
    thread       \* per build of the service: its thread

serviceVars == <<managerVars, indexVars, query, slots, thread>>

IndexTasks == Tasks \ DemoTasks
Threads    == IndexTasks \cup Direct

ServiceTypeOK ==
    /\ ManagerTypeOK /\ IndexTypeOK /\ QueryTypeOK
    /\ slots \in 0..MaxBuilds
    /\ thread \in [Threads -> {"none", "building", "released"}]

ServiceInit == /\ ManagerInit /\ IndexInit /\ QueryInit
               /\ slots = MaxBuilds
               /\ thread = [b \in Threads |-> "none"]

\* The lifespan up to its yield.
StartUp == /\ Start
           /\ slots' = MaxBuilds
           /\ UNCHANGED <<indexVars, query, thread>>

\* create_task, create_index_task: 202, or 503 if the queue is full.
PostTask(t) == Submit(t) /\ UNCHANGED <<indexVars, query, slots, thread>>

TakeTask(w) == Take(w) /\ UNCHANGED <<indexVars, query, slots, thread>>

\* build_index_task, in its thread: it waits for a slot.
AcquireSlot(t) ==
    /\ record[t] = "running"
    /\ thread[t] = "none"
    /\ slots > 0
    /\ slots' = slots - 1
    /\ thread' = [thread EXCEPT ![t] = "building"]
    /\ Enter(t)
    /\ UNCHANGED <<managerVars, query>>

\* create_index: without a slot it answers 503 at once.
PostIndex(d) ==
    /\ phase = "accepting"
    /\ thread[d] = "none"
    /\ slots > 0
    /\ slots' = slots - 1
    /\ thread' = [thread EXCEPT ![d] = "building"]
    /\ Enter(d)
    /\ UNCHANGED <<managerVars, query>>

\* main() of app.py: no slot, one build, exit.
RunMain(c) == (Enter(c) \/ Return(c)) /\ UNCHANGED <<managerVars, query, slots, thread>>

RunBuild(b) == BuildStep(b) /\ UNCHANGED <<managerVars, query, slots, thread>>

\* The end of with, or finally: a result or an exception alike.
OnlyOnSuccess(b) == IF build[b].pc = "returned" THEN 1 ELSE 0       \* mutant
SlotsBack(b)     == 1

ReleaseSlot(b) ==
    /\ thread[b] = "building"
    /\ Over(b)
    /\ slots' = slots + SlotsBack(b)
    /\ thread' = [thread EXCEPT ![b] = "released"]
    /\ UNCHANGED <<managerVars, indexVars, query>>

\* The worker learns how the operation ended.
SettleTask(w) ==
    LET t == worker[w]
    IN  \/ /\ t \in DemoTasks
           /\ Settle(w, "succeeded")
           /\ UNCHANGED <<indexVars, query, slots, thread>>
        \/ /\ t \in IndexTasks
           /\ thread[t] = "released"
           /\ Settle(w, IF build[t].pc = "returned" THEN "succeeded" ELSE "failed")
           /\ Return(t)
           /\ thread' = [thread EXCEPT ![t] = "none"]
           /\ UNCHANGED <<query, slots>>

\* 201, or the answer of an exception handler.
RespondIndex(d) == /\ thread[d] = "released"
                   /\ thread' = [thread EXCEPT ![d] = "none"]
                   /\ Return(d)
                   /\ UNCHANGED <<managerVars, query, slots>>

Ask(q) == QueryStep(q) /\ UNCHANGED <<managerVars, indexVars, slots, thread>>

\* Shutdown: the server finishes the open requests, the lifespan closes the
\* manager, clears embedder and slots, and the process exits.
ShutDown == /\ \A d \in Direct : thread[d] = "none"
            /\ BeginClose
            /\ UNCHANGED <<indexVars, query, slots, thread>>

ClearResources == EndClose /\ UNCHANGED <<indexVars, query, slots, thread>>

Exit == /\ phase = "closed"
        /\ phase' = "new"
        /\ record' = [t \in Tasks |-> "absent"]
        /\ UNCHANGED <<queue, unfinished, worker, indexVars, query, slots, thread>>

\* A power loss ends every process; only files are left.
PowerLoss ==
    /\ PowerFails
    /\ phase' = "new"
    /\ record' = [t \in Tasks |-> "absent"]
    /\ queue' = << >>
    /\ unfinished' = 0
    /\ worker' = [w \in Workers |-> NULL]
    /\ query' = [q \in Readers |-> NoQuery]
    /\ slots' = MaxBuilds
    /\ thread' = [b \in Threads |-> "none"]

ServiceNext ==
    \/ StartUp \/ ShutDown \/ ClearResources \/ Exit \/ PowerLoss
    \/ \E t \in Tasks : PostTask(t)
    \/ \E w \in Workers : TakeTask(w) \/ SettleTask(w)
    \/ \E t \in IndexTasks : AcquireSlot(t)
    \/ \E d \in Direct : PostIndex(d) \/ RespondIndex(d)
    \/ \E c \in CommandLine : RunMain(c)
    \/ \E b \in Builders : RunBuild(b)
    \/ \E b \in Threads : ReleaseSlot(b)
    \/ \E q \in Readers : Ask(q)

ServiceSpec == ServiceInit /\ [][ServiceNext]_serviceVars

\* The event loop and the threads go on; a thread that waits for a slot does
\* not lose it to direct requests for ever.
FairServiceSpec ==
    /\ ServiceSpec
    /\ \A w \in Workers : WF_serviceVars(TakeTask(w) \/ SettleTask(w))
    /\ \A t \in IndexTasks : SF_serviceVars(AcquireSlot(t))
    /\ \A b \in Threads : WF_serviceVars(RunBuild(b) \/ ReleaseSlot(b))
    /\ WF_serviceVars(ClearResources)

-----------------------------------------------------------------------------
(* Properties.                                                             *)

\* No more builds than slots run in the service, and a slot is neither lost
\* nor given back twice, however a build ends and whoever started it.
BuildSlotsConserved ==
    slots + Cardinality({b \in Threads : thread[b] = "building"}) = MaxBuilds

\* When the lifespan clears the embedder and the slots, every task that was
\* accepted has ended and no thread of the service uses them any more.
ResourcesOutliveTasks ==
    phase = "closed" =>
      /\ \A t \in Tasks : record[t] \notin {"queued", "running"}
      /\ \A b \in Threads : thread[b] = "none"

\* An accepted task comes to its end (or the power fails), behind direct
\* builds and other tasks, while the service runs and while it closes; and
\* a shutdown comes to its end.
ServiceSettles ==
    /\ \A t \in Tasks : record[t] = "queued" ~> record[t] \notin {"queued", "running"}
    /\ phase = "closing" ~> phase # "closing"
=============================================================================

------------------------------ MODULE AgentLoop ------------------------------
(***************************************************************************)
(* The agent of month01_agent_loop: LLMAgent.run (agent.py) asks the model *)
(* for an action, executes it through the tool runtime (executor.py,       *)
(* tool_runtime.py) and saves a checkpoint after every observation         *)
(* (checkpoint.py).  A run that ended early, or whose process died, can be *)
(* resumed from the latest checkpoint of its thread.  Each caller of the   *)
(* runtime is an agent here, with a thread_id of its own.                  *)
(***************************************************************************)
EXTENDS ToolRuntime, Sequences

CONSTANTS
    MaxSteps,      \* max_steps
    MaxRuns,       \* bound of the model on runs per thread
    MaxCrashes     \* bound of the model on deaths of the process

\* What a checkpoint restores: action_history, whose length is next_step, and
\* whether last_observation is a TOOL_ERROR.
Observations == {"none", "ok", "error"}
Checkpoint == [history : Seq(Operations), observation : Observations]

ASSUME AgentAssumption == /\ MaxSteps \in Nat \ {0}
                          /\ MaxRuns \in Nat /\ MaxCrashes \in Nat
                          /\ NULL \notin Checkpoint

VARIABLES
    agent,       \* per thread: the run in progress
    context,     \* per thread: its ExecutionContext, cancelled or timed out
    disk,        \* per thread: its checkpoints, by checkpoint_id
    performed,   \* per thread: operations that had their effect
    runs,        \* per thread: runs so far
    crashes      \* deaths of the process so far

vars == <<runtimeVars, agent, context, disk, performed, runs, crashes>>

Checkpoints == 1..MaxSteps
NothingYet == [history |-> << >>, observation |-> "none"]
NoRun == [pc |-> "idle", step |-> 0, history |-> << >>, observation |-> "none"]

AgentTypeOK ==
    /\ RuntimeTypeOK
    /\ agent \in [Callers ->
         [pc : {"idle", "check", "model", "action", "tool", "save"},
          step : 0..MaxSteps, history : Seq(Operations),
          observation : Observations]]
    /\ context \in [Callers -> {"active", "timed_out", "cancelled"}]
    /\ disk \in [Callers -> [Checkpoints -> Checkpoint \cup {NULL}]]
    /\ performed \in [Callers -> SUBSET Operations]
    /\ runs \in [Callers -> 0..MaxRuns]
    /\ crashes \in 0..MaxCrashes

Init == /\ RuntimeInit
        /\ agent = [c \in Callers |-> NoRun]
        /\ context = [c \in Callers |-> "active"]
        /\ disk = [c \in Callers |-> [n \in Checkpoints |-> NULL]]
        /\ performed = [c \in Callers |-> {}]
        /\ runs = [c \in Callers |-> 0]
        /\ crashes = 0

Elements(s) == {s[i] : i \in DOMAIN s}

\* load_latest: the file with the greatest checkpoint_id.
Saved(c)  == {n \in Checkpoints : disk[c][n] # NULL}
Latest(c) == CHOOSE n \in Saved(c) : \A m \in Saved(c) : m <= n

-----------------------------------------------------------------------------
(* Runs.                                                                   *)

Begin(c, step, checkpoint) ==
    /\ agent[c].pc = "idle"
    /\ runs[c] < MaxRuns
    /\ runs' = [runs EXCEPT ![c] = @ + 1]
    /\ agent' = [agent EXCEPT ![c] =
                    [pc |-> "check", step |-> step,
                     history |-> checkpoint.history,
                     observation |-> checkpoint.observation]]
    /\ context' = [context EXCEPT ![c] = "active"]
    /\ UNCHANGED <<runtimeVars, disk, performed, crashes>>

\* run(resume=False), for a thread_id without checkpoints, as the default
\* uuid is; nothing keeps a caller from naming a used one.
StartRun(c) == /\ Saved(c) = {}
               /\ Begin(c, 0, NothingYet)

\* run(resume=True)
ForgetsHistory(c) ==                                                \* mutant
    [disk[c][Latest(c)] EXCEPT !.history = << >>]
Restored(c) == disk[c][Latest(c)]
ResumeRun(c) == /\ Saved(c) # {}
                /\ Begin(c, Latest(c), Restored(c))

\* A run that ends without another checkpoint, however it ends.
EndRun(c) == agent' = [agent EXCEPT ![c] = NoRun]

Proceed(c, from, to) == /\ agent[c].pc = from
                        /\ agent' = [agent EXCEPT ![c].pc = to]

\* ExecutionContext.cancel by another thread, or the deadline.  Cancelling
\* takes precedence.
Interrupt(c, why) ==
    /\ agent[c].pc # "idle"
    /\ context[c] = "active" \/ why = "cancelled"
    /\ context' = [context EXCEPT ![c] = why]
    /\ UNCHANGED <<runtimeVars, agent, disk, performed, runs, crashes>>

\* The head of the loop: max_steps_exceeded, check_active.
CheckStep(c) ==
    /\ agent[c].pc = "check"
    /\ IF agent[c].step < MaxSteps /\ context[c] = "active"
         THEN Proceed(c, "check", "model") ELSE EndRun(c)
    /\ UNCHANGED <<runtimeVars, context, disk, performed, runs, crashes>>

\* call_llm fails or runs out of time; or the action is Finish, or none that
\* can be parsed.
ModelEndsRun(c) ==
    /\ agent[c].pc = "model"
    /\ EndRun(c)
    /\ UNCHANGED <<runtimeVars, context, disk, performed, runs, crashes>>

\* call_llm names a tool: an action in action_history ends the run.
Repeats(c, op) == op \in Elements(agent[c].history)
ModelNamesTool(c, op) ==
    /\ agent[c].pc = "model"
    /\ IF Repeats(c, op) THEN EndRun(c)
       ELSE agent' = [agent EXCEPT ![c].pc = "action",
                                   ![c].history = Append(@, op)]
    /\ UNCHANGED <<runtimeVars, context, disk, performed, runs, crashes>>

\* execute_action: check_active once more, then ToolRuntime.run.
ExecuteAction(c) ==
    /\ agent[c].pc = "action"
    /\ context[c] = "active"
    /\ Acquire(c, agent[c].history[Len(agent[c].history)])
    /\ Proceed(c, "action", "tool")
    /\ UNCHANGED <<context, disk, performed, runs, crashes>>

ExecuteRefused(c) ==
    /\ agent[c].pc = "action"
    /\ context[c] # "active" \/ Overloaded(c)
    /\ EndRun(c)
    /\ UNCHANGED <<runtimeVars, context, disk, performed, runs, crashes>>

RunTool(c) == /\ RunStep(c)
              /\ UNCHANGED <<agent, context, disk, performed, runs, crashes>>

\* Mutant: the answer to a timeout is an observation like any other.
AnyAnswer(c) == call[c].pc \in {"result", "timeout"}
Observed(c) == call[c].pc = "result"

\* success: whatever does not say TOOL_ERROR.
Observation(c) == IF future[call[c].f].state = "failed" THEN "error" ELSE "ok"

\* A timeout, or an exception that run() lets through, ends the run.
ToolReturns(c) ==
    /\ agent[c].pc = "tool"
    /\ Leave(c)
    /\ IF Observed(c)
         THEN agent' = [agent EXCEPT ![c].pc = "save",
                                     ![c].observation = Observation(c)]
         ELSE EndRun(c)
    /\ UNCHANGED <<context, disk, performed, runs, crashes>>

\* CheckpointStore.save: a complete file replaces the one of that id, if
\* there is one.  The temporary file is no .json file; nobody loads it.
\* simulate_crash_after_step may end the run behind it.
SaveCheckpoint(c, goesOn) ==
    /\ agent[c].pc = "save"
    /\ LET n == agent[c].step + 1
       IN  /\ disk' = [disk EXCEPT ![c][n] =
                          [history     |-> agent[c].history,
                           observation |-> agent[c].observation]]
           /\ agent' = [agent EXCEPT ![c] = IF goesOn
                          THEN [@ EXCEPT !.pc = "check", !.step = n] ELSE NoRun]
    /\ UNCHANGED <<runtimeVars, context, performed, runs, crashes>>

\* Writing or replacing the file fails: the exception leaves run().
SaveFails(c) ==
    /\ agent[c].pc = "save"
    /\ EndRun(c)
    /\ UNCHANGED <<runtimeVars, context, disk, performed, runs, crashes>>

-----------------------------------------------------------------------------
RunPool(f) == /\ PoolStep(f)
              /\ UNCHANGED <<agent, context, disk, performed, runs, crashes>>

PerformTool(f) ==
    /\ Perform(f)
    /\ performed' = [performed EXCEPT ![future[f].owner] = @ \cup {future[f].op}]
    /\ UNCHANGED <<agent, context, disk, runs, crashes>>

\* The process dies, with all its threads; the disk and the effects stay.
Crash ==
    /\ crashes < MaxCrashes
    /\ crashes' = crashes + 1
    /\ call' = [c \in Callers |-> NoCall]
    /\ future' = [f \in Futures |-> NoFuture]
    /\ permits' = Permits
    /\ inFlight' = 0
    /\ agent' = [c \in Callers |-> NoRun]
    /\ context' = [c \in Callers |-> "active"]
    /\ UNCHANGED <<disk, performed, runs>>

Next == \/ \E c \in Callers :
             \/ StartRun(c) \/ ResumeRun(c) \/ CheckStep(c)
             \/ ModelEndsRun(c) \/ ExecuteAction(c) \/ ExecuteRefused(c)
             \/ RunTool(c) \/ ToolReturns(c) \/ SaveFails(c)
             \/ \E goesOn \in BOOLEAN : SaveCheckpoint(c, goesOn)
             \/ \E op \in Operations : ModelNamesTool(c, op)
             \/ \E why \in {"timed_out", "cancelled"} : Interrupt(c, why)
        \/ \E f \in Futures : RunPool(f) \/ PerformTool(f)
        \/ Crash

Spec == Init /\ [][Next]_vars

-----------------------------------------------------------------------------
(* Properties.                                                             *)

\* Every checkpoint can be trusted, through crashes, timeouts and resumes:
\* its next_step is the number of actions in its history, no action occurs
\* twice, it continues the checkpoint before it, and unless it reports an
\* error the last action had its effect.  Of an action that ended with
\* TOOL_ERROR nothing is known.
CheckpointsAreTrue ==
    \A c \in Callers : \A n \in Saved(c) :
      LET history == disk[c][n].history
      IN  /\ Len(history) = n
          /\ \A i, j \in 1..n : history[i] = history[j] => i = j
          /\ disk[c][n].observation = "ok" => history[n] \in performed[c]
          /\ n > 1 => n - 1 \in Saved(c)
                      /\ disk[c][n - 1].history = SubSeq(history, 1, n - 1)

\* A tool call whose checkpoint was saved is never handed to the pool again,
\* in whichever run of the thread and whatever the model asks for.  One that
\* failed is not tried again either.
SavedCallsAreNotRepeated ==
    [][\A f \in Futures :
         LET new == future'[f]
         IN  new.state = "queued" /\ new # future[f] =>
               \A n \in Saved(new.owner) :
                 new.op \notin Elements(disk[new.owner][n].history)]_vars
=============================================================================

----------------------------- MODULE ToolRuntime -----------------------------
(***************************************************************************)
(* The tool runtime of month01_agent_loop/tool_runtime.py: callers run     *)
(* operations in a thread pool, a semaphore bounds what is in flight, and  *)
(* a caller that waits too long leaves its operation behind.  The pool and *)
(* its futures (concurrent.futures) are modelled from their use.           *)
(*                                                                         *)
(* A future's done callback runs in the thread that ended the future, or   *)
(* at once in the caller's when it is attached too late.  It takes two     *)
(* steps, and the result can be read before the first.                     *)
(***************************************************************************)
EXTENDS Integers, FiniteSets

CONSTANTS
    Callers,     \* threads that call run()
    Operations,
    Futures,     \* identities for futures; one is used again when it is over
    PoolSize,    \* max_workers of the pool
    Permits,     \* capacity
    NULL

ASSUME RuntimeAssumption == /\ PoolSize \in Nat \ {0} /\ Permits \in Nat \ {0}
                            /\ NULL \notin Futures \cup Operations \cup Callers

VARIABLES
    call,      \* per caller: where run() is, its operation and its future
    future,    \* the futures
    permits,   \* _capacity_limiter
    inFlight   \* _in_flight

runtimeVars == <<call, future, permits, inFlight>>

\* "out": not in run(); the last three are ways to leave it.
CallState == {"out", "submit", "count", "attach", "attached", "wait", "cancel",
              "cancelled", "result", "timeout", "raised"}
Call == [pc : CallState, op : Operations \cup {NULL}, f : Futures \cup {NULL}]
NoCall == [pc |-> "out", op |-> NULL, f |-> NULL]

\* "finished" and "failed" are the ends of an operation that ran: both are
\* answers for the caller, the second one a TOOL_ERROR.
Future == [state    : {"none", "queued", "running", "performed", "finished",
                       "failed", "cancelled"},
           callback : {"unset", "set", "counted", "done"},
           op       : Operations \cup {NULL},
           owner    : Callers \cup {NULL}]
NoFuture == [state |-> "none", callback |-> "unset", op |-> NULL, owner |-> NULL]

RuntimeTypeOK == /\ call \in [Callers -> Call]
                 /\ future \in [Futures -> Future]
                 /\ permits \in 0..Permits
                 /\ inFlight \in 0..Permits

RuntimeInit == /\ call = [c \in Callers |-> NoCall]
               /\ future = [f \in Futures |-> NoFuture]
               /\ permits = Permits
               /\ inFlight = 0

Answered(f) == future[f].state \in {"finished", "failed"}
Ended(f) == Answered(f) \/ future[f].state = "cancelled"
Live(f)  == future[f].state \in {"queued", "running", "performed"}

GoTo(c, from, to) == /\ call[c].pc = from
                     /\ call' = [call EXCEPT ![c].pc = to]

-----------------------------------------------------------------------------
(* run(), by the caller.                                                   *)

\* acquire(blocking=False); a caller that finds no permit is refused.
Overloaded(c) == call[c].pc = "out" /\ permits = 0

Acquire(c, op) ==
    /\ call[c].pc = "out"
    /\ permits > 0
    /\ permits' = permits - 1
    /\ call' = [call EXCEPT ![c] = [pc |-> "submit", op |-> op, f |-> NULL]]
    /\ UNCHANGED <<future, inFlight>>

\* An identity nobody refers to any more.
Unused(f) == /\ future[f].state = "none" \/ future[f].callback = "done"
             /\ \A c \in Callers : call[c].f # f

Submit(c, f) ==
    /\ call[c].pc = "submit"
    /\ Unused(f)
    /\ future' = [future EXCEPT ![f] = [state |-> "queued", callback |-> "unset",
                                        op |-> call[c].op, owner |-> c]]
    /\ call' = [call EXCEPT ![c].pc = "count", ![c].f = f]
    /\ UNCHANGED <<permits, inFlight>>

\* executor.submit raises: there is no future whose end gives the permit back.
SubmitFails(c) ==
    /\ GoTo(c, "submit", "raised")
    /\ permits' = permits + 1
    /\ UNCHANGED <<future, inFlight>>

Count(c) == /\ GoTo(c, "count", "attach")
            /\ inFlight' = inFlight + 1
            /\ UNCHANGED <<future, permits>>

\* add_done_callback
Attach(c) == /\ GoTo(c, "attach", "attached")
             /\ future' = [future EXCEPT ![call[c].f].callback = "set"]
             /\ UNCHANGED <<permits, inFlight>>

\* If the operation was faster, the callback has to run here first.
Tardy(f) == Ended(f) /\ future[f].callback # "done"
AfterAttach(c) == /\ GoTo(c, "attached", "wait")
                  /\ ~Tardy(call[c].f)
                  /\ UNCHANGED <<future, permits, inFlight>>

\* future.result: the state is set before the callbacks run.
GetResult(c) == /\ GoTo(c, "wait", "result")
                /\ Answered(call[c].f)
                /\ UNCHANGED <<future, permits, inFlight>>

TimeOut(c) == /\ GoTo(c, "wait", "cancel")
              /\ ~Ended(call[c].f)
              /\ UNCHANGED <<future, permits, inFlight>>

\* future.cancel: a queued operation will not run, a running one goes on.
AfterCancel(state) == IF state = "queued" THEN "cancelled" ELSE state

Cancel(c) ==
    /\ GoTo(c, "cancel", "cancelled")
    /\ future' = [future EXCEPT ![call[c].f].state = AfterCancel(@)]
    /\ UNCHANGED <<permits, inFlight>>

\* Mutant: the permit is given back in a finally, too.
ReleasesPermit(c) ==
    /\ GoTo(c, "cancelled", "timeout")
    /\ permits' = permits + 1
    /\ UNCHANGED <<future, inFlight>>
\* A cancel that succeeded runs the callback before it returns.
GiveUp(c) ==
    /\ GoTo(c, "cancelled", "timeout")
    /\ future[call[c].f].state = "cancelled" =>
         future[call[c].f].callback = "done"
    /\ UNCHANGED <<future, permits, inFlight>>

Leave(c) == /\ call[c].pc \in {"result", "timeout", "raised"}
            /\ call' = [call EXCEPT ![c] = NoCall]
            /\ UNCHANGED <<future, permits, inFlight>>

-----------------------------------------------------------------------------
(* The pool.                                                               *)

Running == {f \in Futures : future[f].state \in {"running", "performed"}}

\* The queue of the pool is first in, first out, and a worker is busy until
\* the callback has run; here any queued operation may start, and a little
\* earlier than that.
StartOperation(f) ==
    /\ future[f].state = "queued"
    /\ Cardinality(Running) < PoolSize
    /\ future' = [future EXCEPT ![f].state = "running"]
    /\ UNCHANGED <<call, permits, inFlight>>

\* The operation has its effect, or the first of it that anybody can see.
Perform(f) == /\ future[f].state = "running"
              /\ future' = [future EXCEPT ![f].state = "performed"]
              /\ UNCHANGED <<call, permits, inFlight>>

Finish(f) == /\ future[f].state = "performed"
             /\ future' = [future EXCEPT ![f].state = "finished"]
             /\ UNCHANGED <<call, permits, inFlight>>

\* run_tool turns whatever the tool raises into an answer, as the tools do
\* themselves: before their effect, in the middle of it or after it.
Fail(f) == /\ future[f].state \in {"running", "performed"}
           /\ future' = [future EXCEPT ![f].state = "failed"]
           /\ UNCHANGED <<call, permits, inFlight>>

\* _on_future_done
CountDown(f) == /\ Ended(f) /\ future[f].callback = "set"
                /\ inFlight' = inFlight - 1
                /\ future' = [future EXCEPT ![f].callback = "counted"]
                /\ UNCHANGED <<call, permits>>

ReleasePermit(f) == /\ future[f].callback = "counted"
                    /\ permits' = permits + 1
                    /\ future' = [future EXCEPT ![f].callback = "done"]
                    /\ UNCHANGED call
                    /\ UNCHANGED inFlight

RunStep(c) == \/ (\E f \in Futures : Submit(c, f)) \/ SubmitFails(c)
              \/ Count(c) \/ Attach(c) \/ AfterAttach(c)
              \/ GetResult(c) \/ TimeOut(c) \/ Cancel(c) \/ GiveUp(c)

\* Perform is left to whoever knows what the operation does.
PoolStep(f) == \/ StartOperation(f) \/ Finish(f) \/ Fail(f)
               \/ CountDown(f) \/ ReleasePermit(f)

-----------------------------------------------------------------------------
(* Properties.                                                             *)

\* Futures that still own a permit, and callers that hold one themselves.
Charged == {f \in Futures : future[f].state # "none" /\ future[f].callback # "done"}
Holding == {c \in Callers : call[c].pc = "submit"}
Counted == {f \in Charged : /\ future[f].callback # "counted"
                            /\ \A c \in Callers : call[c].f = f => call[c].pc # "count"}

\* Every permit is free, in the hands of a caller or charged to one future,
\* through timeouts, cancellations, failed submissions and operations that
\* end before their callback is attached: so what runs and what is queued
\* never exceeds the capacity, though callers no longer wait for it, and the
\* gauge never counts an operation twice or below zero.
PermitsCoverFutures ==
    /\ permits + Cardinality(Charged) + Cardinality(Holding) = Permits
    /\ {f \in Futures : Live(f)} \subseteq Charged
    /\ inFlight = Cardinality(Counted)
=============================================================================

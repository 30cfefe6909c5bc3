------------------------------ MODULE ToolCalls ------------------------------
(***************************************************************************)
(* Tool calls of a durable task.  The ledger tool_calls (task_store.py)    *)
(* lets a call with effects outside the database be sent at most once,     *)
(* however often its task is retried or taken over, and makes the counter  *)
(* tool, whose effect is in the same database, happen exactly once.        *)
(* run_external_tool_once and its reconciliation (worker.py) run over it.  *)
(* The service that performs an external call is outside the repository.   *)
(***************************************************************************)
EXTENDS TaskStore

CONSTANTS
    Calls,       \* logical positions (step_index, call_index) within a task
    Inputs,      \* inputs of an external call, told apart by fingerprint
    Counters,    \* names of demo counters
    Senders,     \* processes that execute run_external_tool_once
    MaxDeaths,   \* bound of the model on deaths of senders
    Verified     \* positions reconciled only once their sender has exited

ASSUME ToolAssumption == /\ Inputs \cap Counters = {}
                         /\ NULL \notin Inputs \cup Counters
                         /\ NULL \notin Tasks \X Calls
                         /\ MaxDeaths \in Nat
                         /\ Verified \subseteq Calls

VARIABLES
    ledger,     \* tool_calls: per task and position a row, or NoCall
    counters,   \* demo_counters
    sender,     \* the processes
    deaths,     \* deaths so far
    requests,   \* at the service: requests received, by call
    performed   \* at the service: requests carried out, by call

toolVars == <<ledger, counters, sender, deaths, requests, performed>>
allVars  == <<vars, toolVars>>

NoCall == [status |-> "none", input |-> NULL]
Positions == Tasks \X Calls

\* input stands for tool_name and input_fingerprint.
CallRow == [status : {"none", "started", "unknown", "succeeded"},
            input  : Inputs \cup Counters \cup {NULL}]

Absent == [pc |-> "idle", call |-> NULL]

ToolTypeOK ==
    /\ TypeOK
    /\ ledger \in [Positions -> CallRow]
    /\ counters \in [Counters -> Nat]
    /\ sender \in [Senders ->
         [pc   : {"idle", "prepared", "waiting", "timeout", "receipt"},
          call : Positions \cup {NULL}]]
    /\ deaths \in 0..MaxDeaths
    /\ requests \in [Positions -> Nat]
    /\ performed \in [Positions -> Nat]

ToolInit ==
    /\ Init
    /\ ledger = [p \in Positions |-> NoCall]
    /\ counters = [c \in Counters |-> 0]
    /\ sender = [s \in Senders |-> Absent]
    /\ deaths = 0
    /\ requests = [p \in Positions |-> 0]
    /\ performed = [p \in Positions |-> 0]

-----------------------------------------------------------------------------
(* The ledger.                                                             *)

\* Both tools ask that the task runs and that the caller names its latest
\* attempt.  The lease itself is not looked at.
IsCurrent(t, n) == /\ task[t].status = "running"
                   /\ attempts[t] # << >>
                   /\ n = Len(attempts[t])
                   /\ attempts[t][n] = "running"

\* Who inserts the row may send: INSERT ... ON CONFLICT DO NOTHING.
UnlessSettled(row) == row.status \in {"none", "started"}            \* mutant
MayInsert(row) == row.status = "none"

\* try_prepare_external_tool_call by an idle process.  Any other answer
\* (not current, another input, started, unknown, the saved result) sends
\* nothing and changes nothing.
PrepareExternalToolCall(s, t, n, c, input) ==
    /\ sender[s].pc = "idle"
    /\ IsCurrent(t, n)
    /\ MayInsert(ledger[<<t, c>>])
    /\ ledger' = [ledger EXCEPT ![<<t, c>>] =
                    [status |-> "started", input |-> input]]
    /\ sender' = [sender EXCEPT ![s] = [pc |-> "prepared", call |-> <<t, c>>]]
    /\ UNCHANGED <<vars, counters, deaths, requests, performed>>

\* UPDATE ... WHERE status = 'started': the row is settled once.
Overwritten(row, status) == [row EXCEPT !.status = status]          \* mutant
Settled(row, status) ==
    IF row.status = "started" THEN [row EXCEPT !.status = status] ELSE row

\* try_increment_counter_once: effect and ledger row in one transaction.
CountAgain(p, name) == TRUE                                         \* mutant
FirstTime(p, name) == ledger[p].status = "none"

IncrementCounterOnce(t, n, c, name) ==
    /\ IsCurrent(t, n)
    /\ FirstTime(<<t, c>>, name)
    /\ counters' = [counters EXCEPT ![name] = @ + 1]
    /\ ledger' = [ledger EXCEPT ![<<t, c>>] =
                    [status |-> "succeeded", input |-> name]]
    /\ UNCHANGED <<vars, sender, deaths, requests, performed>>

-----------------------------------------------------------------------------
(* run_external_tool_once after it inserted the row.                       *)

Step(s, from, to) == /\ sender[s].pc = from
                     /\ sender' = [sender EXCEPT ![s].pc = to]

Done(s, from) == /\ sender[s].pc = from
                 /\ sender' = [sender EXCEPT ![s] = Absent]

Settle(p, status) == ledger' = [ledger EXCEPT ![p] = Settled(@, status)]

Send(s) ==
    /\ Step(s, "prepared", "waiting")
    /\ requests' = [requests EXCEPT ![sender[s].call] = @ + 1]
    /\ UNCHANGED <<vars, ledger, counters, deaths, performed>>

\* The service, at any time later or never.
Perform(p) ==
    /\ performed[p] < requests[p]
    /\ performed' = [performed EXCEPT ![p] = @ + 1]
    /\ UNCHANGED <<vars, ledger, counters, sender, deaths, requests>>

Receive(s) ==
    /\ Step(s, "waiting", "receipt")
    /\ performed[sender[s].call] > 0
    /\ UNCHANGED <<vars, ledger, counters, deaths, requests, performed>>

\* Mutant: no answer is taken for a receipt.
TimeOutIsSuccess(s) ==
    /\ Step(s, "waiting", "receipt")
    /\ UNCHANGED <<vars, ledger, counters, deaths, requests, performed>>

TimeOut(s) ==
    /\ Step(s, "waiting", "timeout")
    /\ UNCHANGED <<vars, ledger, counters, deaths, requests, performed>>

MarkUnknown(s) ==
    /\ Done(s, "timeout")
    /\ Settle(sender[s].call, "unknown")
    /\ UNCHANGED <<vars, counters, deaths, requests, performed>>

\* try_succeed_external_tool_call.  When the database fails, the receipt
\* travels on in ExternalToolReceiptPending and this is tried again: the
\* sender stays in "receipt".
RecordReceipt(s) ==
    /\ Done(s, "receipt")
    /\ Settle(sender[s].call, "succeeded")
    /\ UNCHANGED <<vars, counters, deaths, requests, performed>>

Die(s) ==
    /\ sender[s].pc # "idle"
    /\ deaths < MaxDeaths
    /\ deaths' = deaths + 1
    /\ sender' = [sender EXCEPT ![s] = Absent]
    /\ UNCHANGED <<vars, ledger, counters, requests, performed>>

\* reconcile_external_tool_call_after_sender_exit: the name is a promise of
\* whoever calls it, and nothing checks it.
ReconcileAfterSenderExit(t, c) ==
    /\ ledger[<<t, c>>].status = "started"
    /\ c \in Verified => \A s \in Senders : sender[s].call # <<t, c>>
    /\ Settle(<<t, c>>, "unknown")
    /\ UNCHANGED <<vars, counters, sender, deaths, requests, performed>>

-----------------------------------------------------------------------------
SenderStep(s) ==
    Send(s) \/ Receive(s) \/ TimeOut(s) \/ MarkUnknown(s) \/ RecordReceipt(s)

ToolNext ==
    \/ Next /\ UNCHANGED toolVars
    \/ \E t \in Tasks, c \in Calls :
         \/ \E n \in Numbers(t) :
              \/ \E s \in Senders, i \in Inputs :
                   PrepareExternalToolCall(s, t, n, c, i)
              \/ \E name \in Counters : IncrementCounterOnce(t, n, c, name)
         \/ ReconcileAfterSenderExit(t, c)
         \/ Perform(<<t, c>>)
    \/ \E s \in Senders : SenderStep(s) \/ Die(s)

ToolSpec == ToolInit /\ [][ToolNext]_allVars

-----------------------------------------------------------------------------
(* Properties.                                                             *)

\* No call is sent twice, through retries, takeovers, stale callers, deaths
\* of senders and timeouts; so none is carried out twice.
SentAtMostOnce ==
    \A p \in Positions : performed[p] <= requests[p] /\ requests[p] <= 1

\* A call recorded as succeeded was carried out: a result that later
\* attempts reuse is the result of a real effect.
SucceededWasPerformed ==
    \A p \in Positions :
      ledger[p].status = "succeeded" /\ ledger[p].input \in Inputs =>
        performed[p] = 1

\* While a sender may still send or record, no other sender has its call,
\* and the row it inserted waits for it (unless the call was reconciled too
\* early): no receipt in hand is ever refused by the ledger.
SenderOwnsItsCall ==
    \A s \in Senders : sender[s].pc # "idle" =>
      /\ sender[s].call[2] \in Verified =>
           ledger[sender[s].call].status = "started"
      /\ \A u \in Senders \ {s} : sender[u].call # sender[s].call

\* The counter shows exactly the ledger rows of its calls.
CounterMatchesLedger ==
    \A name \in Counters :
      counters[name] =
        Cardinality({p \in Positions : ledger[p].input = name})

\* A ledger row is written once and settled once, whoever reports late: the
\* input stays, and unknown never becomes succeeded or the reverse.
LedgerIsFinal ==
    [][\A p \in Positions : ledger[p].status # "none" =>
         /\ ledger'[p].input = ledger[p].input
         /\ ledger[p].status # "started" => ledger'[p] = ledger[p]]_allVars
=============================================================================

--------------------------- MODULE ToolCallsProofs ---------------------------
(***************************************************************************)
(* Proofs about ToolCalls: an external call is sent at most once and a     *)
(* recorded success is real, whether or not reconciliation waits for the   *)
(* sender to be gone; a sender owns its call and, if reconciliation        *)
(* waits, finds its row as it left it; settled rows are final; and the     *)
(* counters agree with the ledger.  Any number of tasks, senders, calls    *)
(* and deaths.  Nothing is used of the task store but that it does not     *)
(* touch the ledger, so the argument is independent of leases.             *)
(***************************************************************************)
EXTENDS ToolCalls, TLAPS, FiniteSetTheorems

\* The types the argument needs.
LedgerTypeOK ==
    /\ ledger \in [Positions -> CallRow]
    /\ sender \in [Senders ->
         [pc   : {"idle", "prepared", "waiting", "timeout", "receipt"},
          call : Positions \cup {NULL}]]
    /\ requests \in [Positions -> Nat]
    /\ performed \in [Positions -> Nat]

\* SentAtMostOnce alone is not inductive: it needs that the right to send is
\* held by one process at most, and only for a row that is in the ledger.
SendRight ==
    /\ \A s \in Senders : sender[s].pc # "idle" =>
         /\ sender[s].call \in Positions
         /\ ledger[sender[s].call].status # "none"
         /\ ledger[sender[s].call].input \in Inputs
         /\ \A u \in Senders \ {s} : sender[u].call # sender[s].call
         /\ sender[s].pc = "prepared" => requests[sender[s].call] = 0
         /\ sender[s].pc = "receipt" => performed[sender[s].call] > 0
    /\ \A s \in Senders : sender[s].pc = "idle" => sender[s].call = NULL
    /\ \A p \in Positions :
         ledger[p].status = "none" => requests[p] = 0 /\ ledger[p].input = NULL

ToolInv == LedgerTypeOK /\ SendRight /\ SentAtMostOnce /\ SucceededWasPerformed

LEMMA ToolInvInit == ToolInit => ToolInv
BY ToolAssumption
   DEF ToolInit, ToolInv, Positions, LedgerTypeOK, SendRight, SentAtMostOnce,
       SucceededWasPerformed, NoCall, Absent, CallRow

\* A settled row keeps its type and input, and no row appears.
LEMMA SettledRow ==
    ASSUME NEW row \in CallRow, NEW status \in {"unknown", "succeeded"}
    PROVE  /\ Settled(row, status) \in CallRow
           /\ Settled(row, status).input = row.input
           /\ Settled(row, status).status = "none" <=> row.status = "none"
           /\ Settled(row, status).status = "succeeded" =>
                row.status = "succeeded" \/ status = "succeeded"
BY DEF Settled, CallRow

\* A sender that ends its part, with or without settling its row.
LEMMA LeavingKeepsInv ==
    ASSUME ToolInv,
           NEW s \in Senders, sender[s].pc # "idle",
           sender' = [sender EXCEPT ![s] = Absent],
           UNCHANGED <<requests, performed>>,
           NEW status \in {"unknown", "succeeded"},
           status = "succeeded" => sender[s].pc = "receipt",
           \/ ledger' = ledger
           \/ ledger' = [ledger EXCEPT ![sender[s].call] = Settled(@, status)]
    PROVE  ToolInv'
<1> DEFINE p == sender[s].call
<1>1. /\ p \in Positions
      /\ \A u \in Senders \ {s} : sender[u].call # p
      /\ ledger[p].status # "none"
      /\ status = "succeeded" => performed[p] = 1
  <2>1. /\ p \in Positions
        /\ \A u \in Senders \ {s} : sender[u].call # p
        /\ ledger[p].status # "none"
        /\ sender[s].pc = "receipt" => performed[p] > 0
    BY DEF ToolInv, SendRight
  <2>2. performed[p] \in Nat /\ requests[p] \in Nat
    BY <2>1 DEF ToolInv, LedgerTypeOK
  <2>3. performed[p] <= requests[p] /\ requests[p] <= 1
    BY <2>1 DEF ToolInv, SentAtMostOnce
  <2> HIDE DEF p
  <2> QED
    BY <2>1, <2>2, <2>3
<1>2. \A q \in Positions :
        /\ ledger'[q].input = ledger[q].input
        /\ ledger'[q].status = "none" <=> ledger[q].status = "none"
        /\ ledger'[q].status = "succeeded" =>
             ledger[q].status = "succeeded" \/ (q = p /\ status = "succeeded")
  <2>1. ledger \in [Positions -> CallRow]
    BY DEF ToolInv, LedgerTypeOK
  <2>2. CASE ledger' = ledger
    BY <2>2
  <2>3. CASE ledger' = [ledger EXCEPT ![p] = Settled(@, status)]
    <3>1. ledger'[p] = Settled(ledger[p], status) /\ ledger[p] \in CallRow
      BY <1>1, <2>1, <2>3
    <3>2. \A q \in Positions \ {p} : ledger'[q] = ledger[q]
      BY <1>1, <2>1, <2>3
    <3>3. /\ ledger'[p].input = ledger[p].input
          /\ ledger'[p].status = "none" <=> ledger[p].status = "none"
          /\ ledger'[p].status = "succeeded" =>
               ledger[p].status = "succeeded" \/ status = "succeeded"
      BY <3>1, SettledRow
    <3> QED
      BY <3>2, <3>3
  <2> QED
    BY <2>2, <2>3
<1>3. LedgerTypeOK'
  <2>1. sender' \in [Senders ->
             [pc   : {"idle", "prepared", "waiting", "timeout", "receipt"},
              call : Positions \cup {NULL}]]
    BY DEF ToolInv, LedgerTypeOK, Absent
  <2>2. Settled(ledger[p], status) \in CallRow
    BY <1>1, SettledRow DEF ToolInv, LedgerTypeOK
  <2>3. ledger' \in [Positions -> CallRow]
    BY <2>2 DEF ToolInv, LedgerTypeOK
  <2> QED
    BY <2>1, <2>3 DEF ToolInv, LedgerTypeOK
<1>4. SendRight'
  <2>1. sender'[s].pc = "idle" /\ sender'[s].call = NULL
    BY DEF ToolInv, LedgerTypeOK, Absent
  <2>2. \A u \in Senders \ {s} : sender'[u] = sender[u]
    BY DEF ToolInv, LedgerTypeOK
  <2>3. NULL \notin Positions
    BY ToolAssumption DEF Positions
  <2>4. ASSUME NEW u \in Senders, sender'[u].pc # "idle"
        PROVE  /\ sender'[u].call \in Positions
               /\ ledger'[sender'[u].call].status # "none"
               /\ ledger'[sender'[u].call].input \in Inputs
               /\ \A w \in Senders \ {u} : sender'[w].call # sender'[u].call
               /\ sender'[u].pc = "prepared" => requests'[sender'[u].call] = 0
               /\ sender'[u].pc = "receipt" => performed'[sender'[u].call] > 0
    <3>1. u # s /\ sender'[u] = sender[u]
      BY <2>1, <2>2, <2>4
    <3>2. /\ sender[u].call \in Positions
          /\ ledger[sender[u].call].status # "none"
          /\ ledger[sender[u].call].input \in Inputs
          /\ \A w \in Senders \ {u} : sender[w].call # sender[u].call
          /\ sender[u].pc = "prepared" => requests[sender[u].call] = 0
          /\ sender[u].pc = "receipt" => performed[sender[u].call] > 0
      BY <2>4, <3>1 DEF ToolInv, SendRight
    <3> QED
      BY <1>2, <2>1, <2>2, <2>3, <3>1, <3>2
  <2>5. \A u \in Senders : sender'[u].pc = "idle" => sender'[u].call = NULL
    BY <2>1, <2>2 DEF ToolInv, SendRight
  <2>6. \A q \in Positions :
          ledger'[q].status = "none" => requests'[q] = 0 /\ ledger'[q].input = NULL
    BY <1>2 DEF ToolInv, SendRight
  <2> QED
    BY <2>4, <2>5, <2>6 DEF SendRight
<1>5. SentAtMostOnce' /\ SucceededWasPerformed'
  BY <1>1, <1>2 DEF ToolInv, SentAtMostOnce, SucceededWasPerformed
<1> QED
  BY <1>3, <1>4, <1>5 DEF ToolInv

LEMMA ToolInvNext == ToolInv /\ [ToolNext]_allVars => ToolInv'
<1> SUFFICES ASSUME ToolInv, [ToolNext]_allVars PROVE ToolInv'
  OBVIOUS
<1> USE DEF ToolInv, LedgerTypeOK, SendRight, SentAtMostOnce, SucceededWasPerformed
<1>1. CASE UNCHANGED toolVars
  BY <1>1 DEF toolVars
<1>2. ASSUME NEW t \in Tasks, NEW c \in Calls, NEW n \in Numbers(t),
             NEW s \in Senders, NEW i \in Inputs,
             PrepareExternalToolCall(s, t, n, c, i)
      PROVE  ToolInv'
  <2> DEFINE p == <<t, c>>
  <2>1. /\ p \in Positions
        /\ ledger[p].status = "none"
        /\ sender[s].pc = "idle"
        /\ ledger' = [ledger EXCEPT ![p] = [status |-> "started", input |-> i]]
        /\ sender' = [sender EXCEPT ![s] = [pc |-> "prepared", call |-> p]]
        /\ UNCHANGED <<requests, performed>>
    BY <1>2 DEF PrepareExternalToolCall, MayInsert, Positions
  <2> HIDE DEF p
  <2>2. LedgerTypeOK'
    BY <2>1 DEF CallRow
  <2>3. SendRight'
    <3>1. requests[p] = 0
      BY <2>1
    <3>2. ASSUME NEW u \in Senders, sender[u].pc # "idle"
          PROVE  u # s /\ sender[u].call # p /\ sender'[u] = sender[u]
      BY <2>1, <3>2
    <3>3. ASSUME NEW u \in Senders, sender[u].pc = "idle"
          PROVE  sender[u].call # p
      BY <2>1, <3>3, ToolAssumption DEF Positions
    <3> QED
      BY <2>1, <3>1, <3>2, <3>3
  <2>4. SentAtMostOnce'
    BY <2>1
  <2>5. SucceededWasPerformed'
    BY <2>1
  <2> QED
    BY <2>2, <2>3, <2>4, <2>5
<1>3. ASSUME NEW t \in Tasks, NEW c \in Calls, NEW n \in Numbers(t),
             NEW name \in Counters, IncrementCounterOnce(t, n, c, name)
      PROVE  ToolInv'
  BY <1>3, ToolAssumption
     DEF IncrementCounterOnce, FirstTime, CallRow, Positions
<1>4. ASSUME NEW t \in Tasks, NEW c \in Calls, ReconcileAfterSenderExit(t, c)
      PROVE  ToolInv'
  BY <1>4 DEF ReconcileAfterSenderExit, Settle, Settled, CallRow, Positions
<1>5. ASSUME NEW p \in Positions, Perform(p) PROVE ToolInv'
  BY <1>5 DEF Perform
<1>6. ASSUME NEW s \in Senders, Send(s) PROVE ToolInv'
  BY <1>6 DEF Send, Step
<1>7. ASSUME NEW s \in Senders, Receive(s) \/ TimeOut(s) PROVE ToolInv'
  BY <1>7 DEF Receive, TimeOut, Step
<1>8. ASSUME NEW s \in Senders, MarkUnknown(s) PROVE ToolInv'
  BY <1>8, LeavingKeepsInv, SettledRow DEF MarkUnknown, Done, Settle
<1>9. ASSUME NEW s \in Senders, RecordReceipt(s) PROVE ToolInv'
  BY <1>9, LeavingKeepsInv, SettledRow DEF RecordReceipt, Done, Settle
<1>10. ASSUME NEW s \in Senders, Die(s) PROVE ToolInv'
  BY <1>10, LeavingKeepsInv DEF Die
<1> QED
  BY <1>1, <1>2, <1>3, <1>4, <1>5, <1>6, <1>7, <1>8, <1>9, <1>10
     DEF ToolNext, SenderStep, allVars, toolVars, Positions

LEMMA ToolInvHolds == ToolSpec => []ToolInv
BY ToolInvInit, ToolInvNext, PTL DEF ToolSpec

(***************************************************************************)
(* No external call is sent, or carried out, twice.                        *)
(***************************************************************************)
THEOREM SentAtMostOnceHolds == ToolSpec => []SentAtMostOnce
BY ToolInvHolds, PTL DEF ToolInv

(***************************************************************************)
(* A call that the ledger shows as succeeded was carried out, once.        *)
(***************************************************************************)
THEOREM SucceededWasPerformedHolds == ToolSpec => []SucceededWasPerformed
BY ToolInvHolds, PTL DEF ToolInv

-----------------------------------------------------------------------------
(* Who holds a call, and the counters.                                     *)

\* The row of a sender waits for it, unless it is reconciled too early.
RowWaits ==
    \A s \in Senders :
      sender[s].pc # "idle" /\ sender[s].call[2] \in Verified =>
        ledger[sender[s].call].status = "started"

RowsOf(name) == {p \in Positions : ledger[p].input = name}

\* CounterMatchesLedger, with what its step needs: the rows are finitely
\* many, so that one more is one more.
CountersAgree ==
    /\ counters \in [Counters -> Nat]
    /\ \A name \in Counters :
         IsFiniteSet(RowsOf(name)) /\ counters[name] = Cardinality(RowsOf(name))

OwnInv == RowWaits /\ CountersAgree

\* A row that is already in the ledger changes only by being settled.
LEMMA RowChanges ==
    ASSUME ToolInv, [ToolNext]_allVars, NEW p \in Positions,
           ledger[p].status # "none"
    PROVE  \/ ledger'[p] = ledger[p]
           \/ \E status \in {"unknown", "succeeded"} :
                ledger'[p] = Settled(ledger[p], status)
<1>0. ledger \in [Positions -> CallRow]
  BY DEF ToolInv, LedgerTypeOK
<1>1. ASSUME NEW q \in Positions, NEW status \in {"unknown", "succeeded"},
             Settle(q, status)
      PROVE  ledger'[p] = ledger[p] \/ ledger'[p] = Settled(ledger[p], status)
  BY <1>0, <1>1 DEF Settle
<1>2. ASSUME NEW t \in Tasks, NEW c \in Calls,
             \/ \E n \in Numbers(t), s \in Senders, i \in Inputs :
                  PrepareExternalToolCall(s, t, n, c, i)
             \/ \E n \in Numbers(t), name \in Counters :
                  IncrementCounterOnce(t, n, c, name)
      PROVE  ledger'[p] = ledger[p]
  <2>1. ledger[<<t, c>>].status = "none"
    BY <1>2 DEF PrepareExternalToolCall, MayInsert, IncrementCounterOnce, FirstTime
  <2>2. p # <<t, c>>
    BY <2>1
  <2>3. \E row : ledger' = [ledger EXCEPT ![<<t, c>>] = row]
    BY <1>2 DEF PrepareExternalToolCall, IncrementCounterOnce
  <2> QED
    BY <1>0, <2>2, <2>3
<1>3. ASSUME NEW t \in Tasks, NEW c \in Calls, ReconcileAfterSenderExit(t, c)
      PROVE  ledger'[p] = ledger[p] \/ ledger'[p] = Settled(ledger[p], "unknown")
  BY <1>1, <1>3 DEF ReconcileAfterSenderExit, Positions
<1>4. ASSUME NEW s \in Senders, MarkUnknown(s) \/ RecordReceipt(s)
      PROVE  \E status \in {"unknown", "succeeded"} :
               ledger'[p] = ledger[p] \/ ledger'[p] = Settled(ledger[p], status)
  <2>1. sender[s].call \in Positions
    BY <1>4 DEF MarkUnknown, RecordReceipt, Done, ToolInv, SendRight
  <2> QED
    BY <1>1, <1>4, <2>1 DEF MarkUnknown, RecordReceipt
<1> QED
  BY <1>2, <1>3, <1>4
     DEF ToolNext, SenderStep, Send, Receive, TimeOut, Die, Perform, allVars, toolVars

\* A sender that goes on keeps its call; one that starts found no row.
LEMMA SenderChanges ==
    ASSUME ToolInv, [ToolNext]_allVars, NEW s \in Senders,
           sender'[s].pc # "idle"
    PROVE  \/ sender[s].pc # "idle" /\ sender'[s].call = sender[s].call
           \/ /\ sender'[s].call \in Positions
              /\ ledger'[sender'[s].call].status = "started"
<1>0. /\ sender \in [Senders ->
           [pc   : {"idle", "prepared", "waiting", "timeout", "receipt"},
            call : Positions \cup {NULL}]]
      /\ ledger \in [Positions -> CallRow]
  BY DEF ToolInv, LedgerTypeOK
<1>1. CASE sender' = sender
  BY <1>1
<1>2. ASSUME NEW t \in Tasks, NEW c \in Calls, NEW n \in Numbers(t),
             NEW u \in Senders, NEW i \in Inputs,
             PrepareExternalToolCall(u, t, n, c, i)
      PROVE  \/ sender[s].pc # "idle" /\ sender'[s].call = sender[s].call
             \/ /\ sender'[s].call \in Positions
                /\ ledger'[sender'[s].call].status = "started"
  <2> DEFINE p == <<t, c>>
  <2>1. /\ p \in Positions
        /\ ledger' = [ledger EXCEPT ![p] = [status |-> "started", input |-> i]]
        /\ sender' = [sender EXCEPT ![u] = [pc |-> "prepared", call |-> p]]
    BY <1>2 DEF PrepareExternalToolCall, Positions
  <2> HIDE DEF p
  <2>2. CASE u = s
    BY <1>0, <2>1, <2>2
  <2>3. CASE u # s
    BY <1>0, <2>1, <2>3
  <2> QED
    BY <2>2, <2>3
<1>3. ASSUME NEW u \in Senders, NEW from \in {"prepared", "waiting"}, NEW to,
             Step(u, from, to)
      PROVE  sender[s].pc # "idle" /\ sender'[s].call = sender[s].call
  BY <1>0, <1>3 DEF Step
<1>4. ASSUME NEW u \in Senders, sender' = [sender EXCEPT ![u] = Absent]
      PROVE  sender[s].pc # "idle" /\ sender'[s].call = sender[s].call
  BY <1>0, <1>4 DEF Absent
<1> QED
  BY <1>1, <1>2, <1>3, <1>4
     DEF ToolNext, SenderStep, Send, Receive, TimeOut, MarkUnknown, RecordReceipt,
         Done, Die, Perform, IncrementCounterOnce, ReconcileAfterSenderExit,
         allVars, toolVars

\* Who settles the row of a call: its own sender, who is done then, or a
\* reconciliation, of a verified call only once no sender has it.
LEMMA RowWaitsNext ==
    ASSUME ToolInv, RowWaits, [ToolNext]_allVars
    PROVE  RowWaits'
<1> SUFFICES ASSUME NEW s \in Senders, sender'[s].pc # "idle",
                    sender'[s].call[2] \in Verified
             PROVE  ledger'[sender'[s].call].status = "started"
  BY DEF RowWaits
<1> DEFINE p == sender[s].call
<1>0. /\ sender \in [Senders ->
           [pc   : {"idle", "prepared", "waiting", "timeout", "receipt"},
            call : Positions \cup {NULL}]]
      /\ ledger \in [Positions -> CallRow]
  BY DEF ToolInv, LedgerTypeOK
<1>1. CASE /\ sender'[s].call \in Positions
           /\ ledger'[sender'[s].call].status = "started"
  BY <1>1
<1>2. CASE sender[s].pc # "idle" /\ sender'[s].call = p
  <2>1. /\ p \in Positions
        /\ ledger[p].status = "started"
        /\ \A u \in Senders \ {s} : sender[u].call # p
    BY <1>2 DEF RowWaits, ToolInv, SendRight
  <2>2. ASSUME ledger'[p] = ledger[p]
        PROVE  ledger'[sender'[s].call].status = "started"
    BY <1>2, <2>1, <2>2
  <2>3. ASSUME NEW t \in Tasks, NEW c \in Calls,
               \/ \E n \in Numbers(t), u \in Senders, i \in Inputs :
                    PrepareExternalToolCall(u, t, n, c, i)
               \/ \E n \in Numbers(t), name \in Counters :
                    IncrementCounterOnce(t, n, c, name)
        PROVE  ledger'[p] = ledger[p]
    <3>1. ledger[<<t, c>>].status = "none"
      BY <2>3 DEF PrepareExternalToolCall, MayInsert, IncrementCounterOnce, FirstTime
    <3>2. \E row : ledger' = [ledger EXCEPT ![<<t, c>>] = row]
      BY <2>3 DEF PrepareExternalToolCall, IncrementCounterOnce
    <3>3. p # <<t, c>>
      BY <2>1, <3>1
    <3> QED
      BY <1>0, <2>1, <3>2, <3>3
  <2>4. ASSUME NEW t \in Tasks, NEW c \in Calls, ReconcileAfterSenderExit(t, c)
        PROVE  ledger'[p] = ledger[p]
    <3>1. p # <<t, c>>
      <4>1. SUFFICES ASSUME p = <<t, c>> PROVE FALSE
        OBVIOUS
      <4>2. c \in Verified
        BY <1>2, <4>1
      <4> QED
        BY <2>4, <4>1, <4>2 DEF ReconcileAfterSenderExit
    <3> QED
      BY <1>0, <2>1, <2>4, <3>1 DEF ReconcileAfterSenderExit, Settle
  <2>5. ASSUME NEW u \in Senders, MarkUnknown(u) \/ RecordReceipt(u)
        PROVE  ledger'[p] = ledger[p]
    <3>1. u # s
      BY <1>0, <2>5 DEF MarkUnknown, RecordReceipt, Done, Absent
    <3>2. sender[u].call # p
      BY <2>1, <3>1
    <3> HIDE DEF p
    <3> QED
      BY <1>0, <2>1, <2>5, <3>2 DEF MarkUnknown, RecordReceipt, Settle
  <2> QED
    BY <2>2, <2>3, <2>4, <2>5
       DEF ToolNext, SenderStep, Send, Receive, TimeOut, Die, Perform, allVars, toolVars
<1> QED
  BY <1>1, <1>2, SenderChanges

LEMMA CountersAgreeNext ==
    ASSUME ToolInv, CountersAgree, [ToolNext]_allVars
    PROVE  CountersAgree'
<1>0. ledger \in [Positions -> CallRow]
  BY DEF ToolInv, LedgerTypeOK
<1>1. ASSUME counters' = counters, NEW q \in Positions,
             \A p \in Positions \ {q} : ledger'[p] = ledger[p],
             \A name \in Counters : ledger'[q].input = name <=> ledger[q].input = name
      PROVE  CountersAgree'
  <2>1. \A name \in Counters : RowsOf(name)' = RowsOf(name)
    BY <1>1 DEF RowsOf
  <2> QED
    BY <1>1, <2>1 DEF CountersAgree
<1>2. CASE UNCHANGED <<ledger, counters>>
  BY <1>2 DEF CountersAgree, RowsOf
<1>3. ASSUME NEW t \in Tasks, NEW c \in Calls, NEW n \in Numbers(t),
             NEW s \in Senders, NEW i \in Inputs,
             PrepareExternalToolCall(s, t, n, c, i)
      PROVE  CountersAgree'
  <2> DEFINE q == <<t, c>>
  <2>1. /\ q \in Positions
        /\ ledger[q].status = "none"
        /\ ledger' = [ledger EXCEPT ![q] = [status |-> "started", input |-> i]]
        /\ counters' = counters
    BY <1>3 DEF PrepareExternalToolCall, MayInsert, Positions
  <2> HIDE DEF q
  <2>2. ledger[q].input = NULL
    BY <2>1 DEF ToolInv, SendRight
  <2>3. ledger'[q].input = i /\ \A p \in Positions \ {q} : ledger'[p] = ledger[p]
    BY <1>0, <2>1
  <2>4. \A name \in Counters : i # name /\ NULL # name
    BY ToolAssumption
  <2> QED
    BY <1>1, <2>1, <2>2, <2>3, <2>4
<1>4. ASSUME NEW t \in Tasks, NEW c \in Calls, NEW n \in Numbers(t),
             NEW name \in Counters, IncrementCounterOnce(t, n, c, name)
      PROVE  CountersAgree'
  <2> DEFINE q == <<t, c>>
             old == RowsOf(name)
  <2>1. /\ q \in Positions
        /\ ledger[q].status = "none"
        /\ ledger' = [ledger EXCEPT ![q] = [status |-> "succeeded", input |-> name]]
        /\ counters' = [counters EXCEPT ![name] = @ + 1]
    BY <1>4 DEF IncrementCounterOnce, FirstTime, Positions
  <2> HIDE DEF q
  <2>2. ledger[q].input = NULL /\ \A other \in Counters : NULL # other
    BY <2>1, ToolAssumption DEF ToolInv, SendRight
  <2>3. ledger'[q].input = name /\ \A p \in Positions \ {q} : ledger'[p] = ledger[p]
    BY <1>0, <2>1
  <2>4. \A other \in Counters \ {name} : RowsOf(other)' = RowsOf(other)
    BY <2>2, <2>3 DEF RowsOf
  <2>5. RowsOf(name)' = old \cup {q} /\ q \notin old
    BY <2>1, <2>2, <2>3 DEF RowsOf
  <2> HIDE DEF old
  <2>6. IsFiniteSet(old) /\ Cardinality(old) = counters[name]
    BY DEF CountersAgree, old
  <2>7. IsFiniteSet(RowsOf(name)') /\ Cardinality(RowsOf(name)') = counters[name] + 1
    BY <2>5, <2>6, FS_AddElement
  <2> QED
    BY <2>1, <2>4, <2>7 DEF CountersAgree
<1>5. ASSUME NEW q \in Positions, NEW status \in {"unknown", "succeeded"},
             Settle(q, status), counters' = counters
      PROVE  CountersAgree'
  <2>1. ledger'[q] = Settled(ledger[q], status)
        /\ \A p \in Positions \ {q} : ledger'[p] = ledger[p]
    BY <1>0, <1>5 DEF Settle
  <2> QED
    BY <1>0, <1>1, <1>5, <2>1, SettledRow
<1>6. ASSUME NEW t \in Tasks, NEW c \in Calls, ReconcileAfterSenderExit(t, c)
      PROVE  CountersAgree'
  BY <1>5, <1>6 DEF ReconcileAfterSenderExit, Positions
<1>7. ASSUME NEW s \in Senders, MarkUnknown(s) \/ RecordReceipt(s)
      PROVE  CountersAgree'
  <2>1. sender[s].call \in Positions
    BY <1>7 DEF MarkUnknown, RecordReceipt, Done, ToolInv, SendRight
  <2> QED
    BY <1>5, <1>7, <2>1 DEF MarkUnknown, RecordReceipt
<1> QED
  BY <1>2, <1>3, <1>4, <1>6, <1>7
     DEF ToolNext, SenderStep, Send, Receive, TimeOut, Die, Perform, allVars, toolVars

LEMMA OwnInvHolds == ToolSpec => [](ToolInv /\ OwnInv)
<1>1. ToolInit => OwnInv
  <2> SUFFICES ASSUME ToolInit PROVE OwnInv
    OBVIOUS
  <2>1. RowWaits
    BY DEF ToolInit, Absent, RowWaits
  <2>2. \A name \in Counters : RowsOf(name) = {}
    BY ToolAssumption DEF ToolInit, NoCall, RowsOf
  <2>3. CountersAgree
    BY <2>2, FS_EmptySet DEF ToolInit, CountersAgree
  <2> QED
    BY <2>1, <2>3 DEF OwnInv
<1>2. ToolInv /\ OwnInv /\ [ToolNext]_allVars => OwnInv'
  BY RowWaitsNext, CountersAgreeNext DEF OwnInv
<1> QED
  BY <1>1, <1>2, ToolInvHolds, PTL DEF ToolSpec

(***************************************************************************)
(* The sender of a call is its only one, and the row it inserted waits for *)
(* what it reports: no receipt in hand is refused, unless the call was     *)
(* reconciled while its sender lived.                                      *)
(***************************************************************************)
THEOREM SenderOwnsItsCallHolds == ToolSpec => []SenderOwnsItsCall
<1>1. ToolInv /\ OwnInv => SenderOwnsItsCall
  BY DEF ToolInv, SendRight, OwnInv, RowWaits, SenderOwnsItsCall
<1> QED
  BY <1>1, OwnInvHolds, PTL

(***************************************************************************)
(* A counter shows exactly the ledger rows of its calls: an increment and  *)
(* its row are one transaction, and no later attempt counts a second time. *)
(***************************************************************************)
THEOREM CounterMatchesLedgerHolds == ToolSpec => []CounterMatchesLedger
<1>1. OwnInv => CounterMatchesLedger
  BY DEF OwnInv, CountersAgree, RowsOf, CounterMatchesLedger
<1> QED
  BY <1>1, OwnInvHolds, PTL

(***************************************************************************)
(* A ledger row keeps its input for good, and once it is settled nothing   *)
(* that any process reports later changes it.                              *)
(***************************************************************************)
THEOREM LedgerIsFinalHolds == ToolSpec => LedgerIsFinal
<1>1. ASSUME ToolInv, [ToolNext]_allVars, NEW p \in Positions,
             ledger[p].status # "none"
      PROVE  /\ ledger'[p].input = ledger[p].input
             /\ ledger[p].status # "started" => ledger'[p] = ledger[p]
  <2>1. ledger[p] \in CallRow
    BY <1>1 DEF ToolInv, LedgerTypeOK
  <2>2. CASE ledger'[p] = ledger[p]
    BY <2>2
  <2>3. ASSUME NEW status \in {"unknown", "succeeded"},
               ledger'[p] = Settled(ledger[p], status)
        PROVE  /\ ledger'[p].input = ledger[p].input
               /\ ledger[p].status # "started" => ledger'[p] = ledger[p]
    <3>1. Settled(ledger[p], status).input = ledger[p].input
      BY <2>1, SettledRow
    <3>2. ledger[p].status # "started" => Settled(ledger[p], status) = ledger[p]
      BY DEF Settled
    <3> QED
      BY <2>3, <3>1, <3>2
  <2> QED
    BY <1>1, <2>2, <2>3, RowChanges
<1>2. ToolInv /\ [ToolNext]_allVars =>
        [\A p \in Positions : ledger[p].status # "none" =>
           /\ ledger'[p].input = ledger[p].input
           /\ ledger[p].status # "started" => ledger'[p] = ledger[p]]_allVars
  BY <1>1
<1> QED
  BY <1>2, ToolInvHolds, PTL DEF ToolSpec, LedgerIsFinal
=============================================================================

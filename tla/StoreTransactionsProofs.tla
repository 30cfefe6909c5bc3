------------------------ MODULE StoreTransactionsProofs ------------------------
(***************************************************************************)
(* Proofs about StoreTransactions, for any number of tasks, connections,   *)
(* keys, slots and attempts.                                               *)
(***************************************************************************)
EXTENDS StoreTransactions, FiniteSetTheorems, SequenceTheorems, TLAPS

-----------------------------------------------------------------------------
(* The invariant: what the tables are, and what a transaction may rely on  *)
(* at each of its statements because of the locks it holds.                *)

AttemptStatus == {"running", "succeeded", "failed", "interrupted"}

\* The types of the module, without the bound on the number of attempts.
AnyRow == [status  : {"absent", "queued", "running", "succeeded", "failed", "cancelled"},
           key     : Keys \cup {NULL},
           content : Contents \cup {NULL},
           cancel  : BOOLEAN,
           planned : BOOLEAN,
           cleanup : Nat]

AnyTxn == [op      : UnderLimits \cup OnRow \cup {NULL},
           pc      : {"idle", "lookup", "count", "row", "clock", "write", "answered"},
           task    : Tasks \cup {NULL},
           attempt : Nat,
           key     : Keys \cup {NULL},
           content : Contents \cup {NULL},
           outcome : {"succeeded", "failed", "cancelled", NULL},
           leaves  : BOOLEAN,
           answer  : Tasks \cup {"conflict", "full", NULL}]

WellTyped == /\ row \in [Tasks -> AnyRow]
             /\ attempts \in [Tasks -> Seq(AttemptStatus)]
             /\ limitsLock \in Clients \cup {NULL}
             /\ rowLock \in [Tasks -> Clients \cup {NULL}]
             /\ txn \in [Clients -> AnyTxn]

Exists(t)  == row[t].status # "absent"
Holds(t)   == row[t].status = "running" \/ row[t].cleanup # 0

TablesInv ==
    /\ \A t \in Tasks : ~Exists(t) => row[t] = NoRow
    /\ \A t, u \in Tasks :
         Exists(t) /\ Exists(u) /\ row[t].key = row[u].key /\ row[t].key # NULL => t = u
    /\ Cardinality(Queued) <= MaxQueuedTasks

\* The place of a transaction: its method, its task, its locks.
Busy(q)     == q.pc # "idle"
HasLimits(q) == Busy(q) /\ q.op \in UnderLimits
HasRow(q)    == \/ q.pc = "clock"
                \/ q.pc = "write" /\ q.op # "submit"
                \/ q.pc = "count" /\ q.op = "retry"

Placed(q) ==
    /\ Busy(q) => q.op \in UnderLimits \cup OnRow
    /\ Busy(q) /\ q.op # "submit" => q.task \in Tasks
    /\ q.pc \in {"row", "count"} => q.op \in UnderLimits
    /\ q.pc = "row" => q.op # "submit"
    /\ q.pc = "clock" => q.op \in OnRow
    /\ q.pc \in {"lookup", "answered"} => q.op = "submit"
    /\ Busy(q) /\ q.op = "finish" => q.outcome \in {"succeeded", "failed", "cancelled"}
    /\ q.pc = "clock" /\ q.op = "finish" => q.outcome # "cancelled"
    /\ q.answer # NULL => q.pc = "answered"

Locked(c, q) ==
    /\ HasLimits(q) => limitsLock = c
    /\ HasRow(q) => rowLock[q.task] = c

\* What it has read and relies on.
Relies(q) ==
    /\ HasRow(q) => RowAllows(q)
    /\ \/ q.pc \in {"row", "write"} /\ q.op = "claim"
       \/ q.pc = "write" /\ q.op = "retry"
       => HasRunningSlot
    /\ q.pc = "write" /\ q.op = "finish" =>
         (row[q.task].cancel <=> q.outcome = "cancelled")
    /\ q.pc = "write" /\ q.op = "submit" =>
         q.task \in Tasks /\ ~Exists(q.task) /\ HasQueueSlot
    /\ q.pc \in {"count", "write"} /\ q.op = "submit" /\ q.key # NULL =>
         WithKey(q.key) = {}

\* What it has answered.
Told(q) ==
    /\ q.answer \in Tasks => /\ Exists(q.answer)
                             /\ row[q.answer].key = q.key
                             /\ row[q.answer].content = q.content
    /\ q.answer = "conflict" => \E t \in WithKey(q.key) : row[t].content # q.content
    /\ q.answer = "full" /\ q.key # NULL => WithKey(q.key) = {}

Good(c, q) == Placed(q) /\ Locked(c, q) /\ Relies(q) /\ Told(q)

Inv == WellTyped /\ TablesInv /\ \A c \in Clients : Good(c, txn[c])

-----------------------------------------------------------------------------
(* Sets of tasks.                                                          *)

LEMMA TasksFinite ==
    /\ IsFiniteSet(SlotHolders) /\ Cardinality(SlotHolders) \in Nat
    /\ IsFiniteSet(Queued) /\ Cardinality(Queued) \in Nat
<1>1. SlotHolders \in SUBSET Tasks /\ Queued \in SUBSET Tasks
  BY DEF SlotHolders, Queued
<1>2. IsFiniteSet(SlotHolders) /\ IsFiniteSet(Queued)
  BY <1>1, StoreAssumption, FS_Subset
<1> QED
  BY <1>2, FS_CardinalityType

LEMMA FewerHolders ==
    ASSUME SlotHolders' \subseteq SlotHolders
    PROVE  HasRunningSlot => HasRunningSlot'
<1>1. IsFiniteSet(SlotHolders) /\ Cardinality(SlotHolders) \in Nat
  BY TasksFinite
<1>2. /\ IsFiniteSet(SlotHolders')
      /\ Cardinality(SlotHolders') <= Cardinality(SlotHolders)
  BY <1>1, FS_Subset
<1>3. Cardinality(SlotHolders') \in Nat
  BY <1>2, FS_CardinalityType
<1> QED
  BY <1>1, <1>2, <1>3, StoreAssumption DEF HasRunningSlot

LEMMA FewerQueued ==
    ASSUME Queued' \subseteq Queued
    PROVE  /\ HasQueueSlot => HasQueueSlot'
           /\ Cardinality(Queued') <= Cardinality(Queued)
<1>1. IsFiniteSet(Queued) /\ Cardinality(Queued) \in Nat
  BY TasksFinite
<1>2. IsFiniteSet(Queued') /\ Cardinality(Queued') <= Cardinality(Queued)
  BY <1>1, FS_Subset
<1>3. Cardinality(Queued') \in Nat
  BY <1>2, FS_CardinalityType
<1> QED
  BY <1>1, <1>2, <1>3, StoreAssumption DEF HasQueueSlot

-----------------------------------------------------------------------------
(* Calls.                                                                  *)

LEMMA RequestsAreTyped ==
    ASSUME WellTyped, NEW q \in Requests
    PROVE  /\ q \in AnyTxn /\ q.pc = "idle" /\ q.answer = NULL
           /\ q.op \in UnderLimits \cup OnRow
           /\ q.op # "submit" => q.task \in Tasks
           /\ q.op = "finish" => q.outcome \in {"succeeded", "failed"}
<1>1. ASSUME NEW k \in Keys \cup {NULL}, NEW x \in Contents \cup {NULL}
      PROVE  LET r == Submission(k, x)
             IN  r \in AnyTxn /\ r.pc = "idle" /\ r.answer = NULL /\ r.op = "submit"
  BY DEF Submission, Idle, AnyTxn, UnderLimits
<1>2. ASSUME q \in Submissions
      PROVE  q \in AnyTxn /\ q.pc = "idle" /\ q.answer = NULL /\ q.op = "submit"
  BY <1>1, <1>2 DEF Submissions
<1>3. ASSUME NEW t \in Tasks, q \in CallsOn(t)
      PROVE  /\ q \in AnyTxn /\ q.pc = "idle" /\ q.answer = NULL /\ q.task = t
             /\ q.op \in {"claim", "retry"} \cup OnRow
             /\ q.op = "finish" => q.outcome \in {"succeeded", "failed"}
  <2> DEFINE seen == 1..Len(attempts[t])
  <2>1. seen \subseteq Nat
    BY DEF WellTyped
  <2>2. ASSUME NEW op \in {"claim", "retry"} \cup OnRow
        PROVE  LET r == CallOn(t, op)
               IN  r \in AnyTxn /\ r.pc = "idle" /\ r.answer = NULL /\ r.task = t
                   /\ r.op = op
    BY DEF CallOn, Idle, AnyTxn, UnderLimits, OnRow
  <2>3. ASSUME NEW n \in Nat, NEW op \in {"claim", "retry"} \cup OnRow
        PROVE  LET r == CallFor(t, n, op)
               IN  r \in AnyTxn /\ r.pc = "idle" /\ r.answer = NULL /\ r.task = t
                   /\ r.op = op
    BY <2>2 DEF CallFor, AnyTxn
  <2>4. ASSUME NEW n \in Nat, NEW end \in {"succeeded", "failed"}
        PROVE  LET r == Ending(t, n, end)
               IN  r \in AnyTxn /\ r.pc = "idle" /\ r.answer = NULL /\ r.task = t
                   /\ r.op = "finish" /\ r.outcome = end
    <3> DEFINE call == CallFor(t, n, "finish")
    <3>1. call \in AnyTxn /\ call.pc = "idle" /\ call.answer = NULL /\ call.task = t
          /\ call.op = "finish"
      BY <2>3 DEF OnRow
    <3>2. Ending(t, n, end) = [call EXCEPT !.outcome = end]
      BY DEF Ending
    <3> HIDE DEF call
    <3> QED
      BY <3>1, <3>2 DEF AnyTxn
  <2>5. ASSUME NEW n \in Nat
        PROVE  LET r == TimingOut(t, n)
               IN  r \in AnyTxn /\ r.pc = "idle" /\ r.answer = NULL /\ r.task = t
                   /\ r.op = "finish" /\ r.outcome = "failed"
    BY <2>4 DEF TimingOut, AnyTxn
  <2>6. \/ \E op \in {"claim", "cancel"} : q = CallOn(t, op)
        \/ \E n \in seen, op \in {"retry", "schedule", "confirm", "renew", "take_over"} :
             q = CallFor(t, n, op)
        \/ \E n \in seen, end \in {"succeeded", "failed"} : q = Ending(t, n, end)
        \/ \E n \in seen : q = TimingOut(t, n)
    BY <1>3 DEF CallsOn
  <2> HIDE DEF seen
  <2>7. CASE \E op \in {"claim", "cancel"} : q = CallOn(t, op)
    BY <2>2, <2>7 DEF OnRow
  <2>8. CASE \E n \in seen, op \in {"retry", "schedule", "confirm", "renew", "take_over"} :
               q = CallFor(t, n, op)
    BY <2>1, <2>3, <2>8 DEF OnRow
  <2>9. CASE \E n \in seen, end \in {"succeeded", "failed"} : q = Ending(t, n, end)
    BY <2>1, <2>4, <2>9 DEF OnRow
  <2>10. CASE \E n \in seen : q = TimingOut(t, n)
    BY <2>1, <2>5, <2>10 DEF OnRow
  <2> QED
    BY <2>6, <2>7, <2>8, <2>9, <2>10
<1>4. q \in Submissions \/ \E t \in Tasks : q \in CallsOn(t)
  BY DEF Requests
<1> QED
  BY <1>2, <1>3, <1>4 DEF UnderLimits

-----------------------------------------------------------------------------
(* Steps that leave the tables alone.                                      *)

\* Whoever keeps its transaction and its locks relies on the same as before.
LEMMA OthersKeep ==
    ASSUME Inv, UNCHANGED tables, NEW d \in Clients, txn'[d] = txn[d],
           limitsLock = d => limitsLock' = d,
           \A t \in Tasks : rowLock[t] = d => rowLock'[t] = d
    PROVE  Good(d, txn[d])'
<1>1. Good(d, txn[d]) /\ row' = row /\ attempts' = attempts
  BY DEF Inv, tables
<1>2. Placed(txn[d])'
  BY <1>1 DEF Good, Placed, Busy
<1>3. HasRow(txn[d]) => txn[d].task \in Tasks
  BY <1>1 DEF Good, Placed, Busy, HasRow, UnderLimits, OnRow
<1>4. Locked(d, txn[d])'
  BY <1>1, <1>3 DEF Good, Locked, HasLimits, HasRow, Busy
<1>5. Relies(txn[d])'
  BY <1>1 DEF Good, Relies, HasRow, RowAllows, HasRunningSlot, SlotHolders,
              Exists, HasQueueSlot, Queued, WithKey
<1>6. Told(txn[d])'
  BY <1>1 DEF Good, Told, Exists, WithKey
<1> QED
  BY <1>2, <1>4, <1>5, <1>6 DEF Good

LEMMA TablesKeep ==
    ASSUME TablesInv, UNCHANGED tables
    PROVE  TablesInv'
BY DEF TablesInv, tables, Exists, Queued

\* One client moves; the tables stay, and no lock is taken from the others.
LEMMA OneMoves ==
    ASSUME Inv, UNCHANGED tables, NEW c \in Clients, NEW q \in AnyTxn,
           txn' = [txn EXCEPT ![c] = q],
           limitsLock' \in Clients \cup {NULL},
           rowLock' \in [Tasks -> Clients \cup {NULL}],
           limitsLock \notin {NULL, c} => limitsLock' = limitsLock,
           \A t \in Tasks : rowLock[t] \notin {NULL, c} => rowLock'[t] = rowLock[t],
           Placed(q), Locked(c, q)', Relies(q), Told(q)
    PROVE  Inv'
<1>1. txn \in [Clients -> AnyTxn] /\ row' = row /\ attempts' = attempts
  BY DEF Inv, WellTyped, tables
<1>2. txn' \in [Clients -> AnyTxn] /\ txn'[c] = q
      /\ \A d \in Clients \ {c} : txn'[d] = txn[d]
  BY <1>1
<1>3. WellTyped'
  BY <1>1, <1>2 DEF Inv, WellTyped
<1>4. TablesInv'
  BY TablesKeep DEF Inv
<1>5. ASSUME NEW d \in Clients \ {c} PROVE Good(d, txn[d])'
  <2>1. d # NULL
    BY StoreAssumption
  <2> QED
    BY <1>2, <2>1, OthersKeep
<1>6. Good(c, q)'
  <2>1. Relies(q)'
    BY <1>1 DEF Relies, HasRow, RowAllows, HasRunningSlot, SlotHolders,
                Exists, HasQueueSlot, Queued, WithKey
  <2>2. Told(q)'
    BY <1>1 DEF Told, Exists, WithKey
  <2>3. Placed(q)'
    BY DEF Placed, Busy
  <2> QED
    BY <2>1, <2>2, <2>3 DEF Good
<1>7. Good(c, txn[c])'
  BY <1>2, <1>6
<1> QED
  BY <1>3, <1>4, <1>5, <1>7 DEF Inv

\* A transaction goes on to another statement, with what it was called with.
Same(q, r) == /\ r \in AnyTxn
              /\ r.op = q.op /\ r.task = q.task /\ r.attempt = q.attempt
              /\ r.key = q.key /\ r.content = q.content

LEMMA SameRow ==
    ASSUME NEW q, NEW r, Same(q, r)
    PROVE  RowAllows(q) <=> RowAllows(r)
BY DEF Same, RowAllows

\* What is true of a client in the middle of a transaction.
LEMMA OfATransaction ==
    ASSUME Inv, NEW c \in Clients
    PROVE  /\ txn[c] \in AnyTxn /\ Placed(txn[c]) /\ Locked(c, txn[c])
           /\ Relies(txn[c]) /\ Told(txn[c])
           /\ c # NULL
           /\ txn \in [Clients -> AnyTxn]
           /\ limitsLock \in Clients \cup {NULL}
           /\ rowLock \in [Tasks -> Clients \cup {NULL}]
BY StoreAssumption DEF Inv, WellTyped, Good

LEMMA AnswersNothing ==
    ASSUME NEW q, q.answer = NULL
    PROVE  Told(q)
BY StoreAssumption DEF Told

LEMMA Unanswered ==
    ASSUME NEW q, Placed(q), q.pc # "answered"
    PROVE  q.answer = NULL
BY DEF Placed

LEMMA StepRollsBack ==
    ASSUME Inv, NEW c \in Clients, RollsBack(c)
    PROVE  Inv'
<1>1. /\ limitsLock \in Clients \cup {NULL} /\ c # NULL
      /\ rowLock \in [Tasks -> Clients \cup {NULL}]
  BY OfATransaction
<1>2. Idle \in AnyTxn /\ Idle.pc = "idle" /\ Idle.answer = NULL
  BY DEF Idle, AnyTxn
<1>3. /\ UNCHANGED tables /\ txn' = [txn EXCEPT ![c] = Idle]
      /\ limitsLock' = IF limitsLock = c THEN NULL ELSE limitsLock
      /\ rowLock' = [t \in Tasks |-> IF rowLock[t] = c THEN NULL ELSE rowLock[t]]
  BY DEF RollsBack, Releases
<1>4. /\ limitsLock' \in Clients \cup {NULL}
      /\ rowLock' \in [Tasks -> Clients \cup {NULL}]
      /\ limitsLock \notin {NULL, c} => limitsLock' = limitsLock
      /\ \A t \in Tasks : rowLock[t] \notin {NULL, c} => rowLock'[t] = rowLock[t]
  BY <1>1, <1>3
<1>5. Placed(Idle)
  BY <1>2 DEF Placed, Busy
<1>6. Locked(c, Idle)' /\ Relies(Idle)
  BY <1>2 DEF Locked, HasLimits, HasRow, Busy, Relies, Idle
<1>7. Told(Idle)
  BY <1>2, AnswersNothing
<1> QED
  BY <1>2, <1>3, <1>4, <1>5, <1>6, <1>7, OneMoves

LEMMA StepLockLimits ==
    ASSUME Inv, NEW c \in Clients, NEW q \in Requests, LockLimits(c, q)
    PROVE  Inv'
<1> DEFINE pc == CASE q.op = "submit" -> IF q.key = NULL THEN "count" ELSE "lookup"
                   [] q.op = "claim"  -> "count"
                   [] q.op = "retry"  -> "row"
           r  == [q EXCEPT !.pc = pc]
<1>1. /\ q \in AnyTxn /\ q.answer = NULL
      /\ q.op # "submit" => q.task \in Tasks
  BY RequestsAreTyped DEF Inv
<1>2. /\ q.op \in {"submit", "claim", "retry"} /\ limitsLock = NULL
      /\ UNCHANGED tables /\ rowLock' = rowLock /\ limitsLock' = c
      /\ txn' = [txn EXCEPT ![c] = r]
  BY DEF LockLimits, UnderLimits, LimitsFree
<1>3. pc \in {"count", "lookup", "row"}
      /\ (q.op # "submit" => pc # "lookup") /\ (q.op = "retry" => pc = "row")
      /\ (q.op # "retry" => pc # "row")
      /\ (q.op = "submit" /\ pc = "count" => q.key = NULL)
  BY <1>2
<1> HIDE DEF pc
<1>4. Same(q, r) /\ r.pc = pc /\ r.answer = NULL
  BY <1>1, <1>3 DEF Same, AnyTxn
<1> HIDE DEF r
<1>5. r.op = q.op /\ r.task = q.task /\ r.key = q.key /\ r \in AnyTxn
  BY <1>4 DEF Same
<1>6. Placed(r)
  BY <1>1, <1>2, <1>3, <1>4, <1>5 DEF Placed, Busy, UnderLimits, OnRow
<1>7. ~HasRow(r)
  BY <1>2, <1>3, <1>4, <1>5 DEF HasRow
<1>8. Locked(c, r)'
  BY <1>2, <1>7 DEF Locked, HasLimits, HasRow, Busy
<1>9. Relies(r)
  BY <1>2, <1>3, <1>4, <1>5, <1>7 DEF Relies
<1>10. Told(r)
  BY <1>4, AnswersNothing
<1>11. c # NULL /\ rowLock \in [Tasks -> Clients \cup {NULL}]
  BY OfATransaction
<1> QED
  BY <1>2, <1>5, <1>6, <1>8, <1>9, <1>10, <1>11, OneMoves

\* A transaction under the limits lock reads, and goes on or answers.
LEMMA StepReads ==
    ASSUME Inv, NEW c \in Clients, NEW r \in AnyTxn, UNCHANGED <<tables, locks>>,
           txn' = [txn EXCEPT ![c] = r], Placed(r), Locked(c, r), Relies(r), Told(r)
    PROVE  Inv'
<1>1. UNCHANGED tables /\ limitsLock' = limitsLock /\ rowLock' = rowLock
  BY DEF locks
<1>2. Locked(c, r)'
  BY <1>1 DEF Locked, HasLimits, HasRow, Busy
<1> QED
  BY <1>1, <1>2, OfATransaction, OneMoves

LEMMA StepLookUp ==
    ASSUME Inv, NEW c \in Clients, LookUp(c)
    PROVE  Inv'
<1> DEFINE q == txn[c]
<1>1. /\ q \in AnyTxn /\ Placed(q) /\ Locked(c, q)
      /\ txn \in [Clients -> AnyTxn] /\ q.pc = "lookup"
      /\ UNCHANGED <<tables, locks>>
  BY OfATransaction DEF LookUp
<1>2. q.op = "submit" /\ q.answer = NULL /\ limitsLock = c
  BY <1>1, Unanswered DEF Placed, Locked, HasLimits, Busy, UnderLimits
<1>3. ASSUME WithKey(q.key) = {}, GoTo(c, "count") PROVE Inv'
  <2> DEFINE r == [q EXCEPT !.pc = "count"]
  <2>1. txn' = [txn EXCEPT ![c] = r]
    BY <1>1, <1>3 DEF GoTo
  <2>2. Same(q, r) /\ r.pc = "count" /\ r.answer = NULL
    BY <1>1, <1>2 DEF Same, AnyTxn
  <2> HIDE DEF r, q
  <2>3. r.op = "submit" /\ r.key = q.key /\ r \in AnyTxn
    BY <1>2, <2>2 DEF Same
  <2>4. Placed(r) /\ Locked(c, r)
    BY <1>2, <2>2, <2>3 DEF Placed, Busy, UnderLimits, Locked, HasLimits, HasRow
  <2>5. Relies(r)
    BY <1>3, <2>2, <2>3 DEF Relies, HasRow
  <2>6. Told(r)
    BY <2>2, AnswersNothing
  <2> QED
    BY <1>1, <2>1, <2>3, <2>4, <2>5, <2>6, StepReads
<1>4. ASSUME NEW t \in WithKey(q.key),
             Answers(c, IF row[t].content = q.content THEN t ELSE "conflict")
      PROVE  Inv'
  <2> DEFINE answer == IF row[t].content = q.content THEN t ELSE "conflict"
             r == [q EXCEPT !.pc = "answered", !.answer = answer]
  <2>1. txn' = [txn EXCEPT ![c] = r]
    BY <1>1, <1>4 DEF Answers
  <2>2. t \in Tasks /\ Exists(t) /\ row[t].key = q.key
    BY DEF WithKey, Exists
  <2>3. answer \in Tasks \cup {"conflict"}
    BY <2>2
  <2>4. /\ r \in AnyTxn /\ r.pc = "answered" /\ r.answer = answer
        /\ r.op = q.op /\ r.key = q.key /\ r.content = q.content
    BY <1>1, <2>3 DEF AnyTxn
  <2>5. Told(r)
    <3>1. answer \in Tasks => answer = t /\ row[t].content = q.content
      BY StoreAssumption
    <3>2. answer = "conflict" => row[t].content # q.content
      BY <2>2, StoreAssumption
    <3>3. answer # "full"
      BY <2>2, StoreAssumption
    <3> HIDE DEF answer, r, q
    <3> QED
      BY <2>2, <2>4, <3>1, <3>2, <3>3 DEF Told
  <2> HIDE DEF answer, r, q
  <2>6. Placed(r) /\ Locked(c, r) /\ Relies(r)
    BY <1>2, <2>4 DEF Placed, Busy, UnderLimits, Locked, HasLimits, HasRow, Relies
  <2> QED
    BY <1>1, <2>1, <2>4, <2>5, <2>6, StepReads
<1> QED
  BY <1>3, <1>4 DEF LookUp

LEMMA StepCountQueued ==
    ASSUME Inv, NEW c \in Clients, CountQueued(c)
    PROVE  Inv'
<1> DEFINE q == txn[c]
<1>1. /\ q \in AnyTxn /\ Placed(q) /\ Locked(c, q) /\ Relies(q)
      /\ txn \in [Clients -> AnyTxn] /\ q.pc = "count" /\ q.op = "submit"
      /\ UNCHANGED <<tables, locks>>
  BY OfATransaction DEF CountQueued
<1>2. q.answer = NULL /\ limitsLock = c /\ (q.key # NULL => WithKey(q.key) = {})
  BY <1>1, Unanswered DEF Locked, HasLimits, Busy, UnderLimits, Relies
<1>3. ASSUME Answers(c, "full") PROVE Inv'
  <2> DEFINE r == [q EXCEPT !.pc = "answered", !.answer = "full"]
  <2>1. txn' = [txn EXCEPT ![c] = r]
    BY <1>1, <1>3 DEF Answers
  <2>2. /\ r \in AnyTxn /\ r.pc = "answered" /\ r.answer = "full"
        /\ r.op = q.op /\ r.key = q.key
    BY <1>1 DEF AnyTxn
  <2> HIDE DEF r, q
  <2>3. Told(r)
    BY <1>2, <2>2, StoreAssumption DEF Told
  <2>4. Placed(r) /\ Locked(c, r) /\ Relies(r)
    BY <1>1, <1>2, <2>2 DEF Placed, Busy, UnderLimits, Locked, HasLimits, HasRow, Relies
  <2> QED
    BY <1>1, <2>1, <2>2, <2>3, <2>4, StepReads
<1>4. ASSUME HasQueueSlot, NEW t \in Tasks, row[t].status = "absent",
             txn' = [txn EXCEPT ![c].pc = "write", ![c].task = t]
      PROVE  Inv'
  <2> DEFINE r == [q EXCEPT !.pc = "write", !.task = t]
  <2>1. txn' = [txn EXCEPT ![c] = r]
    BY <1>1, <1>4
  <2>2. /\ r \in AnyTxn /\ r.pc = "write" /\ r.task = t /\ r.answer = NULL
        /\ r.op = "submit" /\ r.key = q.key
    BY <1>1, <1>2 DEF AnyTxn
  <2> HIDE DEF r, q
  <2>3. Told(r)
    BY <2>2, AnswersNothing
  <2>4. Placed(r) /\ Locked(c, r)
    BY <1>2, <2>2 DEF Placed, Busy, UnderLimits, Locked, HasLimits, HasRow
  <2>5. Relies(r)
    BY <1>2, <1>4, <2>2 DEF Relies, HasRow, Exists
  <2> QED
    BY <1>1, <2>1, <2>2, <2>3, <2>4, <2>5, StepReads
<1> QED
  BY <1>3, <1>4 DEF CountQueued

LEMMA StepCountRunning ==
    ASSUME Inv, NEW c \in Clients, CountRunning(c)
    PROVE  Inv'
<1> DEFINE q == txn[c]
           pc == IF q.op = "claim" THEN "row" ELSE "write"
           r  == [q EXCEPT !.pc = pc]
<1>1. /\ q \in AnyTxn /\ Placed(q) /\ Locked(c, q) /\ Relies(q)
      /\ txn \in [Clients -> AnyTxn] /\ q.pc = "count" /\ q.op # "submit"
  BY OfATransaction DEF CountRunning
<1>2. q.answer = NULL /\ limitsLock = c /\ q.op \in {"claim", "retry"} /\ q.task \in Tasks
  BY <1>1, Unanswered DEF Locked, HasLimits, Busy, UnderLimits, Placed
<1>3. ASSUME HasRunningSlot, GoTo(c, pc), UNCHANGED <<tables, locks>> PROVE Inv'
  <2>1. txn' = [txn EXCEPT ![c] = r]
    BY <1>1, <1>3 DEF GoTo
  <2>3. (q.op = "claim" /\ pc = "row") \/ (q.op = "retry" /\ pc = "write")
    BY <1>2
  <2> HIDE DEF pc, q
  <2>2. Same(q, r) /\ r.pc = pc /\ r.answer = NULL
    BY <1>1, <1>2, <2>3 DEF Same, AnyTxn
  <2> HIDE DEF r
  <2>4. r \in AnyTxn /\ r.op = q.op /\ r.task = q.task
    BY <2>2 DEF Same
  <2>5. Placed(r)
    BY <1>2, <2>2, <2>3, <2>4 DEF Placed, Busy, UnderLimits
  <2>6. Locked(c, r)
    BY <1>1, <1>2, <2>2, <2>3, <2>4 DEF Locked, HasLimits, HasRow
  <2>7. Relies(r)
    <3>1. HasRow(r) => RowAllows(r)
      BY <1>1, <2>2, <2>3, <2>4, SameRow DEF Relies, HasRow
    <3> QED
      BY <1>3, <2>2, <2>3, <2>4, <3>1 DEF Relies
  <2>8. Told(r)
    BY <2>2, AnswersNothing
  <2> QED
    BY <1>3, <2>1, <2>4, <2>5, <2>6, <2>7, <2>8, StepReads
<1> QED
  BY <1>3, StepRollsBack DEF CountRunning

\* A row is locked, and allows the method that locks it.
LEMMA StepLocksRow ==
    ASSUME Inv, NEW c \in Clients, NEW q \in AnyTxn, LocksRow(c, q),
           q.task \in Tasks, q.answer = NULL,
           q.op \in {"claim", "retry"} \cup OnRow,
           q.op \in {"claim", "retry"} => limitsLock = c,
           q.op = "claim" => HasRunningSlot,
           q.op = "finish" => q.outcome \in {"succeeded", "failed"}
    PROVE  Inv'
<1> DEFINE pc == AfterRow(q.op)
           r  == [q EXCEPT !.pc = pc]
<1>1. /\ rowLock[q.task] = NULL /\ RowAllows(q)
      /\ rowLock' = [rowLock EXCEPT ![q.task] = c]
      /\ txn' = [txn EXCEPT ![c] = r]
      /\ UNCHANGED tables /\ limitsLock' = limitsLock
  BY DEF LocksRow, RowFree
<1>2. /\ pc \in {"clock", "count", "write"}
      /\ pc = "clock" => q.op \in OnRow
      /\ pc = "count" <=> q.op = "retry"
      /\ q.op = "finish" => pc = "clock"
  BY DEF AfterRow, OnRow
<1> HIDE DEF pc
<1>3. Same(q, r) /\ r.pc = pc /\ r.answer = NULL /\ r.outcome = q.outcome
  BY <1>2 DEF Same, AnyTxn
<1> HIDE DEF r
<1>4. r \in AnyTxn /\ r.op = q.op /\ r.task = q.task
  BY <1>3 DEF Same
<1>5. Placed(r)
  BY <1>2, <1>3, <1>4 DEF Placed, Busy, UnderLimits, OnRow
<1>6. /\ limitsLock \in Clients \cup {NULL} /\ c # NULL
      /\ rowLock \in [Tasks -> Clients \cup {NULL}]
  BY OfATransaction
<1>7. Locked(c, r)'
  BY <1>1, <1>2, <1>3, <1>4, <1>6 DEF Locked, HasLimits, HasRow, Busy, UnderLimits, OnRow
<1>8. Relies(r)
  <2>1. RowAllows(r)
    BY <1>1, <1>3, SameRow
  <2> QED
    BY <1>2, <1>3, <1>4, <2>1 DEF Relies, OnRow
<1>9. Told(r)
  BY <1>3, AnswersNothing
<1>10. /\ rowLock' \in [Tasks -> Clients \cup {NULL}]
       /\ \A t \in Tasks : rowLock[t] \notin {NULL, c} => rowLock'[t] = rowLock[t]
  BY <1>1, <1>6
<1> QED
  BY <1>1, <1>4, <1>5, <1>6, <1>7, <1>8, <1>9, <1>10, OneMoves

LEMMA StepCallOnRow ==
    ASSUME Inv, NEW c \in Clients, NEW q \in Requests, CallOnRow(c, q)
    PROVE  Inv'
<1>1. q \in AnyTxn /\ q.answer = NULL /\ q.op \in OnRow /\ LocksRow(c, q)
  BY RequestsAreTyped DEF CallOnRow, Inv
<1>2. q.op \notin {"submit", "claim", "retry"}
  BY <1>1 DEF OnRow
<1>3. q.task \in Tasks /\ (q.op = "finish" => q.outcome \in {"succeeded", "failed"})
  BY <1>2, RequestsAreTyped DEF Inv
<1> QED
  BY <1>1, <1>2, <1>3, StepLocksRow

LEMMA StepLockRow ==
    ASSUME Inv, NEW c \in Clients, LockRow(c)
    PROVE  Inv'
<1> DEFINE q == txn[c]
<1>1. /\ q \in AnyTxn /\ Placed(q) /\ Locked(c, q) /\ Relies(q) /\ q.pc = "row"
  BY OfATransaction DEF LockRow
<1>2. /\ q.answer = NULL /\ limitsLock = c /\ q.op \in {"claim", "retry"}
      /\ q.task \in Tasks
  BY <1>1, Unanswered DEF Locked, HasLimits, Busy, UnderLimits, Placed
<1>3. q.op = "claim" => HasRunningSlot
  BY <1>1 DEF Relies
<1>4. CASE LocksRow(c, q)
  BY <1>1, <1>2, <1>3, <1>4, StepLocksRow
<1>5. CASE RollsBack(c)
  BY <1>5, StepRollsBack
<1> QED
  BY <1>4, <1>5 DEF LockRow

LEMMA StepReadClock ==
    ASSUME Inv, NEW c \in Clients, ReadClock(c)
    PROVE  Inv'
<1> DEFINE q == txn[c]
           outcome == IF q.outcome # NULL /\ row[q.task].cancel THEN "cancelled"
                      ELSE q.outcome
           r == [q EXCEPT !.pc = "write", !.outcome = outcome]
<1>1. /\ q \in AnyTxn /\ Placed(q) /\ Locked(c, q) /\ Relies(q) /\ q.pc = "clock"
      /\ txn \in [Clients -> AnyTxn] /\ UNCHANGED <<tables, locks>>
  BY OfATransaction DEF ReadClock
<1>2. /\ q.answer = NULL /\ q.op \in OnRow /\ q.task \in Tasks
      /\ q.op = "finish" => q.outcome \in {"succeeded", "failed"}
  BY <1>1, Unanswered DEF Placed, Busy, OnRow
<1>3. txn' = [txn EXCEPT ![c] = r]
  BY <1>1 DEF ReadClock
<1>4. /\ outcome \in {"succeeded", "failed", "cancelled", NULL}
      /\ q.op = "finish" => /\ outcome \in {"succeeded", "failed", "cancelled"}
                            /\ row[q.task].cancel <=> outcome = "cancelled"
  BY <1>1, <1>2, StoreAssumption DEF AnyTxn
<1> HIDE DEF q, outcome
<1>5. Same(q, r) /\ r.pc = "write" /\ r.outcome = outcome /\ r.answer = NULL
  BY <1>1, <1>2, <1>4 DEF Same, AnyTxn
<1> HIDE DEF r
<1>6. r \in AnyTxn /\ r.op = q.op /\ r.task = q.task
  BY <1>5 DEF Same
<1>7. Placed(r)
  BY <1>2, <1>4, <1>5, <1>6 DEF Placed, Busy, OnRow
<1>8. Locked(c, r)
  BY <1>1, <1>2, <1>5, <1>6 DEF Locked, HasLimits, HasRow, UnderLimits, OnRow, Busy
<1>9. Relies(r)
  <2>1. RowAllows(r)
    BY <1>1, <1>5, SameRow DEF Relies, HasRow
  <2> QED
    BY <1>2, <1>4, <1>5, <1>6, <2>1 DEF Relies, OnRow
<1>10. Told(r)
  BY <1>5, AnswersNothing
<1> QED
  BY <1>1, <1>3, <1>6, <1>7, <1>8, <1>9, <1>10, StepReads

-----------------------------------------------------------------------------
(* Commit.                                                                 *)

\* What a row may become: it exists from then on, keeps the key and content
\* it was submitted with, is queued only by its submission, and holds a slot
\* only if it held one before or a claim or retry has counted.
Becomes(q, r, new) ==
    /\ new \in AnyRow
    /\ new.status # "absent"
    /\ IF q.op = "submit"
         THEN /\ new.status = "queued" /\ new.cleanup = 0
              /\ new.key = q.key /\ new.content = q.content
         ELSE /\ r.status # "absent"
              /\ new.key = r.key /\ new.content = r.content
              /\ new.status = "queued" => r.status = "queued"
    /\ q.op \in OnRow /\ (new.status = "running" \/ new.cleanup # 0) =>
         r.status = "running" \/ r.cleanup # 0

LEMMA RowBecomes ==
    ASSUME Inv, NEW c \in Clients, txn[c].pc = "write"
    PROVE  /\ txn[c].task \in Tasks
           /\ Becomes(txn[c], row[txn[c].task], Written(txn[c]))
<1> DEFINE q == txn[c]
           r == row[q.task]
           new == Written(q)
<1>1. /\ q \in AnyTxn /\ Placed(q) /\ Relies(q) /\ q.pc = "write"
      /\ q.op \in UnderLimits \cup OnRow
  BY OfATransaction DEF Placed, Busy
<1>2. q.task \in Tasks
  BY <1>1 DEF Placed, Busy, Relies
<1>3. r \in AnyRow /\ (r.status = "absent" => r.cleanup = 0 /\ ~r.planned)
  <2>1. r \in AnyRow
    BY <1>2 DEF Inv, WellTyped
  <2>2. r.status = "absent" => r = NoRow
    BY <1>2 DEF Inv, TablesInv, Exists
  <2> QED
    BY <2>1, <2>2 DEF NoRow
<1>4. q.op # "submit" => RowAllows(q)
  BY <1>1 DEF Relies, HasRow
<1>5. CASE q.op = "submit"
  <2>1. new = [NoRow EXCEPT !.status = "queued", !.key = q.key, !.content = q.content]
    BY <1>5 DEF Written
  <2>2. q.key \in Keys \cup {NULL} /\ q.content \in Contents \cup {NULL}
    BY <1>1 DEF AnyTxn
  <2> HIDE DEF q, r, new
  <2>3. NoRow \in AnyRow /\ NoRow.cleanup = 0
    BY DEF NoRow, AnyRow
  <2>4. Becomes(q, r, new)
    BY <1>5, <2>1, <2>2, <2>3 DEF Becomes, AnyRow, OnRow
  <2> QED
    BY <1>2, <2>4 DEF q, r, new
<1>6. CASE q.op \in {"claim", "retry", "take_over"}
  <2>1. new = [r EXCEPT !.status = "running", !.planned = FALSE]
    BY <1>6 DEF Written
  <2>2. /\ r.status # "absent"
        /\ q.op \in OnRow => r.status = "running"
    BY <1>4, <1>6 DEF RowAllows, OnRow
  <2> HIDE DEF q, r, new
  <2>3. Becomes(q, r, new)
    BY <1>3, <1>6, <2>1, <2>2 DEF Becomes, AnyRow
  <2> QED
    BY <1>2, <2>3 DEF q, r, new
<1>7. CASE q.op = "schedule"
  <2>1. new = [r EXCEPT !.planned = TRUE]
    BY <1>7 DEF Written
  <2>2. r.status = "failed"
    BY <1>4, <1>7 DEF RowAllows
  <2> HIDE DEF q, r, new
  <2>3. Becomes(q, r, new)
    BY <1>3, <1>7, <2>1, <2>2 DEF Becomes, AnyRow
  <2> QED
    BY <1>2, <2>3 DEF q, r, new
<1>8. CASE q.op = "cancel"
  <2>1. r.status \in {"queued", "running", "failed"}
    BY <1>4, <1>8 DEF RowAllows
  <2>2. \/ /\ r.status = "running"
           /\ new = [r EXCEPT !.cancel = TRUE]
        \/ /\ r.status # "running"
           /\ new = [r EXCEPT !.cancel = TRUE, !.status = "cancelled", !.planned = FALSE]
    BY <1>8 DEF Written
  <2> HIDE DEF q, r, new
  <2>3. Becomes(q, r, new)
    BY <1>3, <1>8, <2>1, <2>2 DEF Becomes, AnyRow
  <2> QED
    BY <1>2, <2>3 DEF q, r, new
<1>9. CASE q.op = "finish"
  <2>1. /\ r.status = "running"
        /\ q.outcome \in {"succeeded", "failed", "cancelled"} /\ q.attempt \in Nat
    BY <1>1, <1>4, <1>9 DEF RowAllows, Placed, Busy, AnyTxn
  <2>2. \/ new = [r EXCEPT !.status = q.outcome]
        \/ new = [r EXCEPT !.status = q.outcome, !.cleanup = q.attempt]
    <3>1. new = [r EXCEPT !.status = q.outcome,
                          !.cleanup = IF q.leaves THEN q.attempt ELSE @]
      BY <1>9 DEF Written
    <3>2. CASE q.leaves
      BY <3>1, <3>2
    <3>3. CASE ~q.leaves
      BY <1>3, <3>1, <3>3 DEF AnyRow
    <3> QED
      BY <3>2, <3>3
  <2> HIDE DEF q, r, new
  <2>3. Becomes(q, r, new)
    BY <1>3, <1>9, <2>1, <2>2 DEF Becomes, AnyRow
  <2> QED
    BY <1>2, <2>3 DEF q, r, new
<1>10. CASE q.op = "confirm"
  <2>1. new = [r EXCEPT !.cleanup = 0]
    BY <1>10 DEF Written
  <2>2. r.cleanup # 0
    BY <1>4, <1>10 DEF RowAllows
  <2> HIDE DEF q, r, new
  <2>3. Becomes(q, r, new)
    BY <1>3, <1>10, <2>1, <2>2 DEF Becomes, AnyRow
  <2> QED
    BY <1>2, <2>3 DEF q, r, new
<1>11. CASE q.op = "renew"
  <2>1. new = r /\ r.status = "running"
    BY <1>4, <1>11 DEF Written, RowAllows
  <2> HIDE DEF q, r, new
  <2>2. Becomes(q, r, new)
    BY <1>3, <1>11, <2>1 DEF Becomes, AnyRow
  <2> QED
    BY <1>2, <2>2 DEF q, r, new
<1> QED
  BY <1>1, <1>5, <1>6, <1>7, <1>8, <1>9, <1>10, <1>11 DEF UnderLimits, OnRow

LEMMA HistoryIsTyped ==
    ASSUME Inv, NEW c \in Clients, txn[c].pc = "write"
    PROVE  History(txn[c]) \in Seq(AttemptStatus)
<1> DEFINE q == txn[c]
           h == attempts[q.task]
<1>1. q.task \in Tasks
  BY RowBecomes
<1>2. h \in Seq(AttemptStatus)
  BY <1>1 DEF Inv, WellTyped
<1>3. ASSUME NEW status \in AttemptStatus
      PROVE  [h EXCEPT ![Len(h)] = status] \in Seq(AttemptStatus)
  <2> HIDE DEF h
  <2>1. Len(h) \in Nat /\ DOMAIN h = 1..Len(h) /\ h \in [1..Len(h) -> AttemptStatus]
    BY <1>2, LenProperties
  <2>2. CASE Len(h) \in 1..Len(h)
    BY <1>2, <2>2, ExceptSeq
  <2>3. CASE Len(h) \notin 1..Len(h)
    <3>1. [h EXCEPT ![Len(h)] = status] = h
      BY <2>1, <2>3
    <3> QED
      BY <1>2, <3>1
  <2> QED
    BY <2>2, <2>3
<1>4. ASSUME NEW g \in Seq(AttemptStatus)
      PROVE  Append(g, "running") \in Seq(AttemptStatus)
  BY DEF AttemptStatus
<1>5. CASE q.op \in {"claim", "retry"}
  <2>1. History(q) = Append(h, "running")
    BY <1>5 DEF History
  <2> QED
    BY <1>2, <1>4, <2>1
<1>6. CASE q.op = "take_over"
  <2>1. History(q) = Append([h EXCEPT ![Len(h)] = "interrupted"], "running")
    BY <1>6 DEF History
  <2> QED
    BY <1>3, <1>4, <2>1 DEF AttemptStatus
<1>7. CASE q.op = "finish"
  <2>1. History(q) = [h EXCEPT ![Len(h)] =
                        IF q.outcome = "cancelled" THEN "interrupted" ELSE q.outcome]
    BY <1>7 DEF History
  <2>2. q.outcome \in {"succeeded", "failed", "cancelled"}
    BY <1>7, OfATransaction DEF Placed, Busy
  <2>3. (IF q.outcome = "cancelled" THEN "interrupted" ELSE q.outcome) \in AttemptStatus
    BY <2>2 DEF AttemptStatus
  <2> QED
    BY <1>3, <2>1, <2>3
<1>8. CASE q.op \notin {"claim", "retry", "take_over", "finish"}
  BY <1>2, <1>8 DEF History
<1> QED
  BY <1>5, <1>6, <1>7, <1>8

\* A row that allows a method is there.
LEMMA AllowedExists ==
    ASSUME TablesInv, NEW q, q.task \in Tasks, q.op \in {"claim", "retry"} \cup OnRow,
           RowAllows(q)
    PROVE  Exists(q.task)
<1> DEFINE r == row[q.task]
<1>1. r.status = "absent" => r.cleanup = 0 /\ ~r.planned
  BY DEF TablesInv, Exists, NoRow
<1>2. CASE q.op \in {"claim", "retry", "schedule", "finish", "renew", "take_over"}
  BY <1>2 DEF RowAllows, Exists
<1>3. CASE q.op = "cancel"
  BY <1>3 DEF RowAllows, Exists
<1>4. CASE q.op = "confirm"
  BY <1>1, <1>4 DEF RowAllows, Exists
<1> QED
  BY <1>2, <1>3, <1>4 DEF OnRow

\* What a commit does to the tables.
LEMMA CommitWrites ==
    ASSUME Inv, NEW c \in Clients, Commit(c)
    PROVE  LET q == txn[c]
               t == q.task
           IN  /\ t \in Tasks /\ q.op \in UnderLimits \cup OnRow
               /\ row' \in [Tasks -> AnyRow]
               /\ attempts' \in [Tasks -> Seq(AttemptStatus)]
               /\ Becomes(q, row[t], row'[t])
               /\ \A u \in Tasks \ {t} : row'[u] = row[u] /\ attempts'[u] = attempts[u]
<1> DEFINE q == txn[c]
           t == q.task
<1>1. /\ q.pc = "write" /\ row' = [row EXCEPT ![t] = Written(q)]
      /\ attempts' = [attempts EXCEPT ![t] = History(q)]
  BY DEF Commit
<1>2. t \in Tasks /\ Becomes(q, row[t], Written(q))
  BY <1>1, RowBecomes
<1>3. Written(q) \in AnyRow
  BY <1>2 DEF Becomes
<1>4. History(q) \in Seq(AttemptStatus)
  BY <1>1, HistoryIsTyped
<1>5. row \in [Tasks -> AnyRow] /\ attempts \in [Tasks -> Seq(AttemptStatus)]
  BY DEF Inv, WellTyped
<1>6. q.op \in UnderLimits \cup OnRow
  BY <1>1, OfATransaction DEF Placed, Busy
<1> HIDE DEF q, t
<1>7. row' \in [Tasks -> AnyRow] /\ attempts' \in [Tasks -> Seq(AttemptStatus)]
  BY <1>1, <1>2, <1>3, <1>4, <1>5
<1>8. row'[t] = Written(q)
      /\ \A u \in Tasks \ {t} : row'[u] = row[u] /\ attempts'[u] = attempts[u]
  BY <1>1, <1>2, <1>5
<1>9. Becomes(q, row[t], row'[t])
  BY <1>2, <1>8
<1> QED
  BY <1>2, <1>6, <1>7, <1>8, <1>9 DEF q, t

\* Rows that exist go on to exist, with their key and content; only a
\* submission adds one, and a queued one; only a claim or a retry takes a
\* slot, and only for its task.
LEMMA CommitEffect ==
    ASSUME Inv, NEW c \in Clients, Commit(c)
    PROVE  /\ \A u \in Tasks : Exists(u) =>
                /\ Exists(u)' /\ row'[u].key = row[u].key
                /\ row'[u].content = row[u].content
           /\ txn[c].op # "submit" =>
                /\ \A u \in Tasks : Exists(u)' => Exists(u)
                /\ Queued' \subseteq Queued
           /\ txn[c].op = "submit" => Queued' \subseteq Queued \cup {txn[c].task}
           /\ txn[c].op \in OnRow \cup {"submit"} => SlotHolders' \subseteq SlotHolders
           /\ SlotHolders' \subseteq SlotHolders \cup {txn[c].task}
           /\ SlotHolders \subseteq SlotHolders' \cup {txn[c].task}
<1> DEFINE q == txn[c]
           t == q.task
<1>1. /\ t \in Tasks /\ Becomes(q, row[t], row'[t])
      /\ q.op \in UnderLimits \cup OnRow
      /\ \A u \in Tasks \ {t} : row'[u] = row[u]
  BY CommitWrites
<1>2. q.op = "submit" => ~Exists(t)
  BY <1>1, OfATransaction DEF Commit, Relies
<1> HIDE DEF q, t
<1>3. \A u \in Tasks : Exists(u) =>
        Exists(u)' /\ row'[u].key = row[u].key /\ row'[u].content = row[u].content
  <2> SUFFICES ASSUME NEW u \in Tasks, Exists(u)
               PROVE  /\ Exists(u)' /\ row'[u].key = row[u].key
                      /\ row'[u].content = row[u].content
    OBVIOUS
  <2>1. CASE u = t
    BY <1>1, <1>2, <2>1 DEF Becomes, Exists
  <2>2. CASE u # t
    BY <1>1, <2>2 DEF Exists
  <2> QED
    BY <2>1, <2>2
<1>4. ASSUME q.op # "submit"
      PROVE  (\A u \in Tasks : Exists(u)' => Exists(u)) /\ Queued' \subseteq Queued
  BY <1>1, <1>4 DEF Becomes, Exists, Queued
<1>5. Queued' \subseteq Queued \cup {t}
  BY <1>1 DEF Queued
<1>6. ASSUME q.op \in OnRow \cup {"submit"}
      PROVE  SlotHolders' \subseteq SlotHolders
  BY <1>1, <1>6 DEF Becomes, SlotHolders, UnderLimits, OnRow
<1>7. SlotHolders' \subseteq SlotHolders \cup {t} /\ SlotHolders \subseteq SlotHolders' \cup {t}
  BY <1>1 DEF SlotHolders
<1> QED
  BY <1>3, <1>4, <1>5, <1>6, <1>7 DEF q, t

\* The tables stay consistent.
LEMMA CommitKeepsTables ==
    ASSUME Inv, NEW c \in Clients, Commit(c)
    PROVE  TablesInv'
<1> DEFINE q == txn[c]
           t == q.task
<1>1. /\ t \in Tasks /\ Becomes(q, row[t], row'[t])
      /\ \A u \in Tasks \ {t} : row'[u] = row[u]
  BY CommitWrites
<1>2. q.op = "submit" => /\ ~Exists(t) /\ HasQueueSlot
                         /\ q.key # NULL => WithKey(q.key) = {}
  BY <1>1, OfATransaction DEF Commit, Relies
<1>3. TablesInv
  BY DEF Inv
<1>4. /\ \A u \in Tasks : Exists(u) => Exists(u)' /\ row'[u].key = row[u].key
      /\ q.op # "submit" => /\ \A u \in Tasks : Exists(u)' => Exists(u)
                            /\ Queued' \subseteq Queued
      /\ q.op = "submit" => Queued' \subseteq Queued \cup {t}
  BY CommitEffect
<1> HIDE DEF q, t
<1>5. \A u \in Tasks : ~Exists(u)' => row'[u] = NoRow
  <2> SUFFICES ASSUME NEW u \in Tasks, ~Exists(u)' PROVE row'[u] = NoRow
    OBVIOUS
  <2>1. u # t
    BY <1>1 DEF Becomes, Exists
  <2>2. row'[u] = row[u] /\ ~Exists(u)
    BY <1>1, <2>1 DEF Exists
  <2> QED
    BY <1>3, <2>2 DEF TablesInv
<1>6. ASSUME NEW u \in Tasks, NEW v \in Tasks, Exists(u)', Exists(v)',
             row'[u].key = row'[v].key, row'[u].key # NULL
      PROVE  u = v
  <2>1. CASE q.op # "submit"
    <3>1. Exists(u) /\ Exists(v) /\ row[u].key = row[v].key /\ row[u].key # NULL
      BY <1>4, <1>6, <2>1
    <3> QED
      BY <1>3, <3>1 DEF TablesInv
  <2>2. CASE q.op = "submit"
    <3>1. row'[t].key = q.key /\ ~Exists(t)
      BY <1>1, <1>2, <2>2 DEF Becomes
    <3>2. ASSUME NEW w \in Tasks, Exists(w)', w # t, row'[w].key = q.key PROVE q.key = NULL
      <4>1. Exists(w) /\ row[w].key = q.key
        BY <1>1, <3>2 DEF Exists
      <4>2. w \in WithKey(q.key)
        BY <4>1 DEF WithKey, Exists
      <4> QED
        BY <1>2, <2>2, <4>2
    <3>3. CASE u = t
      BY <1>6, <3>1, <3>2, <3>3
    <3>4. CASE v = t
      BY <1>6, <3>1, <3>2, <3>4
    <3>5. CASE u # t /\ v # t
      <4>1. row'[u] = row[u] /\ row'[v] = row[v]
        BY <1>1, <3>5
      <4>2. Exists(u) /\ Exists(v) /\ row[u].key = row[v].key /\ row[u].key # NULL
        BY <1>6, <4>1 DEF Exists
      <4> QED
        BY <1>3, <4>2 DEF TablesInv
    <3> QED
      BY <3>3, <3>4, <3>5
  <2> QED
    BY <2>1, <2>2
<1>7. Cardinality(Queued') <= MaxQueuedTasks
  <2>1. IsFiniteSet(Queued) /\ Cardinality(Queued) \in Nat
    BY TasksFinite
  <2>2. CASE q.op # "submit"
    <3>1. Cardinality(Queued') <= Cardinality(Queued)
      BY <1>4, <2>2, FewerQueued
    <3>2. Cardinality(Queued') \in Nat
      <4>1. IsFiniteSet(Queued')
        BY <1>4, <2>1, <2>2, FS_Subset
      <4> QED
        BY <4>1, FS_CardinalityType
    <3>3. Cardinality(Queued) <= MaxQueuedTasks
      BY <1>3 DEF TablesInv
    <3> QED
      BY <2>1, <3>1, <3>2, <3>3, StoreAssumption
  <2>3. CASE q.op = "submit"
    <3>1. t \notin Queued /\ Cardinality(Queued) < MaxQueuedTasks
      BY <1>2, <2>3 DEF Queued, Exists, HasQueueSlot
    <3>2. /\ IsFiniteSet(Queued \cup {t})
          /\ Cardinality(Queued \cup {t}) = Cardinality(Queued) + 1
      BY <2>1, <3>1, FS_AddElement
    <3>3. /\ IsFiniteSet(Queued')
          /\ Cardinality(Queued') <= Cardinality(Queued \cup {t})
      BY <1>4, <2>3, <3>2, FS_Subset
    <3>4. Cardinality(Queued') \in Nat
      BY <3>3, FS_CardinalityType
    <3> QED
      BY <2>1, <3>1, <3>2, <3>3, <3>4, StoreAssumption
  <2> QED
    BY <2>2, <2>3
<1> QED
  BY <1>5, <1>6, <1>7 DEF TablesInv

\* What another transaction relies on outlives the commit.
LEMMA CommitSparesOthers ==
    ASSUME Inv, NEW c \in Clients, Commit(c), NEW d \in Clients \ {c}
    PROVE  Good(d, txn[d])'
<1> DEFINE q == txn[c]
           t == q.task
           p == txn[d]
<1>1. /\ t \in Tasks /\ q.op \in UnderLimits \cup OnRow /\ q.pc = "write"
      /\ \A u \in Tasks \ {t} : row'[u] = row[u] /\ attempts'[u] = attempts[u]
  BY CommitWrites DEF Commit
<1>2. /\ p \in AnyTxn /\ Placed(p) /\ Locked(d, p) /\ Relies(p) /\ Told(p)
      /\ limitsLock \in Clients \cup {NULL} /\ d # NULL
      /\ rowLock \in [Tasks -> Clients \cup {NULL}]
  BY OfATransaction
<1>3. Locked(c, q) /\ Relies(q)
  BY OfATransaction
<1>4. /\ \A u \in Tasks : Exists(u) =>
           Exists(u)' /\ row'[u].key = row[u].key /\ row'[u].content = row[u].content
      /\ q.op # "submit" => /\ \A u \in Tasks : Exists(u)' => Exists(u)
                            /\ Queued' \subseteq Queued
      /\ q.op \in OnRow => SlotHolders' \subseteq SlotHolders
  BY CommitEffect
<1>5. txn'[d] = p /\ (limitsLock = d => limitsLock' = d)
      /\ \A u \in Tasks : rowLock[u] = d => rowLock'[u] = d
  BY <1>2 DEF Commit, Releases, Inv, WellTyped
<1>6. TablesInv /\ t = q.task /\ p' = p
  BY <1>5 DEF Inv
<1> HIDE DEF q, t, p
<1>7. HasLimits(p) => q.op \in OnRow
  BY <1>1, <1>2, <1>3 DEF Locked, HasLimits, Busy
<1>8. ASSUME HasRow(p)
      PROVE  p.task \in Tasks /\ p.task # t
  <2>1. p.task \in Tasks /\ p.op \in {"claim", "retry"} \cup OnRow
    BY <1>2, <1>8 DEF Placed, Busy, HasRow, UnderLimits, OnRow
  <2>2. RowAllows(p) /\ rowLock[p.task] = d
    BY <1>2, <1>8 DEF Relies, Locked
  <2>3. CASE q.op = "submit"
    <3>1. ~Exists(t)
      BY <1>1, <1>3, <1>6, <2>3 DEF Relies
    <3>2. Exists(p.task)
      BY <1>6, <2>1, <2>2, AllowedExists
    <3> QED
      BY <2>1, <3>1, <3>2
  <2>4. CASE q.op # "submit"
    <3>1. rowLock[t] = c
      BY <1>1, <1>3, <1>6, <2>4 DEF Locked, HasRow
    <3> QED
      BY <2>1, <2>2, <3>1
  <2> QED
    BY <2>3, <2>4
<1>9. ASSUME HasLimits(p)
      PROVE  /\ \A k : WithKey(k)' = WithKey(k)
             /\ HasQueueSlot => HasQueueSlot'
             /\ HasRunningSlot => HasRunningSlot'
  <2>1. q.op \in OnRow /\ q.op # "submit"
    BY <1>7, <1>9 DEF OnRow
  <2>2. \A k : WithKey(k)' = WithKey(k)
    BY <1>4, <2>1 DEF WithKey, Exists
  <2>3. HasQueueSlot => HasQueueSlot'
    BY <1>4, <2>1, FewerQueued
  <2>4. HasRunningSlot => HasRunningSlot'
    BY <1>4, <2>1, FewerHolders
  <2> QED
    BY <2>2, <2>3, <2>4
<1>10. Placed(p)' /\ Locked(d, p)'
  <2>1. Placed(p) /\ Locked(d, p)
    BY <1>2
  <2>2. HasRow(p) => p.task \in Tasks
    BY <1>8
  <2> QED
    BY <1>5, <1>6, <2>1, <2>2 DEF Placed, Locked, HasLimits, HasRow, Busy
<1>11. Relies(p)'
  <2>1. HasRow(p) => row'[p.task] = row[p.task] /\ attempts'[p.task] = attempts[p.task]
    BY <1>1, <1>8
  <2>2. HasRow(p) => RowAllows(p)'
    BY <1>2, <1>6, <2>1 DEF Relies, RowAllows
  <2>3. \/ p.pc \in {"row", "write"} /\ p.op = "claim"
        \/ p.pc = "write" /\ p.op = "retry"
        => HasRunningSlot'
    BY <1>2, <1>9 DEF Relies, HasLimits, Busy, UnderLimits
  <2>4. p.pc = "write" /\ p.op = "finish" =>
          (row'[p.task].cancel <=> p.outcome = "cancelled")
    BY <1>2, <2>1 DEF Relies, HasRow
  <2>5. p.pc = "write" /\ p.op = "submit" =>
          p.task \in Tasks /\ ~Exists(p.task)' /\ HasQueueSlot'
    <3> SUFFICES ASSUME p.pc = "write", p.op = "submit"
                 PROVE  p.task \in Tasks /\ ~Exists(p.task)' /\ HasQueueSlot'
      OBVIOUS
    <3>1. HasLimits(p)
      BY DEF HasLimits, Busy, UnderLimits
    <3>2. p.task \in Tasks /\ ~Exists(p.task) /\ HasQueueSlot
      BY <1>2 DEF Relies
    <3>3. \A u \in Tasks : Exists(u)' => Exists(u)
      BY <1>4, <1>7, <3>1 DEF OnRow
    <3> QED
      BY <1>6, <1>9, <3>1, <3>2, <3>3
  <2>6. p.pc \in {"count", "write"} /\ p.op = "submit" /\ p.key # NULL =>
          WithKey(p.key)' = {}
    <3> SUFFICES ASSUME p.pc \in {"count", "write"}, p.op = "submit", p.key # NULL
                 PROVE  WithKey(p.key)' = {}
      OBVIOUS
    <3>1. HasLimits(p)
      BY DEF HasLimits, Busy, UnderLimits
    <3>2. WithKey(p.key) = {}
      BY <1>2 DEF Relies
    <3> QED
      BY <1>6, <1>9, <3>1, <3>2
  <2> QED
    BY <1>6, <2>2, <2>3, <2>4, <2>5, <2>6 DEF Relies, HasRow
<1>12. Told(p)'
  <2>1. CASE p.answer = NULL
    BY <1>6, <2>1, StoreAssumption DEF Told
  <2>2. CASE p.answer # NULL
    <3>1. p.pc = "answered" /\ p.op = "submit"
      BY <1>2, <2>2 DEF Placed
    <3>2. HasLimits(p)
      BY <3>1 DEF HasLimits, Busy, UnderLimits
    <3>3. WithKey(p.key)' = WithKey(p.key)
      BY <1>6, <1>9, <3>2
    <3>4. \A u \in WithKey(p.key) : row'[u].content = row[u].content
      BY <1>4 DEF WithKey, Exists
    <3>5. p.answer \in Tasks => /\ Exists(p.answer)' /\ row'[p.answer].key = p.key
                                /\ row'[p.answer].content = p.content
      BY <1>2, <1>4, <1>6 DEF Told
    <3>6. p.answer = "conflict" => \E u \in WithKey(p.key)' : row'[u].content # p.content
      BY <1>2, <3>3, <3>4 DEF Told
    <3>7. p.answer = "full" /\ p.key # NULL => WithKey(p.key)' = {}
      BY <1>2, <3>3 DEF Told
    <3> QED
      BY <1>6, <3>5, <3>6, <3>7 DEF Told
  <2> QED
    BY <2>1, <2>2
<1> QED
  BY <1>10, <1>11, <1>12 DEF Good, p

LEMMA StepCommit ==
    ASSUME Inv, NEW c \in Clients, Commit(c)
    PROVE  Inv'
<1>1. /\ row' \in [Tasks -> AnyRow] /\ attempts' \in [Tasks -> Seq(AttemptStatus)]
  BY CommitWrites
<1>2. /\ txn' = [txn EXCEPT ![c] = Idle]
      /\ limitsLock' = IF limitsLock = c THEN NULL ELSE limitsLock
      /\ rowLock' = [t \in Tasks |-> IF rowLock[t] = c THEN NULL ELSE rowLock[t]]
  BY DEF Commit, Releases
<1>3. /\ txn \in [Clients -> AnyTxn] /\ limitsLock \in Clients \cup {NULL}
      /\ rowLock \in [Tasks -> Clients \cup {NULL}]
  BY OfATransaction
<1>4. Idle \in AnyTxn /\ Idle.pc = "idle" /\ Idle.answer = NULL
  BY DEF Idle, AnyTxn
<1>5. WellTyped'
  <2>1. txn' \in [Clients -> AnyTxn]
    BY <1>2, <1>3, <1>4
  <2>2. limitsLock' \in Clients \cup {NULL}
    BY <1>2, <1>3
  <2>3. rowLock' \in [Tasks -> Clients \cup {NULL}]
    BY <1>2, <1>3
  <2> QED
    BY <1>1, <2>1, <2>2, <2>3 DEF WellTyped
<1>6. TablesInv'
  BY CommitKeepsTables
<1>7. Good(c, txn[c])'
  <2>1. txn'[c] = Idle
    BY <1>2, <1>3
  <2>2. Placed(txn[c])' /\ Locked(c, txn[c])' /\ Relies(txn[c])'
    BY <1>4, <2>1 DEF Placed, Busy, Locked, HasLimits, HasRow, Relies
  <2>3. Told(txn[c])'
    BY <1>4, <2>1, StoreAssumption DEF Told
  <2> QED
    BY <2>2, <2>3 DEF Good
<1>8. \A d \in Clients \ {c} : Good(d, txn[d])'
  BY CommitSparesOthers
<1> QED
  BY <1>5, <1>6, <1>7, <1>8 DEF Inv

-----------------------------------------------------------------------------
(* The theorems.                                                           *)

LEMMA InvInit == Init => Inv
<1> SUFFICES ASSUME Init PROVE Inv
  OBVIOUS
<1>1. /\ row = [t \in Tasks |-> NoRow] /\ attempts = [t \in Tasks |-> << >>]
      /\ limitsLock = NULL /\ rowLock = [t \in Tasks |-> NULL]
      /\ txn = [c \in Clients |-> Idle]
  BY DEF Init
<1>2. NoRow \in AnyRow /\ NoRow.status = "absent"
  BY DEF NoRow, AnyRow
<1>3. Idle \in AnyTxn /\ Idle.pc = "idle" /\ Idle.answer = NULL
  BY DEF Idle, AnyTxn
<1>4. << >> \in Seq(AttemptStatus)
  BY EmptySeq
<1>5. WellTyped
  BY <1>1, <1>2, <1>3, <1>4 DEF WellTyped
<1>6. TablesInv
  <2>1. Queued = {} /\ \A t \in Tasks : ~Exists(t) /\ row[t] = NoRow
    BY <1>1, <1>2 DEF Queued, Exists
  <2> QED
    BY <2>1, FS_EmptySet, StoreAssumption DEF TablesInv
<1>7. ASSUME NEW c \in Clients PROVE Good(c, txn[c])
  <2>1. txn[c] = Idle
    BY <1>1
  <2>2. Placed(Idle) /\ Locked(c, Idle) /\ Relies(Idle)
    BY <1>3 DEF Placed, Busy, Locked, HasLimits, HasRow, Relies
  <2>3. Told(Idle)
    BY <1>3, AnswersNothing
  <2> QED
    BY <2>1, <2>2, <2>3 DEF Good
<1> QED
  BY <1>5, <1>6, <1>7 DEF Inv

LEMMA InvKept == Inv /\ [Next]_vars => Inv'
<1> SUFFICES ASSUME Inv, [Next]_vars PROVE Inv'
  OBVIOUS
<1>1. CASE UNCHANGED vars
  <2>1. /\ UNCHANGED tables /\ txn' = txn
        /\ limitsLock' = limitsLock /\ rowLock' = rowLock
    BY <1>1 DEF vars, locks
  <2>2. WellTyped'
    BY <2>1 DEF Inv, WellTyped, tables
  <2>3. TablesInv'
    BY <2>1, TablesKeep DEF Inv
  <2>4. ASSUME NEW d \in Clients PROVE Good(d, txn[d])'
    BY <2>1, OthersKeep
  <2> QED
    BY <2>2, <2>3, <2>4 DEF Inv
<1>2. CASE Next
  BY <1>2, StepLockLimits, StepCallOnRow, StepLookUp, StepCountQueued, StepCountRunning,
     StepLockRow, StepReadClock, StepCommit, StepRollsBack DEF Next, RollBack
<1> QED
  BY <1>1, <1>2

\* The invariant over every behaviour of the clients.
THEOREM TransactionInvHolds == Spec => []Inv
BY InvInit, InvKept, PTL DEF Spec

\* What the statements of a transaction of task_store.py have read is still so
\* when it writes: the locks it holds are enough.
THEOREM DecisionsHold == Spec => []DecisionsStillHold
<1>1. Inv => DecisionsStillHold
  <2> SUFFICES ASSUME Inv, NEW c \in Clients, txn[c].pc = "write"
               PROVE  LET q == txn[c]
                      IN  IF q.op = "submit"
                            THEN /\ HasQueueSlot
                                 /\ row[q.task].status = "absent"
                                 /\ q.key # NULL => WithKey(q.key) = {}
                            ELSE /\ RowAllows(q)
                                 /\ q.op \in {"claim", "retry"} => HasRunningSlot
                                 /\ q.op = "finish" =>
                                      (row[q.task].cancel <=> q.outcome = "cancelled")
    BY DEF DecisionsStillHold
  <2>1. Relies(txn[c])
    BY OfATransaction
  <2> QED
    BY <2>1 DEF Relies, HasRow, Exists
<1> QED
  BY <1>1, TransactionInvHolds, PTL

\* A key has one task, and every repetition of a submission is answered with
\* it (create_task_idempotent).
THEOREM SubmissionsAreIdempotentHolds == Spec => []SubmissionsAreIdempotent
<1>1. Inv => SubmissionsAreIdempotent
  <2> SUFFICES ASSUME Inv PROVE SubmissionsAreIdempotent
    OBVIOUS
  <2>1. ASSUME NEW k \in Keys PROVE Cardinality(WithKey(k)) <= 1
    <3>1. k # NULL
      BY StoreAssumption
    <3>2. \A t, u \in WithKey(k) : t = u
      BY <3>1 DEF Inv, TablesInv, WithKey, Exists
    <3>3. CASE WithKey(k) = {}
      BY <3>3, FS_EmptySet
    <3>4. CASE WithKey(k) # {}
      <4>1. PICK t \in WithKey(k) : TRUE
        BY <3>4
      <4>2. WithKey(k) = {t}
        BY <3>2, <4>1
      <4> QED
        BY <4>2, FS_Singleton
    <3> QED
      BY <3>3, <3>4
  <2>2. ASSUME NEW c \in Clients
        PROVE  /\ txn[c].answer \in Tasks => /\ row[txn[c].answer].key = txn[c].key
                                             /\ row[txn[c].answer].content = txn[c].content
               /\ txn[c].answer = "conflict" =>
                    \E t \in WithKey(txn[c].key) : row[t].content # txn[c].content
               /\ txn[c].answer = "full" =>
                    /\ Cardinality(Queued) <= MaxQueuedTasks
                    /\ txn[c].key # NULL => WithKey(txn[c].key) = {}
    <3>1. Told(txn[c]) /\ Cardinality(Queued) <= MaxQueuedTasks
      BY OfATransaction DEF Inv, TablesInv
    <3> QED
      BY <3>1 DEF Told
  <2> QED
    BY <2>1, <2>2 DEF SubmissionsAreIdempotent
<1> QED
  BY <1>1, TransactionInvHolds, PTL

\* The committed rows are a pool of max_running_tasks slots.
THEOREM TransactionsAreASlotPool == Spec => ImplementsSlotPool
<1>1. Init => Pool!Init
  BY DEF Init, Pool!Init, SlotHolders, NoRow
<1>2. Inv /\ [Next]_vars => [Pool!Next]_SlotHolders
  <2> SUFFICES ASSUME Inv, [Next]_vars PROVE [Pool!Next]_SlotHolders
    OBVIOUS
  <2>1. UNCHANGED row => UNCHANGED SlotHolders
    BY DEF SlotHolders
  <2>2. ASSUME NEW c \in Clients, Commit(c) PROVE [Pool!Next]_SlotHolders
    <3> DEFINE t == txn[c].task
    <3>1. /\ t \in Tasks /\ txn[c].op \in UnderLimits \cup OnRow /\ txn[c].pc = "write"
      BY <2>2, CommitWrites DEF Commit
    <3>2. /\ txn[c].op \in OnRow \cup {"submit"} => SlotHolders' \subseteq SlotHolders
          /\ SlotHolders' \subseteq SlotHolders \cup {t}
          /\ SlotHolders \subseteq SlotHolders' \cup {t}
      BY <2>2, CommitEffect
    <3>3. txn[c].op \in {"claim", "retry"} => HasRunningSlot
      BY <3>1, OfATransaction DEF Relies
    <3> HIDE DEF t
    <3>4. CASE SlotHolders' = SlotHolders
      BY <3>4
    <3>5. CASE t \in SlotHolders' /\ t \notin SlotHolders
      <4>1. SlotHolders' = SlotHolders \cup {t}
        BY <3>2, <3>5
      <4>2. HasRunningSlot
        BY <3>1, <3>2, <3>3, <3>5 DEF UnderLimits
      <4>3. Pool!Acquire(t)
        BY <3>5, <4>1, <4>2 DEF Pool!Acquire, HasRunningSlot, Cardinality, Pool!Cardinality
      <4> QED
        BY <3>1, <4>3 DEF Pool!Next
    <3>6. CASE t \notin SlotHolders' /\ t \in SlotHolders
      <4>1. SlotHolders' = SlotHolders \ {t}
        BY <3>2, <3>6
      <4>2. Pool!Release(t)
        BY <3>6, <4>1 DEF Pool!Release
      <4> QED
        BY <3>1, <4>2 DEF Pool!Next
    <3> QED
      BY <3>2, <3>4, <3>5, <3>6
  <2>3. \/ UNCHANGED row
        \/ \E c \in Clients : Commit(c)
    BY DEF Next, vars, tables, LockLimits, CallOnRow, LocksRow, LookUp, CountQueued,
           CountRunning, RollsBack, LockRow, ReadClock, RollBack
  <2> QED
    BY <2>1, <2>2, <2>3
<1> QED
  BY <1>1, <1>2, TransactionInvHolds, PTL DEF Spec, ImplementsSlotPool, Pool!Spec
=============================================================================

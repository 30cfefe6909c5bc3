------------------------ MODULE RequestLifecycleProofs ------------------------
(***************************************************************************)
(* Proofs about RequestLifecycle, for any number of requests and any       *)
(* capacities.  Every step changes the context of one request; beside it,  *)
(* a permit may be handed to one waiter.  So the invariant is a predicate  *)
(* of each request and the two sums of CapacityConserved.                  *)
(***************************************************************************)
EXTENDS RequestLifecycle, FiniteSetTheorems, SequenceTheorems, TLAPS

Futures == {"none", "pending", "set", "cancelled"}
Stages  == {"new", "entered", "admitted", "leaving"}

\* What the phase of a request says of its tasks and its capacity.
Settled(row) ==
    /\ row.phase = "active" =>
         /\ row.agent \in {"created", "queued", "running"}
         /\ ~row.cancelling
         /\ row.outcome = NULL
         /\ \A m \in Monitors : row.monitor[m] = "watching"
    /\ row.phase = "finalizing" => \E m \in Monitors : row.monitor[m] = "cleaning"
    /\ row.phase = "finalized" =>
         /\ row.agent = "done" /\ ~row.permit /\ ~row.slot
         /\ ~row.cancelling
         /\ \A m \in Monitors : row.monitor[m] # "cleaning"
    /\ \A m1, m2 \in Monitors :
         row.monitor[m1] = "cleaning" /\ row.monitor[m2] = "cleaning" => m1 = m2
    /\ row.phase # "active" => row.outcome # NULL
    /\ row.recorded = IF row.phase = "finalized" THEN 1 ELSE 0

\* What the agent's place says of the capacity it holds.
Holds(row, f) ==
    /\ ~(row.permit /\ row.slot)
    /\ row.agent = "created" => row.permit \/ row.slot
    /\ row.agent \in {"running", "waiting"} => row.permit
    /\ row.agent = "queued" => row.slot
    /\ row.agent = "done" => ~row.cancelling
    /\ row.agent = "queued" <=> f # "none"
    /\ f = "pending" => ~row.cancelling
    /\ f = "cancelled" => row.cancelling

Good(s, row, f) ==
    /\ s \in Stages
    /\ row \in Context
    /\ f \in Futures
    /\ s # "admitted" => row = NewContext /\ f = "none"
    /\ s = "admitted" => Settled(row) /\ Holds(row, f)

AllGood == /\ stage \in [Requests -> Stages]
           /\ ctx \in [Requests -> Context]
           /\ future \in [Requests -> Futures]
           /\ \A r \in Requests : Good(stage[r], ctx[r], future[r])

LifecycleInv == RequestTypeOK /\ AllGood /\ CapacityConserved

-----------------------------------------------------------------------------
\* Waking hands a permit to one pending waiter, or leaves all as it was.
LEMMA WakingOne ==
    ASSUME NEW f \in [Requests -> Futures], NEW n \in Int, NEW q \in Seq(Requests),
           WakeUpNext(f, n, q)
    PROVE  \/ future' = f /\ permits' = n
           \/ \E w \in Requests : /\ f[w] = "pending"
                                  /\ future' = [f EXCEPT ![w] = "set"]
                                  /\ permits' = n - 1
<1> DEFINE Ready == {i \in DOMAIN q : f[q[i]] = "pending"}
<1>1. CASE Ready = {}
  BY <1>1 DEF WakeUpNext
<1>2. CASE Ready # {}
  <2>1. PICK i \in Ready : /\ future' = [f EXCEPT ![q[i]] = "set"]
                           /\ permits' = n - 1
    BY <1>2 DEF WakeUpNext
  <2>2. q[i] \in Requests /\ f[q[i]] = "pending"
    BY <2>1, ElementOfSeq
  <2> QED
    BY <2>1, <2>2
<1> QED
  BY <1>1, <1>2

\* A waiter that leaves the line leaves a line of requests.
LEMMA LineIsTyped ==
    ASSUME line \in Seq(Requests), NEW r, LeavesLine(r)
    PROVE  line' \in Seq(Requests)
<1>1. PICK i \in DOMAIN line : line' = RemoveAt(line, i)
  BY DEF LeavesLine
<1>2. /\ SubSeq(line, 1, i-1) \in Seq(Requests)
      /\ SubSeq(line, i+1, Len(line)) \in Seq(Requests)
  BY SubSeqProperties
<1> QED
  BY <1>1, <1>2, ConcatProperties DEF RemoveAt

-----------------------------------------------------------------------------
\* A step of request r: its own stage and context may change, beside it at
\* most one other waiter is handed a permit.
Touches(r) ==
    /\ \A u \in Requests \ {r} : stage'[u] = stage[u] /\ ctx'[u] = ctx[u]
    /\ \A u \in Requests \ {r} :
         future'[u] = future[u] \/ (future[u] = "pending" /\ future'[u] = "set")
    /\ stage' \in [Requests -> Stages]
    /\ ctx' \in [Requests -> Context]
    /\ future' \in [Requests -> Futures]
    /\ line' \in Seq(Requests)

\* The step keeps what holds of the other requests.
LEMMA OthersStayGood ==
    ASSUME AllGood, NEW r \in Requests, Touches(r),
           Good(stage'[r], ctx'[r], future'[r])
    PROVE  AllGood'
<1> SUFFICES ASSUME NEW u \in Requests PROVE Good(stage'[u], ctx'[u], future'[u])
  BY DEF AllGood, Touches
<1>1. CASE u = r
  BY <1>1
<1>2. CASE u # r /\ future'[u] = future[u]
  BY <1>2 DEF Touches, AllGood
<1>3. CASE u # r /\ future[u] = "pending" /\ future'[u] = "set"
  <2>1. /\ Good(stage[u], ctx[u], future[u])
        /\ stage'[u] = stage[u] /\ ctx'[u] = ctx[u]
    BY <1>3 DEF Touches, AllGood
  <2> QED
    BY <1>3, <2>1 DEF Good, Holds, Futures
<1> QED
  BY <1>1, <1>2, <1>3 DEF Touches

-----------------------------------------------------------------------------
\* How a step may change who owns a permit, free permits counted with it.
PermitsMove ==
    \/ permits' = permits /\ Owners' = Owners
    \/ /\ permits > 0 /\ permits' = permits - 1
       /\ \E w \in Requests \ Owners : Owners' = Owners \cup {w}
    \/ /\ permits' = permits + 1
       /\ \E v \in Owners : Owners' = Owners \ {v}
    \/ /\ permits' = permits
       /\ \E v \in Owners, w \in Requests \ Owners :
            Owners' = (Owners \ {v}) \cup {w}

SlotsMove ==
    \/ queueSlots' = queueSlots /\ Queued' = Queued
    \/ /\ queueSlots > 0 /\ queueSlots' = queueSlots - 1
       /\ \E w \in Requests \ Queued : Queued' = Queued \cup {w}
    \/ /\ queueSlots' = queueSlots + 1
       /\ \E v \in Queued : Queued' = Queued \ {v}

LEMMA SumsKept ==
    ASSUME RequestTypeOK, CapacityConserved, PermitsMove, SlotsMove
    PROVE  /\ CapacityConserved'
           /\ permits' \in 0..MaxRunning
           /\ queueSlots' \in 0..MaxWaiting
<1>1. /\ IsFiniteSet(Owners) /\ Cardinality(Owners) \in Nat
      /\ IsFiniteSet(Queued) /\ Cardinality(Queued) \in Nat
  BY RequestsAssumption, FS_Subset, FS_CardinalityType DEF Owners, Queued
<1>2. permits \in Nat /\ queueSlots \in Nat /\ MaxRunning \in Nat /\ MaxWaiting \in Nat
  BY CapacityAssumption DEF RequestTypeOK
<1>3. permits' \in Nat /\ permits' + Cardinality(Owners') = MaxRunning
      /\ Cardinality(Owners') \in Nat
  <2>1. CASE permits' = permits /\ Owners' = Owners
    BY <1>1, <1>2, <2>1 DEF CapacityConserved
  <2>2. CASE /\ permits > 0 /\ permits' = permits - 1
             /\ \E w \in Requests \ Owners : Owners' = Owners \cup {w}
    <3>1. Cardinality(Owners') = Cardinality(Owners) + 1
      BY <1>1, <2>2, FS_AddElement
    <3> QED
      BY <1>1, <1>2, <2>2, <3>1 DEF CapacityConserved
  <2>3. CASE /\ permits' = permits + 1
             /\ \E v \in Owners : Owners' = Owners \ {v}
    <3>1. Cardinality(Owners') = Cardinality(Owners) - 1 /\ Cardinality(Owners') \in Nat
      BY <1>1, <2>3, FS_RemoveElement, FS_CardinalityType
    <3> QED
      BY <1>1, <1>2, <2>3, <3>1 DEF CapacityConserved
  <2>4. CASE /\ permits' = permits
             /\ \E v \in Owners, w \in Requests \ Owners :
                  Owners' = (Owners \ {v}) \cup {w}
    <3>1. PICK v \in Owners, w \in Requests \ Owners :
                 Owners' = (Owners \ {v}) \cup {w}
      BY <2>4
    <3>2. /\ IsFiniteSet(Owners \ {v})
          /\ Cardinality(Owners \ {v}) = Cardinality(Owners) - 1
      BY <1>1, FS_RemoveElement
    <3>3. Cardinality(Owners') = Cardinality(Owners \ {v}) + 1
      BY <3>1, <3>2, FS_AddElement
    <3> QED
      BY <1>1, <1>2, <2>4, <3>2, <3>3 DEF CapacityConserved
  <2> QED
    BY <2>1, <2>2, <2>3, <2>4 DEF PermitsMove
<1>4. queueSlots' \in Nat /\ queueSlots' + Cardinality(Queued') = MaxWaiting
      /\ Cardinality(Queued') \in Nat
  <2>1. CASE queueSlots' = queueSlots /\ Queued' = Queued
    BY <1>1, <1>2, <2>1 DEF CapacityConserved
  <2>2. CASE /\ queueSlots > 0 /\ queueSlots' = queueSlots - 1
             /\ \E w \in Requests \ Queued : Queued' = Queued \cup {w}
    <3>1. Cardinality(Queued') = Cardinality(Queued) + 1
      BY <1>1, <2>2, FS_AddElement
    <3> QED
      BY <1>1, <1>2, <2>2, <3>1 DEF CapacityConserved
  <2>3. CASE /\ queueSlots' = queueSlots + 1
             /\ \E v \in Queued : Queued' = Queued \ {v}
    <3>1. Cardinality(Queued') = Cardinality(Queued) - 1 /\ Cardinality(Queued') \in Nat
      BY <1>1, <2>3, FS_RemoveElement, FS_CardinalityType
    <3> QED
      BY <1>1, <1>2, <2>3, <3>1 DEF CapacityConserved
  <2> QED
    BY <2>1, <2>2, <2>3 DEF SlotsMove
<1> QED
  BY <1>2, <1>3, <1>4 DEF CapacityConserved

-----------------------------------------------------------------------------
Owns(row, f) == row.permit \/ f = "set"

\* A step in which no other waiter is woken moves what its request owns.
LEMMA QuietPermits ==
    ASSUME NEW r \in Requests,
           \A u \in Requests \ {r} : ctx'[u] = ctx[u] /\ future'[u] = future[u],
           \/ permits' = permits /\ (Owns(ctx'[r], future'[r]) <=> Owns(ctx[r], future[r]))
           \/ /\ permits > 0 /\ permits' = permits - 1
              /\ ~Owns(ctx[r], future[r]) /\ Owns(ctx'[r], future'[r])
           \/ /\ permits' = permits + 1
              /\ Owns(ctx[r], future[r]) /\ ~Owns(ctx'[r], future'[r])
    PROVE  PermitsMove
<1>1. \A u \in Requests \ {r} : u \in Owners' <=> u \in Owners
  BY DEF Owners
<1>2. /\ r \in Owners <=> Owns(ctx[r], future[r])
      /\ r \in Owners' <=> Owns(ctx'[r], future'[r])
      /\ Owners \subseteq Requests /\ Owners' \subseteq Requests
  BY DEF Owners, Owns
<1>3. CASE permits' = permits /\ (Owns(ctx'[r], future'[r]) <=> Owns(ctx[r], future[r]))
  <2>1. Owners' = Owners
    BY <1>1, <1>2, <1>3
  <2> QED
    BY <1>3, <2>1 DEF PermitsMove
<1>4. CASE /\ permits > 0 /\ permits' = permits - 1
           /\ ~Owns(ctx[r], future[r]) /\ Owns(ctx'[r], future'[r])
  <2>1. r \in Requests \ Owners /\ Owners' = Owners \cup {r}
    BY <1>1, <1>2, <1>4
  <2> QED
    BY <1>4, <2>1 DEF PermitsMove
<1>5. CASE /\ permits' = permits + 1
           /\ Owns(ctx[r], future[r]) /\ ~Owns(ctx'[r], future'[r])
  <2>1. r \in Owners /\ Owners' = Owners \ {r}
    BY <1>1, <1>2, <1>5
  <2> QED
    BY <1>5, <2>1 DEF PermitsMove
<1> QED
  BY <1>3, <1>4, <1>5

\* And one in which a waiter w is handed a permit: r gives its own up, or
\* keeps what it owns while another permit is free.
LEMMA HandedOver ==
    ASSUME NEW r \in Requests, NEW w \in Requests \ {r},
           future[w] = "pending", ~ctx[w].permit, future'[w] = "set",
           \A u \in Requests \ {r} : ctx'[u] = ctx[u],
           \A u \in Requests \ {r, w} : future'[u] = future[u],
           Owns(ctx[r], future[r]),
           \/ permits' = permits /\ ~Owns(ctx'[r], future'[r])
           \/ permits > 0 /\ permits' = permits - 1 /\ Owns(ctx'[r], future'[r])
    PROVE  PermitsMove
<1>1. /\ \A u \in Requests \ {r, w} : u \in Owners' <=> u \in Owners
      /\ w \notin Owners /\ w \in Owners' /\ r \in Owners
  BY DEF Owners, Owns
<1>2. /\ r \in Owners' <=> Owns(ctx'[r], future'[r])
      /\ Owners \subseteq Requests /\ Owners' \subseteq Requests
  BY DEF Owners, Owns
<1>3. CASE permits' = permits /\ ~Owns(ctx'[r], future'[r])
  <2>1. Owners' = (Owners \ {r}) \cup {w}
    BY <1>1, <1>2, <1>3
  <2> QED
    BY <1>1, <1>3, <2>1 DEF PermitsMove
<1>4. CASE permits > 0 /\ permits' = permits - 1 /\ Owns(ctx'[r], future'[r])
  <2>1. Owners' = Owners \cup {w}
    BY <1>1, <1>2, <1>4
  <2> QED
    BY <1>1, <1>4, <2>1 DEF PermitsMove
<1> QED
  BY <1>3, <1>4

LEMMA SlotsFollow ==
    ASSUME NEW r \in Requests,
           \A u \in Requests \ {r} : ctx'[u] = ctx[u],
           ctx[r].slot \in BOOLEAN, ctx'[r].slot \in BOOLEAN,
           \/ queueSlots' = queueSlots /\ ctx'[r].slot = ctx[r].slot
           \/ /\ queueSlots > 0 /\ queueSlots' = queueSlots - 1
              /\ ~ctx[r].slot /\ ctx'[r].slot
           \/ queueSlots' = queueSlots + 1 /\ ctx[r].slot /\ ~ctx'[r].slot
    PROVE  SlotsMove
<1>1. /\ \A u \in Requests \ {r} : u \in Queued' <=> u \in Queued
      /\ r \in Queued <=> ctx[r].slot
      /\ r \in Queued' <=> ctx'[r].slot
      /\ Queued \subseteq Requests /\ Queued' \subseteq Requests
  BY DEF Queued
<1>2. CASE queueSlots' = queueSlots /\ ctx'[r].slot = ctx[r].slot
  <2>1. Queued' = Queued
    BY <1>1, <1>2
  <2> QED
    BY <1>2, <2>1 DEF SlotsMove
<1>3. CASE /\ queueSlots > 0 /\ queueSlots' = queueSlots - 1
           /\ ~ctx[r].slot /\ ctx'[r].slot
  <2>1. r \in Requests \ Queued /\ Queued' = Queued \cup {r}
    BY <1>1, <1>3
  <2> QED
    BY <1>3, <2>1 DEF SlotsMove
<1>4. CASE queueSlots' = queueSlots + 1 /\ ctx[r].slot /\ ~ctx'[r].slot
  <2>1. r \in Queued /\ Queued' = Queued \ {r}
    BY <1>1, <1>4
  <2> QED
    BY <1>4, <2>1 DEF SlotsMove
<1> QED
  BY <1>2, <1>3, <1>4

-----------------------------------------------------------------------------
\* What each step of request r owes to the invariant.
Keeps(r) == /\ Touches(r)
            /\ Good(stage'[r], ctx'[r], future'[r])
            /\ PermitsMove
            /\ SlotsMove

LEMMA NewContextIsTyped == NewContext \in Context
BY DEF NewContext, Context, Outcomes, TaskState

\* Steps that touch no capacity: the contest, the clock, the notices.
LEMMA QuietSteps ==
    ASSUME LifecycleInv, NEW r \in Requests, UNCHANGED capacity,
           stage' \in [Requests -> Stages],
           \A u \in Requests \ {r} : stage'[u] = stage[u],
           NEW row \in Context, ctx' = [ctx EXCEPT ![r] = row],
           row.permit = ctx[r].permit, row.slot = ctx[r].slot,
           Good(stage'[r], row, future[r])
    PROVE  Keeps(r)
<1>1. /\ ctx'[r] = row /\ \A u \in Requests \ {r} : ctx'[u] = ctx[u]
      /\ ctx' \in [Requests -> Context]
      /\ future' = future /\ permits' = permits /\ queueSlots' = queueSlots
      /\ line' = line
  BY DEF LifecycleInv, AllGood, capacity
<1>2. Touches(r)
  BY <1>1 DEF Touches, LifecycleInv, AllGood, RequestTypeOK
<1>3. PermitsMove
  BY <1>1, QuietPermits DEF Owns
<1>4. SlotsMove
  <2>1. row.slot \in BOOLEAN /\ ctx[r].slot \in BOOLEAN
    BY DEF Context, LifecycleInv, AllGood
  <2> QED
    BY <1>1, <2>1, SlotsFollow
<1> QED
  BY <1>1, <1>2, <1>3, <1>4 DEF Keeps

\* Entering, being refused and leaving.
LEMMA RoutingKeeps ==
    ASSUME LifecycleInv, NEW r \in Requests, Enter(r) \/ Refuse(r) \/ Leave(r)
    PROVE  Keeps(r)
<1>1. /\ Good(stage[r], ctx[r], future[r])
      /\ stage \in [Requests -> Stages] /\ ctx \in [Requests -> Context]
  BY DEF LifecycleInv, AllGood
<1>2. CASE Enter(r) \/ Refuse(r)
  <2>1. /\ UNCHANGED capacity
        /\ ctx' = [ctx EXCEPT ![r] = ctx[r]]
        /\ stage' \in [Requests -> Stages]
        /\ \A u \in Requests \ {r} : stage'[u] = stage[u]
    BY <1>1, <1>2 DEF Enter, Refuse, Stages
  <2>2. Good(stage'[r], ctx[r], future[r])
    BY <1>1, <1>2 DEF Enter, Refuse, Good, Stages
  <2> QED
    BY <1>1, <2>1, <2>2, QuietSteps
<1>3. CASE Leave(r)
  <2>1. /\ UNCHANGED capacity
        /\ ctx' = [ctx EXCEPT ![r] = NewContext]
        /\ stage' \in [Requests -> Stages]
        /\ stage'[r] = "new"
        /\ \A u \in Requests \ {r} : stage'[u] = stage[u]
    BY <1>1, <1>3 DEF Leave, Stages
  <2>2. ~ctx[r].permit /\ ~ctx[r].slot /\ future[r] = "none"
    BY <1>1, <1>3 DEF Leave, Gathered, Good, Settled, Holds, NewContext
  <2>3. ctx[r].permit = NewContext.permit /\ ctx[r].slot = NewContext.slot
    BY <1>1, <2>2 DEF NewContext, Context
  <2>4. Good(stage'[r], NewContext, future[r])
    BY <2>1, <2>2, NewContextIsTyped DEF Good, Stages, Futures
  <2> QED
    BY <2>1, <2>3, <2>4, NewContextIsTyped, QuietSteps
<1> QED
  BY <1>2, <1>3

\* The clock and the steps of tasks that only watch, wait or exit.
LEMMA WatchingKeeps ==
    ASSUME LifecycleInv, NEW r \in Requests,
           \/ Unwind(r) \/ Swallow(r) \/ AgentLoses(r)
           \/ \E d \in {"deadline_exceeded", "response_deadline_exceeded"} : Expire(r, d)
           \/ \E m \in Monitors, e \in DOMAIN OutcomeOf : MonitorLoses(r, m, e)
           \/ \E m \in Monitors : Notice(r, m)
    PROVE  Keeps(r)
<1>1. /\ Good(stage[r], ctx[r], future[r])
      /\ stage \in [Requests -> Stages] /\ ctx \in [Requests -> Context]
      /\ ctx[r] \in Context
  BY DEF LifecycleInv, AllGood
<1>2. stage[r] = "admitted" /\ Settled(ctx[r]) /\ Holds(ctx[r], future[r])
  <2>1. stage[r] # "admitted" => ctx[r] = NewContext
    BY <1>1 DEF Good
  <2>2. /\ NewContext.agent = "created" /\ NewContext.phase = "active"
    BY DEF NewContext
  <2>3. stage[r] = "admitted"
    BY <2>1, <2>2 DEF Unwind, Swallow, AgentLoses, Expire, MonitorLoses, Notice
  <2> QED
    BY <1>1, <2>3 DEF Good
<1>3. \E row \in Context :
        /\ ctx' = [ctx EXCEPT ![r] = row]
        /\ stage' = stage /\ UNCHANGED capacity
        /\ row.permit = ctx[r].permit /\ row.slot = ctx[r].slot
        /\ Settled(row) /\ Holds(row, future[r])
  <2> DEFINE Goal == \E row \in Context :
               /\ ctx' = [ctx EXCEPT ![r] = row]
               /\ stage' = stage /\ UNCHANGED capacity
               /\ row.permit = ctx[r].permit /\ row.slot = ctx[r].slot
               /\ Settled(row) /\ Holds(row, future[r])
  <2>1. CASE Unwind(r)
    <3>1. Exits(ctx[r]) \in Context
      BY <1>1 DEF Exits, Context
    <3>2. Settled(Exits(ctx[r])) /\ Holds(Exits(ctx[r]), future[r])
      BY <1>1, <1>2, <2>1 DEF Unwind, Exits, Context, Settled, Holds
    <3>3. /\ ctx' = [ctx EXCEPT ![r] = Exits(ctx[r])]
          /\ stage' = stage /\ UNCHANGED capacity
          /\ Exits(ctx[r]).permit = ctx[r].permit /\ Exits(ctx[r]).slot = ctx[r].slot
      BY <1>1, <2>1 DEF Unwind, Exits, Context
    <3> QED
      BY <3>1, <3>2, <3>3
  <2>2. CASE Swallow(r)
    <3> DEFINE row == [ctx[r] EXCEPT !.cancelling = FALSE]
    <3>1. row \in Context
      BY <1>1 DEF Context
    <3>2. Settled(row) /\ Holds(row, future[r])
      BY <1>1, <1>2, <2>2 DEF Swallow, Context, Settled, Holds
    <3>3. /\ ctx' = [ctx EXCEPT ![r] = row]
          /\ stage' = stage /\ UNCHANGED capacity
          /\ row.permit = ctx[r].permit /\ row.slot = ctx[r].slot
      BY <1>1, <2>2 DEF Swallow, Context
    <3> QED
      BY <3>1, <3>2, <3>3
  <2>3. CASE AgentLoses(r)
    <3> DEFINE row == [ctx[r] EXCEPT !.agent = "waiting"]
    <3>1. row \in Context
      BY <1>1 DEF Context
    <3>2. Settled(row) /\ Holds(row, future[r])
      BY <1>1, <1>2, <2>3 DEF AgentLoses, Context, Settled, Holds
    <3>3. /\ ctx' = [ctx EXCEPT ![r] = row]
          /\ stage' = stage /\ UNCHANGED capacity
          /\ row.permit = ctx[r].permit /\ row.slot = ctx[r].slot
      BY <1>1, <2>3 DEF AgentLoses, Context
    <3> QED
      BY <3>1, <3>2, <3>3
  <2>4. ASSUME NEW d \in {"deadline_exceeded", "response_deadline_exceeded"}, Expire(r, d)
        PROVE  Goal
    <3> DEFINE row == [ctx[r] EXCEPT !.due = ctx[r].due \cup {d}]
    <3>1. row \in Context
      BY <1>1 DEF Context
    <3>2. Settled(row) /\ Holds(row, future[r])
      BY <1>1, <1>2 DEF Context, Settled, Holds
    <3>3. /\ ctx' = [ctx EXCEPT ![r] = row]
          /\ stage' = stage /\ UNCHANGED capacity
          /\ row.permit = ctx[r].permit /\ row.slot = ctx[r].slot
      BY <1>1, <2>4 DEF Expire, Context
    <3> QED
      BY <3>1, <3>2, <3>3
  <2>5. ASSUME NEW m \in Monitors, NEW e \in DOMAIN OutcomeOf, MonitorLoses(r, m, e)
        PROVE  Goal
    <3> DEFINE row == [ctx[r] EXCEPT !.monitor = [ctx[r].monitor EXCEPT ![m] = "waiting"]]
    <3>1. row \in Context /\ ctx[r].monitor \in [Monitors -> TaskState]
      BY <1>1 DEF Context, TaskState
    <3>2. Settled(row) /\ Holds(row, future[r])
      BY <1>1, <1>2, <2>5, <3>1 DEF MonitorLoses, Context, Settled, Holds
    <3>3. /\ ctx' = [ctx EXCEPT ![r] = row]
          /\ stage' = stage /\ UNCHANGED capacity
          /\ row.permit = ctx[r].permit /\ row.slot = ctx[r].slot
      BY <1>1, <2>5 DEF MonitorLoses, Context
    <3> QED
      BY <3>1, <3>2, <3>3
  <2>6. ASSUME NEW m \in Monitors, Notice(r, m) PROVE Goal
    <3> DEFINE row == [ctx[r] EXCEPT !.monitor = [ctx[r].monitor EXCEPT ![m] = "done"]]
    <3>1. row \in Context /\ ctx[r].monitor \in [Monitors -> TaskState]
      BY <1>1 DEF Context, TaskState
    <3>2. Settled(row) /\ Holds(row, future[r])
      BY <1>1, <1>2, <2>6, <3>1 DEF Notice, Context, Settled, Holds
    <3>3. /\ ctx' = [ctx EXCEPT ![r] = row]
          /\ stage' = stage /\ UNCHANGED capacity
          /\ row.permit = ctx[r].permit /\ row.slot = ctx[r].slot
      BY <1>1, <2>6 DEF Notice, Context
    <3> QED
      BY <3>1, <3>2, <3>3
  <2> QED
    BY <2>1, <2>2, <2>3, <2>4, <2>5, <2>6
<1>4. PICK row \in Context :
        /\ ctx' = [ctx EXCEPT ![r] = row]
        /\ stage' = stage /\ UNCHANGED capacity
        /\ row.permit = ctx[r].permit /\ row.slot = ctx[r].slot
        /\ Settled(row) /\ Holds(row, future[r])
  BY <1>3
<1>5. Good(stage'[r], row, future[r])
  BY <1>1, <1>2, <1>4 DEF Good, Stages
<1> QED
  BY <1>1, <1>4, <1>5, QuietSteps

-----------------------------------------------------------------------------
\* Steps that move capacity.

\* Without a free permit, or with a waiter before it, nobody takes one.
LEMMA UnlockedIsFree ==
    ASSUME RequestTypeOK, ~Locked
    PROVE  permits > 0
BY CapacityAssumption DEF Locked, RequestTypeOK

LEMMA AdmitKeeps ==
    ASSUME LifecycleInv, NEW r \in Requests, Admit(r)
    PROVE  Keeps(r)
<1>1. /\ Good(stage[r], ctx[r], future[r])
      /\ stage \in [Requests -> Stages] /\ ctx \in [Requests -> Context]
      /\ future \in [Requests -> Futures]
      /\ permits \in Nat /\ queueSlots \in Nat /\ line \in Seq(Requests)
  BY CapacityAssumption DEF LifecycleInv, AllGood, RequestTypeOK
<1>2. ctx[r] = NewContext /\ future[r] = "none"
  BY <1>1 DEF Admit, Good
<1> DEFINE run  == [NewContext EXCEPT !.permit = TRUE]
           wait == [NewContext EXCEPT !.slot = TRUE]
<1>3. PICK row \in {run, wait} :
        /\ ctx' = [ctx EXCEPT ![r] = row]
        /\ row = run => permits > 0 /\ permits' = permits - 1 /\ queueSlots' = queueSlots
        /\ row = wait => /\ queueSlots > 0 /\ queueSlots' = queueSlots - 1
                        /\ permits' = permits
  <2>1. run # wait
    BY NewContextIsTyped DEF NewContext
  <2> QED
    BY <1>1, <2>1, UnlockedIsFree DEF Admit, LifecycleInv
<1>4. row \in Context /\ Settled(row) /\ Holds(row, "none")
  <2>1. CASE row = run
    <3>1. run \in Context
      BY NewContextIsTyped DEF Context
    <3>2. Settled(run) /\ Holds(run, "none")
      BY DEF NewContext, Settled, Holds
    <3> QED
      BY <2>1, <3>1, <3>2
  <2>2. CASE row = wait
    <3>1. wait \in Context
      BY NewContextIsTyped DEF Context
    <3>2. Settled(wait) /\ Holds(wait, "none")
      BY DEF NewContext, Settled, Holds
    <3> QED
      BY <2>2, <3>1, <3>2
  <2> QED
    BY <2>1, <2>2
<1>5. /\ stage' \in [Requests -> Stages] /\ stage'[r] = "admitted"
      /\ \A u \in Requests \ {r} : stage'[u] = stage[u] /\ ctx'[u] = ctx[u]
      /\ ctx' \in [Requests -> Context] /\ ctx'[r] = row
      /\ future' = future /\ line' = line
  BY <1>1, <1>3, <1>4 DEF Admit, Stages
<1>6. Touches(r)
  BY <1>1, <1>5 DEF Touches
<1>7. Good(stage'[r], ctx'[r], future'[r])
  BY <1>2, <1>4, <1>5 DEF Good, Stages, Futures
<1>8. /\ row = run => row.permit /\ ~row.slot
      /\ row = wait => ~row.permit /\ row.slot
      /\ ~ctx[r].permit /\ ~ctx[r].slot
      /\ ctx[r].slot \in BOOLEAN /\ row.slot \in BOOLEAN
  <2>1. run.permit /\ ~run.slot /\ ~wait.permit /\ wait.slot
    BY DEF NewContext
  <2>2. ~ctx[r].permit /\ ~ctx[r].slot /\ ctx[r].slot \in BOOLEAN
    BY <1>2 DEF NewContext
  <2>3. row.slot \in BOOLEAN
    BY <1>4 DEF Context
  <2> QED
    BY <2>1, <2>2, <2>3
<1>9. PermitsMove
  BY <1>2, <1>3, <1>5, <1>8, QuietPermits DEF Owns
<1>10. SlotsMove
  <2>1. CASE row = run
    <3>1. queueSlots' = queueSlots /\ ctx'[r].slot = ctx[r].slot
      BY <1>3, <1>5, <1>2, <2>1 DEF NewContext
    <3> QED
      BY <1>5, <1>8, <3>1, SlotsFollow
  <2>2. CASE row = wait
    BY <1>3, <1>5, <1>8, <2>2, SlotsFollow
  <2> QED
    BY <2>1, <2>2
<1> QED
  BY <1>6, <1>7, <1>9, <1>10 DEF Keeps

LEMMA StartAgentKeeps ==
    ASSUME LifecycleInv, NEW r \in Requests, StartAgent(r)
    PROVE  Keeps(r)
<1>1. /\ Good(stage[r], ctx[r], future[r])
      /\ stage \in [Requests -> Stages] /\ ctx \in [Requests -> Context]
      /\ ctx[r] \in Context /\ future \in [Requests -> Futures]
      /\ permits \in Nat /\ queueSlots \in Nat /\ line \in Seq(Requests)
  BY CapacityAssumption DEF LifecycleInv, AllGood, RequestTypeOK
<1>2. /\ stage[r] = "admitted" /\ ctx[r].agent = "created"
      /\ Settled(ctx[r]) /\ Holds(ctx[r], future[r]) /\ future[r] = "none"
      /\ stage' = stage
  BY <1>1 DEF StartAgent, Good, Holds
<1>3. CASE ctx[r].cancelling
  <2> DEFINE row == Exits(ctx[r])
  <2>1. row \in Context
    BY <1>1 DEF Exits, Context
  <2>2. Settled(row) /\ Holds(row, future[r])
    BY <1>1, <1>2, <1>3 DEF Exits, Context, Settled, Holds
  <2>3. /\ ctx' = [ctx EXCEPT ![r] = row] /\ UNCHANGED capacity
        /\ row.permit = ctx[r].permit /\ row.slot = ctx[r].slot
    BY <1>1, <1>3 DEF StartAgent, Exits, Context
  <2>4. Good(stage'[r], row, future[r])
    BY <1>1, <1>2, <2>1, <2>2 DEF Good
  <2> QED
    BY <1>1, <1>2, <2>1, <2>3, <2>4, QuietSteps
<1>4. CASE ~ctx[r].cancelling /\ ctx[r].permit
  <2> DEFINE row == [ctx[r] EXCEPT !.agent = "running"]
  <2>1. row \in Context
    BY <1>1 DEF Context
  <2>2. Settled(row) /\ Holds(row, future[r])
    BY <1>1, <1>2, <1>4 DEF Context, Settled, Holds
  <2>3. /\ ctx' = [ctx EXCEPT ![r] = row] /\ UNCHANGED capacity
        /\ row.permit = ctx[r].permit /\ row.slot = ctx[r].slot
    BY <1>1, <1>4 DEF StartAgent, Context
  <2>4. Good(stage'[r], row, future[r])
    BY <1>1, <1>2, <2>1, <2>2 DEF Good
  <2> QED
    BY <1>1, <1>2, <2>1, <2>3, <2>4, QuietSteps
<1>5. CASE ~ctx[r].cancelling /\ ~ctx[r].permit /\ ~Locked
  <2> DEFINE row == Runs(ctx[r])
  <2>1. row \in Context
    BY <1>1 DEF Runs, Context
  <2>2. Settled(row) /\ Holds(row, future[r])
    BY <1>1, <1>2, <1>5 DEF Runs, Context, Settled, Holds
  <2>3. /\ ctx' = [ctx EXCEPT ![r] = row]
        /\ permits' = permits - 1 /\ queueSlots' = queueSlots + 1
        /\ line' = line /\ future' = future
    BY <1>5 DEF StartAgent
  <2>4. /\ permits > 0 /\ ctx[r].slot /\ row.permit /\ ~row.slot
        /\ ctx[r].slot \in BOOLEAN /\ row.slot \in BOOLEAN
    BY <1>1, <1>2, <1>5, UnlockedIsFree DEF Holds, Runs, Context, LifecycleInv
  <2>5. /\ ctx'[r] = row /\ \A u \in Requests \ {r} : ctx'[u] = ctx[u]
        /\ ctx' \in [Requests -> Context]
    BY <1>1, <2>1, <2>3
  <2>6. Touches(r)
    BY <1>1, <1>2, <2>3, <2>5 DEF Touches
  <2>7. Good(stage'[r], ctx'[r], future'[r])
    BY <1>1, <1>2, <2>1, <2>2, <2>3, <2>5 DEF Good
  <2>8. PermitsMove
    BY <1>2, <1>5, <2>3, <2>4, <2>5, QuietPermits DEF Owns
  <2>9. SlotsMove
    BY <2>3, <2>4, <2>5, SlotsFollow
  <2> QED
    BY <2>6, <2>7, <2>8, <2>9 DEF Keeps
<1>6. CASE ~ctx[r].cancelling /\ ~ctx[r].permit /\ Locked
  <2> DEFINE row == [ctx[r] EXCEPT !.agent = "queued"]
  <2>1. row \in Context
    BY <1>1 DEF Context
  <2>2. Settled(row) /\ Holds(row, "pending")
    BY <1>1, <1>2, <1>6 DEF Context, Settled, Holds
  <2>3. /\ ctx' = [ctx EXCEPT ![r] = row]
        /\ permits' = permits /\ queueSlots' = queueSlots
        /\ line' = Append(line, r)
        /\ future' = [future EXCEPT ![r] = "pending"]
    BY <1>6 DEF StartAgent
  <2>4. /\ row.permit = ctx[r].permit /\ row.slot = ctx[r].slot
        /\ ctx[r].slot \in BOOLEAN /\ row.slot \in BOOLEAN
    BY <1>1 DEF Context
  <2>5. /\ ctx'[r] = row /\ \A u \in Requests \ {r} : ctx'[u] = ctx[u]
        /\ ctx' \in [Requests -> Context]
        /\ future'[r] = "pending" /\ future' \in [Requests -> Futures]
        /\ \A u \in Requests \ {r} : future'[u] = future[u]
        /\ line' \in Seq(Requests)
    BY <1>1, <2>1, <2>3 DEF Futures
  <2>6. Touches(r)
    BY <1>1, <1>2, <2>5 DEF Touches
  <2>7. Good(stage'[r], ctx'[r], future'[r])
    BY <1>1, <1>2, <2>1, <2>2, <2>5 DEF Good, Futures
  <2>8. PermitsMove
    BY <1>2, <1>6, <2>3, <2>4, <2>5, QuietPermits DEF Owns
  <2>9. SlotsMove
    BY <2>3, <2>4, <2>5, SlotsFollow
  <2> QED
    BY <2>6, <2>7, <2>8, <2>9 DEF Keeps
<1> QED
  BY <1>3, <1>4, <1>5, <1>6

-----------------------------------------------------------------------------
\* Steps that wake a waiter.

\* Request r ends up with the context row and the future x, no longer
\* waiting; the first waiter is woken if there is one.
LEMMA WakingKeeps ==
    ASSUME AllGood, permits \in Nat, NEW r \in Requests,
           NEW row \in Context, ctx' = [ctx EXCEPT ![r] = row],
           NEW x \in Futures \ {"pending"}, NEW n \in Int, NEW q \in Seq(Requests),
           WakeUpNext([future EXCEPT ![r] = x], n, q),
           Owns(ctx[r], future[r]),
           \/ n = permits + 1 /\ ~Owns(row, x)
           \/ n = permits /\ permits > 0 /\ Owns(row, x)
    PROVE  /\ PermitsMove
           /\ future' \in [Requests -> Futures]
           /\ future'[r] = x
           /\ \A u \in Requests \ {r} :
                future'[u] = future[u] \/ (future[u] = "pending" /\ future'[u] = "set")
<1> DEFINE left == [future EXCEPT ![r] = x]
<1>1. /\ left \in [Requests -> Futures] /\ left[r] = x
      /\ \A u \in Requests \ {r} : left[u] = future[u]
      /\ ctx'[r] = row /\ \A u \in Requests \ {r} : ctx'[u] = ctx[u]
  BY DEF AllGood
<1>2. CASE future' = left /\ permits' = n
  <2>1. PermitsMove
    BY <1>1, <1>2, QuietPermits
  <2> QED
    BY <1>1, <1>2, <2>1
<1>3. ASSUME NEW w \in Requests, left[w] = "pending",
             future' = [left EXCEPT ![w] = "set"], permits' = n - 1
      PROVE  /\ PermitsMove
             /\ future' \in [Requests -> Futures]
             /\ future'[r] = x
             /\ \A u \in Requests \ {r} :
                  future'[u] = future[u] \/ (future[u] = "pending" /\ future'[u] = "set")
  <2>1. w # r /\ future[w] = "pending"
    BY <1>1, <1>3
  <2>2. ~ctx[w].permit
    BY <2>1 DEF AllGood, Good, Holds
  <2>3. /\ future'[r] = x /\ future'[w] = "set"
        /\ \A u \in Requests \ {r, w} : future'[u] = future[u]
        /\ future' \in [Requests -> Futures]
    BY <1>1, <1>3, <2>1 DEF Futures
  <2>4. PermitsMove
    BY <1>1, <1>3, <2>1, <2>2, <2>3, HandedOver
  <2> QED
    BY <2>1, <2>3, <2>4
<1> QED
  BY <1>1, <1>2, <1>3, WakingOne

LEMMA PromoteKeeps ==
    ASSUME LifecycleInv, NEW r \in Requests, Promote(r)
    PROVE  Keeps(r)
<1> DEFINE row == Runs(ctx[r])
<1>1. /\ Good(stage[r], ctx[r], future[r]) /\ AllGood
      /\ stage \in [Requests -> Stages] /\ ctx \in [Requests -> Context]
      /\ ctx[r] \in Context /\ future \in [Requests -> Futures]
      /\ permits \in Nat /\ queueSlots \in Nat /\ line \in Seq(Requests)
  BY CapacityAssumption DEF LifecycleInv, AllGood, RequestTypeOK
<1>2. /\ ctx[r].agent = "queued" /\ ~ctx[r].cancelling /\ future[r] = "set"
      /\ stage' = stage /\ ctx' = [ctx EXCEPT ![r] = row]
      /\ queueSlots' = queueSlots + 1
      /\ line' \in Seq(Requests)
  BY <1>1, LineIsTyped DEF Promote
<1>3. stage[r] = "admitted" /\ Settled(ctx[r]) /\ Holds(ctx[r], future[r])
  BY <1>1, <1>2 DEF Good
<1>4. row \in Context
  BY <1>1 DEF Runs, Context
<1>5. Settled(row) /\ Holds(row, "none")
  BY <1>1, <1>2, <1>3 DEF Runs, Context, Settled, Holds
<1>6. /\ ctx[r].slot /\ ~row.slot /\ row.permit
      /\ ctx[r].slot \in BOOLEAN /\ row.slot \in BOOLEAN
  BY <1>1, <1>2, <1>3 DEF Runs, Context, Holds
<1>7. /\ ctx'[r] = row /\ \A u \in Requests \ {r} : ctx'[u] = ctx[u]
      /\ ctx' \in [Requests -> Context]
  BY <1>1, <1>2, <1>4
<1>8. /\ PermitsMove
      /\ future' \in [Requests -> Futures]
      /\ future'[r] = "none"
      /\ \A u \in Requests \ {r} :
           future'[u] = future[u] \/ (future[u] = "pending" /\ future'[u] = "set")
  <2>1. CASE permits > 0
    <3>1. WakeUpNext([future EXCEPT ![r] = "none"], permits, line')
      BY <2>1 DEF Promote, WakesOn
    <3>2. "none" \in Futures \ {"pending"}
      BY DEF Futures
    <3>3. Owns(ctx[r], future[r]) /\ Owns(row, "none")
      BY <1>2, <1>6 DEF Owns
    <3>4. permits \in Int /\ line' \in Seq(Requests)
      BY <1>1, <1>2
    <3>5. ctx' = [ctx EXCEPT ![r] = row]
      BY <1>2
    <3> HIDE DEF row
    <3> QED
      BY <1>1, <1>4, <2>1, <3>1, <3>2, <3>3, <3>4, <3>5, WakingKeeps
  <2>2. CASE ~(permits > 0)
    <3>1. future' = [future EXCEPT ![r] = "none"] /\ permits' = permits
      BY <2>2 DEF Promote, WakesOn
    <3>2. /\ future'[r] = "none" /\ future' \in [Requests -> Futures]
          /\ \A u \in Requests \ {r} : future'[u] = future[u]
      BY <1>1, <3>1 DEF Futures
    <3>3. PermitsMove
      BY <1>2, <1>6, <1>7, <3>1, <3>2, QuietPermits DEF Owns
    <3> QED
      BY <3>2, <3>3
  <2> QED
    BY <2>1, <2>2
<1>9. SlotsMove
  BY <1>2, <1>6, <1>7, SlotsFollow
<1>10. Touches(r)
  BY <1>1, <1>2, <1>7, <1>8 DEF Touches
<1>11. Good(stage'[r], ctx'[r], future'[r])
  BY <1>1, <1>2, <1>3, <1>4, <1>5, <1>7, <1>8 DEF Good, Futures
<1> QED
  BY <1>8, <1>9, <1>10, <1>11 DEF Keeps

LEMMA LeaveQueueKeeps ==
    ASSUME LifecycleInv, NEW r \in Requests, LeaveQueue(r)
    PROVE  Keeps(r)
<1> DEFINE row == [Exits(ctx[r]) EXCEPT !.slot = FALSE]
<1>1. /\ Good(stage[r], ctx[r], future[r]) /\ AllGood
      /\ stage \in [Requests -> Stages] /\ ctx \in [Requests -> Context]
      /\ ctx[r] \in Context /\ future \in [Requests -> Futures]
      /\ permits \in Nat /\ queueSlots \in Nat /\ line \in Seq(Requests)
  BY CapacityAssumption DEF LifecycleInv, AllGood, RequestTypeOK
<1>2. /\ ctx[r].agent = "queued" /\ ctx[r].cancelling
      /\ stage' = stage /\ ctx' = [ctx EXCEPT ![r] = row]
      /\ queueSlots' = queueSlots + 1
      /\ line' \in Seq(Requests)
  BY <1>1, LineIsTyped DEF LeaveQueue
<1>3. stage[r] = "admitted" /\ Settled(ctx[r]) /\ Holds(ctx[r], future[r])
  <2>1. NewContext.agent = "created"
    BY DEF NewContext
  <2> QED
    BY <1>1, <1>2, <2>1 DEF Good
<1>4. row \in Context
  BY <1>1 DEF Exits, Context
<1>5. Settled(row) /\ Holds(row, "none")
  BY <1>1, <1>2, <1>3 DEF Exits, Context, Settled, Holds
<1>6. /\ ctx[r].slot /\ ~row.slot /\ ~row.permit /\ ~ctx[r].permit
      /\ ctx[r].slot \in BOOLEAN /\ row.slot \in BOOLEAN
  BY <1>1, <1>2, <1>3 DEF Exits, Context, Holds
<1>7. /\ ctx'[r] = row /\ \A u \in Requests \ {r} : ctx'[u] = ctx[u]
      /\ ctx' \in [Requests -> Context]
  BY <1>1, <1>2, <1>4
<1>8. /\ PermitsMove
      /\ future' \in [Requests -> Futures]
      /\ future'[r] = "none"
      /\ \A u \in Requests \ {r} :
           future'[u] = future[u] \/ (future[u] = "pending" /\ future'[u] = "set")
  <2>1. CASE future[r] = "set"
    <3>1. WakeUpNext([future EXCEPT ![r] = "none"], permits + 1, line')
      BY <2>1 DEF LeaveQueue, HoldsFuture
    <3>2. "none" \in Futures \ {"pending"}
      BY DEF Futures
    <3>3. Owns(ctx[r], future[r]) /\ ~Owns(row, "none")
      BY <2>1, <1>6 DEF Owns
    <3>4. permits + 1 \in Int /\ line' \in Seq(Requests)
      BY <1>1, <1>2
    <3>5. ctx' = [ctx EXCEPT ![r] = row]
      BY <1>2
    <3> HIDE DEF row
    <3> QED
      BY <1>1, <1>4, <3>1, <3>2, <3>3, <3>4, <3>5, WakingKeeps
  <2>2. CASE future[r] # "set"
    <3>1. future' = [future EXCEPT ![r] = "none"] /\ permits' = permits
      BY <2>2 DEF LeaveQueue, HoldsFuture
    <3>2. /\ future'[r] = "none" /\ future' \in [Requests -> Futures]
          /\ \A u \in Requests \ {r} : future'[u] = future[u]
      BY <1>1, <3>1 DEF Futures
    <3>3. PermitsMove
      BY <1>2, <1>6, <1>7, <2>2, <3>1, <3>2, QuietPermits DEF Owns
    <3> QED
      BY <3>2, <3>3
  <2> QED
    BY <2>1, <2>2
<1>9. SlotsMove
  BY <1>2, <1>6, <1>7, SlotsFollow
<1>10. Touches(r)
  BY <1>1, <1>2, <1>7, <1>8 DEF Touches
<1>11. Good(stage'[r], ctx'[r], future'[r])
  BY <1>1, <1>2, <1>3, <1>4, <1>5, <1>7, <1>8 DEF Good, Futures
<1> QED
  BY <1>8, <1>9, <1>10, <1>11 DEF Keeps

-----------------------------------------------------------------------------
\* Steps that finalize.

LEMMA FinalizedIsTyped ==
    ASSUME NEW row \in Context, row.recorded = 0
    PROVE  LET last == Finalized(row)
           IN  /\ last \in Context
               /\ last.phase = "finalized" /\ ~last.permit /\ ~last.slot
               /\ last.recorded = 1 /\ last.agent = row.agent
               /\ last.outcome = row.outcome /\ last.monitor = row.monitor
               /\ last.cancelling = row.cancelling
<1> DEFINE last == [row EXCEPT !.phase = "finalized", !.permit = FALSE,
                               !.slot = FALSE, !.recorded = 1]
<1>1. Finalized(row) = last
  BY DEF Finalized
<1>2. last \in Context
  BY DEF Context
<1>3. /\ last.phase = "finalized" /\ ~last.permit /\ ~last.slot
      /\ last.recorded = 1 /\ last.agent = row.agent
      /\ last.outcome = row.outcome /\ last.monitor = row.monitor
      /\ last.cancelling = row.cancelling
  BY DEF Context
<1> QED
  BY <1>1, <1>2, <1>3

LEMMA OutcomeIsTyped ==
    ASSUME NEW r, NEW e \in DOMAIN OutcomeOf
    PROVE  OutcomeOf[Effective(r, e)] \in Outcomes /\ OutcomeOf[Effective(r, e)] # NULL
BY NullAssumption DEF Effective, OutcomeOf, Outcomes

LEMMA MonitorWinsKeeps ==
    ASSUME LifecycleInv, NEW r \in Requests, NEW m \in Monitors,
           NEW e \in DOMAIN OutcomeOf, MonitorWins(r, m, e)
    PROVE  Keeps(r)
<1> DEFINE o   == OutcomeOf[Effective(r, e)]
           row == [ctx[r] EXCEPT !.phase = "finalizing",
                                 !.outcome = o,
                                 !.cancelling = Cancels(r),
                                 !.monitor[m] = "cleaning"]
           x   == IF future[r] = "pending" /\ Cancels(r) THEN "cancelled" ELSE future[r]
<1>1. /\ Good(stage[r], ctx[r], future[r])
      /\ stage \in [Requests -> Stages] /\ ctx \in [Requests -> Context]
      /\ ctx[r] \in Context /\ future \in [Requests -> Futures]
      /\ line \in Seq(Requests)
  BY DEF LifecycleInv, AllGood, RequestTypeOK
<1>2. /\ stage[r] = "admitted" /\ ctx[r].phase = "active"
      /\ Settled(ctx[r]) /\ Holds(ctx[r], future[r])
  BY <1>1 DEF MonitorWins, Claimable, Good
<1>3. /\ ctx[r].agent \in {"created", "queued", "running"} /\ Cancels(r)
      /\ \A k \in Monitors : ctx[r].monitor[k] = "watching"
      /\ ctx[r].recorded = 0
  BY <1>2 DEF Settled, Cancels
<1>4. /\ stage' = stage /\ ctx' = [ctx EXCEPT ![r] = row]
      /\ future' = [future EXCEPT ![r] = x]
      /\ permits' = permits /\ line' = line /\ queueSlots' = queueSlots
  BY <1>1 DEF MonitorWins
<1>5. o \in Outcomes /\ o # NULL
  BY OutcomeIsTyped
<1> HIDE DEF o
<1>6. row \in Context
  BY <1>1, <1>3, <1>5 DEF Context, TaskState
<1>7. x \in Futures /\ x # "pending" /\ (x = "set" <=> future[r] = "set")
      /\ (x # "none" <=> future[r] # "none")
  BY <1>1, <1>3 DEF Futures
<1>8. /\ row.phase = "finalizing" /\ row.outcome = o /\ row.cancelling = Cancels(r)
      /\ row.monitor = [ctx[r].monitor EXCEPT ![m] = "cleaning"]
      /\ row.agent = ctx[r].agent /\ row.recorded = ctx[r].recorded
      /\ row.permit = ctx[r].permit /\ row.slot = ctx[r].slot
      /\ ctx[r].monitor \in [Monitors -> TaskState]
      /\ row.slot \in BOOLEAN
  BY <1>1 DEF Context
<1>9. Settled(row)
  BY <1>3, <1>5, <1>8 DEF Settled
<1>10. Holds(row, x)
  BY <1>2, <1>3, <1>7, <1>8 DEF Holds
<1> HIDE DEF row, x
<1>11. /\ ctx'[r] = row /\ \A u \in Requests \ {r} : ctx'[u] = ctx[u]
       /\ future'[r] = x /\ \A u \in Requests \ {r} : future'[u] = future[u]
       /\ ctx' \in [Requests -> Context] /\ future' \in [Requests -> Futures]
  BY <1>1, <1>4, <1>6, <1>7
<1>12. Touches(r)
  BY <1>1, <1>4, <1>11 DEF Touches
<1>13. Good(stage'[r], ctx'[r], future'[r])
  BY <1>1, <1>2, <1>4, <1>6, <1>7, <1>9, <1>10, <1>11 DEF Good
<1>14. PermitsMove
  BY <1>4, <1>7, <1>8, <1>11, QuietPermits DEF Owns
<1>15. SlotsMove
  BY <1>4, <1>8, <1>11, SlotsFollow
<1> QED
  BY <1>12, <1>13, <1>14, <1>15 DEF Keeps

\* The last step of finalize_request, by the agent or by a monitor: from a
\* context whose agent has left the line to one that is finalized.
LEMMA ReleasingKeeps ==
    ASSUME LifecycleInv, NEW r \in Requests, stage[r] = "admitted", stage' = stage,
           NEW row \in Context, ctx' = [ctx EXCEPT ![r] = row],
           Settled(row), row.phase = "finalized", row.agent = "done",
           ~row.permit, ~row.slot, future[r] = "none", ReleaseCapacity(ctx[r])
    PROVE  Keeps(r)
<1>1. /\ AllGood
      /\ stage \in [Requests -> Stages] /\ ctx \in [Requests -> Context]
      /\ ctx[r] \in Context /\ future \in [Requests -> Futures]
      /\ permits \in Nat /\ queueSlots \in Nat /\ line \in Seq(Requests)
  BY CapacityAssumption DEF LifecycleInv, AllGood, RequestTypeOK
<1>2. /\ ctx'[r] = row /\ \A u \in Requests \ {r} : ctx'[u] = ctx[u]
      /\ ctx' \in [Requests -> Context]
      /\ ctx[r].slot \in BOOLEAN /\ row.slot \in BOOLEAN
  BY <1>1 DEF Context
<1>3. /\ line' = line
      /\ queueSlots' = queueSlots + (IF ctx[r].slot THEN 1 ELSE 0)
  BY DEF ReleaseCapacity, SlotsBack
<1>4. /\ PermitsMove
      /\ future' \in [Requests -> Futures]
      /\ future'[r] = "none"
      /\ \A u \in Requests \ {r} :
           future'[u] = future[u] \/ (future[u] = "pending" /\ future'[u] = "set")
  <2>1. CASE ctx[r].permit
    <3>1. [future EXCEPT ![r] = "none"] = future
      BY <1>1
    <3>2. WakeUpNext([future EXCEPT ![r] = "none"], permits + 1, line)
      BY <2>1, <3>1 DEF ReleaseCapacity
    <3>3. "none" \in Futures \ {"pending"} /\ permits + 1 \in Int
      BY <1>1 DEF Futures
    <3>4. Owns(ctx[r], future[r]) /\ ~Owns(row, "none")
      BY <2>1 DEF Owns
    <3> QED
      BY <1>1, <3>2, <3>3, <3>4, WakingKeeps
  <2>2. CASE ~ctx[r].permit
    <3>1. future' = future /\ permits' = permits
      BY <2>2 DEF ReleaseCapacity
    <3>2. PermitsMove
      BY <1>2, <2>2, <3>1, QuietPermits DEF Owns
    <3> QED
      BY <1>1, <3>1, <3>2
  <2> QED
    BY <2>1, <2>2
<1>5. SlotsMove
  <2>1. CASE ctx[r].slot
    BY <1>2, <1>3, <2>1, SlotsFollow
  <2>2. CASE ~ctx[r].slot
    <3>1. queueSlots' = queueSlots /\ ctx'[r].slot = ctx[r].slot
      BY <1>1, <1>2, <1>3, <2>2
    <3> QED
      BY <1>2, <3>1, SlotsFollow
  <2> QED
    BY <2>1, <2>2
<1>6. Touches(r)
  BY <1>1, <1>2, <1>3, <1>4 DEF Touches
<1>7. Holds(row, "none")
  <2>1. ~row.cancelling
    BY DEF Settled
  <2> QED
    BY <2>1 DEF Holds
<1>8. Good(stage'[r], ctx'[r], future'[r])
  BY <1>1, <1>2, <1>4, <1>7 DEF Good, Stages, Futures
<1> QED
  BY <1>4, <1>5, <1>6, <1>8 DEF Keeps

LEMMA AgentWinsKeeps ==
    ASSUME LifecycleInv, NEW r \in Requests, NEW e \in DOMAIN OutcomeOf, AgentWins(r, e)
    PROVE  Keeps(r)
<1> DEFINE o   == OutcomeOf[Effective(r, e)]
           won == [ctx[r] EXCEPT !.outcome = o, !.agent = "done"]
           row == Finalized(won)
<1>1. /\ Good(stage[r], ctx[r], future[r]) /\ ctx[r] \in Context
      /\ ctx \in [Requests -> Context]
      /\ NewContext.agent = "created"
  BY DEF LifecycleInv, AllGood, NewContext
<1>2. /\ ctx[r].agent = "running" /\ ctx[r].phase = "active"
      /\ stage[r] = "admitted" /\ Settled(ctx[r]) /\ Holds(ctx[r], future[r])
  <2>1. ctx[r].agent = "running" /\ ctx[r].phase = "active"
    BY DEF AgentWins, Claimable
  <2>2. ctx[r].agent # NewContext.agent
    BY <1>1, <2>1
  <2>3. stage[r] = "admitted"
    BY <1>1, <2>2 DEF Good
  <2> QED
    BY <1>1, <2>1, <2>3 DEF Good
<1>3. /\ future[r] = "none" /\ ctx[r].recorded = 0 /\ ~ctx[r].cancelling
      /\ \A k \in Monitors : ctx[r].monitor[k] = "watching"
  BY <1>2 DEF Holds, Settled
<1>4. o \in Outcomes /\ o # NULL
  BY OutcomeIsTyped
<1>5. ctx' = [ctx EXCEPT ![r] = row] /\ stage' = stage /\ ReleaseCapacity(ctx[r])
  BY <1>1 DEF AgentWins
<1> HIDE DEF o
<1>6. /\ won \in Context /\ won.recorded = 0 /\ won.outcome = o /\ won.agent = "done"
      /\ won.monitor = ctx[r].monitor /\ won.cancelling = ctx[r].cancelling
  BY <1>1, <1>3, <1>4 DEF Context
<1> HIDE DEF won
<1>7. /\ row \in Context /\ row.phase = "finalized" /\ row.agent = "done"
      /\ row.outcome = o /\ ~row.permit /\ ~row.slot /\ row.recorded = 1
      /\ ~row.cancelling /\ row.monitor = ctx[r].monitor
  BY <1>3, <1>6, FinalizedIsTyped
<1> HIDE DEF row
<1>8. Settled(row)
  BY <1>3, <1>4, <1>7 DEF Settled
<1> QED
  BY <1>2, <1>3, <1>5, <1>7, <1>8, ReleasingKeeps

LEMMA FinishKeeps ==
    ASSUME LifecycleInv, NEW r \in Requests, NEW m \in Monitors, Finish(r, m)
    PROVE  Keeps(r)
<1> DEFINE mon == [ctx[r].monitor EXCEPT ![m] = "done"]
           won == [ctx[r] EXCEPT !.monitor = mon]
           row == Finalized(won)
<1>1. /\ Good(stage[r], ctx[r], future[r]) /\ ctx[r] \in Context
      /\ ctx \in [Requests -> Context]
      /\ NewContext.agent = "created"
  BY DEF LifecycleInv, AllGood, NewContext
<1>2. /\ ctx[r].agent = "done" /\ ctx[r].monitor[m] = "cleaning"
      /\ stage[r] = "admitted" /\ Settled(ctx[r]) /\ Holds(ctx[r], future[r])
  <2>1. ctx[r].agent = "done" /\ ctx[r].monitor[m] = "cleaning"
    BY DEF Finish, HasExited
  <2>2. ctx[r].agent # NewContext.agent
    BY <1>1, <2>1
  <2>3. stage[r] = "admitted"
    BY <1>1, <2>2 DEF Good
  <2> QED
    BY <1>1, <2>1, <2>3 DEF Good
<1>3. ctx[r].phase = "finalizing"
  BY <1>1, <1>2 DEF Settled, Context
<1>4. /\ future[r] = "none" /\ ctx[r].recorded = 0 /\ ctx[r].outcome # NULL
      /\ \A k \in Monitors \ {m} : ctx[r].monitor[k] # "cleaning"
  BY <1>2, <1>3 DEF Holds, Settled
<1>5. ctx' = [ctx EXCEPT ![r] = row] /\ stage' = stage /\ ReleaseCapacity(ctx[r])
  BY <1>1 DEF Finish
<1>a. mon \in [Monitors -> TaskState] /\ mon[m] = "done"
      /\ \A k \in Monitors \ {m} : mon[k] = ctx[r].monitor[k]
  BY <1>1 DEF Context, TaskState
<1> HIDE DEF mon
<1>6. /\ won \in Context /\ won.recorded = 0 /\ won.outcome = ctx[r].outcome
      /\ won.agent = "done" /\ won.monitor = mon
      /\ won.cancelling = ctx[r].cancelling
  BY <1>1, <1>2, <1>4, <1>a DEF Context
<1> HIDE DEF won
<1>7. /\ row \in Context /\ row.phase = "finalized" /\ row.agent = "done"
      /\ row.outcome = ctx[r].outcome /\ ~row.permit /\ ~row.slot
      /\ row.recorded = 1 /\ row.cancelling = ctx[r].cancelling
      /\ row.monitor = mon
  BY <1>6, FinalizedIsTyped
<1> HIDE DEF row
<1>b. \A k \in Monitors : row.monitor[k] # "cleaning"
  BY <1>4, <1>7, <1>a
<1>c. ~row.cancelling
  BY <1>2, <1>7 DEF Holds
<1>8. Settled(row)
  BY <1>4, <1>7, <1>b, <1>c DEF Settled
<1> QED
  BY <1>2, <1>4, <1>5, <1>7, <1>8, ReleasingKeeps

-----------------------------------------------------------------------------
\* Every action of a request owes the invariant no more than that.
LEMMA EveryStepKeeps ==
    ASSUME LifecycleInv, NEW r \in Requests, Step(r)
    PROVE  Keeps(r)
<1>1. /\ {"completed", "internal_error"} \subseteq DOMAIN OutcomeOf
      /\ \A m \in Monitors : EventsOf(r, m) \subseteq DOMAIN OutcomeOf
  BY DEF OutcomeOf, EventsOf
<1>3. CASE Enter(r) \/ Refuse(r) \/ Leave(r)
  BY <1>3, RoutingKeeps
<1>4. CASE Admit(r)
  BY <1>4, AdmitKeeps
<1>5. CASE AgentStep(r)
  BY <1>5, StartAgentKeeps, PromoteKeeps, LeaveQueueKeeps, WatchingKeeps DEF AgentStep
<1>6. CASE \/ Swallow(r) \/ AgentLoses(r)
           \/ \E d \in {"deadline_exceeded", "response_deadline_exceeded"} : Expire(r, d)
           \/ \E m \in Monitors : Notice(r, m)
  BY <1>6, WatchingKeeps
<1>7. CASE \E e \in {"completed", "internal_error"} : AgentWins(r, e)
  BY <1>1, <1>7, AgentWinsKeeps
<1>8. CASE \E m \in Monitors : Fires(r, m)
  <2>1. PICK m \in Monitors, e \in DOMAIN OutcomeOf :
               MonitorWins(r, m, e) \/ MonitorLoses(r, m, e)
    BY <1>1, <1>8 DEF Fires
  <2> QED
    BY <2>1, MonitorWinsKeeps, WatchingKeeps
<1>9. CASE \E m \in Monitors : Finish(r, m)
  BY <1>9, FinishKeeps
<1> QED
  BY <1>3, <1>4, <1>5, <1>6, <1>7, <1>8, <1>9 DEF Step

LEMMA InvariantInitially == Init => LifecycleInv
<1> SUFFICES ASSUME Init PROVE LifecycleInv
  OBVIOUS
<1>1. RequestTypeOK
  BY CapacityAssumption, NewContextIsTyped DEF Init, RequestTypeOK
<1>2. AllGood
  BY NewContextIsTyped DEF Init, AllGood, Good, Stages, Futures
<1>3. Owners = {} /\ Queued = {}
  BY DEF Init, Owners, Queued, NewContext
<1>4. CapacityConserved
  BY <1>3, CapacityAssumption, FS_EmptySet DEF Init, CapacityConserved
<1> QED
  BY <1>1, <1>2, <1>4 DEF LifecycleInv

LEMMA InvariantStep == LifecycleInv /\ [Next]_vars => LifecycleInv'
<1>1. ASSUME LifecycleInv, Next PROVE LifecycleInv'
  <2>1. PICK r \in Requests : Keeps(r)
    BY <1>1, EveryStepKeeps DEF Next
  <2>2. AllGood'
    BY <1>1, <2>1, OthersStayGood DEF LifecycleInv, Keeps
  <2>3. /\ CapacityConserved'
        /\ permits' \in 0..MaxRunning /\ queueSlots' \in 0..MaxWaiting
    BY <1>1, <2>1, SumsKept DEF LifecycleInv, Keeps
  <2>4. RequestTypeOK'
    BY <2>1, <2>2, <2>3 DEF Keeps, Touches, AllGood, RequestTypeOK, Stages, Futures
  <2> QED
    BY <2>2, <2>3, <2>4 DEF LifecycleInv
<1>2. ASSUME LifecycleInv, UNCHANGED vars PROVE LifecycleInv'
  <2>1. /\ stage' = stage /\ ctx' = ctx /\ permits' = permits /\ line' = line
        /\ future' = future /\ queueSlots' = queueSlots
    BY <1>2 DEF vars, capacity
  <2>2. RequestTypeOK' /\ AllGood'
    BY <1>2, <2>1 DEF LifecycleInv, RequestTypeOK, AllGood
  <2>3. Owners' = Owners /\ Queued' = Queued
    BY <2>1 DEF Owners, Queued
  <2>4. CapacityConserved'
    BY <1>2, <2>1, <2>3 DEF LifecycleInv, CapacityConserved
  <2> QED
    BY <2>2, <2>4 DEF LifecycleInv
<1> QED
  BY <1>1, <1>2

\* The inductive invariant.
THEOREM LifecycleInvHolds == Spec => []LifecycleInv
BY InvariantInitially, InvariantStep, PTL DEF Spec

\* The state of the request service is well typed: the semaphores never go
\* below zero nor above their capacities.
THEOREM RequestTypeCorrect == Spec => []RequestTypeOK
<1>1. LifecycleInv => RequestTypeOK
  BY DEF LifecycleInv
<1> QED
  BY <1>1, LifecycleInvHolds, PTL

\* No permit and no queue slot is lost or given back twice, for any number
\* of requests and any order of completions, cancellations and hand-overs.
THEOREM CapacityHolds == Spec => []CapacityConserved
<1>1. LifecycleInv => CapacityConserved
  BY DEF LifecycleInv
<1> QED
  BY <1>1, LifecycleInvHolds, PTL

\* An agent that runs, and one that still unwinds, holds its permit.
THEOREM RunsWithPermitHolds == Spec => []RunsWithPermit
<1>1. LifecycleInv => RunsWithPermit
  <2> SUFFICES ASSUME LifecycleInv, NEW r \in Requests
               PROVE  /\ ctx[r].agent = "running" => ctx[r].permit /\ ~ctx[r].slot
                      /\ ctx[r].agent = "queued" => ctx[r].slot /\ ~ctx[r].permit
                      /\ ctx[r].agent = "queued" <=> future[r] # "none"
    BY DEF RunsWithPermit
  <2>1. Good(stage[r], ctx[r], future[r])
    BY DEF LifecycleInv, AllGood
  <2> QED
    BY <2>1 DEF Good, Holds, NewContext
<1> QED
  BY <1>1, LifecycleInvHolds, PTL

\* Completion, deadline and disconnect contend for a request: one of them
\* cleans up, and the agent is cancelled on its behalf alone.
THEOREM OneFinalizerHolds == Spec => []OneFinalizer
<1>1. LifecycleInv => OneFinalizer
  <2> SUFFICES ASSUME LifecycleInv, NEW r \in Requests
               PROVE  LET Cleaners == {m \in Monitors : ctx[r].monitor[m] = "cleaning"}
                      IN  /\ Cleaners # {} <=> ctx[r].phase = "finalizing"
                          /\ \A m1, m2 \in Cleaners : m1 = m2
                          /\ ctx[r].cancelling => ctx[r].phase = "finalizing"
    BY DEF OneFinalizer
  <2>1. Good(stage[r], ctx[r], future[r]) /\ ctx[r] \in Context
    BY DEF LifecycleInv, AllGood
  <2>2. ctx[r].phase \in {"active", "finalizing", "finalized"}
    BY <2>1 DEF Context
  <2>3. CASE stage[r] # "admitted"
    BY <2>1, <2>3 DEF Good, NewContext
  <2>4. CASE stage[r] = "admitted"
    BY <2>1, <2>2, <2>4 DEF Good, Settled
  <2> QED
    BY <2>3, <2>4
<1> QED
  BY <1>1, LifecycleInvHolds, PTL

\* A request published as finalized has no task of its own running, holds
\* no capacity and has been counted once.
THEOREM FinalizedIsSettledHolds == Spec => []FinalizedIsSettled
<1>1. LifecycleInv => FinalizedIsSettled
  <2> SUFFICES ASSUME LifecycleInv, NEW r \in Requests
               PROVE  IF ctx[r].phase = "finalized"
                        THEN /\ ctx[r].agent = "done"
                             /\ ~ctx[r].permit /\ ~ctx[r].slot /\ future[r] = "none"
                             /\ ctx[r].outcome # NULL
                             /\ ctx[r].recorded = 1
                        ELSE ctx[r].recorded = 0
    BY DEF FinalizedIsSettled
  <2>1. Good(stage[r], ctx[r], future[r])
    BY DEF LifecycleInv, AllGood
  <2>2. CASE stage[r] # "admitted"
    BY <2>1, <2>2 DEF Good, NewContext
  <2>3. CASE stage[r] = "admitted"
    BY <2>1, <2>3 DEF Good, Settled, Holds
  <2> QED
    BY <2>2, <2>3
<1> QED
  BY <1>1, LifecycleInvHolds, PTL

-----------------------------------------------------------------------------
\* Seen from the permits, a step takes one or gives one back.
LEMMA StepOfPool == LifecycleInv /\ [Next]_vars => [Pool!Next]_Holders
<1> SUFFICES ASSUME LifecycleInv, [Next]_vars PROVE [Pool!Next]_Holders
  OBVIOUS
<1>1. CASE UNCHANGED vars
  BY <1>1 DEF vars, Holders
<1>2. CASE Next
  <2>1. PICK r \in Requests : Keeps(r)
    BY <1>2, EveryStepKeeps DEF Next
  <2>2. /\ \A u \in Requests \ {r} : u \in Holders' <=> u \in Holders
        /\ Holders \subseteq Requests /\ Holders' \subseteq Requests
    BY <2>1 DEF Keeps, Touches, Holders
  <2>3. CASE r \in Holders <=> r \in Holders'
    <3>1. Holders' = Holders
      BY <2>2, <2>3
    <3> QED
      BY <3>1
  <2>4. CASE r \in Holders /\ r \notin Holders'
    <3>1. Holders' = Holders \ {r}
      BY <2>2, <2>4
    <3> QED
      BY <2>4, <3>1 DEF Pool!Next, Pool!Release
  <2>5. CASE r \notin Holders /\ r \in Holders'
    <3>1. Holders' = Holders \cup {r}
      BY <2>2, <2>5
    <3>2. LifecycleInv'
      BY <1>2, InvariantStep
    <3>3. /\ permits' \in Nat /\ MaxRunning \in Nat
          /\ permits' + Cardinality(Owners') = MaxRunning
      BY <3>2, CapacityAssumption DEF LifecycleInv, RequestTypeOK, CapacityConserved
    <3>4. /\ IsFiniteSet(Owners') /\ IsFiniteSet(Holders)
          /\ Cardinality(Owners') \in Nat /\ Cardinality(Holders) \in Nat
      BY RequestsAssumption, FS_Subset, FS_CardinalityType DEF Owners, Holders
    <3>5. Holders' \subseteq Owners'
      BY DEF Holders, Owners
    <3>6. Cardinality(Holders) + 1 <= Cardinality(Owners')
      BY <2>5, <3>1, <3>4, <3>5, FS_AddElement, FS_Subset
    <3>7. Cardinality(Holders) < MaxRunning
      BY <3>3, <3>4, <3>6
    <3>8. Pool!Acquire(r)
      BY <2>5, <3>1, <3>7 DEF Pool!Acquire, Cardinality, Pool!Cardinality
    <3> QED
      BY <3>8 DEF Pool!Next
  <2> QED
    BY <2>3, <2>4, <2>5
<1> QED
  BY <1>1, <1>2

\* The request service implements the abstract pool of execution permits.
THEOREM PermitsHolds == Spec => PermitsAreASlotPool
<1>1. Init => Pool!Init
  BY DEF Init, Pool!Init, Holders, NewContext
<1> QED
  BY <1>1, StepOfPool, LifecycleInvHolds, PTL DEF Spec, PermitsAreASlotPool, Pool!Spec

-----------------------------------------------------------------------------
\* What OutcomeIsFirst says of one request.
FirstDecides(u) ==
    stage'[u] = "admitted" /\ stage[u] = "admitted" =>
      /\ ctx[u].outcome # NULL => ctx'[u].outcome = ctx[u].outcome
      /\ ctx'[u].outcome = "succeeded" /\ ctx[u].outcome = NULL =>
           "deadline_exceeded" \notin ctx[u].due

\* An outcome is written by a claim, and a claim finds none written.
LEMMA ClaimDecides ==
    ASSUME LifecycleInv, NEW r \in Requests, NEW e \in DOMAIN OutcomeOf, Claimable(r, e),
           stage[r] = "admitted", ctx'[r].outcome = OutcomeOf[Effective(r, e)]
    PROVE  FirstDecides(r)
<1>1. ctx[r].outcome = NULL
  BY DEF LifecycleInv, AllGood, Good, Settled, Claimable
<1>2. ASSUME OutcomeOf[Effective(r, e)] = "succeeded"
      PROVE  "deadline_exceeded" \notin ctx[r].due
  BY <1>2 DEF OutcomeOf, Effective
<1> QED
  BY <1>1, <1>2 DEF FirstDecides

LEMMA EveryStepDecidesOnce ==
    ASSUME LifecycleInv, NEW r \in Requests, Step(r)
    PROVE  FirstDecides(r)
<1>1. /\ Good(stage[r], ctx[r], future[r])
      /\ stage \in [Requests -> Stages] /\ ctx \in [Requests -> Context]
      /\ ctx[r] \in Context
  BY DEF LifecycleInv, AllGood
<1>2. /\ {"completed", "internal_error"} \subseteq DOMAIN OutcomeOf
      /\ \A m \in Monitors : EventsOf(r, m) \subseteq DOMAIN OutcomeOf
  BY DEF OutcomeOf, EventsOf
<1>3. CASE Enter(r) \/ Admit(r) \/ Refuse(r) \/ Leave(r)
  BY <1>1, <1>3 DEF Enter, Admit, Refuse, Leave, FirstDecides
<1>4. ASSUME ctx'[r].outcome = ctx[r].outcome PROVE FirstDecides(r)
  BY <1>4, NullAssumption DEF FirstDecides
<1>5. CASE AgentStep(r)
  <2>1. Runs(ctx[r]).outcome = ctx[r].outcome /\ Exits(ctx[r]).outcome = ctx[r].outcome
    BY <1>1 DEF Runs, Exits, Context
  <2>2. [Exits(ctx[r]) EXCEPT !.slot = FALSE].outcome = Exits(ctx[r]).outcome
    BY <1>1 DEF Exits, Context
  <2>3. CASE StartAgent(r)
    BY <1>1, <1>4, <2>1, <2>3 DEF StartAgent, Context
  <2>4. CASE Promote(r)
    BY <1>1, <1>4, <2>1, <2>4 DEF Promote
  <2>5. CASE LeaveQueue(r)
    BY <1>1, <1>4, <2>1, <2>2, <2>5 DEF LeaveQueue
  <2>6. CASE Unwind(r)
    BY <1>1, <1>4, <2>1, <2>6 DEF Unwind
  <2> QED
    BY <1>5, <2>3, <2>4, <2>5, <2>6 DEF AgentStep
<1>6. CASE \/ Swallow(r) \/ AgentLoses(r)
           \/ \E d \in {"deadline_exceeded", "response_deadline_exceeded"} : Expire(r, d)
  BY <1>1, <1>4, <1>6, NullAssumption DEF Swallow, AgentLoses, Expire, Context
<1>7. ASSUME NEW e \in {"completed", "internal_error"}, AgentWins(r, e)
      PROVE  FirstDecides(r)
  <2>1. ctx'[r].outcome = OutcomeOf[Effective(r, e)]
    BY <1>1, <1>7 DEF AgentWins, Finalized, Context
  <2>2. stage' = stage /\ Claimable(r, e)
    BY <1>7 DEF AgentWins
  <2> QED
    BY <1>2, <2>1, <2>2, ClaimDecides DEF FirstDecides
<1>8. ASSUME NEW m \in Monitors, Fires(r, m) PROVE FirstDecides(r)
  <2>1. PICK e \in DOMAIN OutcomeOf : MonitorWins(r, m, e) \/ MonitorLoses(r, m, e)
    BY <1>2, <1>8 DEF Fires
  <2>2. CASE MonitorWins(r, m, e)
    <3>1. ctx'[r].outcome = OutcomeOf[Effective(r, e)]
      BY <1>1, <2>2 DEF MonitorWins, Context
    <3>2. stage[r] = "admitted" /\ Claimable(r, e)
      BY <2>2 DEF MonitorWins
    <3> QED
      BY <3>1, <3>2, ClaimDecides
  <2>3. CASE MonitorLoses(r, m, e)
    BY <1>1, <1>4, <2>3, NullAssumption DEF MonitorLoses, Context
  <2> QED
    BY <2>1, <2>2, <2>3
<1>9. ASSUME NEW m \in Monitors, Finish(r, m) \/ Notice(r, m) PROVE FirstDecides(r)
  <2> DEFINE won == [ctx[r] EXCEPT !.monitor[m] = "done"]
  <2>1. won.outcome = ctx[r].outcome
    BY <1>1 DEF Context
  <2>2. Finalized(won).outcome = won.outcome
    BY <1>1 DEF Finalized, Context
  <2>3. ctx'[r] = Finalized(won) \/ ctx'[r] = won
    BY <1>1, <1>9 DEF Finish, Notice
  <2> QED
    BY <1>4, <2>1, <2>2, <2>3
<1> QED
  BY <1>3, <1>5, <1>6, <1>7, <1>8, <1>9 DEF Step

\* The first claim decides: no later event changes an outcome, and no
\* completion at or after the deadline is a success.
THEOREM OutcomeIsFirstHolds == Spec => OutcomeIsFirst
<1>1. LifecycleInv /\ [Next]_vars => [\A u \in Requests : FirstDecides(u)]_vars
  <2> SUFFICES ASSUME LifecycleInv, Next, NEW u \in Requests PROVE FirstDecides(u)
    OBVIOUS
  <2>1. PICK r \in Requests : Step(r)
    BY DEF Next
  <2>2. FirstDecides(r)
    BY <2>1, EveryStepDecidesOnce
  <2>3. ASSUME u # r PROVE FirstDecides(u)
    <3>1. ctx'[u] = ctx[u]
      BY <2>1, <2>3, EveryStepKeeps DEF Keeps, Touches
    <3> QED
      BY <3>1, NullAssumption DEF FirstDecides
  <2> QED
    BY <2>2, <2>3
<1>2. LifecycleInv /\ [Next]_vars =>
        [\A r \in Requests : stage'[r] = "admitted" /\ stage[r] = "admitted" =>
           /\ ctx[r].outcome # NULL => ctx'[r].outcome = ctx[r].outcome
           /\ ctx'[r].outcome = "succeeded" /\ ctx[r].outcome = NULL =>
                "deadline_exceeded" \notin ctx[r].due]_vars
  BY <1>1 DEF FirstDecides
<1> QED
  BY <1>2, LifecycleInvHolds, PTL DEF Spec, OutcomeIsFirst

-----------------------------------------------------------------------------
(* No waiter sleeps beside a free permit.  NoIdlePermit alone is not        *)
(* inductive: a hand-over finds the first pending waiter by walking the     *)
(* line, so every pending waiter must be in it.                             *)

InLine(q, f) ==
    \A u \in Requests : f[u] = "pending" => \E i \in DOMAIN q : q[i] = u

NoneIdle(n, f) ==
    n > 0 /\ (\E u \in Requests : f[u] = "pending") => \E u \in Requests : f[u] = "set"

WakefulInv == InLine(line, future) /\ NoneIdle(permits, future)

\* A hand-over wakes a waiter, or there is none to wake.
LEMMA HandOverWakes ==
    ASSUME NEW f \in [Requests -> Futures], NEW n \in Int, NEW q \in Seq(Requests),
           InLine(q, f), WakeUpNext(f, n, q), line' = q
    PROVE  WakefulInv'
<1> DEFINE Ready == {i \in DOMAIN q : f[q[i]] = "pending"}
<1>1. CASE Ready = {}
  <2>1. future' = f /\ \A u \in Requests : f[u] # "pending"
    BY <1>1 DEF WakeUpNext, InLine
  <2> QED
    BY <2>1 DEF WakefulInv, InLine, NoneIdle
<1>2. CASE Ready # {}
  <2>1. PICK i \in Ready : future' = [f EXCEPT ![q[i]] = "set"]
    BY <1>2 DEF WakeUpNext
  <2>2. q[i] \in Requests
    BY <2>1, ElementOfSeq
  <2>3. future'[q[i]] = "set"
        /\ \A u \in Requests : future'[u] = "pending" => f[u] = "pending"
    BY <2>1, <2>2
  <2> QED
    BY <2>2, <2>3 DEF WakefulInv, InLine, NoneIdle
<1> QED
  BY <1>1, <1>2

\* Who leaves the line takes nobody along.
LEMMA TheOthersStayInLine ==
    ASSUME line \in Seq(Requests), future \in [Requests -> Futures],
           InLine(line, future), NEW r \in Requests, LeavesLine(r)
    PROVE  /\ line' \in Seq(Requests)
           /\ InLine(line', [future EXCEPT ![r] = "none"])
<1>1. line' \in Seq(Requests)
  BY LineIsTyped
<1>2. PICK i \in DOMAIN line : line[i] = r /\ line' = RemoveAt(line, i)
  BY DEF LeavesLine
<1> DEFINE front == SubSeq(line, 1, i - 1)
           back  == SubSeq(line, i + 1, Len(line))
<1>3. /\ Len(line) \in Nat /\ DOMAIN line = 1..Len(line) /\ i \in 1..Len(line)
      /\ \A j \in 1..Len(line) : line[j] \in Requests
  BY <1>2, LenProperties
<1>4. /\ front \in Seq(Requests) /\ Len(front) = i - 1
      /\ \A j \in 1..(i - 1) : front[j] = line[j]
  BY <1>3, SubSeqProperties
<1>5. /\ back \in Seq(Requests) /\ Len(back) = Len(line) - i
      /\ \A j \in 1..(Len(line) - i) : back[j] = line[i + j]
  BY <1>3, SubSeqProperties
<1>6. line' = front \o back
  BY <1>2 DEF RemoveAt
<1> HIDE DEF front, back
<1>7. /\ DOMAIN line' = 1..(Len(line) - 1)
      /\ \A j \in 1..(i - 1) : line'[j] = line[j]
      /\ \A j \in i..(Len(line) - 1) : line'[j] = line[j + 1]
  <2>1. /\ Len(line') = Len(line) - 1
        /\ \A j \in 1..(Len(line) - 1) :
             line'[j] = IF j <= i - 1 THEN front[j] ELSE back[j - (i - 1)]
    <3>1. /\ Len(line') = Len(front) + Len(back)
          /\ \A j \in 1..(Len(front) + Len(back)) :
               line'[j] = IF j <= Len(front) THEN front[j] ELSE back[j - Len(front)]
      BY <1>4, <1>5, <1>6, ConcatProperties
    <3>2. Len(front) + Len(back) = Len(line) - 1
      BY <1>3, <1>4, <1>5
    <3> QED
      BY <1>4, <3>1, <3>2
  <2>2. DOMAIN line' = 1..(Len(line) - 1)
    BY <1>1, <2>1, LenProperties
  <2>3. \A j \in 1..(i - 1) : line'[j] = line[j]
    BY <1>3, <1>4, <2>1
  <2>4. ASSUME NEW j \in i..(Len(line) - 1) PROVE line'[j] = line[j + 1]
    <3>1. line'[j] = back[j - (i - 1)] /\ j - (i - 1) \in 1..(Len(line) - i)
      BY <1>3, <2>1
    <3>2. i + (j - (i - 1)) = j + 1
      BY <1>3
    <3> QED
      BY <1>5, <3>1, <3>2
  <2> QED
    BY <2>2, <2>3, <2>4
<1>8. ASSUME NEW u \in Requests, [future EXCEPT ![r] = "none"][u] = "pending"
      PROVE  \E j \in DOMAIN line' : line'[j] = u
  <2>1. u # r /\ future[u] = "pending"
    BY <1>8
  <2>2. PICK j \in 1..Len(line) : line[j] = u
    BY <1>3, <2>1 DEF InLine
  <2>3. j # i
    BY <1>2, <2>1, <2>2
  <2>4. CASE j < i
    BY <1>3, <1>7, <2>2, <2>4
  <2>5. CASE j > i
    <3>1. j - 1 \in i..(Len(line) - 1) /\ j - 1 \in 1..(Len(line) - 1)
      BY <1>3, <2>2, <2>5
    <3>2. line'[j - 1] = line[j]
      BY <1>3, <1>7, <2>2, <3>1
    <3> QED
      BY <1>7, <2>2, <3>1, <3>2
  <2> QED
    BY <1>3, <2>2, <2>3, <2>4, <2>5
<1> QED
  BY <1>1, <1>8 DEF InLine

\* A step that hands nothing over: no permit becomes free, nobody joins the
\* line unseen, and a waiter that is being woken goes on being woken.
LEMMA NothingFreed ==
    ASSUME LifecycleInv, WakefulInv, line' = line,
           permits' \in Int, permits' <= permits,
           \A u \in Requests : /\ future'[u] = "pending" => future[u] = "pending"
                               /\ future[u] = "set" => future'[u] = "set"
    PROVE  WakefulInv'
<1>1. permits \in Int
  BY CapacityAssumption DEF LifecycleInv, RequestTypeOK
<1> QED
  BY <1>1 DEF WakefulInv, InLine, NoneIdle

LEMMA WakefulStart ==
    ASSUME LifecycleInv, WakefulInv, NEW r \in Requests, StartAgent(r)
    PROVE  WakefulInv'
<1>1. /\ permits \in Int /\ permits >= 0
      /\ line \in Seq(Requests) /\ future \in [Requests -> Futures]
  BY CapacityAssumption DEF LifecycleInv, RequestTypeOK, Futures
<1>2. CASE UNCHANGED <<permits, line, future>>
  BY <1>1, <1>2, NothingFreed
<1>3. CASE permits' = permits - 1 /\ UNCHANGED <<line, future>>
  BY <1>1, <1>3, NothingFreed
<1>4. CASE /\ Locked
           /\ line' = Append(line, r)
           /\ future' = [future EXCEPT ![r] = "pending"]
           /\ permits' = permits
  <2>1. future[r] = "none"
    BY DEF StartAgent, LifecycleInv, AllGood, Good, Holds
  <2>2. InLine(line, future)'
    <3> SUFFICES ASSUME NEW u \in Requests, future'[u] = "pending"
                 PROVE  \E i \in DOMAIN line' : line'[i] = u
      BY DEF InLine
    <3>1. /\ Len(line) \in Nat /\ DOMAIN line = 1..Len(line)
          /\ DOMAIN line' = 1..(Len(line) + 1)
          /\ \A i \in 1..Len(line) : line'[i] = line[i]
          /\ line'[Len(line) + 1] = r
      BY <1>1, <1>4, AppendProperties, LenProperties
    <3>2. CASE u = r
      BY <3>1, <3>2
    <3>3. CASE u # r
      <4>1. future[u] = "pending"
        BY <1>1, <1>4, <3>3
      <4>2. PICK i \in DOMAIN line : line[i] = u
        BY <4>1 DEF WakefulInv, InLine
      <4> QED
        BY <3>1, <4>2
    <3> QED
      BY <3>2, <3>3
  <2>3. NoneIdle(permits, future)'
    <3>1. CASE permits = 0
      BY <1>4, <3>1 DEF NoneIdle
    <3>2. ASSUME NEW u \in Requests, future[u] = "set"
          PROVE  NoneIdle(permits, future)'
      BY <1>1, <1>4, <2>1, <3>2 DEF NoneIdle
    <3> QED
      BY <1>1, <1>4, <3>1, <3>2 DEF Locked, WakefulInv, NoneIdle
  <2> QED
    BY <2>2, <2>3 DEF WakefulInv
<1> QED
  BY <1>2, <1>3, <1>4 DEF StartAgent, capacity

LEMMA WakefulLeaving ==
    ASSUME LifecycleInv, WakefulInv, NEW r \in Requests,
           Promote(r) \/ LeaveQueue(r)
    PROVE  WakefulInv'
<1> DEFINE left == [future EXCEPT ![r] = "none"]
<1>1. /\ permits \in Int /\ permits >= 0
      /\ line \in Seq(Requests) /\ future \in [Requests -> Futures]
      /\ left \in [Requests -> Futures]
  BY CapacityAssumption DEF LifecycleInv, RequestTypeOK, Futures
<1>2. line' \in Seq(Requests) /\ InLine(line', left)
  BY <1>1, TheOthersStayInLine DEF Promote, LeaveQueue, WakefulInv
<1>3. ASSUME NEW n \in Int, WakeUpNext(left, n, line') PROVE WakefulInv'
  BY <1>1, <1>2, <1>3, HandOverWakes
<1>4. CASE future' = left /\ permits' = permits /\ permits = 0
  BY <1>2, <1>4 DEF WakefulInv, InLine, NoneIdle
<1>5. CASE future' = left /\ permits' = permits /\ future[r] # "set"
  <2>1. NoneIdle(permits, future)'
    BY <1>1, <1>5 DEF WakefulInv, NoneIdle
  <2> QED
    BY <1>2, <1>5, <2>1 DEF WakefulInv, InLine
<1>6. CASE Promote(r)
  <2>1. \/ permits > 0 /\ WakeUpNext(left, permits, line')
        \/ ~(permits > 0) /\ future' = left /\ permits' = permits
    BY <1>6 DEF Promote, WakesOn
  <2> HIDE DEF left
  <2> QED
    BY <1>1, <1>3, <1>4, <2>1
<1>7. CASE LeaveQueue(r)
  <2>1. \/ WakeUpNext(left, permits + 1, line')
        \/ future[r] # "set" /\ future' = left /\ permits' = permits
    BY <1>7 DEF LeaveQueue, HoldsFuture
  <2>2. permits + 1 \in Int
    BY <1>1
  <2> HIDE DEF left
  <2> QED
    BY <1>3, <1>5, <2>1, <2>2
<1> QED
  BY <1>6, <1>7

LEMMA WakefulRelease ==
    ASSUME LifecycleInv, WakefulInv, NEW row, ReleaseCapacity(row)
    PROVE  WakefulInv'
<1>1. /\ permits \in Int /\ permits + 1 \in Int
      /\ line \in Seq(Requests) /\ future \in [Requests -> Futures]
  BY CapacityAssumption DEF LifecycleInv, RequestTypeOK, Futures
<1>2. CASE WakeUpNext(future, permits + 1, line)
  BY <1>1, <1>2, HandOverWakes DEF ReleaseCapacity, WakefulInv
<1>3. CASE UNCHANGED <<future, permits>>
  BY <1>1, <1>3, NothingFreed DEF ReleaseCapacity
<1> QED
  BY <1>2, <1>3 DEF ReleaseCapacity

LEMMA WakefulNext ==
    ASSUME LifecycleInv, WakefulInv, [Next]_vars
    PROVE  WakefulInv'
<1>0. permits \in Int /\ future \in [Requests -> Futures]
  BY CapacityAssumption DEF LifecycleInv, RequestTypeOK, Futures
<1>1. CASE UNCHANGED capacity
  BY <1>0, <1>1, NothingFreed DEF capacity
<1>2. ASSUME NEW r \in Requests, Admit(r) PROVE WakefulInv'
  BY <1>0, <1>2, NothingFreed DEF Admit
<1>3. ASSUME NEW r \in Requests, NEW m \in Monitors, NEW e, MonitorWins(r, m, e)
      PROVE  WakefulInv'
  BY <1>0, <1>3, NothingFreed DEF MonitorWins
<1>4. ASSUME NEW r \in Requests, NEW e, AgentWins(r, e) PROVE WakefulInv'
  BY <1>4, WakefulRelease DEF AgentWins
<1>5. ASSUME NEW r \in Requests, NEW m \in Monitors, Finish(r, m) PROVE WakefulInv'
  BY <1>5, WakefulRelease DEF Finish
<1>6. ASSUME NEW r \in Requests, NEW m \in Monitors, NEW e, MonitorLoses(r, m, e)
      PROVE  UNCHANGED capacity
  BY <1>6 DEF MonitorLoses
<1>7. ASSUME NEW r \in Requests,
             \/ Enter(r) \/ Refuse(r) \/ Leave(r)
             \/ Unwind(r) \/ Swallow(r) \/ AgentLoses(r)
             \/ \E d \in {"deadline_exceeded", "response_deadline_exceeded"} : Expire(r, d)
             \/ \E m \in Monitors : Notice(r, m)
      PROVE  UNCHANGED capacity
  BY <1>7 DEF Enter, Refuse, Leave, Unwind, Swallow, AgentLoses, Expire, Notice
<1>8. UNCHANGED vars => UNCHANGED capacity
  BY DEF vars
<1> QED
  BY <1>1, <1>2, <1>3, <1>4, <1>5, <1>6, <1>7, <1>8, WakefulStart, WakefulLeaving
     DEF Next, Step, AgentStep, Fires

\* No waiter sleeps beside a free permit: a permit that comes free reaches
\* the next waiter, also when the waiter it was handed to is cancelled.
THEOREM NoIdlePermitHolds == Spec => []NoIdlePermit
<1>1. Init => WakefulInv
  BY DEF Init, WakefulInv, InLine, NoneIdle
<1>2. WakefulInv => NoIdlePermit
  BY DEF WakefulInv, NoneIdle, NoIdlePermit
<1> QED
  BY <1>1, <1>2, LifecycleInvHolds, WakefulNext, PTL DEF Spec
=============================================================================

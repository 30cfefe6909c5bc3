----------------------------- MODULE AgentLoopProofs -----------------------------
(***************************************************************************)
(* Proofs about the agent of month01_agent_loop and the tool runtime it     *)
(* calls.                                                                   *)
(*                                                                         *)
(* RuntimeInv is the part of the invariant that is about the runtime.  It   *)
(* says that a caller's future is its own and how far its callback can be   *)
(* while the caller counts and attaches it (OwnFutures); with that, each    *)
(* step moves at most one permit from one term of PermitsCoverFutures to    *)
(* another.                                                                *)
(*                                                                         *)
(* AgentInv adds the agent.  CheckpointsAreTrue alone is not inductive: the *)
(* next checkpoint is the history of the run that is going on, which has to *)
(* continue the last checkpoint (Follows).  That the action at its end had  *)
(* its effect, unless it failed, is known when the answer arrives: it is    *)
(* the answer to that action (Serves), from an operation that is over, and  *)
(* one that finished had its effect (EffectsAreReal).  Chain is             *)
(* CheckpointsAreTrue, for any two checkpoints.                             *)
(***************************************************************************)
EXTENDS AgentLoop, TLAPS, FiniteSetTheorems, SequenceTheorems

-----------------------------------------------------------------------------
(* The tool runtime.                                                       *)

\* PermitsCoverFutures is not inductive: that a callback is counted once, and
\* a permit is given back once, depends on which future a caller is on, that
\* it is the caller's own, and how far its callback is.
OwnFutures ==
    /\ \A c \in Callers :
         /\ call[c].f = NULL <=> call[c].pc \in {"out", "submit", "raised"}
         /\ call[c].pc # "out" => call[c].op \in Operations
         /\ call[c].f # NULL =>
              /\ future[call[c].f].state # "none"
              /\ future[call[c].f].owner = c
              /\ future[call[c].f].op = call[c].op
         /\ call[c].pc \in {"count", "attach"} => future[call[c].f].callback = "unset"
    /\ \A f \in Futures :
         /\ future[f].state # "none" => /\ future[f].owner \in Callers
                                        /\ future[f].op \in Operations
         /\ future[f].callback # "unset" => future[f].state # "none"
         /\ future[f].callback \in {"counted", "done"} => Ended(f)

RuntimeInv ==
    /\ RuntimeTypeOK /\ OwnFutures /\ PermitsCoverFutures
    /\ IsFiniteSet(Charged) /\ IsFiniteSet(Holding)


-----------------------------------------------------------------------------
(* The runtime keeps its books.                                            *)

LEMMA GoToMoves ==
    ASSUME call \in [Callers -> Call], NEW c \in Callers, NEW from,
           NEW to \in CallState, GoTo(c, from, to)
    PROVE  /\ call[c].pc = from /\ call' \in [Callers -> Call]
           /\ call'[c].pc = to /\ call'[c].f = call[c].f /\ call'[c].op = call[c].op
           /\ \A d \in Callers \ {c} : call'[d] = call[d]
<1>1. call[c] \in Call /\ call[c].pc = from
  BY DEF GoTo
<1>2. call' = [call EXCEPT ![c] = [call[c] EXCEPT !.pc = to]]
  BY DEF GoTo
<1> DEFINE x == [call[c] EXCEPT !.pc = to]
<1>3. x \in Call /\ x.pc = to /\ x.f = call[c].f /\ x.op = call[c].op
  BY <1>1 DEF Call
<1> HIDE DEF x
<1> QED
  BY <1>1, <1>2, <1>3 DEF x

States    == {"none", "queued", "running", "performed", "finished", "failed",
              "cancelled"}
Callbacks == {"unset", "set", "counted", "done"}

LEMMA StateMoves ==
    ASSUME future \in [Futures -> Future], NEW f \in Futures, NEW s \in States,
           future' = [future EXCEPT ![f].state = s]
    PROVE  /\ future' \in [Futures -> Future]
           /\ future'[f].state = s /\ future'[f].callback = future[f].callback
           /\ future'[f].op = future[f].op /\ future'[f].owner = future[f].owner
           /\ \A g \in Futures \ {f} : future'[g] = future[g]
<1> DEFINE x == [future[f] EXCEPT !.state = s]
<1>1. /\ x \in Future /\ x.state = s /\ x.callback = future[f].callback
      /\ x.op = future[f].op /\ x.owner = future[f].owner
  BY DEF Future, States
<1>2. future' = [future EXCEPT ![f] = x]
  OBVIOUS
<1> HIDE DEF x
<1> QED
  BY <1>1, <1>2

LEMMA CallbackMoves ==
    ASSUME future \in [Futures -> Future], NEW f \in Futures, NEW b \in Callbacks,
           future' = [future EXCEPT ![f].callback = b]
    PROVE  /\ future' \in [Futures -> Future]
           /\ future'[f].callback = b /\ future'[f].state = future[f].state
           /\ future'[f].op = future[f].op /\ future'[f].owner = future[f].owner
           /\ \A g \in Futures \ {f} : future'[g] = future[g]
<1> DEFINE x == [future[f] EXCEPT !.callback = b]
<1>1. /\ x \in Future /\ x.callback = b /\ x.state = future[f].state
      /\ x.op = future[f].op /\ x.owner = future[f].owner
  BY DEF Future, Callbacks
<1>2. future' = [future EXCEPT ![f] = x]
  OBVIOUS
<1> HIDE DEF x
<1> QED
  BY <1>1, <1>2

\* What the cardinalities are.
LEMMA Books ==
    ASSUME RuntimeInv
    PROVE  /\ call \in [Callers -> Call] /\ future \in [Futures -> Future]
           /\ \A c \in Callers : call[c] \in Call
           /\ \A f \in Futures : future[f] \in Future
           /\ IsFiniteSet(Charged) /\ IsFiniteSet(Holding) /\ IsFiniteSet(Counted)
           /\ Cardinality(Charged) \in Nat /\ Cardinality(Holding) \in Nat
           /\ Cardinality(Counted) \in Nat
           /\ permits \in Nat /\ inFlight \in Nat /\ Permits \in Nat
           /\ permits + Cardinality(Charged) + Cardinality(Holding) = Permits
           /\ inFlight = Cardinality(Counted)
<1>1. Counted \subseteq Charged
  BY DEF Counted
<1>2. IsFiniteSet(Charged) /\ IsFiniteSet(Holding)
  BY DEF RuntimeInv
<1>3. IsFiniteSet(Counted)
  BY <1>1, <1>2, FS_Subset
<1>4. /\ call \in [Callers -> Call] /\ future \in [Futures -> Future]
      /\ permits \in 0..Permits /\ inFlight \in 0..Permits /\ Permits \in Nat
  BY RuntimeAssumption DEF RuntimeInv, RuntimeTypeOK
<1> QED
  BY <1>2, <1>3, <1>4, FS_CardinalityType DEF RuntimeInv, PermitsCoverFutures

\* The types of the counters follow from the books.
LEMMA RuntimeInvOfNext ==
    ASSUME call' \in [Callers -> Call], future' \in [Futures -> Future],
           permits' \in Nat, OwnFutures',
           IsFiniteSet(Charged'), IsFiniteSet(Holding'),
           permits' + Cardinality(Charged') + Cardinality(Holding') = Permits,
           {f \in Futures : Live(f)}' \subseteq Charged',
           inFlight' = Cardinality(Counted')
    PROVE  RuntimeInv'
<1>1. Counted' \subseteq Charged'
  BY DEF Counted
<1>2. IsFiniteSet(Counted') /\ Cardinality(Counted') <= Cardinality(Charged')
  BY <1>1, FS_Subset
<1>3. /\ Cardinality(Charged') \in Nat /\ Cardinality(Holding') \in Nat
      /\ Cardinality(Counted') \in Nat
  BY <1>2, FS_CardinalityType
<1>4. Permits \in Nat
  BY RuntimeAssumption
<1>5. permits' \in 0..Permits /\ inFlight' \in 0..Permits
  BY <1>2, <1>3, <1>4
<1>6. RuntimeTypeOK'
  BY <1>5 DEF RuntimeTypeOK
<1>7. PermitsCoverFutures'
  BY DEF PermitsCoverFutures
<1> QED
  BY <1>6, <1>7 DEF RuntimeInv

\* Where a caller has a future with a callback.
Late == {"attached", "wait", "cancel", "cancelled", "result", "timeout"}

\* Steps that neither take, pass on nor give back a permit.
LEMMA QuietMoves ==
    ASSUME RuntimeInv, UNCHANGED <<permits, inFlight>>,
           call' \in [Callers -> Call], future' \in [Futures -> Future],
           \A c \in Callers :
             /\ call'[c].f = call[c].f /\ call'[c].op = call[c].op
             /\ \/ call'[c].pc = call[c].pc
                \/ call[c].pc \in Late /\ call'[c].pc \in Late,
           \A f \in Futures :
             /\ future'[f].op = future[f].op /\ future'[f].owner = future[f].owner
             /\ future'[f].callback = future[f].callback
             /\ future'[f].state = "none" <=> future[f].state = "none"
             /\ Ended(f) => future'[f].state = future[f].state
    PROVE  RuntimeInv'
<1>1. OwnFutures /\ {f \in Futures : Live(f)} \subseteq Charged
  BY DEF RuntimeInv, PermitsCoverFutures
<1>2. \A c \in Callers : /\ call[c].f \in Futures \cup {NULL}
                         /\ call'[c].pc = "submit" <=> call[c].pc = "submit"
                         /\ call'[c].pc = "count" <=> call[c].pc = "count"
                         /\ call'[c].pc \in {"count", "attach"} <=> call[c].pc \in {"count", "attach"}
                         /\ call'[c].pc \in {"out", "submit", "raised"}
                              <=> call[c].pc \in {"out", "submit", "raised"}
                         /\ call'[c].pc = "out" <=> call[c].pc = "out"
  BY Books DEF Call, Late
<1>3. Charged' = Charged
  BY DEF Charged
<1>4. Holding' = Holding
  BY <1>2 DEF Holding
<1>5. Counted' = Counted
  BY <1>2, <1>3 DEF Counted, Charged
<1>6. {f \in Futures : Live(f)}' \subseteq Charged'
  <2>1. ASSUME NEW f \in Futures, Live(f)' PROVE f \in Charged
    <3>1. ~Ended(f) /\ future[f].state # "none"
      BY <2>1 DEF Live, Ended, Answered
    <3>2. Live(f)
      BY <3>1, Books DEF Live, Ended, Answered, Future
    <3> QED
      BY <1>1, <3>2
  <2> QED
    BY <1>3, <2>1
<1>7. OwnFutures'
  <2>1. ASSUME NEW c \in Callers
        PROVE  /\ call'[c].f = NULL <=> call'[c].pc \in {"out", "submit", "raised"}
               /\ call'[c].pc # "out" => call'[c].op \in Operations
               /\ call'[c].f # NULL =>
                    /\ future'[call'[c].f].state # "none"
                    /\ future'[call'[c].f].owner = c
                    /\ future'[call'[c].f].op = call'[c].op
               /\ call'[c].pc \in {"count", "attach"} =>
                    future'[call'[c].f].callback = "unset"
    <3>1. call[c].pc \in {"count", "attach"} => call[c].f # NULL
      BY <1>1 DEF OwnFutures
    <3> QED
      BY <1>1, <1>2, <3>1 DEF OwnFutures
  <2>2. ASSUME NEW f \in Futures
        PROVE  /\ future'[f].state # "none" => /\ future'[f].owner \in Callers
                                               /\ future'[f].op \in Operations
               /\ future'[f].callback # "unset" => future'[f].state # "none"
               /\ future'[f].callback \in {"counted", "done"} => Ended(f)'
    BY <1>1 DEF OwnFutures, Ended, Answered
  <2> QED
    BY <2>1, <2>2 DEF OwnFutures
<1> QED
  BY <1>3, <1>4, <1>5, <1>6, <1>7, Books, RuntimeInvOfNext

LEMMA AcquireKeeps ==
    ASSUME RuntimeInv, NEW c \in Callers, NEW op \in Operations, Acquire(c, op)
    PROVE  RuntimeInv'
<1> DEFINE x == [pc |-> "submit", op |-> op, f |-> NULL]
<1>1. /\ call[c].pc = "out" /\ permits > 0 /\ permits' = permits - 1
      /\ call' = [call EXCEPT ![c] = x]
      /\ future' = future /\ inFlight' = inFlight
  BY DEF Acquire
<1>2. x \in Call /\ x.pc = "submit" /\ x.op = op /\ x.f = NULL
  BY DEF Call, CallState
<1> HIDE DEF x
<1>3. /\ call'[c] = x /\ call' \in [Callers -> Call]
      /\ \A d \in Callers \ {c} : call'[d] = call[d]
  BY <1>1, <1>2, Books
<1>4. OwnFutures /\ {f \in Futures : Live(f)} \subseteq Charged
  BY DEF RuntimeInv, PermitsCoverFutures
<1>5. call[c].f = NULL /\ NULL \notin Futures
  BY <1>1, <1>4, RuntimeAssumption DEF OwnFutures
<1>6. Charged' = Charged /\ {f \in Futures : Live(f)}' = {f \in Futures : Live(f)}
  BY <1>1 DEF Charged, Live
<1>7. Holding' = Holding \cup {c} /\ c \notin Holding
  BY <1>1, <1>2, <1>3 DEF Holding
<1>8. Counted' = Counted
  <2>1. ASSUME NEW f \in Futures
        PROVE  (\A d \in Callers : call'[d].f = f => call'[d].pc # "count")
                 <=> (\A d \in Callers : call[d].f = f => call[d].pc # "count")
    BY <1>1, <1>2, <1>3
  <2> QED
    BY <1>1, <1>6, <2>1 DEF Counted, Charged
<1>9. OwnFutures'
  <2>1. ASSUME NEW d \in Callers
        PROVE  /\ call'[d].f = NULL <=> call'[d].pc \in {"out", "submit", "raised"}
               /\ call'[d].pc # "out" => call'[d].op \in Operations
               /\ call'[d].f # NULL =>
                    /\ future'[call'[d].f].state # "none"
                    /\ future'[call'[d].f].owner = d
                    /\ future'[call'[d].f].op = call'[d].op
               /\ call'[d].pc \in {"count", "attach"} =>
                    future'[call'[d].f].callback = "unset"
    <3>1. CASE d = c
      BY <1>2, <1>3, <3>1
    <3>2. CASE d # c
      BY <1>1, <1>3, <1>4, <3>2 DEF OwnFutures
    <3> QED
      BY <3>1, <3>2
  <2> QED
    BY <1>1, <1>4, <2>1 DEF OwnFutures, Ended, Answered
<1>10. IsFiniteSet(Holding') /\ Cardinality(Holding') = Cardinality(Holding) + 1
  BY <1>7, Books, FS_AddElement
<1>11. permits' \in Nat
       /\ permits' + Cardinality(Charged') + Cardinality(Holding') = Permits
  BY <1>1, <1>6, <1>10, Books
<1> QED
  BY <1>1, <1>3, <1>4, <1>6, <1>8, <1>9, <1>10, <1>11, Books, RuntimeInvOfNext

\* The permit of the caller becomes the permit of the future.
LEMMA SubmitKeeps ==
    ASSUME RuntimeInv, NEW c \in Callers, NEW f \in Futures, Submit(c, f)
    PROVE  RuntimeInv'
<1> DEFINE x == [state |-> "queued", callback |-> "unset", op |-> call[c].op, owner |-> c]
           y == [call[c] EXCEPT !.pc = "count", !.f = f]
<1>1. /\ call[c].pc = "submit" /\ Unused(f)
      /\ future' = [future EXCEPT ![f] = x]
      /\ call' = [call EXCEPT ![c] = y]
      /\ permits' = permits /\ inFlight' = inFlight
  BY DEF Submit
<1>2. OwnFutures /\ {g \in Futures : Live(g)} \subseteq Charged
  BY DEF RuntimeInv, PermitsCoverFutures
<1>3. call[c] \in Call /\ call[c].op \in Operations /\ call[c].f = NULL
      /\ NULL \notin Futures
  BY <1>1, <1>2, Books, RuntimeAssumption DEF OwnFutures
<1>4. /\ x \in Future /\ x.state = "queued" /\ x.callback = "unset"
      /\ x.op = call[c].op /\ x.owner = c
      /\ y \in Call /\ y.pc = "count" /\ y.f = f /\ y.op = call[c].op
  BY <1>3 DEF Future, Call, CallState
<1> HIDE DEF x, y
<1>5. /\ call'[c] = y /\ call' \in [Callers -> Call]
      /\ \A d \in Callers \ {c} : call'[d] = call[d]
      /\ future'[f] = x /\ future' \in [Futures -> Future]
      /\ \A g \in Futures \ {f} : future'[g] = future[g]
  BY <1>1, <1>4, Books
<1>6. /\ future[f].state = "none" \/ future[f].callback = "done"
      /\ \A d \in Callers : call[d].f # f
  BY <1>1 DEF Unused
<1>7. Charged' = Charged \cup {f} /\ f \notin Charged
  BY <1>4, <1>5, <1>6 DEF Charged
<1>8. Holding' = Holding \ {c} /\ c \in Holding
  BY <1>1, <1>4, <1>5 DEF Holding
<1>9. Counted' = Counted
  <2>1. f \notin Counted
    BY <1>7 DEF Counted
  <2>2. f \notin Counted'
    BY <1>4, <1>5 DEF Counted
  <2>3. ASSUME NEW g \in Futures \ {f} PROVE g \in Counted' <=> g \in Counted
    <3>1. (\A d \in Callers : call'[d].f = g => call'[d].pc # "count")
            <=> (\A d \in Callers : call[d].f = g => call[d].pc # "count")
      BY <1>1, <1>4, <1>5
    <3> QED
      BY <1>5, <1>7, <3>1 DEF Counted
  <2>4. Counted \subseteq Futures /\ Counted' \subseteq Futures
    BY DEF Counted, Charged
  <2> QED
    BY <2>1, <2>2, <2>3, <2>4
<1>10. {g \in Futures : Live(g)}' \subseteq Charged'
  BY <1>2, <1>5, <1>7 DEF Live
<1>11. OwnFutures'
  <2>1. ASSUME NEW d \in Callers
        PROVE  /\ call'[d].f = NULL <=> call'[d].pc \in {"out", "submit", "raised"}
               /\ call'[d].pc # "out" => call'[d].op \in Operations
               /\ call'[d].f # NULL =>
                    /\ future'[call'[d].f].state # "none"
                    /\ future'[call'[d].f].owner = d
                    /\ future'[call'[d].f].op = call'[d].op
               /\ call'[d].pc \in {"count", "attach"} =>
                    future'[call'[d].f].callback = "unset"
    <3>1. CASE d = c
      BY <1>3, <1>4, <1>5, <3>1
    <3>2. CASE d # c
      <4>1. call'[d] = call[d] /\ call[d].f # f /\ call[d].f \in Futures \cup {NULL}
        BY <1>5, <1>6, <3>2, Books DEF Call
      <4>2. call[d].f # NULL => future'[call[d].f] = future[call[d].f]
        BY <1>5, <4>1
      <4>3. call[d].pc \in {"count", "attach"} => call[d].f # NULL
        BY <1>2 DEF OwnFutures
      <4> QED
        BY <1>2, <4>1, <4>2, <4>3 DEF OwnFutures
    <3> QED
      BY <3>1, <3>2
  <2>2. ASSUME NEW g \in Futures
        PROVE  /\ future'[g].state # "none" => /\ future'[g].owner \in Callers
                                               /\ future'[g].op \in Operations
               /\ future'[g].callback # "unset" => future'[g].state # "none"
               /\ future'[g].callback \in {"counted", "done"} => Ended(g)'
    <3>1. CASE g = f
      BY <1>3, <1>4, <1>5, <3>1
    <3>2. CASE g # f
      BY <1>2, <1>5, <3>2 DEF OwnFutures, Ended, Answered
    <3> QED
      BY <3>1, <3>2
  <2> QED
    BY <2>1, <2>2 DEF OwnFutures
<1>12. /\ IsFiniteSet(Charged') /\ Cardinality(Charged') = Cardinality(Charged) + 1
       /\ IsFiniteSet(Holding') /\ Cardinality(Holding') = Cardinality(Holding) - 1
  BY <1>7, <1>8, Books, FS_AddElement, FS_RemoveElement
<1>13. permits' + Cardinality(Charged') + Cardinality(Holding') = Permits
  BY <1>1, <1>12, Books
<1> QED
  BY <1>1, <1>5, <1>9, <1>10, <1>11, <1>12, <1>13, Books, RuntimeInvOfNext

\* Steps of a caller that leave the futures alone.
LEMMA OwnFuturesOfCaller ==
    ASSUME OwnFutures, future' = future, NEW c \in Callers,
           \A d \in Callers \ {c} : call'[d] = call[d],
           /\ call'[c].f = NULL <=> call'[c].pc \in {"out", "submit", "raised"}
           /\ call'[c].pc # "out" => call'[c].op \in Operations
           /\ call'[c].f # NULL =>
                /\ future[call'[c].f].state # "none"
                /\ future[call'[c].f].owner = c
                /\ future[call'[c].f].op = call'[c].op
           /\ call'[c].pc \in {"count", "attach"} =>
                future[call'[c].f].callback = "unset"
    PROVE  OwnFutures'
<1>1. ASSUME NEW d \in Callers
      PROVE  /\ call'[d].f = NULL <=> call'[d].pc \in {"out", "submit", "raised"}
             /\ call'[d].pc # "out" => call'[d].op \in Operations
             /\ call'[d].f # NULL =>
                  /\ future'[call'[d].f].state # "none"
                  /\ future'[call'[d].f].owner = d
                  /\ future'[call'[d].f].op = call'[d].op
             /\ call'[d].pc \in {"count", "attach"} =>
                  future'[call'[d].f].callback = "unset"
  <2>1. CASE d = c
    BY <2>1
  <2>2. CASE d # c
    BY <2>2 DEF OwnFutures
  <2> QED
    BY <2>1, <2>2
<1> QED
  BY <1>1 DEF OwnFutures, Ended, Answered

LEMMA SubmitFailsKeeps ==
    ASSUME RuntimeInv, NEW c \in Callers, SubmitFails(c)
    PROVE  RuntimeInv'
<1>1. /\ GoTo(c, "submit", "raised") /\ permits' = permits + 1
      /\ future' = future /\ inFlight' = inFlight
  BY DEF SubmitFails
<1>2. /\ call[c].pc = "submit" /\ call' \in [Callers -> Call]
      /\ call'[c].pc = "raised" /\ call'[c].f = call[c].f /\ call'[c].op = call[c].op
      /\ \A d \in Callers \ {c} : call'[d] = call[d]
  <2>1. "raised" \in CallState
    BY DEF CallState
  <2> QED
    BY <1>1, <2>1, Books, GoToMoves
<1>3. OwnFutures /\ {f \in Futures : Live(f)} \subseteq Charged
  BY DEF RuntimeInv, PermitsCoverFutures
<1>4. call[c].f = NULL /\ call[c].op \in Operations
  BY <1>2, <1>3 DEF OwnFutures
<1>5. Charged' = Charged /\ {f \in Futures : Live(f)}' = {f \in Futures : Live(f)}
  BY <1>1 DEF Charged, Live
<1>6. Holding' = Holding \ {c} /\ c \in Holding
  BY <1>2 DEF Holding
<1>7. Counted' = Counted
  <2>1. ASSUME NEW f \in Futures
        PROVE  (\A d \in Callers : call'[d].f = f => call'[d].pc # "count")
                 <=> (\A d \in Callers : call[d].f = f => call[d].pc # "count")
    BY <1>2
  <2> QED
    BY <1>1, <1>5, <2>1 DEF Counted, Charged
<1>8. OwnFutures'
  BY <1>1, <1>2, <1>3, <1>4, OwnFuturesOfCaller
<1>9. IsFiniteSet(Holding') /\ Cardinality(Holding') = Cardinality(Holding) - 1
  BY <1>6, Books, FS_RemoveElement
<1>10. permits' \in Nat
       /\ permits' + Cardinality(Charged') + Cardinality(Holding') = Permits
  BY <1>1, <1>5, <1>9, Books
<1> QED
  BY <1>1, <1>2, <1>3, <1>5, <1>7, <1>8, <1>9, <1>10, Books, RuntimeInvOfNext

LEMMA CountKeeps ==
    ASSUME RuntimeInv, NEW c \in Callers, Count(c)
    PROVE  RuntimeInv'
<1>1. /\ GoTo(c, "count", "attach") /\ inFlight' = inFlight + 1
      /\ future' = future /\ permits' = permits
  BY DEF Count
<1>2. /\ call[c].pc = "count" /\ call' \in [Callers -> Call]
      /\ call'[c].pc = "attach" /\ call'[c].f = call[c].f /\ call'[c].op = call[c].op
      /\ \A d \in Callers \ {c} : call'[d] = call[d]
  <2>1. "attach" \in CallState
    BY DEF CallState
  <2> QED
    BY <1>1, <2>1, Books, GoToMoves
<1>3. OwnFutures /\ {f \in Futures : Live(f)} \subseteq Charged
  BY DEF RuntimeInv, PermitsCoverFutures
<1> DEFINE f == call[c].f
<1>4. /\ f \in Futures /\ future[f].state # "none" /\ future[f].callback = "unset"
      /\ future[f].owner = c /\ call[c].op = future[f].op /\ f # NULL
      /\ call[c].op \in Operations
  <2>1. call[c].f # NULL
    BY <1>2, <1>3 DEF OwnFutures
  <2>2. call[c].f \in Futures
    BY <2>1, Books DEF Call
  <2> QED
    BY <1>2, <1>3, <2>1, <2>2 DEF OwnFutures
<1> HIDE DEF f
<1>5. /\ Charged' = Charged /\ {g \in Futures : Live(g)}' = {g \in Futures : Live(g)}
      /\ f \in Charged
  BY <1>1, <1>4 DEF Charged, Live
<1>6. Holding' = Holding
  BY <1>2 DEF Holding
<1>7. \A d \in Callers \ {c} : call[d].f # f
  BY <1>3, <1>4 DEF OwnFutures
<1>8. Counted' = Counted \cup {f} /\ f \notin Counted
  <2>1. f \notin Counted
    BY <1>2 DEF Counted, f
  <2>2. f \in Counted'
    BY <1>1, <1>2, <1>4, <1>5, <1>7 DEF Counted
  <2>3. ASSUME NEW g \in Futures \ {f} PROVE g \in Counted' <=> g \in Counted
    <3>1. (\A d \in Callers : call'[d].f = g => call'[d].pc # "count")
            <=> (\A d \in Callers : call[d].f = g => call[d].pc # "count")
      BY <1>2 DEF f
    <3> QED
      BY <1>1, <1>5, <3>1 DEF Counted
  <2>4. Counted \subseteq Futures /\ Counted' \subseteq Futures
    BY DEF Counted, Charged
  <2> QED
    BY <1>4, <2>1, <2>2, <2>3, <2>4
<1>9. OwnFutures'
  BY <1>1, <1>2, <1>3, <1>4, OwnFuturesOfCaller DEF f
<1>10. Cardinality(Counted') = Cardinality(Counted) + 1
  BY <1>8, Books, FS_AddElement
<1>11. inFlight' = Cardinality(Counted')
  BY <1>1, <1>10, Books
<1> QED
  BY <1>1, <1>2, <1>3, <1>5, <1>6, <1>9, <1>11, Books, RuntimeInvOfNext

LEMMA LeaveKeeps ==
    ASSUME RuntimeInv, NEW c \in Callers, Leave(c)
    PROVE  RuntimeInv'
<1>1. /\ call[c].pc \in {"result", "timeout", "raised"}
      /\ call' = [call EXCEPT ![c] = NoCall]
      /\ future' = future /\ permits' = permits /\ inFlight' = inFlight
  BY DEF Leave
<1>2. NoCall \in Call /\ NoCall.pc = "out" /\ NoCall.f = NULL
  BY DEF NoCall, Call, CallState
<1>3. /\ call'[c] = NoCall /\ call' \in [Callers -> Call]
      /\ \A d \in Callers \ {c} : call'[d] = call[d]
  BY <1>1, <1>2, Books
<1>4. OwnFutures /\ {f \in Futures : Live(f)} \subseteq Charged
  BY DEF RuntimeInv, PermitsCoverFutures
<1>5. Charged' = Charged /\ {f \in Futures : Live(f)}' = {f \in Futures : Live(f)}
  BY <1>1 DEF Charged, Live
<1>6. Holding' = Holding
  BY <1>1, <1>2, <1>3 DEF Holding
<1>7. Counted' = Counted
  <2>1. ASSUME NEW f \in Futures
        PROVE  (\A d \in Callers : call'[d].f = f => call'[d].pc # "count")
                 <=> (\A d \in Callers : call[d].f = f => call[d].pc # "count")
    BY <1>1, <1>2, <1>3
  <2> QED
    BY <1>1, <1>5, <2>1 DEF Counted, Charged
<1>8. OwnFutures'
  BY <1>1, <1>2, <1>3, <1>4, OwnFuturesOfCaller
<1> QED
  BY <1>1, <1>3, <1>4, <1>5, <1>6, <1>7, <1>8, Books, RuntimeInvOfNext

LEMMA AttachKeeps ==
    ASSUME RuntimeInv, NEW c \in Callers, Attach(c)
    PROVE  RuntimeInv'
<1> DEFINE f == call[c].f
<1>1. /\ GoTo(c, "attach", "attached")
      /\ future' = [future EXCEPT ![f].callback = "set"]
      /\ permits' = permits /\ inFlight' = inFlight
  BY DEF Attach
<1>2. /\ call[c].pc = "attach" /\ call' \in [Callers -> Call]
      /\ call'[c].pc = "attached" /\ call'[c].f = call[c].f /\ call'[c].op = call[c].op
      /\ \A d \in Callers \ {c} : call'[d] = call[d]
  <2>1. "attached" \in CallState
    BY DEF CallState
  <2> QED
    BY <1>1, <2>1, Books, GoToMoves
<1>3. OwnFutures /\ {g \in Futures : Live(g)} \subseteq Charged
  BY DEF RuntimeInv, PermitsCoverFutures
<1>4. /\ f \in Futures /\ future[f].state # "none" /\ future[f].callback = "unset"
      /\ future[f].owner = c /\ f # NULL
      /\ future[f].op = call[c].op /\ call[c].op \in Operations
  <2>1. call[c].f # NULL
    BY <1>2, <1>3 DEF OwnFutures
  <2>2. call[c].f \in Futures
    BY <2>1, Books DEF Call
  <2> QED
    BY <1>2, <1>3, <2>1, <2>2 DEF OwnFutures
<1>5. call'[c].f = f
  BY <1>2
<1> HIDE DEF f
<1>6. /\ future' \in [Futures -> Future]
      /\ future'[f].callback = "set" /\ future'[f].state = future[f].state
      /\ future'[f].op = future[f].op /\ future'[f].owner = future[f].owner
      /\ \A g \in Futures \ {f} : future'[g] = future[g]
  <2>1. "set" \in Callbacks
    BY DEF Callbacks
  <2> QED
    BY <1>1, <1>4, <2>1, Books, CallbackMoves
<1>7. /\ Charged' = Charged /\ {g \in Futures : Live(g)}' = {g \in Futures : Live(g)}
  BY <1>4, <1>6 DEF Charged, Live
<1>8. Holding' = Holding
  BY <1>2 DEF Holding
<1>9. Counted' = Counted
  <2>1. ASSUME NEW g \in Futures PROVE g \in Counted' <=> g \in Counted
    <3>1. (\A d \in Callers : call'[d].f = g => call'[d].pc # "count")
            <=> (\A d \in Callers : call[d].f = g => call[d].pc # "count")
      BY <1>2
    <3>2. future'[g].callback # "counted" <=> future[g].callback # "counted"
      BY <1>4, <1>6
    <3> QED
      BY <1>7, <3>1, <3>2 DEF Counted
  <2>2. Counted \subseteq Futures /\ Counted' \subseteq Futures
    BY DEF Counted, Charged
  <2> QED
    BY <2>1, <2>2
<1>10. OwnFutures'
  <2>1. ASSUME NEW d \in Callers
        PROVE  /\ call'[d].f = NULL <=> call'[d].pc \in {"out", "submit", "raised"}
               /\ call'[d].pc # "out" => call'[d].op \in Operations
               /\ call'[d].f # NULL =>
                    /\ future'[call'[d].f].state # "none"
                    /\ future'[call'[d].f].owner = d
                    /\ future'[call'[d].f].op = call'[d].op
               /\ call'[d].pc \in {"count", "attach"} =>
                    future'[call'[d].f].callback = "unset"
    <3>1. CASE d = c
      BY <1>2, <1>4, <1>5, <1>6, <3>1
    <3>2. CASE d # c
      <4>1. call'[d] = call[d] /\ call[d].f # f /\ call[d].f \in Futures \cup {NULL}
        BY <1>2, <1>3, <1>4, <3>2, Books DEF Call, OwnFutures
      <4>2. call[d].f # NULL => future'[call[d].f] = future[call[d].f]
        BY <1>6, <4>1
      <4>3. call[d].pc \in {"count", "attach"} => call[d].f # NULL
        BY <1>3 DEF OwnFutures
      <4> QED
        BY <1>3, <4>1, <4>2, <4>3 DEF OwnFutures
    <3> QED
      BY <3>1, <3>2
  <2>2. ASSUME NEW g \in Futures
        PROVE  /\ future'[g].state # "none" => /\ future'[g].owner \in Callers
                                               /\ future'[g].op \in Operations
               /\ future'[g].callback # "unset" => future'[g].state # "none"
               /\ future'[g].callback \in {"counted", "done"} => Ended(g)'
    <3>1. CASE g = f
      BY <1>3, <1>4, <1>6, <3>1 DEF OwnFutures
    <3>2. CASE g # f
      BY <1>3, <1>6, <3>2 DEF OwnFutures, Ended, Answered
    <3> QED
      BY <3>1, <3>2
  <2> QED
    BY <2>1, <2>2 DEF OwnFutures
<1> QED
  BY <1>1, <1>2, <1>3, <1>6, <1>7, <1>8, <1>9, <1>10, Books, RuntimeInvOfNext

\* A step of the callback of an ended future.
LEMMA OwnFuturesOfCallback ==
    ASSUME RuntimeInv, NEW f \in Futures, Ended(f), future[f].callback # "unset",
           NEW b \in {"counted", "done"},
           future' = [future EXCEPT ![f].callback = b], call' = call
    PROVE  /\ OwnFutures'
           /\ future' \in [Futures -> Future]
           /\ future'[f].callback = b /\ future'[f].state = future[f].state
           /\ \A g \in Futures \ {f} : future'[g] = future[g]
<1>1. OwnFutures
  BY DEF RuntimeInv
<1>2. /\ future' \in [Futures -> Future]
      /\ future'[f].callback = b /\ future'[f].state = future[f].state
      /\ future'[f].op = future[f].op /\ future'[f].owner = future[f].owner
      /\ \A g \in Futures \ {f} : future'[g] = future[g]
  <2>1. b \in Callbacks
    BY DEF Callbacks
  <2> QED
    BY <2>1, Books, CallbackMoves
<1>3. ASSUME NEW d \in Callers
      PROVE  /\ call'[d].f = NULL <=> call'[d].pc \in {"out", "submit", "raised"}
             /\ call'[d].pc # "out" => call'[d].op \in Operations
             /\ call'[d].f # NULL =>
                  /\ future'[call'[d].f].state # "none"
                  /\ future'[call'[d].f].owner = d
                  /\ future'[call'[d].f].op = call'[d].op
             /\ call'[d].pc \in {"count", "attach"} =>
                  future'[call'[d].f].callback = "unset"
  <2>1. call[d].f \in Futures \cup {NULL}
    BY Books DEF Call
  <2>2. call[d].f # NULL => /\ future'[call[d].f].state = future[call[d].f].state
                            /\ future'[call[d].f].owner = future[call[d].f].owner
                            /\ future'[call[d].f].op = future[call[d].f].op
    BY <1>2, <2>1
  <2>3. call[d].pc \in {"count", "attach"} =>
          call[d].f \in Futures \ {f} /\ future[call[d].f].callback = "unset"
    BY <1>1, <2>1 DEF OwnFutures
  <2>4. call[d].pc \in {"count", "attach"} => future'[call[d].f].callback = "unset"
    BY <1>2, <2>3
  <2> QED
    BY <1>1, <2>2, <2>4 DEF OwnFutures
<1>4. ASSUME NEW g \in Futures
      PROVE  /\ future'[g].state # "none" => /\ future'[g].owner \in Callers
                                             /\ future'[g].op \in Operations
             /\ future'[g].callback # "unset" => future'[g].state # "none"
             /\ future'[g].callback \in {"counted", "done"} => Ended(g)'
  <2>1. CASE g = f
    BY <1>1, <1>2, <2>1 DEF OwnFutures, Ended, Answered
  <2>2. CASE g # f
    BY <1>1, <1>2, <2>2 DEF OwnFutures, Ended, Answered
  <2> QED
    BY <2>1, <2>2
<1>5. OwnFutures'
  BY <1>3, <1>4 DEF OwnFutures
<1> QED
  BY <1>2, <1>5

LEMMA CountDownKeeps ==
    ASSUME RuntimeInv, NEW f \in Futures, CountDown(f)
    PROVE  RuntimeInv'
<1>1. /\ Ended(f) /\ future[f].callback = "set"
      /\ inFlight' = inFlight - 1
      /\ future' = [future EXCEPT ![f].callback = "counted"]
      /\ call' = call /\ permits' = permits
  BY DEF CountDown
<1>2. /\ OwnFutures' /\ future' \in [Futures -> Future]
      /\ future'[f].callback = "counted" /\ future'[f].state = future[f].state
      /\ \A g \in Futures \ {f} : future'[g] = future[g]
  BY <1>1, OwnFuturesOfCallback
<1>3. OwnFutures /\ {g \in Futures : Live(g)} \subseteq Charged
  BY DEF RuntimeInv, PermitsCoverFutures
<1>4. Charged' = Charged /\ {g \in Futures : Live(g)}' = {g \in Futures : Live(g)}
  BY <1>1, <1>2 DEF Charged, Live
<1>5. Holding' = Holding
  BY <1>1 DEF Holding
<1>6. Counted' = Counted \ {f} /\ f \in Counted
  <2>1. f \in Counted
    <3>1. \A d \in Callers : call[d].f = f => call[d].pc # "count"
      BY <1>1, <1>3 DEF OwnFutures
    <3> QED
      BY <1>1, <3>1 DEF Counted, Charged, Ended, Answered
  <2>2. f \notin Counted'
    BY <1>2 DEF Counted
  <2>3. ASSUME NEW g \in Futures \ {f} PROVE g \in Counted' <=> g \in Counted
    BY <1>1, <1>2, <1>4 DEF Counted
  <2>4. Counted \subseteq Futures /\ Counted' \subseteq Futures
    BY DEF Counted, Charged
  <2> QED
    BY <2>1, <2>2, <2>3, <2>4
<1>7. Cardinality(Counted') = Cardinality(Counted) - 1
  BY <1>6, Books, FS_RemoveElement
<1>8. inFlight' = Cardinality(Counted')
  BY <1>1, <1>7, Books
<1> QED
  BY <1>1, <1>2, <1>3, <1>4, <1>5, <1>8, Books, RuntimeInvOfNext

LEMMA ReleasePermitKeeps ==
    ASSUME RuntimeInv, NEW f \in Futures, ReleasePermit(f)
    PROVE  RuntimeInv'
<1>1. /\ future[f].callback = "counted" /\ permits' = permits + 1
      /\ future' = [future EXCEPT ![f].callback = "done"]
      /\ call' = call /\ inFlight' = inFlight
  BY DEF ReleasePermit
<1>2. OwnFutures /\ {g \in Futures : Live(g)} \subseteq Charged
  BY DEF RuntimeInv, PermitsCoverFutures
<1>3. Ended(f) /\ future[f].state # "none"
  BY <1>1, <1>2 DEF OwnFutures
<1>4. /\ OwnFutures' /\ future' \in [Futures -> Future]
      /\ future'[f].callback = "done" /\ future'[f].state = future[f].state
      /\ \A g \in Futures \ {f} : future'[g] = future[g]
  BY <1>1, <1>3, OwnFuturesOfCallback
<1>5. Charged' = Charged \ {f} /\ f \in Charged
  BY <1>1, <1>3, <1>4 DEF Charged
<1>6. {g \in Futures : Live(g)}' \subseteq Charged'
  BY <1>2, <1>3, <1>4, <1>5 DEF Live, Ended, Answered
<1>7. Holding' = Holding
  BY <1>1 DEF Holding
<1>8. Counted' = Counted
  <2>1. f \notin Counted /\ f \notin Counted'
    BY <1>1, <1>5 DEF Counted
  <2>2. ASSUME NEW g \in Futures \ {f} PROVE g \in Counted' <=> g \in Counted
    BY <1>1, <1>4, <1>5 DEF Counted
  <2>3. Counted \subseteq Futures /\ Counted' \subseteq Futures
    BY DEF Counted, Charged
  <2> QED
    BY <2>1, <2>2, <2>3
<1>9. IsFiniteSet(Charged') /\ Cardinality(Charged') = Cardinality(Charged) - 1
  BY <1>5, Books, FS_RemoveElement
<1>10. permits' \in Nat
       /\ permits' + Cardinality(Charged') + Cardinality(Holding') = Permits
  BY <1>1, <1>7, <1>9, Books
<1> QED
  BY <1>1, <1>4, <1>6, <1>7, <1>8, <1>9, <1>10, Books, RuntimeInvOfNext

\* The end of a wait, by the caller.
LEMMA WaitKeeps ==
    ASSUME RuntimeInv, NEW c \in Callers,
           AfterAttach(c) \/ GetResult(c) \/ TimeOut(c) \/ GiveUp(c)
    PROVE  RuntimeInv'
<1>1. PICK from \in Late, to \in Late :
        GoTo(c, from, to) /\ UNCHANGED <<future, permits, inFlight>>
  BY DEF AfterAttach, GetResult, TimeOut, GiveUp, Late
<1>2. to \in CallState
  BY DEF CallState, Late
<1>3. /\ call[c].pc = from /\ call' \in [Callers -> Call]
      /\ call'[c].pc = to /\ call'[c].f = call[c].f /\ call'[c].op = call[c].op
      /\ \A d \in Callers \ {c} : call'[d] = call[d]
  BY <1>1, <1>2, Books, GoToMoves
<1>4. future' = future /\ future' \in [Futures -> Future]
  BY <1>1, Books
<1>5. \A d \in Callers : /\ call'[d].f = call[d].f /\ call'[d].op = call[d].op
                         /\ \/ call'[d].pc = call[d].pc
                            \/ call[d].pc \in Late /\ call'[d].pc \in Late
  BY <1>3
<1> QED
  BY <1>1, <1>3, <1>4, <1>5, QuietMoves

LEMMA CancelKeeps ==
    ASSUME RuntimeInv, NEW c \in Callers, Cancel(c)
    PROVE  RuntimeInv'
<1> DEFINE f == call[c].f
           s == AfterCancel(future[f].state)
<1>1. /\ GoTo(c, "cancel", "cancelled")
      /\ future' = [future EXCEPT ![f].state = AfterCancel(@)]
      /\ UNCHANGED <<permits, inFlight>>
  BY DEF Cancel
<1>2. "cancelled" \in CallState /\ "cancel" \in Late /\ "cancelled" \in Late
  BY DEF CallState, Late
<1>3. /\ call[c].pc = "cancel" /\ call' \in [Callers -> Call]
      /\ call'[c].pc = "cancelled" /\ call'[c].f = call[c].f /\ call'[c].op = call[c].op
      /\ \A d \in Callers \ {c} : call'[d] = call[d]
  BY <1>1, <1>2, Books, GoToMoves
<1>4. f \in Futures
  <2>1. call[c].f # NULL
    BY <1>3 DEF RuntimeInv, OwnFutures
  <2> QED
    BY <2>1, Books DEF Call
<1>5. /\ s \in States /\ (s = "none" <=> future[f].state = "none")
      /\ future[f].state \in {"finished", "failed", "cancelled"} => s = future[f].state
  BY <1>4, Books DEF AfterCancel, States, Future
<1>6. future' = [future EXCEPT ![f].state = s]
  BY <1>1, <1>4, Books
<1> HIDE DEF f, s
<1>7. /\ future' \in [Futures -> Future]
      /\ future'[f].state = s /\ future'[f].callback = future[f].callback
      /\ future'[f].op = future[f].op /\ future'[f].owner = future[f].owner
      /\ \A g \in Futures \ {f} : future'[g] = future[g]
  BY <1>4, <1>5, <1>6, Books, StateMoves
<1>8. \A d \in Callers : /\ call'[d].f = call[d].f /\ call'[d].op = call[d].op
                         /\ \/ call'[d].pc = call[d].pc
                            \/ call[d].pc \in Late /\ call'[d].pc \in Late
  BY <1>2, <1>3
<1>9. ASSUME NEW g \in Futures
      PROVE  /\ future'[g].op = future[g].op /\ future'[g].owner = future[g].owner
             /\ future'[g].callback = future[g].callback
             /\ future'[g].state = "none" <=> future[g].state = "none"
             /\ Ended(g) => future'[g].state = future[g].state
  <2>1. CASE g = f
    BY <1>5, <1>7, <2>1 DEF Ended, Answered
  <2>2. CASE g # f
    BY <1>7, <2>2
  <2> QED
    BY <2>1, <2>2
<1> QED
  BY <1>1, <1>3, <1>7, <1>8, <1>9, QuietMoves

\* The pool runs an operation.
LEMMA PoolKeeps ==
    ASSUME RuntimeInv, NEW f \in Futures,
           StartOperation(f) \/ Perform(f) \/ Finish(f) \/ Fail(f)
    PROVE  RuntimeInv'
<1>1. PICK s \in {"running", "performed", "finished", "failed"} :
        /\ Live(f) /\ future' = [future EXCEPT ![f].state = s]
        /\ UNCHANGED <<call, permits, inFlight>>
  BY DEF StartOperation, Perform, Finish, Fail, Live
<1>2. s \in States
  BY DEF States
<1>3. /\ future' \in [Futures -> Future]
      /\ future'[f].state = s /\ future'[f].callback = future[f].callback
      /\ future'[f].op = future[f].op /\ future'[f].owner = future[f].owner
      /\ \A g \in Futures \ {f} : future'[g] = future[g]
  BY <1>1, <1>2, Books, StateMoves
<1>4. ASSUME NEW g \in Futures
      PROVE  /\ future'[g].op = future[g].op /\ future'[g].owner = future[g].owner
             /\ future'[g].callback = future[g].callback
             /\ future'[g].state = "none" <=> future[g].state = "none"
             /\ Ended(g) => future'[g].state = future[g].state
  <2>1. CASE g = f
    BY <1>1, <1>3, <2>1 DEF Ended, Answered, Live
  <2>2. CASE g # f
    BY <1>3, <2>2
  <2> QED
    BY <2>1, <2>2
<1>5. call' = call /\ call' \in [Callers -> Call]
  BY <1>1, Books
<1> QED
  BY <1>1, <1>3, <1>4, <1>5, QuietMoves

LEMMA RestKeeps ==
    ASSUME RuntimeInv, UNCHANGED runtimeVars
    PROVE  RuntimeInv'
<1>1. call' = call /\ future' = future /\ UNCHANGED <<permits, inFlight>>
  BY DEF runtimeVars
<1> QED
  BY <1>1, Books, QuietMoves

\* The state after the process died is the one it starts in.
LEMMA RuntimeInitKeeps == RuntimeInit => RuntimeInv
<1> SUFFICES ASSUME RuntimeInit PROVE RuntimeInv
  OBVIOUS
<1>1. /\ NoCall \in Call /\ NoCall.pc = "out" /\ NoCall.f = NULL
      /\ NoFuture \in Future /\ NoFuture.state = "none" /\ NoFuture.callback = "unset"
      /\ Permits \in Nat
  BY RuntimeAssumption DEF NoCall, NoFuture, Call, CallState, Future
<1>2. /\ \A c \in Callers : call[c] = NoCall
      /\ \A f \in Futures : future[f] = NoFuture
      /\ call \in [Callers -> Call] /\ future \in [Futures -> Future]
      /\ permits = Permits /\ inFlight = 0
  BY <1>1 DEF RuntimeInit
<1>3. Charged = {} /\ Holding = {} /\ Counted = {} /\ {f \in Futures : Live(f)} = {}
  BY <1>1, <1>2 DEF Charged, Holding, Counted, Live
<1>4. RuntimeTypeOK
  BY <1>1, <1>2 DEF RuntimeTypeOK
<1>5. OwnFutures
  BY <1>1, <1>2 DEF OwnFutures, Ended, Answered
<1>6. PermitsCoverFutures
  BY <1>1, <1>2, <1>3, FS_EmptySet DEF PermitsCoverFutures
<1> QED
  BY <1>3, <1>4, <1>5, <1>6, FS_EmptySet DEF RuntimeInv

LEMMA RuntimeInitNext == RuntimeInit' => RuntimeInv'
  BY RuntimeInitKeeps, PTL

LEMMA CrashKeeps == ASSUME Crash PROVE RuntimeInv'
  BY RuntimeInitNext DEF Crash, RuntimeInit

LEMMA RunStepKeeps ==
    ASSUME RuntimeInv, NEW c \in Callers, RunStep(c)
    PROVE  RuntimeInv'
  BY SubmitKeeps, SubmitFailsKeeps, CountKeeps, AttachKeeps, WaitKeeps, CancelKeeps
     DEF RunStep

LEMMA PoolStepKeeps ==
    ASSUME RuntimeInv, NEW f \in Futures, PoolStep(f)
    PROVE  RuntimeInv'
  BY PoolKeeps, CountDownKeeps, ReleasePermitKeeps DEF PoolStep

-----------------------------------------------------------------------------
(* The agent.  Its invariant speaks of a run x, of the checkpoint files of  *)
(* its thread and of the operations that had their effect there.           *)

AgentRow == [pc : {"idle", "check", "model", "action", "tool", "save"},
             step : 0..MaxSteps, history : Seq(Operations),
             observation : Observations]

SavedIn(files) == {n \in Checkpoints : files[n] # NULL}

\* Checkpoints are numbered from 1, each is a true history, and any of them
\* begins every later one.
Chain(files, done) ==
    /\ \E k \in 0..MaxSteps : SavedIn(files) = 1..k
    /\ \A n \in SavedIn(files) :
         /\ Len(files[n].history) = n
         /\ \A i, j \in 1..n : files[n].history[i] = files[n].history[j] => i = j
         /\ files[n].observation = "ok" => files[n].history[n] \in done
    /\ \A m, n \in SavedIn(files) :
         m <= n => \A i \in 1..m : files[m].history[i] = files[n].history[i]

\* A run is one step past the last checkpoint at most, and all its history
\* but the last action is in that checkpoint.
Follows(x, files, done) ==
    x.pc # "idle" =>
      /\ SavedIn(files) = 1..x.step
      /\ x.pc # "check" => x.step < MaxSteps
      /\ Len(x.history) = IF x.pc \in {"check", "model"} THEN x.step ELSE x.step + 1
      /\ \A i, j \in 1..Len(x.history) : x.history[i] = x.history[j] => i = j
      /\ \A n \in 1..x.step : \A i \in 1..n : files[n].history[i] = x.history[i]
      /\ x.pc = "save" /\ x.observation = "ok" => x.history[x.step + 1] \in done

\* The agent waits for the operation it named last.
Serves(x, y) ==
    /\ x.pc = "tool" <=> y.pc # "out"
    /\ x.pc = "tool" => y.op = x.history[x.step + 1]

\* An operation that finished, and did not fail, had its effect; and an
\* answer comes from an operation that is over.
EffectsAreReal ==
    /\ \A f \in Futures : future[f].state \in {"performed", "finished"} =>
                            future[f].op \in performed[future[f].owner]
    /\ \A c \in Callers : call[c].pc = "result" => Answered(call[c].f)

AgentInv ==
    /\ AgentTypeOK /\ RuntimeInv /\ EffectsAreReal
    /\ \A c \in Callers : /\ Chain(disk[c], performed[c])
                          /\ Follows(agent[c], disk[c], performed[c])
                          /\ Serves(agent[c], call[c])

\* What is done stays done.
LEMMA MoreDone ==
    ASSUME NEW x, NEW files, NEW done, NEW more, done \subseteq more
    PROVE  /\ Chain(files, done) => Chain(files, more)
           /\ Follows(x, files, done) => Follows(x, files, more)
<1>1. Chain(files, done) => Chain(files, more)
  BY DEF Chain
<1>2. Follows(x, files, done) => Follows(x, files, more)
  BY DEF Follows
<1> QED
  BY <1>1, <1>2

LEMMA AgentParts ==
    ASSUME AgentInv
    PROVE  /\ RuntimeInv /\ EffectsAreReal
           /\ agent \in [Callers -> AgentRow]
           /\ context \in [Callers -> {"active", "timed_out", "cancelled"}]
           /\ disk \in [Callers -> [Checkpoints -> Checkpoint \cup {NULL}]]
           /\ performed \in [Callers -> SUBSET Operations]
           /\ runs \in [Callers -> 0..MaxRuns]
           /\ crashes \in 0..MaxCrashes
           /\ call \in [Callers -> Call] /\ future \in [Futures -> Future]
           /\ \A c \in Callers : /\ agent[c] \in AgentRow
                                 /\ disk[c] \in [Checkpoints -> Checkpoint \cup {NULL}]
                                 /\ Chain(disk[c], performed[c])
                                 /\ Follows(agent[c], disk[c], performed[c])
                                 /\ Serves(agent[c], call[c])
<1>1. AgentTypeOK /\ RuntimeInv
  BY DEF AgentInv
<1>2. /\ agent \in [Callers -> AgentRow]
      /\ disk \in [Callers -> [Checkpoints -> Checkpoint \cup {NULL}]]
  BY <1>1 DEF AgentTypeOK, AgentRow
<1>3. call \in [Callers -> Call] /\ future \in [Futures -> Future]
  BY <1>1, Books
<1> QED
  BY <1>1, <1>2, <1>3 DEF AgentInv, AgentTypeOK

\* The invariant after a step that concerns one thread.
LEMMA AgentInvOfThread ==
    ASSUME AgentInv, RuntimeInv', EffectsAreReal', NEW c \in Callers,
           \A d \in Callers \ {c} : /\ agent'[d] = agent[d] /\ disk'[d] = disk[d]
                                    /\ performed'[d] = performed[d] /\ call'[d] = call[d],
           agent' \in [Callers -> AgentRow],
           disk' \in [Callers -> [Checkpoints -> Checkpoint \cup {NULL}]],
           context' \in [Callers -> {"active", "timed_out", "cancelled"}],
           performed' \in [Callers -> SUBSET Operations],
           runs' \in [Callers -> 0..MaxRuns], crashes' \in 0..MaxCrashes,
           Chain(disk'[c], performed'[c]),
           Follows(agent'[c], disk'[c], performed'[c]),
           Serves(agent'[c], call'[c])
    PROVE  AgentInv'
<1>1. AgentTypeOK'
  BY DEF AgentTypeOK, AgentRow, RuntimeInv
<1>2. ASSUME NEW d \in Callers
      PROVE  /\ Chain(disk'[d], performed'[d])
             /\ Follows(agent'[d], disk'[d], performed'[d])
             /\ Serves(agent'[d], call'[d])
  <2>1. CASE d = c
    BY <2>1
  <2>2. CASE d # c
    BY <2>2, AgentParts
  <2> QED
    BY <2>1, <2>2
<1> QED
  BY <1>1, <1>2 DEF AgentInv

\* A step of an agent that is not in the runtime and saves nothing.
LEMMA AgentMoves ==
    ASSUME AgentInv, NEW c \in Callers, NEW x \in AgentRow,
           agent' = [agent EXCEPT ![c] = x],
           agent[c].pc # "tool", x.pc # "tool",
           UNCHANGED <<runtimeVars, disk, performed>>,
           Follows(x, disk[c], performed[c]),
           context' \in [Callers -> {"active", "timed_out", "cancelled"}],
           runs' \in [Callers -> 0..MaxRuns], crashes' \in 0..MaxCrashes
    PROVE  AgentInv'
<1>1. /\ call' = call /\ future' = future /\ disk' = disk /\ performed' = performed
      /\ UNCHANGED runtimeVars
  BY DEF runtimeVars
<1>2. RuntimeInv' /\ EffectsAreReal'
  BY <1>1, AgentParts, RestKeeps DEF EffectsAreReal, Answered
<1>3. /\ agent' \in [Callers -> AgentRow] /\ agent'[c] = x
      /\ \A d \in Callers \ {c} : agent'[d] = agent[d]
  BY AgentParts
<1>4. Serves(x, call[c])
  <2>1. Serves(agent[c], call[c])
    BY AgentParts
  <2> QED
    BY <2>1 DEF Serves
<1>5. Chain(disk[c], performed[c])
  BY AgentParts
<1>6. /\ disk' \in [Callers -> [Checkpoints -> Checkpoint \cup {NULL}]]
      /\ performed' \in [Callers -> SUBSET Operations]
  BY <1>1, AgentParts
<1> QED
  BY <1>1, <1>2, <1>3, <1>4, <1>5, <1>6, AgentInvOfThread

LEMMA NoRunIsRow ==
    /\ NoRun \in AgentRow /\ NoRun.pc = "idle"
    /\ \A files, done : Follows(NoRun, files, done)
<1>1. << >> \in Seq(Operations)
  BY EmptySeq
<1>2. 0 \in 0..MaxSteps
  BY AgentAssumption
<1> QED
  BY <1>1, <1>2 DEF NoRun, AgentRow, Follows, Observations

LEMMA ProceedMoves ==
    ASSUME agent \in [Callers -> AgentRow], NEW c \in Callers, NEW from,
           NEW to \in {"idle", "check", "model", "action", "tool", "save"},
           Proceed(c, from, to)
    PROVE  \E x \in AgentRow :
             /\ agent' = [agent EXCEPT ![c] = x] /\ agent[c].pc = from
             /\ x.pc = to /\ x.step = agent[c].step /\ x.history = agent[c].history
<1> DEFINE x == [agent[c] EXCEPT !.pc = to]
<1>1. agent[c] \in AgentRow /\ agent[c].pc = from
  BY DEF Proceed
<1>2. x \in AgentRow /\ x.pc = to /\ x.step = agent[c].step /\ x.history = agent[c].history
  BY <1>1 DEF AgentRow
<1>3. agent' = [agent EXCEPT ![c] = x]
  BY DEF Proceed
<1> HIDE DEF x
<1> QED
  BY <1>1, <1>2, <1>3

\* A run that ends leaves its checkpoints behind.
LEMMA EndRunKeeps ==
    ASSUME AgentInv, NEW c \in Callers,
           \/ ModelEndsRun(c) \/ ExecuteRefused(c) \/ SaveFails(c)
    PROVE  AgentInv'
<1>1. /\ agent' = [agent EXCEPT ![c] = NoRun]
      /\ UNCHANGED <<runtimeVars, disk, performed>>
      /\ context' = context /\ runs' = runs /\ crashes' = crashes
      /\ agent[c].pc # "tool"
  BY DEF ModelEndsRun, ExecuteRefused, SaveFails, EndRun
<1> QED
  BY <1>1, NoRunIsRow, AgentParts, AgentMoves

LEMMA CheckStepKeeps ==
    ASSUME AgentInv, NEW c \in Callers, CheckStep(c)
    PROVE  AgentInv'
<1>1. /\ UNCHANGED <<runtimeVars, disk, performed>>
      /\ context' = context /\ runs' = runs /\ crashes' = crashes
      /\ agent[c].pc = "check"
  BY DEF CheckStep
<1>2. CASE agent' = [agent EXCEPT ![c] = NoRun]
  BY <1>1, <1>2, NoRunIsRow, AgentParts, AgentMoves
<1>3. CASE agent[c].step < MaxSteps /\ Proceed(c, "check", "model")
  <2>1. PICK x \in AgentRow :
             /\ agent' = [agent EXCEPT ![c] = x]
             /\ x.pc = "model" /\ x.step = agent[c].step /\ x.history = agent[c].history
    BY <1>3, AgentParts, ProceedMoves
  <2>2. Follows(agent[c], disk[c], performed[c])
    BY AgentParts
  <2>3. Follows(x, disk[c], performed[c])
    BY <1>1, <1>3, <2>1, <2>2 DEF Follows
  <2> QED
    BY <1>1, <2>1, <2>3, AgentParts, AgentMoves
<1> QED
  BY <1>2, <1>3 DEF CheckStep, EndRun

LEMMA InterruptKeeps ==
    ASSUME AgentInv, NEW c \in Callers, NEW why \in {"timed_out", "cancelled"},
           Interrupt(c, why)
    PROVE  AgentInv'
<1>1. /\ context' = [context EXCEPT ![c] = why]
      /\ UNCHANGED <<runtimeVars, agent, disk, performed, runs, crashes>>
  BY DEF Interrupt
<1>2. /\ context' \in [Callers -> {"active", "timed_out", "cancelled"}]
      /\ agent' = agent /\ agent' \in [Callers -> AgentRow]
      /\ disk' = disk /\ performed' = performed
      /\ disk' \in [Callers -> [Checkpoints -> Checkpoint \cup {NULL}]]
      /\ performed' \in [Callers -> SUBSET Operations]
      /\ runs' \in [Callers -> 0..MaxRuns] /\ crashes' \in 0..MaxCrashes
      /\ call' = call /\ future' = future
  BY <1>1, AgentParts DEF runtimeVars
<1>3. RuntimeInv' /\ EffectsAreReal'
  BY <1>1, <1>2, AgentParts, RestKeeps DEF EffectsAreReal, Answered
<1> QED
  BY <1>2, <1>3, AgentParts, AgentInvOfThread

\* A run begins with what was saved: nothing, or the latest checkpoint.
LEMMA BeginKeeps ==
    ASSUME AgentInv, NEW c \in Callers, StartRun(c) \/ ResumeRun(c)
    PROVE  AgentInv'
<1>1. /\ Chain(disk[c], performed[c]) /\ Saved(c) = SavedIn(disk[c])
      /\ disk[c] \in [Checkpoints -> Checkpoint \cup {NULL}]
      /\ NULL \notin Checkpoint /\ MaxSteps \in Nat
  BY AgentParts, AgentAssumption DEF Saved, SavedIn
<1>2. PICK k \in 0..MaxSteps : SavedIn(disk[c]) = 1..k
  BY <1>1 DEF Chain
<1>3. PICK p \in Checkpoint :
        /\ Begin(c, k, p) /\ Len(p.history) = k
        /\ k > 0 => p = disk[c][k]
  <2>1. CASE StartRun(c)
    <3>1. SavedIn(disk[c]) = {} /\ Begin(c, 0, NothingYet)
      BY <1>1, <2>1 DEF StartRun
    <3>2. k = 0
      <4>1. ~(1 \in 1..k)
        BY <1>2, <3>1
      <4> QED
        BY <1>1, <4>1
    <3>3. NothingYet \in Checkpoint /\ Len(NothingYet.history) = 0
      BY EmptySeq DEF NothingYet, Checkpoint, Observations
    <3>4. Begin(c, k, NothingYet) /\ Len(NothingYet.history) = k /\ ~(k > 0)
      BY <3>1, <3>2, <3>3
    <3> QED
      BY <3>3, <3>4
  <2>2. CASE ResumeRun(c)
    <3>1. SavedIn(disk[c]) # {} /\ Begin(c, Latest(c), disk[c][Latest(c)])
      BY <1>1, <2>2 DEF ResumeRun, Restored
    <3>2. k \in SavedIn(disk[c]) /\ k > 0
      BY <1>1, <1>2, <3>1
    <3>3. Latest(c) = k
      <4>1. k \in Saved(c) /\ \A m \in Saved(c) : m <= k
        BY <1>1, <1>2, <3>2
      <4>2. /\ Latest(c) \in Saved(c) /\ \A m \in Saved(c) : m <= Latest(c)
        BY <4>1 DEF Latest
      <4> QED
        BY <1>1, <1>2, <4>1, <4>2
    <3>4. disk[c][k] \in Checkpoint /\ Len(disk[c][k].history) = k
      BY <1>1, <3>2 DEF Chain, SavedIn
    <3> QED
      BY <3>1, <3>2, <3>3, <3>4
  <2> QED
    BY <2>1, <2>2
<1> DEFINE h == p.history
           x == [pc |-> "check", step |-> k, history |-> h,
                 observation |-> p.observation]
<1>4. /\ agent[c].pc = "idle" /\ agent' = [agent EXCEPT ![c] = x]
      /\ runs[c] < MaxRuns /\ runs' = [runs EXCEPT ![c] = @ + 1]
      /\ context' = [context EXCEPT ![c] = "active"]
      /\ UNCHANGED <<runtimeVars, disk, performed>> /\ crashes' = crashes
  BY <1>3 DEF Begin
<1>5. x \in AgentRow /\ x.pc = "check" /\ x.step = k /\ x.history = h
  BY DEF AgentRow, Checkpoint
<1> HIDE DEF x
<1>6. Follows(x, disk[c], performed[c])
  <2>1. \A i, j \in 1..k : h[i] = h[j] => i = j
    BY <1>1, <1>2, <1>3 DEF Chain
  <2>2. \A n \in 1..k : \A i \in 1..n : disk[c][n].history[i] = h[i]
    <3> SUFFICES ASSUME NEW n \in 1..k, NEW i \in 1..n
                 PROVE  disk[c][n].history[i] = h[i]
      OBVIOUS
    <3>1. k \in 1..k /\ n <= k /\ k > 0
      BY <1>1
    <3>2. h = disk[c][k].history
      BY <1>3, <3>1
    <3>3. n \in SavedIn(disk[c]) /\ k \in SavedIn(disk[c])
      BY <1>2, <3>1
    <3>4. disk[c][n].history[i] = disk[c][k].history[i]
      BY <1>1, <3>1, <3>3 DEF Chain
    <3> QED
      BY <3>2, <3>4
  <2> QED
    BY <1>2, <1>3, <1>5, <2>1, <2>2 DEF Follows
<1>7. /\ context' \in [Callers -> {"active", "timed_out", "cancelled"}]
      /\ runs' \in [Callers -> 0..MaxRuns] /\ crashes' \in 0..MaxCrashes
  <2>1. runs[c] + 1 \in 0..MaxRuns
    BY <1>4, AgentParts, AgentAssumption
  <2> QED
    BY <1>4, <2>1, AgentParts
<1> QED
  BY <1>4, <1>5, <1>6, <1>7, AgentMoves

\* The model names a tool that is not in the history yet.
LEMMA ModelNamesToolKeeps ==
    ASSUME AgentInv, NEW c \in Callers, NEW op \in Operations, ModelNamesTool(c, op)
    PROVE  AgentInv'
<1> DEFINE old == agent[c].history
           step == agent[c].step
           x == [agent[c] EXCEPT !.pc = "action", !.history = Append(old, op)]
<1>1. /\ agent[c].pc = "model"
      /\ UNCHANGED <<runtimeVars, disk, performed>>
      /\ context' = context /\ runs' = runs /\ crashes' = crashes
  BY DEF ModelNamesTool
<1>2. CASE agent' = [agent EXCEPT ![c] = NoRun]
  BY <1>1, <1>2, NoRunIsRow, AgentParts, AgentMoves
<1>3. CASE /\ ~Repeats(c, op)
           /\ agent' = [agent EXCEPT ![c].pc = "action", ![c].history = Append(@, op)]
  <2>1. agent[c] \in AgentRow /\ Follows(agent[c], disk[c], performed[c])
    BY AgentParts
  <2>2. /\ old \in Seq(Operations) /\ step \in Nat /\ Len(old) = step
        /\ DOMAIN old = 1..step
        /\ Append(old, op) \in Seq(Operations) /\ Len(Append(old, op)) = step + 1
        /\ \A i \in 1..step : Append(old, op)[i] = old[i]
        /\ Append(old, op)[step + 1] = op
    <3>1. old \in Seq(Operations) /\ step \in Nat
      BY <2>1, AgentAssumption DEF AgentRow
    <3>2. Len(old) = step
      BY <1>1, <2>1 DEF Follows
    <3> QED
      BY <3>1, <3>2, AppendProperties, LenProperties
  <2>3. agent' = [agent EXCEPT ![c] = x]
    BY <1>3, AgentParts
  <2>4. /\ x \in AgentRow /\ x.pc = "action" /\ x.step = step
        /\ x.history = Append(old, op)
    BY <2>1, <2>2 DEF AgentRow
  <2>5. \A i \in 1..step : old[i] # op
    BY <1>3, <2>2 DEF Repeats, Elements
  <2>6. /\ SavedIn(disk[c]) = 1..step /\ step < MaxSteps
        /\ \A i, j \in 1..step : old[i] = old[j] => i = j
        /\ \A n \in 1..step : \A i \in 1..n : disk[c][n].history[i] = old[i]
    BY <1>1, <2>1, <2>2 DEF Follows
  <2> HIDE DEF x, old, step
  <2>7. \A i \in 1..(step + 1) : i \in 1..step \/ i = step + 1
    BY <2>2
  <2>8. \A i, j \in 1..(step + 1) : x.history[i] = x.history[j] => i = j
    BY <2>2, <2>4, <2>5, <2>6, <2>7
  <2>9. \A n \in 1..step : \A i \in 1..n : i \in 1..step
    BY <2>2
  <2>10. Follows(x, disk[c], performed[c])
    BY <2>2, <2>4, <2>6, <2>8, <2>9 DEF Follows
  <2> QED
    BY <1>1, <2>3, <2>4, <2>10, AgentParts, AgentMoves
<1> QED
  BY <1>2, <1>3 DEF ModelNamesTool, EndRun

LEMMA ExecuteActionKeeps ==
    ASSUME AgentInv, NEW c \in Callers, ExecuteAction(c)
    PROVE  AgentInv'
<1> DEFINE op == agent[c].history[Len(agent[c].history)]
<1>1. /\ Acquire(c, op) /\ Proceed(c, "action", "tool")
      /\ UNCHANGED <<context, disk, performed, runs, crashes>>
  BY DEF ExecuteAction
<1>2. PICK x \in AgentRow :
             /\ agent' = [agent EXCEPT ![c] = x] /\ agent[c].pc = "action"
             /\ x.pc = "tool" /\ x.step = agent[c].step /\ x.history = agent[c].history
  BY <1>1, AgentParts, ProceedMoves
<1>3. /\ Follows(agent[c], disk[c], performed[c])
      /\ agent[c] \in AgentRow
  BY AgentParts
<1>4. /\ Len(agent[c].history) = agent[c].step + 1
      /\ agent[c].history \in Seq(Operations) /\ agent[c].step \in Nat
  BY <1>2, <1>3, AgentAssumption DEF Follows, AgentRow
<1>5. op \in Operations /\ op = x.history[x.step + 1]
  BY <1>2, <1>4, ElementOfSeq
<1> HIDE DEF op
<1>6. RuntimeInv'
  BY <1>1, <1>5, AgentParts, AcquireKeeps
<1>7. /\ call'[c] = [pc |-> "submit", op |-> op, f |-> NULL]
      /\ \A d \in Callers \ {c} : call'[d] = call[d]
      /\ future' = future
  BY <1>1, AgentParts DEF Acquire
<1>8. EffectsAreReal'
  BY <1>1, <1>7, AgentParts DEF EffectsAreReal, Answered
<1>9. Follows(x, disk[c], performed[c])
  BY <1>2, <1>3 DEF Follows
<1>10. Serves(x, call'[c])
  BY <1>2, <1>5, <1>7 DEF Serves
<1>11. /\ agent' \in [Callers -> AgentRow] /\ agent'[c] = x
       /\ \A d \in Callers \ {c} : agent'[d] = agent[d]
  BY <1>2, AgentParts
<1> QED
  BY <1>1, <1>6, <1>7, <1>8, <1>9, <1>10, <1>11, AgentParts, AgentInvOfThread

\* An answer goes into the next checkpoint; anything else ends the run.
LEMMA ToolReturnsKeeps ==
    ASSUME AgentInv, NEW c \in Callers, ToolReturns(c)
    PROVE  AgentInv'
<1>1. /\ agent[c].pc = "tool" /\ Leave(c)
      /\ UNCHANGED <<context, disk, performed, runs, crashes>>
  BY DEF ToolReturns
<1>2. RuntimeInv'
  BY <1>1, AgentParts, LeaveKeeps
<1>3. /\ call'[c] = NoCall /\ NoCall.pc = "out" /\ future' = future
      /\ \A d \in Callers \ {c} : call'[d] = call[d]
  BY <1>1, AgentParts DEF Leave, NoCall
<1>4. EffectsAreReal'
  BY <1>1, <1>3, AgentParts DEF EffectsAreReal, Answered
<1>5. /\ Follows(agent[c], disk[c], performed[c])
      /\ Serves(agent[c], call[c])
  BY AgentParts
<1>6. PICK x \in AgentRow :
        /\ agent' = [agent EXCEPT ![c] = x] /\ x.pc # "tool"
        /\ Follows(x, disk[c], performed[c])
  <2>1. CASE /\ call[c].pc = "result"
             /\ agent' = [agent EXCEPT ![c].pc = "save",
                                       ![c].observation = Observation(c)]
    <3> DEFINE said == Observation(c)
               x == [agent[c] EXCEPT !.pc = "save", !.observation = said]
    <3>1. said \in Observations
      BY DEF Observation, Observations
    <3>2. said = "ok" => agent[c].history[agent[c].step + 1] \in performed[c]
      <4>1. /\ call[c].f \in Futures /\ Answered(call[c].f)
            /\ future[call[c].f].owner = c /\ future[call[c].f].op = call[c].op
        <5>1. /\ call[c] \in Call /\ Answered(call[c].f) /\ OwnFutures
          BY <2>1, AgentParts DEF RuntimeInv, EffectsAreReal
        <5>2. call[c].f # NULL
          BY <2>1, <5>1 DEF OwnFutures
        <5> QED
          BY <5>1, <5>2 DEF OwnFutures, Call
      <4>2. said = "ok" => future[call[c].f].state = "finished"
        BY <4>1 DEF Observation, Answered
      <4> QED
        BY <1>1, <1>5, <4>1, <4>2, AgentParts DEF EffectsAreReal, Serves
    <3>3. agent' = [agent EXCEPT ![c] = x]
      BY <2>1
    <3> HIDE DEF said
    <3>4. /\ x \in AgentRow /\ x.pc = "save" /\ x.observation = said
          /\ x.step = agent[c].step /\ x.history = agent[c].history
      BY <3>1, AgentParts DEF AgentRow
    <3> HIDE DEF x
    <3>5. Follows(x, disk[c], performed[c])
      BY <1>1, <1>5, <3>2, <3>4 DEF Follows
    <3> QED
      BY <3>3, <3>4, <3>5
  <2>2. CASE agent' = [agent EXCEPT ![c] = NoRun]
    BY <2>2, NoRunIsRow
  <2> QED
    BY <2>1, <2>2 DEF ToolReturns, EndRun, Observed
<1>7. Serves(x, call'[c])
  BY <1>3, <1>6 DEF Serves
<1>8. /\ agent' \in [Callers -> AgentRow] /\ agent'[c] = x
      /\ \A d \in Callers \ {c} : agent'[d] = agent[d]
  BY <1>6, AgentParts
<1> QED
  BY <1>1, <1>2, <1>3, <1>4, <1>6, <1>7, <1>8, AgentParts, AgentInvOfThread

\* What a step of run() leaves of the call and of the operations' effects.
LEMMA RunStepFrame ==
    ASSUME RuntimeInv, NEW c \in Callers, RunStep(c)
    PROVE  /\ call[c].pc # "out" /\ call'[c].pc # "out" /\ call'[c].op = call[c].op
           /\ \A d \in Callers \ {c} : call'[d] = call[d]
           /\ call'[c].pc = "result" => call'[c].f = call[c].f /\ Answered(call[c].f)
           /\ \A f \in Futures :
                Answered(f) /\ (\E d \in Callers : call[d].f = f) =>
                  future'[f].state = future[f].state
           /\ \A f \in Futures : future'[f].state \in {"performed", "finished"} =>
                /\ future[f].state \in {"performed", "finished"}
                /\ future'[f].op = future[f].op /\ future'[f].owner = future[f].owner
<1>1. call \in [Callers -> Call] /\ future \in [Futures -> Future] /\ OwnFutures
  BY Books DEF RuntimeInv
<1>2. call[c] \in Call
  BY <1>1
<1>3. ASSUME NEW from, NEW to \in CallState, from # "out", to \notin {"out", "result"},
             GoTo(c, from, to)
      PROVE  /\ call[c].pc # "out" /\ call'[c].pc \notin {"out", "result"}
             /\ call'[c].op = call[c].op
             /\ \A d \in Callers \ {c} : call'[d] = call[d]
  BY <1>1, <1>3, GoToMoves
<1>4. {"raised", "attach", "attached", "wait", "result", "cancel", "cancelled", "timeout"}
        \subseteq CallState
  BY DEF CallState
<1>5. ASSUME NEW f \in Futures, Submit(c, f) PROVE
           /\ call[c].pc # "out" /\ call'[c].pc \notin {"out", "result"}
           /\ call'[c].op = call[c].op
           /\ \A d \in Callers \ {c} : call'[d] = call[d]
           /\ \A g \in Futures : future'[g].state \in {"performed", "finished"} =>
                future'[g] = future[g]
           /\ \A g \in Futures : (\E d \in Callers : call[d].f = g) =>
                future'[g] = future[g]
  <2>1. /\ call[c].pc = "submit" /\ \A d \in Callers : call[d].f # f
        /\ future' = [future EXCEPT ![f] = [state |-> "queued", callback |-> "unset",
                                            op |-> call[c].op, owner |-> c]]
        /\ call' = [call EXCEPT ![c] = [call[c] EXCEPT !.pc = "count", !.f = f]]
    BY <1>5 DEF Submit, Unused
  <2> DEFINE y == [call[c] EXCEPT !.pc = "count", !.f = f]
  <2>2. y.pc = "count" /\ y.op = call[c].op
    BY <1>2 DEF Call
  <2> HIDE DEF y
  <2>3. call'[c] = y /\ \A d \in Callers \ {c} : call'[d] = call[d]
    BY <1>1, <2>1 DEF y
  <2>4. \A g \in Futures : g = f \/ future'[g] = future[g]
    BY <1>1, <2>1
  <2>5. future'[f].state = "queued"
    BY <1>1, <2>1
  <2> QED
    BY <2>1, <2>2, <2>3, <2>4, <2>5
<1>6. CASE SubmitFails(c) \/ Count(c) \/ AfterAttach(c) \/ TimeOut(c) \/ GiveUp(c)
  <2>1. PICK from \in CallState, to \in CallState :
          /\ from # "out" /\ to \notin {"out", "result"}
          /\ GoTo(c, from, to) /\ future' = future
    BY <1>6 DEF SubmitFails, Count, AfterAttach, TimeOut, GiveUp, CallState
  <2> QED
    BY <1>3, <2>1
<1>7. CASE GetResult(c)
  <2>1. /\ GoTo(c, "wait", "result") /\ Answered(call[c].f) /\ future' = future
    BY <1>7 DEF GetResult
  <2>2. /\ call[c].pc = "wait" /\ call'[c].pc = "result" /\ call'[c].op = call[c].op
        /\ call'[c].f = call[c].f
        /\ \A d \in Callers \ {c} : call'[d] = call[d]
    BY <1>1, <1>4, <2>1, GoToMoves
  <2> QED
    BY <2>1, <2>2
<1>8. CASE Attach(c)
  <2>1. /\ GoTo(c, "attach", "attached")
        /\ future' = [future EXCEPT ![call[c].f].callback = "set"]
    BY <1>8 DEF Attach
  <2>2. call[c].f \in Futures
    <3>1. call[c].f # NULL
      BY <1>1, <2>1 DEF OwnFutures, GoTo
    <3> QED
      BY <1>2, <3>1 DEF Call
  <2>3. "set" \in Callbacks
    BY DEF Callbacks
  <2>4. \A f \in Futures : /\ future'[f].state = future[f].state
                           /\ future'[f].op = future[f].op
                           /\ future'[f].owner = future[f].owner
    BY <1>1, <2>1, <2>2, <2>3, CallbackMoves
  <2> QED
    BY <1>3, <1>4, <2>1, <2>4
<1>9. CASE Cancel(c)
  <2> DEFINE f == call[c].f
             s == AfterCancel(future[f].state)
  <2>1. /\ GoTo(c, "cancel", "cancelled")
        /\ future' = [future EXCEPT ![f].state = AfterCancel(@)]
    BY <1>9 DEF Cancel
  <2>2. f \in Futures
    <3>1. call[c].f # NULL
      BY <1>1, <2>1 DEF OwnFutures, GoTo
    <3> QED
      BY <1>2, <3>1 DEF Call
  <2>3. future' = [future EXCEPT ![f].state = s]
    BY <1>1, <2>1, <2>2
  <2>4. /\ s \in States
        /\ s \in {"performed", "finished"} => s = future[f].state
        /\ Answered(f) => s = future[f].state
    BY <1>1, <2>2 DEF AfterCancel, States, Future, Answered
  <2> HIDE DEF f, s
  <2>5. /\ future'[f].state = s
        /\ future'[f].op = future[f].op /\ future'[f].owner = future[f].owner
        /\ \A g \in Futures \ {f} : future'[g] = future[g]
    BY <1>1, <2>2, <2>3, <2>4, StateMoves
  <2>6. ASSUME NEW g \in Futures, future'[g].state \in {"performed", "finished"}
        PROVE  /\ future[g].state \in {"performed", "finished"}
               /\ future'[g].op = future[g].op /\ future'[g].owner = future[g].owner
    <3>1. CASE g = f
      BY <2>4, <2>5, <2>6, <3>1
    <3>2. CASE g # f
      BY <2>5, <2>6, <3>2
    <3> QED
      BY <3>1, <3>2
  <2>7. ASSUME NEW g \in Futures, Answered(g) PROVE future'[g].state = future[g].state
    BY <2>4, <2>5, <2>7
  <2> QED
    BY <1>3, <1>4, <2>1, <2>6, <2>7
<1> QED
  BY <1>5, <1>6, <1>7, <1>8, <1>9 DEF RunStep

LEMMA RunToolKeeps ==
    ASSUME AgentInv, NEW c \in Callers, RunTool(c)
    PROVE  AgentInv'
<1>1. RunStep(c) /\ UNCHANGED <<agent, context, disk, performed, runs, crashes>>
  BY DEF RunTool
<1>2. RuntimeInv'
  BY <1>1, AgentParts, RunStepKeeps
<1>3. /\ call[c].pc # "out" /\ call'[c].pc # "out" /\ call'[c].op = call[c].op
      /\ \A d \in Callers \ {c} : call'[d] = call[d]
      /\ call'[c].pc = "result" => call'[c].f = call[c].f /\ Answered(call[c].f)
      /\ \A f \in Futures : Answered(f) /\ (\E d \in Callers : call[d].f = f) =>
           future'[f].state = future[f].state
      /\ \A f \in Futures : future'[f].state \in {"performed", "finished"} =>
           /\ future[f].state \in {"performed", "finished"}
           /\ future'[f].op = future[f].op /\ future'[f].owner = future[f].owner
  BY <1>1, AgentParts, RunStepFrame
<1>4. EffectsAreReal'
  <2>1. \A f \in Futures : future'[f].state \in {"performed", "finished"} =>
                            future'[f].op \in performed'[future'[f].owner]
    BY <1>1, <1>3, AgentParts DEF EffectsAreReal
  <2>2. ASSUME NEW d \in Callers, call'[d].pc = "result"
        PROVE  future'[call'[d].f].state \in {"finished", "failed"}
    <3>1. call'[d].f \in Futures
      BY <1>2, <2>2 DEF RuntimeInv, RuntimeTypeOK, OwnFutures, Call
    <3>2. call'[d].f = call[d].f
      BY <1>3, <2>2
    <3>3. Answered(call[d].f)
      BY <1>3, <2>2, <3>2, AgentParts DEF EffectsAreReal
    <3> QED
      BY <1>3, <3>1, <3>2, <3>3 DEF Answered
  <2> QED
    BY <2>1, <2>2 DEF EffectsAreReal, Answered
<1>5. Serves(agent[c], call'[c])
  BY <1>3, AgentParts DEF Serves
<1> QED
  BY <1>1, <1>2, <1>3, <1>4, <1>5, AgentParts, AgentInvOfThread

\* A checkpoint continues the ones before it.
LEMMA SaveCheckpointKeeps ==
    ASSUME AgentInv, NEW c \in Callers, NEW goesOn \in BOOLEAN, SaveCheckpoint(c, goesOn)
    PROVE  AgentInv'
<1> DEFINE h == agent[c].history
           step == agent[c].step
           n == step + 1
           x == IF goesOn THEN [agent[c] EXCEPT !.pc = "check", !.step = n] ELSE NoRun
           old == disk[c]
           p == [history |-> h, observation |-> agent[c].observation]
           files == [old EXCEPT ![n] = p]
           done == performed[c]
<1>1. /\ agent[c].pc = "save"
      /\ disk' = [disk EXCEPT ![c][n] = p]
      /\ agent' = [agent EXCEPT ![c] = x]
      /\ UNCHANGED <<runtimeVars, context, performed, runs, crashes>>
  BY AgentParts DEF SaveCheckpoint
<1>2. /\ agent[c] \in AgentRow /\ old \in [Checkpoints -> Checkpoint \cup {NULL}]
      /\ Chain(old, done) /\ Follows(agent[c], old, done)
      /\ Serves(agent[c], call[c])
      /\ NULL \notin Checkpoint /\ MaxSteps \in Nat
  BY AgentParts, AgentAssumption
<1>3. /\ h \in Seq(Operations) /\ step \in 0..MaxSteps /\ step < MaxSteps
      /\ Len(h) = n /\ SavedIn(old) = 1..step
      /\ \A i, j \in 1..n : h[i] = h[j] => i = j
      /\ \A m \in 1..step : \A i \in 1..m : old[m].history[i] = h[i]
      /\ p \in Checkpoint /\ p.history = h
      /\ p.observation = "ok" => h[n] \in done
  BY <1>1, <1>2 DEF Follows, AgentRow, Checkpoint
<1> HIDE DEF p
<1>4. /\ step \in Nat /\ n \in Checkpoints /\ n \in 1..n /\ n # 0
      /\ \A i \in 1..n : i \in 1..step \/ i = n
      /\ \A i \in 1..step : i \in 1..n /\ i # n /\ i < n
  BY <1>2, <1>3 DEF Checkpoints
<1>5. /\ x \in AgentRow /\ x.pc \in {"idle", "check"}
      /\ x.pc = "check" => x.step = n /\ x.history = h
  <2>1. [agent[c] EXCEPT !.pc = "check", !.step = n] \in AgentRow
    <3>1. ASSUME NEW m \in 0..MaxSteps, NEW r \in AgentRow
          PROVE  [r EXCEPT !.pc = "check", !.step = m] \in AgentRow
      BY DEF AgentRow
    <3>2. n \in 0..MaxSteps
      BY <1>2, <1>4 DEF Checkpoints
    <3> QED
      BY <1>2, <3>1, <3>2
  <2>2. /\ [agent[c] EXCEPT !.pc = "check", !.step = n].pc = "check"
        /\ [agent[c] EXCEPT !.pc = "check", !.step = n].step = n
        /\ [agent[c] EXCEPT !.pc = "check", !.step = n].history = h
    BY <1>2 DEF AgentRow
  <2> QED
    BY <2>1, <2>2, NoRunIsRow
<1>6. /\ agent'[c] = x /\ agent' \in [Callers -> AgentRow]
      /\ \A d \in Callers \ {c} : agent'[d] = agent[d]
  BY <1>1, <1>5, AgentParts
<1>7. /\ files \in [Checkpoints -> Checkpoint \cup {NULL}]
      /\ files[n] = p /\ \A m \in Checkpoints \ {n} : files[m] = old[m]
  BY <1>2, <1>3, <1>4
<1>8. /\ disk' = [disk EXCEPT ![c] = files]
  BY <1>1
<1> HIDE DEF x, h, n, step, files, old
<1>9. /\ disk'[c] = files
      /\ disk' \in [Callers -> [Checkpoints -> Checkpoint \cup {NULL}]]
      /\ \A d \in Callers \ {c} : disk'[d] = disk[d]
  BY <1>7, <1>8, AgentParts
<1>10. SavedIn(files) = 1..n
  <2>1. \A m \in Checkpoints : m \in SavedIn(files) <=> m = n \/ m \in 1..step
    BY <1>2, <1>3, <1>7 DEF SavedIn
  <2>2. 1..n \subseteq Checkpoints
    BY <1>2, <1>4 DEF Checkpoints
  <2> QED
    BY <1>4, <2>1, <2>2 DEF SavedIn
<1>11. \A m \in 1..n : \A i \in 1..m : i \in 1..n /\ files[m].history[i] = h[i]
  <2> SUFFICES ASSUME NEW m \in 1..n, NEW i \in 1..m
               PROVE  i \in 1..n /\ files[m].history[i] = h[i]
    OBVIOUS
  <2>1. i \in 1..n
    BY <1>4
  <2>2. CASE m = n
    BY <1>3, <1>7, <2>1, <2>2
  <2>3. CASE m # n
    <3>1. m \in 1..step
      BY <1>4, <2>3
    <3>2. m \in Checkpoints
      BY <1>2, <1>3, <3>1 DEF Checkpoints
    <3> QED
      BY <1>3, <1>7, <2>1, <2>3, <3>1, <3>2
  <2> QED
    BY <2>2, <2>3
<1>12. \A m \in 1..n : files[m].observation = "ok" => files[m].history[m] \in done
  <2>1. ASSUME NEW m \in 1..step
        PROVE  files[m].observation = "ok" => files[m].history[m] \in done
    <3>1. m \in SavedIn(old) /\ m \in Checkpoints /\ m # n
      BY <1>3, <1>4 DEF SavedIn
    <3> QED
      BY <1>2, <1>7, <3>1 DEF Chain
  <2> QED
    BY <1>3, <1>4, <1>7, <2>1
<1>13. \A m \in 1..n : Len(files[m].history) = m
  <2>1. ASSUME NEW m \in 1..step PROVE Len(files[m].history) = m
    <3>1. m \in SavedIn(old) /\ m \in Checkpoints /\ m # n
      BY <1>3, <1>4 DEF SavedIn
    <3> QED
      BY <1>2, <1>7, <3>1 DEF Chain
  <2> QED
    BY <1>3, <1>4, <1>7, <2>1
<1>14. Chain(files, done)
  <2>1. \E k \in 0..MaxSteps : SavedIn(files) = 1..k
    BY <1>2, <1>4, <1>10 DEF Checkpoints
  <2>2. ASSUME NEW m \in 1..n
        PROVE  /\ Len(files[m].history) = m
               /\ \A i, j \in 1..m :
                    files[m].history[i] = files[m].history[j] => i = j
               /\ files[m].observation = "ok" => files[m].history[m] \in done
    BY <1>3, <1>11, <1>12, <1>13
  <2>3. ASSUME NEW l \in 1..n, NEW m \in 1..n, l <= m, NEW i \in 1..l
        PROVE  files[l].history[i] = files[m].history[i]
    <3>1. i \in 1..m
      BY <1>4, <2>3
    <3> QED
      BY <1>11, <3>1
  <2> QED
    BY <1>10, <2>1, <2>2, <2>3 DEF Chain
<1>15. Follows(x, files, done)
  BY <1>3, <1>5, <1>10, <1>11 DEF Follows
<1>16. /\ call' = call /\ future' = future /\ performed' = performed
       /\ UNCHANGED runtimeVars
       /\ context' = context /\ runs' = runs /\ crashes' = crashes
  BY <1>1 DEF runtimeVars
<1>17. Serves(x, call[c])
  BY <1>1, <1>2, <1>5 DEF Serves
<1>18. RuntimeInv' /\ EffectsAreReal'
  BY <1>16, AgentParts, RestKeeps DEF EffectsAreReal, Answered
<1> QED
  BY <1>6, <1>9, <1>14, <1>15, <1>16, <1>17, <1>18, AgentParts, AgentInvOfThread

LEMMA RunPoolKeeps ==
    ASSUME AgentInv, NEW f \in Futures, RunPool(f)
    PROVE  AgentInv'
<1>1. PoolStep(f) /\ UNCHANGED <<agent, context, disk, performed, runs, crashes>>
  BY DEF RunPool
<1>2. RuntimeInv'
  BY <1>1, AgentParts, PoolStepKeeps
<1>3. call' = call
  BY <1>1 DEF PoolStep, StartOperation, Finish, Fail, CountDown, ReleasePermit
<1>4. ASSUME NEW g \in Futures
      PROVE  /\ future'[g].state \in {"performed", "finished"} =>
                  /\ future[g].state \in {"performed", "finished"}
                  /\ future'[g].op = future[g].op /\ future'[g].owner = future[g].owner
             /\ Answered(g) => future'[g].state = future[g].state
  <2>1. CASE StartOperation(f) \/ Finish(f) \/ Fail(f)
    <3>1. PICK s \in {"running", "finished", "failed"} :
            /\ future' = [future EXCEPT ![f].state = s]
            /\ s = "finished" => future[f].state = "performed"
            /\ ~Answered(f)
      BY <2>1 DEF StartOperation, Finish, Fail, Answered
    <3>2. s \in States
      BY DEF States
    <3>3. /\ future'[f].state = s
          /\ future'[f].op = future[f].op /\ future'[f].owner = future[f].owner
          /\ \A h \in Futures \ {f} : future'[h] = future[h]
      BY <3>1, <3>2, AgentParts, StateMoves
    <3> QED
      BY <1>4, <3>1, <3>3
  <2>2. CASE CountDown(f) \/ ReleasePermit(f)
    <3>1. PICK b \in {"counted", "done"} : future' = [future EXCEPT ![f].callback = b]
      BY <2>2 DEF CountDown, ReleasePermit
    <3>2. b \in Callbacks
      BY DEF Callbacks
    <3>3. /\ future'[f].state = future[f].state
          /\ future'[f].op = future[f].op /\ future'[f].owner = future[f].owner
          /\ \A h \in Futures \ {f} : future'[h] = future[h]
      BY <3>1, <3>2, AgentParts, CallbackMoves
    <3> QED
      BY <1>4, <3>3
  <2> QED
    BY <1>1, <2>1, <2>2 DEF PoolStep
<1>5. EffectsAreReal'
  <2>1. ASSUME NEW c \in Callers, call[c].pc = "result"
        PROVE  future'[call[c].f].state \in {"finished", "failed"}
    <3>1. call[c].f \in Futures /\ Answered(call[c].f)
      BY <2>1, AgentParts DEF RuntimeInv, RuntimeTypeOK, OwnFutures, Call, EffectsAreReal
    <3> QED
      BY <1>4, <3>1 DEF Answered
  <2> QED
    BY <1>1, <1>3, <1>4, <2>1, AgentParts DEF EffectsAreReal, Answered
<1>6. AgentTypeOK'
  BY <1>1, <1>2 DEF AgentInv, AgentTypeOK, RuntimeInv
<1> QED
  BY <1>1, <1>2, <1>3, <1>5, <1>6 DEF AgentInv

LEMMA PerformToolKeeps ==
    ASSUME AgentInv, NEW f \in Futures, PerformTool(f)
    PROVE  AgentInv'
<1> DEFINE c == future[f].owner
           op == future[f].op
<1>1. /\ Perform(f) /\ performed' = [performed EXCEPT ![c] = @ \cup {op}]
      /\ agent' = agent /\ context' = context /\ disk' = disk
      /\ runs' = runs /\ crashes' = crashes
  BY DEF PerformTool
<1>2. /\ future[f].state = "running" /\ call' = call
      /\ future' = [future EXCEPT ![f].state = "performed"]
  BY <1>1 DEF Perform
<1>3. RuntimeInv'
  BY <1>1, AgentParts, PoolKeeps
<1>4. c \in Callers /\ op \in Operations
  BY <1>2, AgentParts DEF RuntimeInv, OwnFutures
<1>5. /\ future'[f].state = "performed"
      /\ future'[f].op = op /\ future'[f].owner = c
      /\ \A g \in Futures \ {f} : future'[g] = future[g]
  <2>1. "performed" \in States
    BY DEF States
  <2> QED
    BY <1>2, <2>1, AgentParts, StateMoves
<1> HIDE DEF c, op
<1>6. /\ performed' \in [Callers -> SUBSET Operations]
      /\ performed'[c] = performed[c] \cup {op}
      /\ \A d \in Callers \ {c} : performed'[d] = performed[d]
  <2>1. performed \in [Callers -> SUBSET Operations]
    BY AgentParts
  <2>2. performed[c] \cup {op} \in SUBSET Operations
    BY <1>4, <2>1
  <2> QED
    BY <1>1, <1>4, <2>1, <2>2
<1>7. \A d \in Callers : performed[d] \subseteq performed'[d]
  BY <1>6
<1>8. EffectsAreReal'
  <2>1. ASSUME NEW g \in Futures, future'[g].state \in {"performed", "finished"}
        PROVE  future'[g].op \in performed'[future'[g].owner]
    <3>1. CASE g = f
      BY <1>5, <1>6, <3>1
    <3>2. CASE g # f
      <4>1. future'[g] = future[g] /\ future[g].owner \in Callers
        BY <1>5, <2>1, <3>2, AgentParts DEF RuntimeInv, OwnFutures
      <4> QED
        BY <1>7, <2>1, <4>1, AgentParts DEF EffectsAreReal, Answered
    <3> QED
      BY <3>1, <3>2
  <2>2. ASSUME NEW d \in Callers, call[d].pc = "result"
        PROVE  future'[call[d].f].state \in {"finished", "failed"}
    <3>1. call[d].f \in Futures /\ Answered(call[d].f)
      BY <2>2, AgentParts DEF RuntimeInv, RuntimeTypeOK, OwnFutures, Call, EffectsAreReal
    <3>2. call[d].f # f
      BY <1>2, <3>1 DEF Answered
    <3> QED
      BY <1>5, <3>1, <3>2 DEF Answered
  <2> QED
    BY <1>2, <2>1, <2>2 DEF EffectsAreReal, Answered
<1>9. /\ Chain(disk[c], performed'[c])
      /\ Follows(agent[c], disk[c], performed'[c])
      /\ Serves(agent[c], call[c])
  BY <1>4, <1>7, AgentParts, MoreDone
<1> QED
  BY <1>1, <1>2, <1>3, <1>4, <1>6, <1>8, <1>9, AgentParts, AgentInvOfThread

\* After a death there are only the disk and the effects.
LEMMA ProcessDies ==
    ASSUME AgentInv, Crash
    PROVE  AgentInv'
<1>1. /\ call' = [c \in Callers |-> NoCall] /\ future' = [f \in Futures |-> NoFuture]
      /\ agent' = [c \in Callers |-> NoRun]
      /\ context' = [c \in Callers |-> "active"]
      /\ crashes < MaxCrashes /\ crashes' = crashes + 1
      /\ disk' = disk /\ performed' = performed /\ runs' = runs
  BY DEF Crash
<1>2. RuntimeInv'
  BY CrashKeeps
<1>3. EffectsAreReal'
  BY <1>1 DEF EffectsAreReal, NoFuture, NoCall
<1>4. crashes' \in 0..MaxCrashes
  BY <1>1, AgentParts, AgentAssumption
<1>5. AgentTypeOK'
  <2>1. agent' \in [Callers -> AgentRow]
    BY <1>1, NoRunIsRow
  <2> QED
    BY <1>1, <1>2, <1>4, <2>1, AgentParts DEF AgentTypeOK, AgentRow, RuntimeInv
<1>6. ASSUME NEW c \in Callers
      PROVE  /\ Chain(disk'[c], performed'[c])
             /\ Follows(agent'[c], disk'[c], performed'[c])
             /\ Serves(agent'[c], call'[c])
  <2>1. agent'[c] = NoRun /\ call'[c] = NoCall /\ NoCall.pc = "out"
    BY <1>1 DEF NoCall
  <2>2. Follows(agent'[c], disk'[c], performed'[c])
    BY <2>1, NoRunIsRow
  <2>3. Serves(agent'[c], call'[c])
    BY <2>1, NoRunIsRow DEF Serves
  <2> QED
    BY <1>1, <2>2, <2>3, AgentParts
<1> QED
  BY <1>2, <1>3, <1>5, <1>6 DEF AgentInv

LEMMA AgentInitHolds == Init => AgentInv
<1> SUFFICES ASSUME Init PROVE AgentInv
  OBVIOUS
<1>1. RuntimeInv
  BY RuntimeInitKeeps DEF Init
<1>2. /\ \A f \in Futures : future[f] = NoFuture
      /\ \A c \in Callers : call[c] = NoCall
      /\ agent = [c \in Callers |-> NoRun] /\ context = [c \in Callers |-> "active"]
      /\ disk = [c \in Callers |-> [n \in Checkpoints |-> NULL]]
      /\ performed = [c \in Callers |-> {}] /\ runs = [c \in Callers |-> 0] /\ crashes = 0
  BY DEF Init, RuntimeInit
<1>3. EffectsAreReal
  BY <1>2 DEF EffectsAreReal, NoFuture, NoCall
<1>4. AgentTypeOK
  <2>1. agent \in [Callers -> AgentRow] /\ 0 \in 0..MaxRuns /\ 0 \in 0..MaxCrashes
    BY <1>2, NoRunIsRow, AgentAssumption
  <2> QED
    BY <1>1, <1>2, <2>1 DEF AgentTypeOK, AgentRow, RuntimeInv
<1>5. ASSUME NEW c \in Callers
      PROVE  /\ Chain(disk[c], performed[c])
             /\ Follows(agent[c], disk[c], performed[c])
             /\ Serves(agent[c], call[c])
  <2>1. SavedIn(disk[c]) = {} /\ 1..0 = {} /\ 0 \in 0..MaxSteps
    BY <1>2, AgentAssumption DEF SavedIn
  <2>2. Chain(disk[c], performed[c])
    BY <2>1 DEF Chain
  <2>3. agent[c] = NoRun /\ call[c].pc = "out"
    BY <1>2 DEF NoCall
  <2>4. Serves(agent[c], call[c])
    BY <2>3, NoRunIsRow DEF Serves
  <2> QED
    BY <2>2, <2>3, <2>4, NoRunIsRow
<1> QED
  BY <1>1, <1>3, <1>4, <1>5 DEF AgentInv

LEMMA AgentNextKeeps == AgentInv /\ [Next]_vars => AgentInv'
<1> SUFFICES ASSUME AgentInv, [Next]_vars PROVE AgentInv'
  OBVIOUS
<1>1. ASSUME NEW c \in Callers,
             \/ StartRun(c) \/ ResumeRun(c) \/ CheckStep(c)
             \/ ModelEndsRun(c) \/ ExecuteAction(c) \/ ExecuteRefused(c)
             \/ RunTool(c) \/ ToolReturns(c) \/ SaveFails(c)
      PROVE  AgentInv'
  BY <1>1, BeginKeeps, CheckStepKeeps, EndRunKeeps, ExecuteActionKeeps,
     RunToolKeeps, ToolReturnsKeeps
<1>2. ASSUME NEW c \in Callers,
             \/ \E goesOn \in BOOLEAN : SaveCheckpoint(c, goesOn)
             \/ \E op \in Operations : ModelNamesTool(c, op)
             \/ \E why \in {"timed_out", "cancelled"} : Interrupt(c, why)
      PROVE  AgentInv'
  BY <1>2, SaveCheckpointKeeps, ModelNamesToolKeeps, InterruptKeeps
<1>3. ASSUME NEW f \in Futures, RunPool(f) \/ PerformTool(f) PROVE AgentInv'
  BY <1>3, RunPoolKeeps, PerformToolKeeps
<1>4. CASE Crash
  BY <1>4, ProcessDies
<1>5. CASE UNCHANGED vars
  <2>1. /\ UNCHANGED runtimeVars
        /\ call' = call /\ future' = future
        /\ agent' = agent /\ context' = context /\ disk' = disk
        /\ performed' = performed /\ runs' = runs /\ crashes' = crashes
    BY <1>5 DEF vars, runtimeVars
  <2>2. RuntimeInv' /\ EffectsAreReal'
    BY <2>1, AgentParts, RestKeeps DEF EffectsAreReal, Answered
  <2>3. AgentTypeOK'
    BY <2>1, <2>2 DEF AgentInv, AgentTypeOK, RuntimeInv
  <2> QED
    BY <2>1, <2>2, <2>3 DEF AgentInv
<1> QED
  BY <1>1, <1>2, <1>3, <1>4, <1>5 DEF Next

LEMMA SubSeqOfHead ==
    ASSUME NEW S, NEW h \in Seq(S), NEW m \in 1..Len(h)
    PROVE  SubSeq(h, 1, m) = [i \in 1..m |-> h[i]]
  OBVIOUS

LEMMA AgentInvHolds == Spec => []AgentInv
  BY AgentInitHolds, AgentNextKeeps, PTL DEF Spec

\* All variables have their types: the number of free permits and the gauge
\* stay between 0 and the capacity, and a checkpoint is a history or missing.
THEOREM AgentTypeHolds == Spec => []AgentTypeOK
<1>1. AgentInv => AgentTypeOK
  BY DEF AgentInv
<1> QED
  BY <1>1, AgentInvHolds, PTL

\* Every permit of the tool runtime is free, held by one caller or charged to
\* one future, whatever the interleaving of callers, pool and callbacks.
THEOREM PermitsCoverFuturesHolds == Spec => []PermitsCoverFutures
<1>1. AgentInv => PermitsCoverFutures
  BY DEF AgentInv, RuntimeInv
<1> QED
  BY <1>1, AgentInvHolds, PTL

LEMMA TrueCheckpoint ==
    ASSUME AgentInv, NEW c \in Callers, NEW n \in Saved(c)
    PROVE  /\ disk[c][n] \in Checkpoint /\ disk[c][n].history \in Seq(Operations) /\ n \in Nat \ {0}
           /\ Len(disk[c][n].history) = n
           /\ \A i, j \in 1..n : disk[c][n].history[i] = disk[c][n].history[j] => i = j
           /\ disk[c][n].observation = "ok" => disk[c][n].history[n] \in performed[c]
           /\ Saved(c) = SavedIn(disk[c])
           /\ 1..n \subseteq Saved(c)
           /\ \A m \in 1..n : \A i \in 1..m : disk[c][m].history[i] = disk[c][n].history[i]
<1>1. /\ Chain(disk[c], performed[c]) /\ Saved(c) = SavedIn(disk[c])
      /\ disk[c] \in [Checkpoints -> Checkpoint \cup {NULL}]
      /\ MaxSteps \in Nat
  BY AgentParts, AgentAssumption DEF Saved, SavedIn
<1>2. PICK k \in 0..MaxSteps : SavedIn(disk[c]) = 1..k
  BY <1>1 DEF Chain
<1>3. n \in 1..k /\ n \in Checkpoints /\ disk[c][n] # NULL
  BY <1>1, <1>2 DEF SavedIn
<1>4. /\ disk[c][n] \in Checkpoint /\ disk[c][n].history \in Seq(Operations) /\ n \in Nat \ {0}
      /\ 1..n \subseteq Saved(c) /\ \A m \in 1..n : m <= n
  BY <1>1, <1>2, <1>3 DEF Checkpoint
<1>5. /\ Len(disk[c][n].history) = n
      /\ \A i, j \in 1..n : disk[c][n].history[i] = disk[c][n].history[j] => i = j
      /\ disk[c][n].observation = "ok" => disk[c][n].history[n] \in performed[c]
  BY <1>1 DEF Chain
<1>6. \A m \in 1..n : \A i \in 1..m : disk[c][m].history[i] = disk[c][n].history[i]
  <2>1. \A m \in 1..n : m \in SavedIn(disk[c]) /\ n \in SavedIn(disk[c]) /\ m <= n
    BY <1>1, <1>4
  <2>2. \A m, l \in SavedIn(disk[c]) :
          m <= l => \A i \in 1..m : disk[c][m].history[i] = disk[c][l].history[i]
    BY <1>1 DEF Chain
  <2> QED
    BY <2>1, <2>2
<1> QED
  BY <1>1, <1>4, <1>5, <1>6

\* Every checkpoint is a true history: as long as its number says, without a
\* repetition, one step past the checkpoint before it, and with an effect of
\* its last action unless that ended with TOOL_ERROR.
THEOREM CheckpointsAreTrueHolds == Spec => []CheckpointsAreTrue
<1>1. AgentInv => CheckpointsAreTrue
  <2> SUFFICES ASSUME AgentInv, NEW c \in Callers, NEW n \in Saved(c)
               PROVE  /\ Len(disk[c][n].history) = n
                      /\ \A i, j \in 1..n : disk[c][n].history[i] = disk[c][n].history[j] => i = j
                      /\ disk[c][n].observation = "ok" =>
                           disk[c][n].history[n] \in performed[c]
                      /\ n > 1 => /\ n - 1 \in Saved(c)
                                  /\ disk[c][n - 1].history =
                                       SubSeq(disk[c][n].history, 1, n - 1)
    BY DEF CheckpointsAreTrue
  <2> DEFINE h == disk[c][n].history
  <2>1. /\ h \in Seq(Operations) /\ n \in Nat \ {0} /\ Len(h) = n
        /\ 1..n \subseteq Saved(c)
        /\ \A m \in 1..n : \A i \in 1..m : disk[c][m].history[i] = h[i]
        /\ disk[c][n].observation = "ok" => h[n] \in performed[c]
        /\ \A i, j \in 1..n : h[i] = h[j] => i = j
    BY TrueCheckpoint
  <2>2. ASSUME n > 1
        PROVE  n - 1 \in Saved(c) /\ disk[c][n - 1].history = SubSeq(h, 1, n - 1)
    <3> DEFINE m == n - 1
               sub == SubSeq(h, 1, m)
    <3>1. m \in 1..n /\ m \in Nat /\ 1..m \subseteq 1..n
      BY <2>1, <2>2
    <3>2. m \in Saved(c) /\ \A i \in 1..m : disk[c][m].history[i] = h[i]
      BY <2>1, <3>1
    <3>3. disk[c][m].history \in Seq(Operations) /\ Len(disk[c][m].history) = m
      BY <3>2, TrueCheckpoint
    <3>4. sub = [i \in 1..m |-> h[i]]
      BY <2>1, <3>1, SubSeqOfHead
    <3>5. disk[c][m].history = [i \in 1..m |-> disk[c][m].history[i]]
      BY <3>3
    <3> QED
      BY <3>2, <3>4, <3>5
  <2> QED
    BY <2>1, <2>2
<1> QED
  BY <1>1, AgentInvHolds, PTL

\* The only steps that leave a future queued and changed are the submission
\* and the attachment of its callback, both by the caller that waits for it.
LEMMA QueuedByItsCaller ==
    ASSUME RuntimeInv, Next, NEW f \in Futures,
           future'[f].state = "queued", future'[f] # future[f]
    PROVE  \E c \in Callers : /\ call[c].pc # "out" /\ future'[f].owner = c
                              /\ future'[f].op = call[c].op
<1>1. /\ call \in [Callers -> Call] /\ future \in [Futures -> Future] /\ OwnFutures
      /\ \A g \in Futures : future[g] \in Future
  BY Books DEF RuntimeInv
<1>2. ASSUME NEW c \in Callers, RunStep(c)
      PROVE  call[c].pc # "out" /\ future'[f].owner = c /\ future'[f].op = call[c].op
  <2>1. ASSUME NEW g \in Futures, Submit(c, g)
        PROVE  call[c].pc # "out" /\ future'[f].owner = c /\ future'[f].op = call[c].op
    <3>1. f = g
      BY <1>1, <2>1 DEF Submit
    <3> QED
      BY <1>1, <2>1, <3>1 DEF Submit
  <2>2. CASE Attach(c)
    <3> DEFINE g == call[c].f
    <3>1. GoTo(c, "attach", "attached") /\ future' = [future EXCEPT ![g].callback = "set"]
      BY <2>2 DEF Attach
    <3>2. call[c].pc = "attach"
      BY <3>1 DEF GoTo
    <3>3. /\ g \in Futures /\ future[g].owner = c /\ future[g].op = call[c].op
      BY <1>1, <3>2 DEF OwnFutures, Call
    <3> HIDE DEF g
    <3>4. "set" \in Callbacks
      BY DEF Callbacks
    <3>5. /\ future'[g].op = future[g].op /\ future'[g].owner = future[g].owner
          /\ \A d \in Futures \ {g} : future'[d] = future[d]
      BY <1>1, <3>1, <3>3, <3>4, CallbackMoves
    <3> QED
      BY <3>2, <3>3, <3>5
  <2>3. CASE Cancel(c)
    <3> DEFINE g == call[c].f
               s == AfterCancel(future[g].state)
    <3>1. GoTo(c, "cancel", "cancelled") /\ future' = [future EXCEPT ![g].state = s]
      BY <2>3 DEF Cancel
    <3>2. g \in Futures
      BY <1>1, <3>1 DEF GoTo, OwnFutures, Call
    <3>3. f = g /\ future'[f].state = s
      BY <1>1, <3>1, <3>2
    <3>4. s # "queued"
      BY DEF AfterCancel
    <3> QED
      BY <3>3, <3>4
  <2>4. CASE SubmitFails(c) \/ Count(c) \/ AfterAttach(c) \/ GetResult(c)
             \/ TimeOut(c) \/ GiveUp(c)
    BY <2>4 DEF SubmitFails, Count, AfterAttach, GetResult, TimeOut, GiveUp
  <2> QED
    BY <1>2, <2>1, <2>2, <2>3, <2>4 DEF RunStep
<1>3. ASSUME NEW g \in Futures, PoolStep(g) \/ Perform(g)
      PROVE  FALSE
  <2>1. ASSUME NEW s \in {"running", "performed", "finished", "failed"},
               future' = [future EXCEPT ![g].state = s]
        PROVE  FALSE
    <3>1. s \in States /\ s # "queued"
      BY DEF States
    <3> QED
      BY <1>1, <2>1, <3>1, StateMoves
  <2>2. ASSUME NEW b \in {"counted", "done"}, Ended(g),
               future' = [future EXCEPT ![g].callback = b]
        PROVE  FALSE
    <3>1. b \in Callbacks
      BY DEF Callbacks
    <3> QED
      BY <1>1, <2>2, <3>1, CallbackMoves DEF Ended, Answered
  <2> QED
    BY <1>1, <1>3, <2>1, <2>2 DEF PoolStep, StartOperation, Perform, Finish, Fail,
                                  CountDown, ReleasePermit, OwnFutures
<1>4. ASSUME Crash PROVE FALSE
  BY <1>4 DEF Crash, NoFuture
<1>5. ASSUME NEW c \in Callers,
             \/ StartRun(c) \/ ResumeRun(c) \/ CheckStep(c)
             \/ ModelEndsRun(c) \/ ExecuteAction(c) \/ ExecuteRefused(c)
             \/ ToolReturns(c) \/ SaveFails(c)
             \/ \E goesOn \in BOOLEAN : SaveCheckpoint(c, goesOn)
             \/ \E op \in Operations : ModelNamesTool(c, op)
             \/ \E why \in {"timed_out", "cancelled"} : Interrupt(c, why)
      PROVE  FALSE
  <2>1. future' = future
    BY <1>5 DEF StartRun, ResumeRun, Begin, CheckStep, ModelEndsRun, ExecuteAction,
         Acquire, ExecuteRefused, ToolReturns, Leave, SaveFails, SaveCheckpoint,
         ModelNamesTool, Interrupt, runtimeVars
  <2> QED
    BY <2>1
<1> QED
  BY <1>2, <1>3, <1>4, <1>5 DEF Next, RunTool, RunPool, PerformTool

\* An operation that a saved checkpoint of its thread lists is never handed
\* to the pool again, by a resumed run or by the run that saved it.
THEOREM SavedCallsAreNotRepeatedHolds == Spec => SavedCallsAreNotRepeated
<1>1. ASSUME AgentInv, Next, NEW f \in Futures,
             future'[f].state = "queued", future'[f] # future[f],
             NEW n \in Saved(future'[f].owner)
      PROVE  future'[f].op \notin Elements(disk[future'[f].owner][n].history)
  <2>1. PICK c \in Callers : /\ call[c].pc # "out" /\ future'[f].owner = c
                             /\ future'[f].op = call[c].op
    BY <1>1, QueuedByItsCaller, AgentParts
  <2> DEFINE h == agent[c].history
             step == agent[c].step
             op == call[c].op
             saved == disk[c][n].history
  <2>2. /\ agent[c].pc = "tool" /\ op = h[step + 1]
        /\ agent[c] \in AgentRow
        /\ Follows(agent[c], disk[c], performed[c])
    BY <1>1, <2>1, AgentParts DEF Serves
  <2>3. /\ step \in Nat /\ SavedIn(disk[c]) = 1..step /\ Len(h) = step + 1
        /\ \A i, j \in 1..Len(h) : h[i] = h[j] => i = j
        /\ \A m \in 1..step : \A i \in 1..m : disk[c][m].history[i] = h[i]
    <3>1. step \in Nat
      BY <2>2, AgentAssumption DEF AgentRow
    <3>2. Len(h) = step + 1
      BY <2>2 DEF Follows
    <3> QED
      BY <2>2, <3>1, <3>2 DEF Follows
  <2>4. /\ saved \in Seq(Operations) /\ n \in Nat \ {0} /\ Len(saved) = n
        /\ n \in SavedIn(disk[c])
    BY <1>1, <2>1, TrueCheckpoint
  <2>5. n \in 1..step /\ \A i \in 1..n : saved[i] = h[i]
    BY <2>3, <2>4
  <2>6. \A i \in 1..n : h[i] # h[step + 1]
    <3>1. \A i \in 1..n : i \in 1..Len(h) /\ step + 1 \in 1..Len(h) /\ i # step + 1
      BY <2>3, <2>4, <2>5
    <3> QED
      BY <2>3, <3>1
  <2>7. DOMAIN saved = 1..n
    BY <2>4
  <2>8. op \notin Elements(saved)
    <3> HIDE DEF saved, h, step, op
    <3> QED
      BY <2>2, <2>5, <2>6, <2>7 DEF Elements
  <2> QED
    BY <2>1, <2>8
<1>2. AgentInv /\ [Next]_vars =>
        [\A f \in Futures :
           LET new == future'[f]
           IN  new.state = "queued" /\ new # future[f] =>
                 \A n \in Saved(new.owner) :
                   new.op \notin Elements(disk[new.owner][n].history)]_vars
  BY <1>1
<1> QED
  BY <1>2, AgentInvHolds, PTL DEF Spec, SavedCallsAreNotRepeated
=============================================================================

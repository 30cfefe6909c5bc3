------------------------------- MODULE SlotPool -------------------------------
(***************************************************************************)
(* What a capacity limit promises, whatever enforces it: a pool of slots   *)
(* that are taken one at a time, only while one is free, and given back    *)
(* one at a time by whoever holds them.                                    *)
(***************************************************************************)
EXTENDS Integers, FiniteSets

CONSTANTS Clients,   \* who may hold a slot
          Slots      \* how many slots there are

VARIABLE holding     \* the clients that hold one now

Init == holding = {}

Acquire(c) == /\ c \notin holding
              /\ Cardinality(holding) < Slots
              /\ holding' = holding \cup {c}

Release(c) == /\ c \in holding
              /\ holding' = holding \ {c}

Next == \E c \in Clients : Acquire(c) \/ Release(c)

Spec == Init /\ [][Next]_holding

\* No more slots are held than there are.
WithinCapacity == /\ holding \subseteq Clients
                  /\ Cardinality(holding) <= Slots
=============================================================================

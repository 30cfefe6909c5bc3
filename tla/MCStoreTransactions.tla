------------------------- MODULE MCStoreTransactions -------------------------
(* A small instance of StoreTransactions for TLC.                           *)
EXTENDS StoreTransactions, TLC

CONSTANTS t1, t2, t3, c1, c2, k1, x1, x2

MCTasks    == {t1, t2, t3}
MCClients  == {c1, c2}
MCKeys     == {k1}
MCContents == {x1, x2}
MCSymmetry == Permutations(MCTasks) \cup Permutations(MCClients)
                \cup Permutations(MCContents)
=============================================================================

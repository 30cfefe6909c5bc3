----------------------------- MODULE MCAgentLoop -----------------------------
(* Small instances of AgentLoop for TLC.                                    *)
EXTENDS AgentLoop, TLC

CONSTANTS a1, a2, x1, x2, f1, f2, f3

MCOne        == {a1}
MCTwo        == {a1, a2}
MCOperations == {x1, x2}
MCSame       == {x1}
MCFutures    == {f1, f2, f3}
MCSymmetry   == Permutations(Callers) \cup Permutations(Operations)
                  \cup Permutations(Futures)
=============================================================================

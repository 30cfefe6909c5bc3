----------------------------- MODULE MCToolCalls -----------------------------
(* Small instances of ToolCalls for TLC.                                    *)
EXTENDS ToolCalls, TLC

CONSTANTS t1, c1, c2, s1, s2, in1, in2, k1

MCTasks     == {t1}
MCVerified  == {c1}
MCTwoCalls  == {c1, c2}
MCSenders   == {s1, s2}
MCTwoInputs == {in1, in2}
MCCounters  == {k1}
MCDeadlines == {NULL, 3}
MCSymmetry  == Permutations(Senders)
=============================================================================

--------------------------- MODULE MCDurableWorker ---------------------------
(* Small instances of DurableWorker for TLC.                                *)
EXTENDS DurableWorker, TLC

CONSTANTS t1, t2, w1, w2

MCOneTask   == {t1}
MCTwoTasks  == {t1, t2}
MCWorkers   == {w1, w2}
MCSymmetry  == Permutations(Workers)
MCDeadlines == {NULL, 4}
MCNoDeadline == {NULL}
=============================================================================

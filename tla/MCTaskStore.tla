----------------------------- MODULE MCTaskStore -----------------------------
(* A small instance of TaskStore for TLC.                                   *)
EXTENDS TaskStore, TLC

CONSTANTS t1, t2, t3

MCThreeTasks == {t1, t2, t3}
MCSymmetry   == Permutations(Tasks)
MCDeadlines  == {NULL, 3}
=============================================================================

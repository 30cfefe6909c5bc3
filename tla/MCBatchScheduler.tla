--------------------------- MODULE MCBatchScheduler ---------------------------
(* A small instance of BatchScheduler for TLC.                              *)
EXTENDS BatchScheduler, TLC

CONSTANTS r1, r2, r3

MCRequests == {r1, r2, r3}
=============================================================================

----------------------------- MODULE MCRagService -----------------------------
(* A small instance of RagService for TLC: an index task, two demo tasks, a *)
(* direct request with an overlap that is refused, and a build from the     *)
(* command line at the same output path.                                    *)
EXTENDS RagService, TLC

CONSTANTS t1, t2, t3, w1, w2, d1, c1, q1

MCTasks    == {t1, t2, t3}
MCDemo     == {t2, t3}
MCWorkers  == {w1, w2}
MCDirect   == {d1}
MCCommands == {c1}
MCBuilders == {t1, d1, c1}
MCReaders  == {q1}
MCInputOf  == [b \in MCBuilders |->
                 IF b = d1 THEN [length |-> 2, size |-> 1, overlap |-> 1]
                 ELSE [length |-> 3, size |-> 2, overlap |-> 1]]
=============================================================================

-------------------------- MODULE MCRequestLifecycle --------------------------
(* Small instances of RequestLifecycle for TLC.                             *)
EXTENDS RequestLifecycle, TLC

CONSTANTS r1, r2, r3

MCRequests == {r1, r2, r3}
MCOne      == {r1}
MCOthers   == Permutations({r2, r3})   \* r1 is the stream, the stubborn one
=============================================================================

--------------------------- MODULE MCStreamService ---------------------------
(* A small instance of StreamService for TLC: a stream and a plain request. *)
EXTENDS StreamService, TLC

CONSTANTS r1, r2

MCRequests == {r1, r2}
MCStreams  == {r1}
=============================================================================

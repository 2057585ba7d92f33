--------------------------- MODULE MCReclaimLock ---------------------------
(* Two processes, one of which makes enough calls to overtake the other in *)
(* the middle of its only one, and to come back with a stale handle.       *)
EXTENDS ReclaimLock, TLC

CONSTANTS a, b

MCProc == {a, b}
MCCalls == (a :> 3) @@ (b :> 1)
=============================================================================

--------------------------- MODULE MCRequestGate ----------------------------
(* RequestGate on a small instance.  The requests differ in nothing; no    *)
(* symmetry set is declared because the run checks liveness.               *)
EXTENDS RequestGate, TLC

CONSTANTS r1, r2, r3, r4

MCRequests == {r1, r2, r3, r4}
=============================================================================

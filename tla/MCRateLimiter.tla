--------------------------- MODULE MCRateLimiter ---------------------------
(* Two API processes, the clock of one as far ahead as it may be.              *)
EXTENDS RateLimiter

CONSTANTS p1, p2

Ahead == [p \in Processes |-> IF p = p1 THEN Minute - 1 ELSE 0]
=============================================================================

----------------------------- MODULE MCSessions -----------------------------
(* Requests of one user, and two passwords to choose from.                  *)
EXTENDS Sessions, TLC

CONSTANTS h1, h2, w1, w2

Symmetry == Permutations({h1, h2}) \cup Permutations({w1, w2})
=============================================================================

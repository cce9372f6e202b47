--------------------------- MODULE MCAuditSystem ---------------------------
(* Small instances of AuditSystem.                                          *)
EXTENDS AuditSystem, TLC

\* Handlers are interchangeable, and so are URLs; used where no liveness is checked.
Symmetry == Permutations(Handlers) \cup Permutations(Urls)
=============================================================================

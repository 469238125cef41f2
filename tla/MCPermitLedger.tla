--------------------------- MODULE MCPermitLedger ---------------------------
(* Small instances of PermitLedger: two processes, three identifiers.      *)
EXTENDS PermitLedger, TLC

CONSTANTS p1, p2, a, b, c

MCProcs == {p1, p2}
MCIds == {a, b, c}
Symmetry == Permutations(MCProcs) \cup Permutations(MCIds)
=============================================================================

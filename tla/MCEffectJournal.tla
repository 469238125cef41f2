--------------------------- MODULE MCEffectJournal ---------------------------
(* Two processes, two parts.                                                *)
EXTENDS EffectJournal, TLC

CONSTANTS p1, p2, x, y

MCProcs == {p1, p2}
MCParts == {x, y}
Symmetry == Permutations(MCProcs) \cup Permutations(MCParts)
=============================================================================

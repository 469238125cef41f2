--------------------------- MODULE MCEvidenceStore ---------------------------
(* Two publishers, two staged objects and one created in place, a directory *)
(* that holds three entries and the bytes of any two objects.              *)
EXTENDS EvidenceStore, TLC

CONSTANTS p1, p2, j, k, a

MCProcs == {p1, p2}
MCObjects == {j, k, a}
MCJournal == {j, k}
MCSize == (j :> 1) @@ (k :> 1) @@ (a :> 2)
Symmetry == Permutations(MCProcs) \cup Permutations(MCJournal)
=============================================================================

--------------------------- MODULE MCProjectMemory ---------------------------
(* Small instances of ProjectMemory: an assertion that expires, a record    *)
(* that supersedes it, and one that supersedes that one.                    *)
EXTENDS ProjectMemory, TLC

CONSTANTS w1, w2

MCWriters == {w1, w2}
Symmetry == Permutations(MCWriters)
MCRecords ==
    {[id |-> "a", supersedes |-> {}, until |-> 3],
     [id |-> "b", supersedes |-> {"a"}, until |-> 9],
     [id |-> "c", supersedes |-> {}, until |-> 9]}
=============================================================================

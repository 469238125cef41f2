--------------------------- MODULE MCEffectReplay ---------------------------
(* Two operations: a journalled one on two targets, and one on a target     *)
(* below the first of them.                                                 *)
EXTENDS EffectReplay

CONSTANTS A, B, dir, file, other

MCOps == {A, B}
MCTargets == {dir, file, other}
MCTargetsOf == [o \in MCOps |-> IF o = A THEN <<dir, other>> ELSE <<file>>]
MCOverlap == {<<t, t>> : t \in MCTargets} \cup {<<dir, file>>, <<file, dir>>}
MCJournalled == {A}
=============================================================================

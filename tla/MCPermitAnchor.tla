--------------------------- MODULE MCPermitAnchor ---------------------------
(* Two permits on separate targets.                                         *)
EXTENDS PermitAnchor, TLC

CONSTANTS a, b, t, u

MCTargetsOf == (a :> <<t>>) @@ (b :> <<u>>)
MCOverlap == {<<t, t>>, <<u, u>>}
MCJournalKinds == {"operation-intent", "operation-reconciled"}

\* The two permits, each with its target, may change places.
MCSymmetry == {(a :> b) @@ (b :> a) @@ (t :> u) @@ (u :> t)}
=============================================================================

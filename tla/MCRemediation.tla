--------------------------- MODULE MCRemediation ---------------------------
(***************************************************************************)
(* Three lanes over the files a/x, b and c and the directory a.            *)
(***************************************************************************)
EXTENDS RemediationExecution

DirA  == <<"a">>
FileA == <<"a", "x">>
FileB == <<"b">>
FileC == <<"c">>

\* Independent lanes, chains and forks along and against the identifiers, a
\* join, and a cycle, which is no plan.
MCDependencies ==
    { <<{}, {}, {}>>, <<{}, {1}, {2}>>, <<{2}, {}, {1}>>, <<{}, {1}, {1}>>,
      <<{3}, {3}, {}>>, <<{}, {}, {1, 2}>>, <<{2}, {1}, {}>> }

MCFootprints ==
    { [writes |-> {DirA},  reads |-> {},      keys |-> {}],
      [writes |-> {FileC}, reads |-> {},      keys |-> {"k"}],
      [writes |-> {FileB}, reads |-> {FileA}, keys |-> {}] }

MCHostRuns == { <<"succeeded", "succeeded">>, <<"rolled-back", "failed">> }

\* The other campaign: a claim in the way of the lanes, and one elsewhere that
\* names it as its prerequisite and may outlive it.
MCForeignClaims ==
    { [id |-> 8, writes |-> {FileA, FileB}, keys |-> {}, needs |-> {}],
      [id |-> 9, writes |-> {<<"d">>}, keys |-> {}, needs |-> {8}] }
=============================================================================

--------------------------- MODULE MCHarnessRuns ---------------------------
(* Instances of HarnessRuns for TLC. *)
EXTENDS HarnessRuns, TLC

CONSTANTS a1, v1, v2

Symmetric == Permutations({v1, v2})

NoPlugins  == {<<>>}
NoOldTrace == {<<>>}
=============================================================================

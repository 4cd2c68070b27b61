----------------------------- MODULE MCHarness -----------------------------
(* Instances of Harness for TLC. *)
EXTENDS HarnessInv, TLC

CONSTANTS a1, a2, v1, v2

Offsets == {a1, a2}
Symmetric == Permutations({a1, a2}) \cup Permutations({v1, v2})

NoPlugins  == {<<>>}
NoOldTrace == {<<>>}
=============================================================================

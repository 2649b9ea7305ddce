---------------------------- MODULE MCFuseStaging ----------------------------
(* Instances of FuseStaging for TLC.                                         *)
EXTENDS FuseStaging, TLC

CONSTANTS a, b, t, h1, h2

Symmetry == Permutations({a, b}) \cup Permutations({h1, h2})
=============================================================================

---------------------------- MODULE MCCodingRuns ----------------------------
(* CodingRuns for TLC. *)
EXTENDS CodingRuns, TLC

CONSTANTS k1, k2

Symmetry == Permutations(Calls)

=============================================================================

-------------------------- MODULE MCAdministration --------------------------
(* A small instance of Administration for TLC.                             *)
EXTENDS Administration, TLC

CONSTANTS q1, q2

MCRequests == {q1, q2}

Symmetry == Permutations(MCRequests)
=============================================================================

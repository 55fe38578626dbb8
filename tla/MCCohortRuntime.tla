-------------------------- MODULE MCCohortRuntime ---------------------------
(* A cohort of two requests; a barrier every two rounds.                   *)
EXTENDS CohortRuntime, TLC

CONSTANTS r1, r2
Symmetry == Permutations({r1, r2})
=============================================================================

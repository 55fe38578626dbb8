------------------------ MODULE MCEvidenceCompletion ------------------------
(* Model-checking instance of EvidenceCompletion. *)
EXTENDS EvidenceCompletion, TLC

CONSTANTS a1, a2, a3

Symmetry == Permutations({a1, a2, a3})
=============================================================================

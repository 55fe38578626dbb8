------------------------ MODULE MCAsyncEvidenceSink -------------------------
(* Small instances of the evidence sink. *)
EXTENDS AsyncEvidenceSink, TLC

CONSTANTS p1, p2, p3, p4, p5, r1, r2

FourProducers == {p1, p2, p3, p4}
FiveProducers == {p1, p2, p3, p4, p5}
TwoLastRows == << r1, r2 >>
Symmetry == Permutations(Producers)
=============================================================================

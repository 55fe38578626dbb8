------------------------ MODULE MCAllRankPublication ------------------------
(* Model-checking instance of AllRankPublication: the candidates c1 and c2   *)
(* are two attempts at one update identity.                                  *)
EXTENDS AllRankPublication, TLC

CONSTANTS r1, r2, c1, c2, u1

MCRanks == {r1, r2}
MCCandidates == {c1, c2}
Ballot(c, ok, healthy) == [cand |-> c, ok |-> ok, healthy |-> healthy]
MCBallots == {Ballot(c1, TRUE, TRUE), Ballot(c1, FALSE, TRUE),
              Ballot(c1, TRUE, FALSE), Ballot(c2, TRUE, TRUE)}
MCUpdateOf == [c \in MCCandidates |-> u1]

\* No action or property reads an object before the slot that precedes the
\* last one every rank has contributed to.
Settled == CHOOSE n \in 0..MaxCalls :
    /\ \A r \in Ranks : Len(log[r]) >= n
    /\ \E r \in Ranks : Len(log[r]) = n
View ==
    << pc, weights, coordinator, environment,
       [r \in Ranks |-> [i \in 1..Len(log[r]) |->
            IF i < Settled - 1 THEN << >> ELSE log[r][i]]] >>

Symmetry == Permutations(MCRanks)
=============================================================================

SPECIFICATION Spec
CONSTANTS
    r1 = r1
    r2 = r2
    c1 = c1
    c2 = c2
    u1 = u1
    Base = Base
    Ranks <- MCRanks
    Candidates <- MCCandidates
    Ballots <- MCBallots
    UpdateOf <- MCUpdateOf
    FreshIds = FALSE
    MaxCalls = 4
    MaxRestarts = 1
VIEW View
SYMMETRY Symmetry
CHECK_DEADLOCK FALSE
INVARIANTS
    ServedModelUniform
    ReturnedDecisionsAgree
    CommitIsUnanimous
    

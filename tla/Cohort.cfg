\* Two candidates, three events (commits, cancellations, resets, disables).
CONSTANTS
    r1 = r1
    r2 = r2
    Requests = {r1, r2}
    Policies = {"static", "tts", "l0"}
    Stride = 2
    Extra = 1
    MaxLag = 1
    MaxRound = 3
    MaxRows = 2
    MaxCandidates = 2
    MaxEvents = 3
SPECIFICATION Spec
INVARIANTS
    EachCandidateEndsOnce
    PublishedUndisturbed
    VersionCountsPublications
    PublicationWaits
    RowsOfThisEpoch
SYMMETRY Symmetry

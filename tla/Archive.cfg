SPECIFICATION FairSpec
CONSTANTS
    Files = {f1, f2, f3}
    Retained = {f3}
    Evictors = {e1, e2}
    MaxFaults = 3
    MaxResumes = 1
    None = None
INVARIANTS NothingLost ReceiptCovers IndexRestorable
PROPERTIES  DeletionReached

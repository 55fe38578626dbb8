SPECIFICATION FairSpec
CONSTANTS
    Files = {f1, f2, f3}
    Retained = {f3}
    Evictors = {e1}
    MaxFaults = 1
    MaxResumes = 0
    None = None
PROPERTY DeletedNodeIndexed

\* Three attempts at one run, in any overlap; each goes on unless it dies.
CONSTANTS
    a1 = a1
    a2 = a2
    a3 = a3
    Attempts = {a1, a2, a3}
    MaxCheckpoints = 2
    None = None
SPECIFICATION FairSpec
INVARIANT CompletedEvidenceLoads
PROPERTIES ReceiptsFinal RecoveryCompletes
CHECK_DEADLOCK FALSE

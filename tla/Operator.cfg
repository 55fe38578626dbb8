\* No retry builder; a resident pair, then a cell that needs both GPUs alone.
CONSTANTS
    Cells = {"a", "b", "s"}
    Group = {"a", "b"}
    Leader = "a"
    Resident = TRUE
    Exclusive = {"s"}
    Headline = {}
    Need <- MCNeed
    Pinned <- MCPinned
    GpuCount = 2
    Mode = "DUAL_SINGLE"
    RetryBuilder = FALSE
    Outcomes = {"COMPLETE", "SCIENTIFIC"}
    Faults = {"crash", "killed", "launch", "monitor", "silent", "builder"}
    AttemptBound = 1
    MaxFaults = 1
    MaxResumes = 1
SPECIFICATION FairSpec
   
PROPERTIES SealedResultAccepted TerminationSettles SilenceStops

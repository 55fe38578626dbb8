\* A resident pair with a retry builder, on one GPU: its retries run one by one.
CONSTANTS
    Cells = {"a", "b"}
    Group = {"a", "b"}
    Leader = "a"
    Resident = TRUE
    Exclusive = {}
    Headline = {}
    Need <- MCNeed
    Pinned <- MCPinned
    GpuCount = 1
    Mode = "DUAL_SINGLE"
    RetryBuilder = TRUE
    Outcomes = {"COMPLETE", "INFRASTRUCTURE"}
    Faults = {"crash", "launch", "attach", "late", "builder"}
    AttemptBound = 4
    MaxFaults = 1
    MaxResumes = 0
SPECIFICATION Spec
INVARIANT RetriesJustified

\* Five requests on a queue of two: overflowing writes wait behind a full queue.
CONSTANTS
    p1 = p1
    p2 = p2
    p3 = p3
    p4 = p4
    p5 = p5
    r1 = r1
    r2 = r2
    Producers <- FiveProducers
    Main = Main
    LastRows <- TwoLastRows
    Stop = Stop
    MaxQueue = 2
    MaxBatch = 2
    WriterQueue = 2
    RowGroup = 2
    Faults = TRUE
SPECIFICATION Spec
INVARIANTS TypeOK CleanCloseComplete SaturatedRowDurable
SYMMETRY Symmetry
CHECK_DEADLOCK FALSE

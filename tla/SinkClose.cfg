\* Four requests on a queue of one: a write may wait for room when the worker fails.
SPECIFICATION FairSpec
CONSTANTS
    p1 = p1
    p2 = p2
    p3 = p3
    p4 = p4
    p5 = p5
    r1 = r1
    r2 = r2
    Producers <- FourProducers
    Main = Main
    LastRows <- TwoLastRows
    Stop = Stop
    MaxQueue = 1
    MaxBatch = 1
    WriterQueue = 3
    RowGroup = 1
    Faults = TRUE
PROPERTY ClosesOrWaitsForOwnRow
CHECK_DEADLOCK FALSE

SPECIFICATION FairSpec
CONSTANTS
    Wave <- MCWave
    Workers = {w1, w2}
    Allowance <- MCAllowance
    Overlapping = {"initial"}
    MaxPaths = 2
    MaxFaults = 3
    None = None
INVARIANTS TypeOK  SuccessNeverRerun RetryFindsHostQuiet ResultIsOnRecord
PROPERTIES FinishedWaveIsReconciled
CHECK_DEADLOCK FALSE

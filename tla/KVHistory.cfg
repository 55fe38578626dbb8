\* Up to six tokens; versions may come back (a reset returns to version 0).
CONSTANTS
    MaxTokens = 6
    Versions = {0, 1, 2}
SPECIFICATION HistorySpec
INVARIANT SegmentsCanonical
PROPERTY ImplementsTokenVersions

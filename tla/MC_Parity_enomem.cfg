CONSTANTS
    NumStrps = 2
    StrpWords = 2
    Unroll = 2
    Words <- MCWords
    DataCsum = TRUE
    DataParity = TRUE
    SSE42 = TRUE
    AllocMayFail = TRUE
    RecomputeFromPM = TRUE
    MaxFaults = 2
    MaxTotal = 12
    MaxCPUs = 3
    None = None
SPECIFICATION Spec
INVARIANT
    RestoreOnlyWrittenData

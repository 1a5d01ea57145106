CONSTANTS
    NumStrps = 2
    StrpWords = 2
    Unroll = 2
    Words <- MCWords
    DataCsum = TRUE
    DataParity = TRUE
    SSE42 = FALSE
    AllocMayFail = FALSE
    RecomputeFromPM = TRUE
    MaxFaults = 2
    MaxTotal = 12
    MaxCPUs = 3
    None = None
SPECIFICATION Spec
INVARIANT
    SingleFaultRecoverable

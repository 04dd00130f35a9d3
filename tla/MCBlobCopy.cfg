SPECIFICATION FairSpec
CONSTANTS
    Calls <- MCCalls
    HostChunks = {0, 1}
    ChunkSize = 2
    ChunkLimit = 4
    RetryLimit = 2
    MaxFails = 2
\* a call that has returned is at its end
CHECK_DEADLOCK FALSE
INVARIANTS
    UploadSound
    OutcomeSound
PROPERTY Returns

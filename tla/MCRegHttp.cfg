SPECIFICATION FairSpec
CONSTANTS
    reg = reg
    mir = mir
    r1 = r1
    r2 = r2
    Host = {reg, mir}
    Upstream = reg
    Priority <- MCPriority
    Request = {r1, r2}
    IgnoreErr = {r2}
    NoMirrors = {r2}
    Upload = {r2}
    ReqConcurrent = 1
    RetryLimit = 2
    ResetCount = 1
    Size = 2
    Cancellable = {r1}
    NoHost = NoHost
    MaxResume = 1
    MaxFails = 3
\* every request may be closed
CHECK_DEADLOCK FALSE
INVARIANTS
    ThrottleSound
    ReadsInOrder
PROPERTIES
    EveryHostTried
    Answered

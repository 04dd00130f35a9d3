SPECIFICATION FairSpec
CONSTANTS
    s1 = s1
    s2 = s2
    s3 = s3
    Steps = {s1, s2, s3}
    NoSchedule = {s3}
    BadSchedule = {}
    Concurrent = 1
    Setups <- MCSetups
    Tags = {1, 2}
    Allow <- MCAllow
    Deny <- MCDeny
    Unsupported = {}
    HasBackup = {s1, s2}
    HasPlatform = {s2}
    HasRateLimit = {s2}
    Recopy <- MCRecopy
    FirstVersion <- MCFirstVersion
    FirstTarget <- MCFirstTarget
    MaxVersion = 2
    MaxFails = 1
    MaxLow = 1
    MaxCalls = 1
    MaxErrors = 1
    DryRuns = {TRUE, FALSE}
\* the program returns
CHECK_DEADLOCK FALSE
INVARIANTS
    JobsSound
PROPERTIES
    OverwritesSaved
    MissingOnlyAdds
    InSync

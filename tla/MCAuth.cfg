SPECIFICATION Spec
CONSTANTS
    pull = pull
    del = del
    catalog = catalog
    Request = {pull, del, catalog}
    Need <- MCNeed
    DockerScope <- MCDockerScope
    Unscoped = {catalog}
    KnownActions = {"pull", "push", "delete"}
    Anonymous = {"pull"}
    RetryLimit = 1
    Creds = {"user", "bad", "none"}
    MaxFaults = 2
    MaxTrouble = 2
\* every request ends
CHECK_DEADLOCK FALSE
INVARIANTS
    HandlersSound
    HeaderFits
    NoSameHeader
    FailsForCause

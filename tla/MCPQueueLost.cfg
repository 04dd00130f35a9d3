SPECIFICATION Spec
CONSTANTS
    h = h
    m = m
    u = u
    b1 = b1
    b2 = b2
    b3 = b3
    Entry = {h, m, b1}
    Cancellable = {m}
    MaxActive = 1
    SmallLimit = 4
    Data <- MCData
    NextEntry <- MCNextEntry
INVARIANT NoWaiterLost

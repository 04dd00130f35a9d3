SPECIFICATION FairSpec
CONSTANTS
    h = h
    m = m
    u = u
    b1 = b1
    b2 = b2
    b3 = b3
    Entry = {h, m, u, b1, b2, b3}
    Cancellable = {b1}
    MaxActive = 3
    SmallLimit = 4
    Data <- MCData
    NextEntry <- MCNextEntry
INVARIANTS
    TypeOK
    ActiveBound
    WorkConserving
    SlotOwnership
PROPERTIES
    PriorityKept
    NoStarvation

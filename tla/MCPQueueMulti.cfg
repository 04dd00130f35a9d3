SPECIFICATION FairSpec
CONSTANTS
    a = a
    b = b
    p1 = p1
    p2 = p2
    p3 = p3
    p4 = p4
    Nil = Nil
    Queues = {a, b}
    Entry = {p1, p2, p3, p4}
    MaxActive = 1
    Cancellable = {p1}
    Args <- MCArgs
    NextEntry <- MCOldest
INVARIANT SlotsSound
PROPERTY WaitEnds

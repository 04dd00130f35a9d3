SPECIFICATION FairSpec
CONSTANTS
    subj = subj
    art1 = art1
    art2 = art2
    c1 = c1
    c2 = c2
    None = None
    Dummy = Dummy
    Client = {c1, c2}
    Referrer = {art1, art2}
    Subject <- MCSubject
    MaxOps = 4
    MaxFails = 1
\* the clients stop after MaxOps operations
CHECK_DEADLOCK FALSE
INVARIANTS
    ListSound
    ListsSeePuts
PROPERTY Returns

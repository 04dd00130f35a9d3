SPECIFICATION Spec
CONSTANTS
    m = m
    ix = ix
    x = x
    b1 = b1
    b2 = b2
    t1 = t1
    t2 = t2
    c1 = c1
    c2 = c2
    None = None
    Junk = Junk
    Client = {c1, c2}
    Manifest = {m, ix, x}
    Blob = {b1, b2}
    Tag = {t1, t2}
    Children <- MCChildren
    Layers <- MCLayers
    Subject <- MCSubject
    Deletable = {ix, x}
    CrashInGC = FALSE
    MaxJobs = 3
    MaxCrashes = 1
\* the clients stop after MaxJobs jobs
CHECK_DEADLOCK FALSE
SYMMETRY Symmetry
INVARIANTS
    LayoutSound
PROPERTIES
    TagsKept
    NothingLeft

SPECIFICATION FairSpec
CONSTANTS
    ix = ix
    a1 = a1
    a2 = a2
    x = x
    b1 = b1
    b2 = b2
    dt = dt
    v1 = v1
    NoTag = NoTag
    Manifest = {a1, a2, x}
    Index = {a2, x}
    Blob = {b1}
    Tag = {dt}
    Root = a1
    RootTag = NoTag
    ForceRecursive = FALSE
    WithReferrers = TRUE
    WithDigestTags = TRUE
    TgtChecksCtx = TRUE
    MayCancel = FALSE
    MaxFails = 1
    MaxAttempts = 1
    MaxDepth = 5
    Children <- LoopChildren
    Layers <- LoopLayers
    Referrers <- LoopReferrers
    DigestTags <- LoopTags
    TagDigest <- Tags1
    InitTargets <- Targets
\* Terminates leaves no room for a deadlock before the return.
CHECK_DEADLOCK FALSE
PROPERTY
    Terminates

SPECIFICATION Spec
CONSTANTS
    ix = ix
    a1 = a1
    a2 = a2
    x = x
    b1 = b1
    b2 = b2
    dt = dt
    v1 = v1
    NoTag = NoTag
    Manifest = {ix, a1, a2}
    Index = {ix}
    Blob = {b1, b2}
    Tag = {}
    Root = ix
    RootTag = v1
    ForceRecursive = FALSE
    WithReferrers = FALSE
    WithDigestTags = FALSE
    TgtChecksCtx = TRUE
    MayCancel = TRUE
    MaxFails = 1
    MaxAttempts = 2
    MaxDepth = 5
    Children <- SharedChildren
    Layers <- SharedLayers
    Referrers <- NoReferrers
    DigestTags <- NoDigestTags
    TagDigest <- Tags1
    InitTargets <- Targets
INVARIANTS
    TasksSound
    TargetClosed
    SuccessIsComplete

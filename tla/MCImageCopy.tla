---------------------------- MODULE MCImageCopy ----------------------------
(* Source images for ImageCopy.                                            *)
EXTENDS ImageCopy

CONSTANTS ix, a1, a2, x, b1, b2, dt, v1

None(S) == [m \in S |-> {}]

EmptyTarget == [man |-> {}, blob |-> {}, tag |-> {}]

Targets == {EmptyTarget}

\* An index of two images that share a blob.
SharedChildren == (ix :> {a1, a2}) @@ None(Manifest)
SharedLayers == (a1 :> {b1}) @@ (a2 :> {b1, b2}) @@ None(Manifest)

NoReferrers == None(Manifest)
NoDigestTags == None(Manifest)
Tags1 == (RootTag :> Root) @@ [t \in Tag |-> a2]

\* The "loop" of the repository's test data: index x lists a1 and has a1 as its
\* subject, so that a1 leads to x by its referrers and x to a1 by its entries.
LoopChildren == (x :> {a1}) @@ None(Manifest)
LoopLayers == (a1 :> {b1}) @@ (a2 :> {b1}) @@ None(Manifest)
LoopReferrers == (a1 :> {x}) @@ None(Manifest)

\* ... with a digest tag of a1 that points to a2, an index of a blob.
LoopTags == (a1 :> {dt}) @@ None(Manifest)
=============================================================================

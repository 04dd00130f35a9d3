----------------------------- MODULE ImageBase ------------------------------
(***************************************************************************)
(* ImageCheckBase and ImageConfig of image.go, and the search for a        *)
(* platform of manifest.go: whether an image still starts with its base    *)
(* image, and which image of a nested index a platform is given.           *)
(*                                                                         *)
(* A manifest has an id (its digest), the base annotations ("" where there *)
(* are none) and is an image with layers and history, or a list of         *)
(* entries, each with a manifest and none or one platform.                 *)
(***************************************************************************)
EXTENDS Platform

ImageWith(id, layers, hist) ==
    [id |-> id, list |-> FALSE, baseName |-> "", baseDigest |-> "", layers |-> layers, hist |-> hist, entries |-> <<>>]
ListWith(id, entries) ==
    [id |-> id, list |-> TRUE, baseName |-> "", baseDigest |-> "", layers |-> <<>>, hist |-> <<>>, entries |-> entries]
EntryOf(m, plat) == [m |-> m, plat |-> plat]

\* GetPlatformDesc, and the manifest found: a sequence of none or one.
Manifests(found) == [i \in DOMAIN found |-> found[i].m]
GetPlatform(m, p) ==
    LET dl == [i \in DOMAIN m.entries |-> [plat |-> m.entries[i].plat, type |-> "", annot |-> {}, m |-> m.entries[i].m]]
    IN  Manifests(DescriptorListSearch(dl, [type |-> "", annot |-> {}, sort |-> "", desc |-> FALSE, plat |-> <<p>>]))

\* ManifestGet with a platform: down through nested lists, without going back.
RECURSIVE ManifestGetPlatform(_, _)
ManifestGetPlatform(m, p) ==
    IF ~m.list THEN <<m>>
    ELSE LET d == GetPlatform(m, p) IN IF d = <<>> THEN <<>> ELSE ManifestGetPlatform(d[1], p)

\* ImageConfig: the image whose config is returned.
ImageConfig(m, p) == ManifestGetPlatform(m, p)

\* The layers first, then the history unless it is skipped.
CompareBase(img, base, skip) ==
    LET Changed(a, b) == {i \in DOMAIN b : i <= Len(a) /\ a[i] /= b[i]}
        Short(a, b) == Len(a) < Len(b)
    IN  CASE base.list -> "base is not an image"
          [] ~base.list /\ base.layers = <<>> -> "no layers"
          [] ~base.list /\ base.layers /= <<>> /\ Changed(img.layers, base.layers) /= {} -> "mismatch"
          [] ~base.list /\ base.layers /= <<>> /\ Changed(img.layers, base.layers) = {} ->
                CASE Short(img.layers, base.layers) -> "fewer layers"
                  [] ~Short(img.layers, base.layers) /\ skip -> "ok"
                  [] OTHER -> IF Changed(img.hist, base.hist) /= {} THEN "mismatch"
                              ELSE IF Short(img.hist, base.hist) THEN "fewer history entries" ELSE "ok"

\* The base of one image: in a list of base images the one for the platform.
CheckImage(store, name, img, opt, local) ==
    LET base == store[name]
        chosen == GetPlatform(base, Parse(opt.plat, NoVersion, local))
    IN  IF base.list /\ opt.plat /= <<>>
        THEN IF chosen = <<>> THEN "platform not found" ELSE CompareBase(img, chosen[1], opt.skip)
        ELSE CompareBase(img, base, opt.skip)

\* ImageCheckBase; opt.plat is a platform string, and of a list each entry is checked with its own, with the options
\* the caller gave: the base is looked up again in the annotations of the entry.
RECURSIVE ImageCheckBase(_, _, _, _)
CheckEntries(store, m, opt, local) ==
    LET EntryResult(i) ==
            IF m.entries[i].plat = <<>> THEN "panic"
            ELSE ImageCheckBase(store, m.entries[i].m, [opt EXCEPT !.plat = String(m.entries[i].plat[1])], local)
        failed == SelectInSeq([i \in DOMAIN m.entries |-> EntryResult(i)], LAMBDA r : r /= "ok")
    IN  IF failed = 0 THEN "ok" ELSE EntryResult(failed)
CheckFound(store, name, found, opt, local) ==
    IF found = <<>> THEN "platform not found"
    ELSE IF ~found[1].list THEN CheckImage(store, name, found[1], opt, local)
    ELSE CheckEntries(store, found[1], opt, local)
ImageCheckBase(store, img, opt, local) ==
    LET name == IF opt.ref = "" THEN img.baseName ELSE opt.ref
        dig == IF opt.ref = "" /\ img.baseDigest /= "" THEN img.baseDigest ELSE opt.digest
        found == IF img.list /\ opt.plat /= <<>> THEN GetPlatform(img, Parse(opt.plat, NoVersion, local)) ELSE <<img>>
    IN  IF name = "" THEN "no base annotation"
        ELSE IF dig /= "" THEN IF store[name].id = dig THEN "ok" ELSE "mismatch"
        ELSE CheckFound(store, name, found, opt, local)
-----------------------------------------------------------------------------
(* What they should do.                                                    *)

RECURSIVE Images(_)
Images(m) == IF ~m.list THEN {m} ELSE UNION {Images(m.entries[i].m) : i \in DOMAIN m.entries}

StartsWith(img, base, skip) == IsPrefix(base.layers, img.layers) /\ (skip \/ IsPrefix(base.hist, img.hist))

\* The images of a list that no nested list holds.
Direct(m) == IF ~m.list THEN {m} ELSE {e.m : e \in {f \in Range(m.entries) : ~f.m.list}}

\* Without a digest to compare, "unchanged" means that the images (all, or one of the platform) start with one of the base's.
UnchangedMeansSame(store, img, opt, result) ==
    result = "ok" /\ opt.digest = "" /\ img.baseDigest = "" =>
        LET name == IF opt.ref = "" THEN img.baseName ELSE opt.ref
            BaseOk(m) == \/ m.baseDigest /= "" /\ opt.ref = "" /\ store[m.baseName].id = m.baseDigest
                         \/ \E b \in Images(store[IF opt.ref = "" /\ m.baseName /= "" THEN m.baseName ELSE name]) : StartsWith(m, b, opt.skip)
        IN  IF opt.plat = <<>> THEN \A m \in Direct(img) : BaseOk(m) ELSE \E m \in Images(img) : BaseOk(m)

\* With the base named by the caller, an image whose every platform starts with the base of that platform is unchanged.
SameMeansUnchanged(store, img, opt, result) ==
    /\ opt.ref /= "" /\ opt.digest = "" /\ opt.plat = <<>> /\ img.list /\ store[opt.ref].list
    /\ \A i \in DOMAIN img.entries :
            /\ img.entries[i].plat /= <<>> /\ ~img.entries[i].m.list
            /\ \E j \in DOMAIN store[opt.ref].entries :
                    LET b == store[opt.ref].entries[j]
                    IN  b.plat = img.entries[i].plat /\ ~b.m.list /\ b.m.layers /= <<>> /\ StartsWith(img.entries[i].m, b.m, FALSE)
    => result = "ok"

\* A config is an image's, and of a list with the host's own platform it is of an entry for that platform.
ConfigForHost(m, p, img) ==
    /\ img /= <<>> => ~img[1].list /\ img[1] \in Images(m)
    /\ m.list /\ (\E i \in DOMAIN m.entries : m.entries[i].plat = <<p>>) /\ (\A i \in DOMAIN m.entries : ~m.entries[i].m.list)
        => \E i \in DOMAIN m.entries : m.entries[i].plat /= <<>> /\ Match(m.entries[i].plat[1], p) /\ <<m.entries[i].m>> = img
=============================================================================

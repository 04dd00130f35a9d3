------------------------------ MODULE Manifest ------------------------------
(***************************************************************************)
(* types/manifest: a manifest is made from what a registry sent, from a    *)
(* file of a layout or from a Go value, and changed by its setters; body,  *)
(* value and descriptor have to stay the same thing.                       *)
(*                                                                         *)
(* A body stands for its bytes: what the JSON says (its media type, "" if  *)
(* it names none, and its fields, "" where one is absent) and its form,    *)
(* "compact" for what json.Marshal writes, "broken" if it is not JSON.  A  *)
(* digest is the algorithm and the body it is of, a size is the body it is *)
(* the length of.  Lists of descriptors are the family of their first.     *)
(***************************************************************************)
EXTENDS Integers, Sequences, FiniteSets

Kinds == {"d1", "d1s", "d2", "d2l", "o1", "o1l", "o1a"}
AllFields == {"fs", "note", "config", "layers", "manifests", "blobs", "subject"}

\* The fields of the Go struct of each media type.
Fields ==
    [d1 |-> {"fs"}, d1s |-> {"fs"}, d2 |-> {"note", "config", "layers"}, d2l |-> {"note", "manifests"},
     o1 |-> {"note", "config", "layers", "subject"}, o1l |-> {"note", "manifests", "subject"},
     o1a |-> {"note", "blobs", "subject"}]

Schema(kind) == IF kind \in {"d1", "d1s"} THEN 1 ELSE 2
Only(has, kind) == [f \in AllFields |-> IF f \in Fields[kind] THEN has[f] ELSE ""]

Body(kind, mt, has, form) == [schema |-> Schema(kind), mt |-> mt, signed |-> kind = "d1s", has |-> Only(has, kind), form |-> form]
NoBody == [schema |-> 0, mt |-> "", signed |-> FALSE, has |-> [f \in AllFields |-> ""], form |-> ""]
Canonical(b) == [b EXCEPT !.signed = FALSE, !.form = "canonical"]

Orig(kind, mt, has, canonical) == [kind |-> kind, mt |-> mt, has |-> Only(has, kind), canonical |-> canonical]
NoOrig == Orig("d1", "", NoBody.has, NoBody)

\* MarshalJSON of a signed manifest has a pointer receiver, which a value in an interface does not reach: no signatures.
Marshal(orig) == [Body(orig.kind, orig.mt, orig.has, "compact") EXCEPT !.signed = FALSE]

Unmarshals(b, kind) == b.form /= "broken" /\ (kind = "d1s" => b.signed)
Unmarshal(b, kind) ==
    Orig(kind, b.mt, b.has, IF kind = "d1s" THEN Canonical(b) ELSE NoBody)

Digest(algo, b) == [algo |-> algo, of |-> b]
NoDigest == Digest("", NoBody)
BadDigest == Digest("bad", NoBody)
Desc(mt, digest, size, algo) == [mt |-> mt, digest |-> digest, size |-> size, algo |-> algo]
NoDesc == Desc("", NoDigest, NoBody, "")

DigestAlgo(d) ==
    IF d.digest \notin {NoDigest, BadDigest} THEN d.digest.algo
    ELSE IF d.algo /= "" THEN d.algo ELSE "sha256"

Made(ok, m) == [ok |-> ok, m |-> m]
ManifestOf(kind, desc, set, raw, orig) == [kind |-> kind, desc |-> desc, set |-> set, raw |-> raw, orig |-> orig]
Failed == Made(FALSE, ManifestOf("d1", NoDesc, FALSE, NoBody, NoOrig))

VerifyMT(expected, received) == received \in {"", expected}

\* Not what the code does: the digest of a signed manifest covers its signatures.
HashedAll(raw, orig) == raw

\* What the digest is of: the signatures of schema 1 are left out.
Hashed(raw, orig) == IF orig.kind = "d1s" THEN orig.canonical ELSE raw

\* fromOrig: the digest is that of the marshalled value even if a body is given too, and a size given is kept.
FromOrig(desc, raw, orig) ==
    LET mj == Marshal(orig)
        d == Desc(orig.kind, Digest(DigestAlgo(desc), Hashed(mj, orig)), IF desc.size = NoBody THEN mj ELSE desc.size, desc.algo)
    IN  IF VerifyMT(orig.kind, orig.mt) /\ desc.digest \in {NoDigest, d.digest}
        THEN Made(TRUE, ManifestOf(orig.kind, d, TRUE, IF raw = NoBody THEN mj ELSE raw, orig)) ELSE Failed

\* The media type of a body that comes without one.
DuckType(b) ==
    CASE b.form = "broken" -> ""
      [] b.mt /= "" -> b.mt
      [] b.schema = 1 -> IF b.signed THEN "d1s" ELSE "d1"
      [] b.has.manifests /= "" -> IF b.has.manifests = "docker" THEN "d2l" ELSE "o1l"
      [] b.has.layers /= "" -> IF b.has.layers = "docker" THEN "d2" ELSE "o1"
      [] OTHER -> ""

FromCommon(desc, raw) ==
    LET kind == IF desc.mt = "" /\ raw /= NoBody THEN DuckType(raw) ELSE desc.mt
        orig == Unmarshal(raw, kind)
        hashed == Hashed(raw, orig)
        d == IF raw = NoBody THEN desc ELSE Desc(kind, Digest(DigestAlgo(desc), hashed), hashed, desc.algo)
    IN  IF kind \notin Kinds \/ (raw /= NoBody /\ ~Unmarshals(raw, kind)) THEN Failed
        ELSE IF VerifyMT(kind, orig.mt) /\ desc.digest \in {NoDigest, d.digest}
        THEN Made(TRUE, ManifestOf(kind, d, raw /= NoBody, raw, orig)) ELSE Failed

\* The first digest there is: of the descriptor, of the reference, of the headers.
FirstDigest(o) ==
    IF o.desc.digest /= NoDigest THEN o.desc.digest
    ELSE IF o.ref /= NoDigest THEN o.ref
    ELSE IF o.head.digest = BadDigest THEN NoDigest ELSE o.head.digest

\* New: o has a descriptor, the digest of the reference, headers, a body and a value, each possibly absent.
New(o) ==
    LET desc == [o.desc EXCEPT !.digest = FirstDigest(o), !.mt = IF @ = "" THEN o.head.mt ELSE @,
                               !.size = IF @ = NoBody THEN o.head.size ELSE @]
    IN  IF o.desc.digest = NoDigest /\ o.ref = BadDigest THEN Failed
        ELSE IF o.orig /= NoOrig THEN FromOrig(desc, o.raw, o.orig) ELSE FromCommon(desc, o.raw)
-----------------------------------------------------------------------------
(* Setters: schema 1 has none but SetOrig.                                 *)

UpdateDesc(m, orig) ==
    LET b == Marshal(orig)
        hashed == Hashed(b, orig)
    IN  ManifestOf(m.kind, Desc(m.kind, Digest(DigestAlgo(m.desc), hashed), hashed, ""), TRUE, b, orig)

\* SetAnnotation, SetConfig, SetLayers, SetManifestList and SetSubject: of a manifest that was only asked for by HEAD none.
SetField(m, f, v) ==
    IF m.set /\ f \in Fields[m.kind] \ {"fs"} THEN Made(TRUE, UpdateDesc(m, [m.orig EXCEPT !.has[f] = v]))
    ELSE Made(FALSE, m)

SetOrig(m, orig) ==
    IF orig.kind = m.kind THEN Made(TRUE, UpdateDesc(m, [orig EXCEPT !.mt = m.kind])) ELSE Made(FALSE, m)

\* OCIManifestFromAny, OCIIndexFromAny and back: Docker's schema 2 has all the fields but the subject.
OciKind == [d2 |-> "o1", d2l |-> "o1l", o1 |-> "o1", o1l |-> "o1l"]
OCIFromAny(orig) ==
    IF orig.kind = OciKind[orig.kind] THEN orig ELSE Orig(OciKind[orig.kind], OciKind[orig.kind], orig.has, NoBody)
OCIToAny(oci, orig) ==
    IF orig.kind = oci.kind THEN oci ELSE [orig EXCEPT !.has = Only(oci.has, orig.kind)]
-----------------------------------------------------------------------------
(* What should hold.                                                       *)

\* The digest of a manifest is that of its body, or of what is signed of it.
DigestFits(m) ==
    m.set => m.desc.digest.of = IF m.kind /= "d1s" THEN m.raw ELSE IF m.raw.signed THEN Canonical(m.raw) ELSE m.orig.canonical

SizeFits(m) == m.set => m.desc.size = m.desc.digest.of

\* The media type of the descriptor is the one the body gives.
TypeFits(m) == m.desc.mt = m.kind /\ m.raw.mt \in {"", m.kind}

\* Nothing but what was asked for is taken.
AsAsked(o, m) == FirstDigest(o) /= NoDigest => m.desc.digest = FirstDigest(o)

NoOpts == [desc |-> NoDesc, ref |-> NoDigest, head |-> NoDesc, raw |-> NoBody, orig |-> NoOrig]

\* Whoever reads the body again gets the same manifest, with the descriptor, as an answer of a registry, and on its
\* own if it names its type; a signed one has to have its signatures.
ReadsBack(m) ==
    m.set /\ (m.kind = "d1s" => m.raw.signed) =>
        \A o \in {[NoOpts EXCEPT !.raw = m.raw, !.desc = Desc(m.desc.mt, m.desc.digest, NoBody, "")],
                  [NoOpts EXCEPT !.raw = m.raw, !.ref = m.desc.digest, !.head = Desc(m.desc.mt, m.desc.digest, m.raw, "")]}
                 \cup (IF m.raw.mt = "" THEN {} ELSE {[NoOpts EXCEPT !.raw = m.raw, !.ref = m.desc.digest]}) :
            LET r == New(o) IN r.ok /\ r.m.orig = m.orig /\ r.m.desc.digest = m.desc.digest /\ r.m.kind = m.kind

\* A change made by way of OCI's types is as if it was made to the value, if the type has the field.
ConvertsBack(m) ==
    m.kind \in DOMAIN OciKind =>
        /\ OCIToAny(OCIFromAny(m.orig), m.orig) = m.orig
        /\ \A f \in Fields[m.kind] :
            OCIToAny([OCIFromAny(m.orig) EXCEPT !.has[f] = "oci"], m.orig) = [m.orig EXCEPT !.has[f] = "oci"]
=============================================================================

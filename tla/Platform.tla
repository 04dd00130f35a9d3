------------------------------ MODULE Platform ------------------------------
(***************************************************************************)
(* types/platform and the searches of types/descriptor: which image of an  *)
(* index a host is given.                                                  *)
(*                                                                         *)
(* A platform string is the sequence of its parts.  A version is the       *)
(* sequence of its numbers; a negative one is a part that is not a number. *)
(* OSFeatures stands for both lists of features, which are only compared.  *)
(***************************************************************************)
EXTENDS Integers, Sequences, FiniteSets, SequencesExt, TLC

Plat(os, arch, variant, ver) ==
    [OS |-> os, Architecture |-> arch, Variant |-> variant, OSVersion |-> ver, OSFeatures |-> <<>>]

\* The version "" has one part, which is not a number.
NoVersion == <<-1>>

Zero == Plat("", "", "", NoVersion)

KnownArch(a) == a \in {"386", "amd64", "i386", "x86_64", "arm", "armhf", "armel", "arm64", "aarch64", "s390x", "wasm"}

\* The number of a variant: strconv.Atoi after a leading v is cut.
VariantVer(v) ==
    CASE v \in {"1", "v1"} -> 1 [] v \in {"2", "v2"} -> 2 [] v \in {"3", "v3"} -> 3 [] v \in {"5", "v5"} -> 5
      [] v \in {"6", "v6"} -> 6 [] v \in {"7", "v7"} -> 7 [] v \in {"8", "v8"} -> 8 [] OTHER -> 0

Normalize(p) ==
    LET v == p.Variant
        As(arch, variant) == [p EXCEPT !.OS = IF @ = "macos" THEN "darwin" ELSE @, !.Architecture = arch, !.Variant = variant]
        a == p.Architecture
    IN  CASE a = "i386" -> As("386", "")
          [] a \in {"x86_64", "amd64"} -> As("amd64", IF v = "v1" THEN "" ELSE v)
          [] a \in {"aarch64", "arm64"} -> As("arm64", IF v \in {"8", "v8"} THEN "" ELSE v)
          [] a = "armhf" -> As("arm", "v7")
          [] a = "armel" -> As("arm", "v6")
          [] a = "arm" -> As("arm", CASE v \in {"", "7"} -> "v7" [] v = "5" -> "v5" [] v = "6" -> "v6"
                                      [] v = "8" -> "v8" [] OTHER -> v)
          [] OTHER -> As(a, v)

VariantCompatible(host, target) ==
    \/ VariantVer(host) >= VariantVer(target)
    \/ VariantVer(host) = 1 /\ target = ""
    \/ host = "" /\ VariantVer(target) = 1

OsVerSemver(v) == IF Len(v) < 4 THEN v ELSE SubSeq(v, 1, 3)
OsVerCompatible(host, target) == host = NoVersion \/ OsVerSemver(host) = OsVerSemver(target)

\* -1, 0 or 1, from the first parts that differ; an a that b continues is taken for equal.
SemverCmp(a, b) ==
    LET n == IF Len(a) < Len(b) THEN Len(a) ELSE Len(b)
        \* the first i at which the loop returns, n + 1 where b ends first
        stop == {i \in 1 .. n : a[i] /= b[i] \/ a[i] < 0} \cup (IF Len(b) < Len(a) THEN {n + 1} ELSE {})
        i == CHOOSE k \in stop : \A j \in stop : k <= j
    IN  CASE stop = {} -> 0
          [] stop /= {} /\ i = n + 1 -> 1
          [] OTHER -> IF a[i] < 0 /\ b[i] < 0 THEN 0 ELSE IF a[i] < b[i] THEN -1 ELSE 1

Same(p, q, fields) == \A f \in fields : p[f] = q[f]

\* compare.Compatible: a host that is not linux may run linux in a virtual machine.
CompatibleNormal(h, t) ==
    LET cpu == h.Architecture = t.Architecture /\ VariantCompatible(h.Variant, t.Variant)
    IN  CASE h.OS = "linux" -> h.OS = t.OS /\ cpu
          [] h.OS = "windows" -> \/ t.OS = "windows" /\ cpu /\ OsVerCompatible(h.OSVersion, t.OSVersion)
                                 \/ t.OS = "linux" /\ cpu
          [] h.OS = "darwin" -> t.OS \in {"darwin", "linux"} /\ cpu
          [] OTHER -> cpu /\ Same(h, t, {"OS", "OSVersion", "OSFeatures"})

Compatible(host, target) == CompatibleNormal(Normalize(host), Normalize(target))

\* compare.Match
MatchNormal(h, t) ==
    /\ Same(h, t, {"OS", "Architecture", "Variant"})
    /\ CASE h.OS = "linux" -> TRUE
         [] h.OS = "windows" -> OsVerSemver(h.OSVersion) = OsVerSemver(t.OSVersion)
         [] OTHER -> Same(h, t, {"OSVersion", "OSFeatures"})

Match(a, b) == MatchNormal(Normalize(a), Normalize(b))

\* Not what the code does: the later of two versions whatever the host's own.
BetterNewest(host, target, prev) ==
    Compatible(host, target) /\ (Match(target, prev) \/ SemverCmp(prev.OSVersion, target.OSVersion) <= 0)

\* compare.Better: where target and prev differ the host's own value wins, then the higher version.
BetterNormal(h, t, p) ==
    LET Decides(f) == p[f] /= t[f] /\ h[f] \in {p[f], t[f]}
        Wins(f) == t[f] = h[f]
        vers == VariantVer(t.Variant) - VariantVer(p.Variant)
    IN  CASE Decides("OS") -> Wins("OS")
          [] ~Decides("OS") /\ Decides("Architecture") -> Wins("Architecture")
          [] OTHER ->
                CASE Decides("Variant") -> Wins("Variant")
                  [] ~Decides("Variant") /\ vers /= 0 -> vers > 0
                  [] OTHER -> IF Decides("OSVersion") THEN Wins("OSVersion")
                              ELSE SemverCmp(p.OSVersion, t.OSVersion) < 0

Better(host, target, prev) ==
    Compatible(host, target) /\ BetterNormal(Normalize(host), Normalize(target), Normalize(prev))
-----------------------------------------------------------------------------
\* What the local platform adds to a platform; the architecture is only added to a short one, of one part.
IsShort(p, n, local) ==
    /\ p.OS \in {"linux", "darwin", "windows"} /\ n < 2
    /\ Compatible(Plat(local.OS, "", "", NoVersion), Plat(p.OS, "", "", NoVersion))
FillIn(p, short, local) ==
    LET arch == IF short /\ p.Architecture = "" THEN local.Architecture ELSE p.Architecture
        variant == IF short /\ arch = local.Architecture /\ p.Variant = "" THEN local.Variant ELSE p.Variant
        isLocal == /\ p.OS = "windows" /\ p.OS = local.OS /\ arch = local.Architecture
                   /\ VariantCompatible(local.Variant, variant) /\ p.OSVersion = NoVersion
    IN  [p EXCEPT !.Architecture = arch, !.Variant = variant, !.OSVersion = IF isLocal THEN local.OSVersion ELSE @]

\* Parse, on a machine of platform local; what comes after a comma is the version.
Parse(parts, ver, local) ==
    LET n == Len(parts)
        archOnly == n = 1 /\ KnownArch(parts[1])
        named == Plat(IF archOnly THEN "" ELSE parts[1],
                      IF archOnly THEN parts[1] ELSE IF n >= 2 THEN parts[2] ELSE "",
                      IF n >= 3 THEN parts[3] ELSE "", ver)
        here == IF parts = <<"local">> /\ ver = NoVersion THEN local
                ELSE [named EXCEPT !.OS = IF @ \in {"local", ""} THEN local.OS ELSE @]
    IN  FillIn(Normalize(here), IsShort(Normalize(here), n, local), local)

\* Platform.String, which leaves the version out.
String(p) ==
    LET n == Normalize(p)
    IN  IF n.OS = "" THEN <<"unknown">> ELSE SelectSeq(<<n.OS, n.Architecture, n.Variant>>, LAMBDA s : s /= "")

\* imagePlatformInList; list holds parsed platforms, and <<>> for an empty entry.
ImagePlatformInList(target, list) ==
    IF target = <<>> \/ (target /= <<>> /\ target[1].OS = "") THEN \E i \in DOMAIN list : list[i] = <<>>
    ELSE \E i \in DOMAIN list : list[i] /= <<>> /\ Match(target[1], list[i][1])
-----------------------------------------------------------------------------
(* Descriptors, of which platform (none or one), artifact type and         *)
(* annotations (a set of pairs) are kept; "" matches everything.           *)

AnnotationOf(d, k) == {a[2] : a \in {b \in d.annot : b[1] = k}}

DescMatch(d, opt) ==
    /\ opt.type /= "" => d.type = opt.type
    /\ \A a \in opt.annot : AnnotationOf(d, a[1]) /= {} /\ (a[2] /= "" => AnnotationOf(d, a[1]) = {a[2]})
    /\ opt.plat /= <<>> => d.plat /= <<>> /\ Compatible(opt.plat[1], d.plat[1])

\* Sorted by an annotation (its values are numbers here), the ones without it last.
SortLess(d, e, opt) ==
    LET x == AnnotationOf(d, opt.sort)
        y == AnnotationOf(e, opt.sort)
        First(S) == CHOOSE v \in S : TRUE
    IN  /\ x /= {}
        /\ \/ y = {}
           \/ y /= {} /\ (IF First(x) < First(y) THEN ~opt.desc ELSE opt.desc)

DescriptorListFilter(dl, opt) ==
    LET ret == SelectSeq(dl, LAMBDA d : DescMatch(d, opt))
    IN  IF opt.sort = "" THEN ret ELSE SortSeq(ret, LAMBDA d, e : SortLess(d, e, opt))

\* The index of dl found, a sequence of none or one descriptor.
BestOf(some, opt) ==
    LET Step(best, d) ==
            IF d.plat /= <<>> /\ Better(opt.plat[1], d.plat[1], IF best = <<>> THEN Zero ELSE best[1].plat[1])
            THEN <<d>> ELSE best
    IN  IF some = <<>> THEN <<>>
        ELSE IF opt.plat = <<>> THEN <<some[1]>>
        ELSE FoldLeft(Step, <<>>, some)

DescriptorListSearch(dl, opt) ==
    BestOf(IF opt.type /= "" \/ opt.sort /= "" \/ opt.annot /= {} THEN DescriptorListFilter(dl, opt) ELSE dl, opt)
-----------------------------------------------------------------------------
(* What they should do.                                                    *)

\* A search finds an entry if one is compatible, and none that is better is passed over.
BestFound(host, dl, found) ==
    LET fit == {d \in Range(dl) : d.plat /= <<>> /\ Compatible(host, d.plat[1])}
    IN  /\ found = <<>> <=> fit = {}
        /\ found /= <<>> => found[1] \in fit /\ \A d \in fit : ~Better(host, d.plat[1], found[1].plat[1])

\* A host's own platform, where the index has it, is the one found.
OwnFound(host, dl, found) ==
    (\E d \in Range(dl) : d.plat = <<host>>) => found /= <<>> /\ Match(host, found[1].plat[1])

\* What is printed for a platform with an architecture names the same platform again, its version aside.
StringParses(p, local) ==
    p.OS /= "" /\ p.Architecture /= "" =>
        LET q == Parse(String(p), p.OSVersion, local) IN Match(p, q) \/ p.OS = "windows"

MatchIsSymmetric(p, q) == Match(p, q) <=> Match(q, p)
MatchIsCompatible(p, q) == Match(p, q) => \A h \in {p, q} : Compatible(h, p) /\ Compatible(h, q)

\* A filter returns what matches, in the order asked for.
FilterSorted(dl, opt, ret) ==
    LET Value(d) == AnnotationOf(d, opt.sort)
        InOrder(x, y) == \A v \in x, w \in y : IF opt.desc THEN v >= w ELSE v <= w
    IN  /\ \A d \in Range(dl) : Cardinality({i \in DOMAIN ret : ret[i] = d}) =
                    IF DescMatch(d, opt) THEN Cardinality({i \in DOMAIN dl : dl[i] = d}) ELSE 0
        /\ opt.sort /= "" => \A i, j \in DOMAIN ret : i < j =>
                /\ Value(ret[i]) = {} => Value(ret[j]) = {}
                /\ InOrder(Value(ret[i]), Value(ret[j]))
=============================================================================

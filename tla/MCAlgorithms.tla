---------------------------- MODULE MCAlgorithms ----------------------------
(***************************************************************************)
(* The pure algorithms, each over a bounded set of inputs: a state is one  *)
(* input, and the invariants compare what the code computes with what it   *)
(* should.                                                                 *)
(***************************************************************************)
EXTENDS Integers, Sequences, FiniteSets, SequencesExt, TLC

CONSTANTS MaxOptions, \* length of a sequence of mod options
          MaxLines,   \* length of a text to compare
          MaxTime,    \* end of a cache's time
          MaxSets     \* changes made to a manifest

VARIABLES topic, in

vars == <<topic, in>>

D == INSTANCE ModDag
T == INSTANCE ImageTar
P == INSTANCE Platform
F == INSTANCE Diff
B == INSTANCE ImageBase
C == INSTANCE Cache
M == INSTANCE Manifest
H == INSTANCE Hosts
-----------------------------------------------------------------------------
(* Images for mod.Apply.                                                   *)

File(name, late, user) == [name |-> name, late |-> late, user |-> user]
Hist(by) == [empty |-> FALSE, by |-> by, late |-> TRUE]
Arg == [empty |-> TRUE, by |-> "ARG", late |-> TRUE]

Image(fam, layers, hist) ==
    [kind |-> "image", fam |-> fam, cfgfam |-> fam, annot |-> {"c"}, subject |-> <<>>, layers |-> layers,
     cfg |-> [hist |-> hist, diffs |-> [i \in DOMAIN layers |-> layers[i].blob.files],
              labels |-> {"x"}, env |-> <<<<"PATH", "p">>>>, late |-> TRUE, cmd |-> "", entrypoint |-> "",
              plat |-> "amd64", ports |-> {"22"}, volumes |-> {"w"}]]

OldBase(fam) == Image(fam, <<D!LayerDesc(fam, {File("os", TRUE, TRUE)}, "gzip")>>, <<Hist("base")>>)
NewBase(fam) == Image(fam, <<D!LayerDesc(fam, {File("os", FALSE, TRUE)}, "gzip"),
                             D!LayerDesc(fam, {File("lib", TRUE, FALSE)}, "gzip")>>,
                      <<Hist("base"), Arg, Hist("lib")>>)

\* An image on the old base; the last layer holds one file, which a step may strip.
App(fam, arch) ==
    Image(fam, OldBase(fam).layers \o
               <<D!LayerDesc(fam, {File("f", TRUE, TRUE), File(arch, TRUE, FALSE)}, "gzip"),
                 D!LayerDesc(fam, {File("f", FALSE, FALSE)}, "gzip")>>,
          <<Hist("base"), Arg, Hist("RUN arg"), Hist("COPY"), Arg>>)

External(fam) ==
    [App(fam, "amd64") EXCEPT !.layers[1].urls = TRUE, !.layers[1].mt.foreign = TRUE]

Artifact(subject) ==
    [kind |-> "artifact", fam |-> "oci", cfgfam |-> "oci", annot |-> {}, subject |-> subject,
     layers |-> <<D!LayerDesc("oci", {File("sig", FALSE, FALSE)}, "none")>>, cfg |-> D!NoConfig]

Entry(m, ref) == [m |-> m, ref |-> ref]

IndexOf(fam) ==
    [kind |-> "index", fam |-> fam, annot |-> {}, subject |-> <<>>,
     manifests |-> <<Entry(App(fam, "amd64"), <<>>), Entry(App(fam, "arm64"), <<>>),
                     Entry(Artifact(<<>>), <<App(fam, "amd64")>>)>>]

PlainIndex == [IndexOf("oci") EXCEPT !.manifests = SubSeq(@, 1, 2)]

ModOptions == {"annotation", "annotation all", "annotation rm", "annotation base", "promote common", "label to annotation",
    "to docker", "to oci", "to oci referrers", "external urls rm", "rebase", "layer add",
    "layer rm created by", "layer rm index"}
    \cup D!ConfigOptions \cup D!FileOptions \cup D!Compressions

ModInputs ==
    LET fams == {"docker", "oci"}
        Of(fam, m, refs) == [m |-> m, refs |-> refs, old |-> OldBase(fam), new |-> NewBase(fam)]
        trees == UNION {{Of(fam, App(fam, "amd64"), <<Artifact(<<App(fam, "amd64")>>)>>),
                         Of(fam, External(fam), <<>>),
                         Of(fam, IndexOf(fam), <<Artifact(<<App(fam, "arm64")>>), Artifact(<<IndexOf(fam)>>)>>)}
                        : fam \in fams} \cup {Of("oci", Artifact(<<>>), <<>>), Of("oci", PlainIndex, <<>>)}
        opts == UNION {[1 .. k -> ModOptions] : k \in 0 .. MaxOptions}
    IN  {[m |-> t.m, refs |-> t.refs, old |-> t.old, new |-> t.new, opts |-> o, same |-> s] :
            t \in trees, o \in opts, s \in BOOLEAN}
-----------------------------------------------------------------------------
(* Images for ImageExport and ImageImport: g1 is what compressing p1 gives,*)
(* h1 another compression of it.                                           *)

Layer(plain, gzip) == [kind |-> "layer", plain |-> plain, gzip |-> gzip]
ImageObj(config, layers) ==
    [kind |-> "image", config |-> T!Desc(config, "config"), layers |-> [i \in DOMAIN layers |-> T!Desc(layers[i], "layer")]]
IndexObj(manifests) == [kind |-> "index", manifests |-> manifests]

Obj ==
    [p1 |-> Layer("p1", "g1"), g1 |-> Layer("p1", "g1"), h1 |-> Layer("p1", "g1"),
     p2 |-> Layer("p2", "g2"), g2 |-> Layer("p2", "g2"),
     c1 |-> [kind |-> "config"], c2 |-> [kind |-> "config"],
     m1 |-> ImageObj("c1", <<"g1", "g2">>), m2 |-> ImageObj("c1", <<"h1">>), m3 |-> ImageObj("c2", <<"h1", "g2">>),
     m4 |-> ImageObj("c1", <<"h1", "h1">>),
     m5 |-> ImageObj("c1", <<"h1", "g1", "g2">>),
     x1 |-> IndexObj(<<T!Desc("m2", "image"), T!Desc("m4", "image")>>),
     x2 |-> IndexObj(<<T!Desc("x3", "index")>>),
     x3 |-> IndexObj(<<T!Desc("m2", "image")>>),
     x4 |-> IndexObj(<<T!Desc("m2", "image"), T!Desc("x3", "index")>>)]

Exported == {"m1", "m3", "m4", "x1", "x2", "x4"}

\* Two images in one layout.
Merged ==
    <<[T!Entry("file", T!IndexFile, T!NoBody) EXCEPT
        !.body.descs = <<[T!Desc("m2", "image") EXCEPT !.tag = "v0"], [T!Desc("m3", "image") EXCEPT !.tag = "v1"]>>],
      [T!Entry("file", T!LayoutFile, T!NoBody) EXCEPT !.body.version = "1.0.0"]>>
    \o [i \in 1 .. 5 |-> T!FileOf(<<"m2", "m3", "c2", "h1", "g2">>[i])]

\* What docker save writes: two images, and a link where a layer comes again.
Saved ==
    LET Of(name, d) == [T!Entry("file", name, T!NoBody) EXCEPT !.body.digest = d]
        v0 == T!DockerEntry("v0", <<"c2.json">>, <<<<"b", "layer.tar">>>>)
        v1 == T!DockerEntry("v1", <<"c1.json">>, <<<<"a", "layer.tar">>, <<"d", "layer.tar">>, <<"b", "layer.tar">>>>)
    IN  <<[T!Entry("file", T!DockerFile, T!NoBody) EXCEPT !.body.images = <<v0, v1>>],
          Of(<<"c1.json">>, "c1"), Of(<<"c2.json">>, "c2"), Of(<<"a", "layer.tar">>, "p1"), Of(<<"b", "layer.tar">>, "p2"),
          T!LinkTo(<<"d", "layer.tar">>, 1, <<"a", "layer.tar">>)>>

\* A tar is named by the image in it; of the tars with two images "v1" is asked for.
TarOf(t) ==
    IF t = "merged" THEN Merged ELSE IF t = "saved" THEN Saved
    ELSE SelectSeq(T!ImageExport(Obj, t, "v1").tw, LAMBDA e : e.type = "file")

Wanted == [t \in Exported \cup {"merged", "saved"} |-> IF t = "merged" THEN "m3" ELSE IF t = "saved" THEN "m5" ELSE t]

\* The entries of a tar in another order, the last one perhaps left out.
Orders(n) == Permutations(1 .. n) \cup {[i \in 1 .. n - 1 |-> f[i]] : f \in Permutations(1 .. n)}

TarInput(t, order) ==
    [tar |-> [i \in DOMAIN order |-> TarOf(t)[order[i]]], have |-> in.have, tag |-> "v1", digest |-> "",
     name |-> IF t = "saved" THEN "v1" ELSE ""]

\* The files that may be missing: with docker's manifest one of oci-layout and index.json is not needed.
Spare(t) ==
    CASE t = "merged" -> {T!BlobName("m2")}
      [] t = "saved" -> {<<"c2.json">>}
      [] OTHER -> IF Obj[t].kind = "image" THEN {T!LayoutFile, T!IndexFile, T!DockerFile} ELSE {}

Importable(t, i) == T!FileNames(TarOf(t)) \ T!FileNames(i.tar) \subseteq Spare(t)
-----------------------------------------------------------------------------
(* Platforms.                                                              *)

Platforms ==
    {P!Plat("linux", "amd64", v, P!NoVersion) : v \in {"", "v1", "v2", "v3"}}
    \cup {P!Plat("linux", "arm", v, P!NoVersion) : v \in {"", "6", "v7", "v8"}}
    \cup {P!Plat("linux", "armel", "", P!NoVersion), P!Plat("linux", "arm64", "v8", P!NoVersion)}
    \cup {P!Plat("windows", "amd64", "", v) : v \in {P!NoVersion, <<10, 0, 2>>, <<10, 0, 2, 5>>, <<10, 0, 2, -2>>, <<10, 0, 3, 1>>}}
    \cup {P!Plat("macos", "aarch64", "", P!NoVersion), P!Plat("freebsd", "amd64", "", <<13>>), P!Zero}

DescFor(plat, type, annot) == [plat |-> plat, type |-> type, annot |-> annot]
PlatDescs == {DescFor(<<p>>, "", {}) : p \in Platforms}

SortDescs == {DescFor(<<>>, t, a) : t \in {"", "sig"}, a \in {{}, {<<"created", 1>>}, {<<"created", 2>>}, {<<"created", 2>>, <<"k", 1>>}}}
Filters == [type : {"", "sig"}, annot : {{}, {<<"k", "">>}}, plat : {<<>>}, sort : {"", "created"}, desc : BOOLEAN]
-----------------------------------------------------------------------------
Init == topic = "none" /\ in = <<>>

Pick(t, Inputs) == topic = "none" /\ topic' = t /\ \E i \in Inputs : in' = i

PickMod == Pick("mod", ModInputs)

PickTar == Pick("tars", [of : DOMAIN Wanted, have : {{}, {"g1", "m2"}}])

PickOrder ==
    /\ topic = "tars" /\ topic' = "tar"
    /\ \E o \in Orders(Len(TarOf(in.of))) : in' = [of |-> in.of, have |-> in.have, order |-> o]

PickPlatforms ==
    \/ topic = "none" /\ topic' = "hosts" /\ \E h \in Platforms \ {P!Zero} : in' = [host |-> h, local |-> h]
    \/ topic = "hosts" /\ topic' = "platform" /\
            \E a, b, c \in PlatDescs \cup {DescFor(<<>>, "", {})} : in' = [host |-> in.host, dl |-> <<a, b, c>>]

PickFilter == Pick("filter", [dl : UNION {[1 .. k -> SortDescs] : k \in 0 .. 3}, opt : Filters])

\* Base images and what was built on them, or on their predecessor.
Amd64 == P!Plat("linux", "amd64", "", P!NoVersion)
Arm64 == P!Plat("linux", "arm64", "v8", P!NoVersion)
BaseAmd == B!ImageWith("bamd", <<"os1">>, <<"os", "env">>)
BaseArm == B!ImageWith("barm", <<"os2", "lib2">>, <<"os", "lib">>)
BaseList == B!ListWith("base", <<B!EntryOf(BaseAmd, <<Amd64>>), B!EntryOf(BaseArm, <<Arm64>>)>>)
Bases == [base |-> BaseList, single |-> BaseAmd, other |-> B!ImageWith("other", <<>>, <<>>)]

Built == {B!ImageWith("i1", <<"os1", "app">>, <<"os", "env", "app">>), B!ImageWith("i2", <<"os1", "app">>, <<"os", "ENV", "app">>),
          B!ImageWith("i3", <<"os2", "lib2", "app">>, <<"os", "lib", "app">>), B!ImageWith("i4", <<"os2">>, <<"os">>),
          B!ImageWith("i5", <<"os0", "app">>, <<"os">>)}
Annotated(m, a) == [m EXCEPT !.baseName = a[1], !.baseDigest = a[2]]
Annots == {<<"", "">>, <<"base", "">>, <<"base", "base">>, <<"single", "old">>}
BuiltLists == {B!ListWith("l", <<B!EntryOf(Annotated(x, c), <<Amd64>>), B!EntryOf(y, <<Arm64>>)>>) : x, y \in Built, c \in Annots}
Nested == {B!ListWith("n", <<B!EntryOf(l, <<Arm64>>), B!EntryOf(y, <<Amd64>>)>>) : l \in BuiltLists, y \in Built}
CheckOpts == [ref : {"", "base", "single", "other"}, digest : {"", "base"}, plat : {<<>>, <<"linux", "amd64">>, <<"linux", "s390x">>}, skip : BOOLEAN]

PickBase ==
    \/ Pick("built", {Annotated(m, a) : m \in Built \cup BuiltLists \cup Nested, a \in Annots})
    \/ topic = "built" /\ topic' = "base" /\ \E o \in CheckOpts : in' = [img |-> in, opt |-> o]

PickCache == Pick("cache", [c : {C!Empty}, conf : {C!New(age, count) : age \in 1 .. 2, count \in 1 .. 3}])

CacheStep ==
    topic = "cache" /\ UNCHANGED topic /\
        \E c \in C!Steps(in.c, in.conf, {"k1", "k2", "k3", "k4"}, MaxTime, 2) : in' = [in EXCEPT !.c = c]

\* Manifests: a body or a value, then the options of one of the callers of New, then setters.
Contents ==
    LET Of(fs, note, family) ==
            [f \in M!AllFields |-> CASE f = "fs" -> fs [] f = "note" -> note [] f \in {"layers", "manifests"} -> family [] OTHER -> ""]
    IN  {Of("", "", ""), Of("s", "a", "oci"), Of("s", "", "docker")}
Bodies ==
    {M!Body(k, mt, has, form) : k \in M!Kinds, mt \in {"", "o1a"}, has \in Contents, form \in {"given", "compact"}}
    \cup {M!Body(k, mt, has, "given") : k \in M!Kinds, mt \in M!Kinds, has \in Contents} \cup {M!Body("o1", "o1", M!NoBody.has, "broken")}
Origs == {M!Orig(k, mt, has, IF k = "d1s" THEN M!Canonical(M!Body(k, mt, has, "given")) ELSE M!NoBody) :
            k \in M!Kinds, mt \in {"", "o1", "d2l", "d1s"}, has \in Contents}
Other == M!Body("o1", "o1", [f \in M!AllFields |-> "other"], "given")
DigestsFor(b) == {M!NoDigest, M!BadDigest, M!Digest("sha256", Other)} \cup {M!Digest(a, x) : a \in {"sha256", "sha512"}, x \in {b, M!Canonical(b)}}
Types == M!Kinds \cup {"", "text"}

\* A registry's answer with or without a body, and a layout's file or its entry in the index.
Pulls(b) == {[M!NoOpts EXCEPT !.ref = r, !.head = M!Desc(t, h, b, ""), !.raw = x] :
                r \in DigestsFor(b), h \in DigestsFor(b), t \in Types, x \in {b, M!NoBody}}
Reads(b) == {[M!NoOpts EXCEPT !.ref = r, !.desc = M!Desc(t, d, b, ""), !.raw = x] :
                r \in {M!NoDigest, M!Digest("sha256", b)}, d \in DigestsFor(b) \ {M!NoDigest}, t \in Types, x \in {b, M!NoBody}}
Builds(o) == {[M!NoOpts EXCEPT !.orig = o, !.desc = d] :
                d \in {M!NoDesc, M!Desc(o.kind, M!NoDigest, M!NoBody, "sha512"), M!Desc("d2", M!NoDigest, Other, "sha512")}}

PickManifest ==
    \/ Pick("body", Bodies) \/ Pick("value", Origs)
    \/ topic = "body" /\ topic' = "new" /\ \E o \in Pulls(in) \cup Reads(in) : in' = o
    \/ topic = "value" /\ topic' = "new" /\ \E o \in Builds(in) : in' = o

\* A manifest made is changed; the algorithm it started with and the number of changes are kept.
ManifestStep ==
    \/ topic = "new" /\ topic' = "manifest" /\ M!New(in).ok
        /\ in' = [m |-> M!New(in).m, algo |-> M!DigestAlgo(M!New(in).m.desc), sets |-> 0]
    \/ topic = "manifest" /\ UNCHANGED topic /\ in.sets < MaxSets /\
        \E r \in {M!SetField(in.m, f, v) : f \in M!AllFields, v \in {"", "docker"}} \cup {M!SetOrig(in.m, o) : o \in Origs} :
            r.ok /\ in' = [in EXCEPT !.m = r.m, !.sets = @ + 1]

\* Host settings: options of regclient.New, a config.json of docker, and a host that asks a helper as time passes.
Reg == H!Name("", "reg", "")
HostEntries(name) ==
    LET e == [H!Unset EXCEPT !.Name = name]
    IN  {[e EXCEPT !.TLS = "disabled", !.RepoAuth = TRUE], [e EXCEPT !.User = "a", !.Pass = "p"],
         [e EXCEPT !.User = "b", !.Pass = "q", !.plain = "x"], [e EXCEPT !.CredHelper = "h", !.ReqConcurrent = -1],
         [e EXCEPT !.CredHelper = "g", !.User = "a", !.CredExpire = 2], [e EXCEPT !.Token = "t"], [e EXCEPT !.User = "c"],
         [e EXCEPT !.Hostname = H!DockerRegistry, !.APIOpts = [k |-> "v"]]}
HostOptions ==
    {[hosts |-> <<e>>] : e \in HostEntries(Reg) \cup {e \in HostEntries(H!DockerRegistryDNS) : e.User = ""}}
    \cup {[hosts |-> <<H!HostNewName(H!Name("https", "reg", "/"))>>],
          [hosts |-> <<H!Unset>>], [def |-> [H!Unset EXCEPT !.plain = "d", !.ReqConcurrent = 1]]}

DockerNames == {Reg, H!Name("http", "reg", "/"), H!Name("", "reg", "/team"), H!DockerRegistryAuth}
DockerAuths ==
    LET auth == [user |-> "a", pass |-> "p", token |-> "", ok |-> TRUE]
    IN  {auth, [auth EXCEPT !.user = "", !.pass = ""], [auth EXCEPT !.pass = "", !.token = "t"], [auth EXCEPT !.ok = FALSE]}
Maps(names, vals) == UNION {[S -> vals] : S \in {X \in SUBSET names : Cardinality(X) <= 2}}

PickHosts ==
    \/ Pick("options", {<<>>})
    \/ topic = "options" /\ UNCHANGED topic /\ Len(in) < 3 /\ \E o \in HostOptions : in' = Append(in, o)
    \/ Pick("docker", [auths : Maps(DockerNames, DockerAuths), helpers : Maps(DockerNames, {"h"}),
                       store : Maps({Reg, H!DockerRegistryAuth}, {"u"})])
    \/ Pick("cred", [h : {[H!HostNewName(Reg) EXCEPT !.CredHelper = c, !.CredExpire = x, !.User = "a", !.Pass = "p"] :
                            c \in {"", "h"}, x \in 0 .. 2},
                     now : {0}, cred : {<<"a", "p", "">>}, ok : {-1}, failed : {-1}])

\* The helper answers or fails; its last answer and the times of both are kept.
CredStep ==
    /\ topic = "cred" /\ UNCHANGED topic
    /\ \/ in.now < 2 * MaxTime /\ in' = [in EXCEPT !.now = @ + 1]
       \/ \E a \in {<<>>, <<"b", "q">>, <<"<token>", "t">>} :
            in' = [in EXCEPT !.h = H!GetCred(@, in.now, a),
                             !.cred = IF H!Asks(in.h, in.now) /\ a # <<>> THEN H!AnswerCred(a) ELSE @,
                             !.ok = IF H!Asks(in.h, in.now) /\ a # <<>> THEN in.now ELSE @,
                             !.failed = IF H!Asks(in.h, in.now) /\ a = <<>> THEN in.now ELSE @]

Texts == UNION {[1 .. k -> {"u", "v"}] : k \in 0 .. MaxLines}

PickDiff == Pick("diff", [a : Texts, b : Texts, conf : [a : 0 .. 2, b : 0 .. 1, full : BOOLEAN]])

Next == PickHosts \/ CredStep \/ PickManifest \/ ManifestStep \/ PickCache \/ CacheStep \/ PickBase \/ PickDiff \/ PickPlatforms \/ PickFilter \/ PickMod \/ PickTar \/ PickOrder

Spec == Init /\ [][Next]_vars
-----------------------------------------------------------------------------
AsPromised(out) ==
    ~out.err => /\ D!ReferrersFollow(in, out)
                /\ D!ExternalKept(in) \/ D!PushedBottomUp(in, out)
                /\ D!FilesMixed(in) \/ D!ImagesAreAsAsked(in, out)
                /\ D!Unsettled(in) \/ D!SecondTimeIsNoOp(in, out)

\* mod.Apply, whatever options it is given, when it succeeds: referrers follow; parts are pushed before what refers to
\* them, except the blob of a layer that was external (mod.go:130); layers, history and diff IDs are what the options ask
\* for, except where several steps change the content of one layer (mod.go:193 and 305); and a second call changes
\* nothing, except after a conversion with a change of a config or layer (dag.go:345), or labels made into annotations.
ModSound == topic = "mod" => AsPromised(D!Apply(in))

CameBack(i, trd, root) ==
    /\ T!PushedAfterContent(i, Obj, root, trd)
    /\ Importable(in.of, i) => trd.err = ""
    /\ trd.err = "" => /\ T!TaggedOnce(trd)
                       /\ IF Last(trd.puts).what = "docker" THEN T!SameDockerImage(i, Obj, root, trd)
                          ELSE Last(trd.puts).d = root /\ T!Closure(Obj, root) \subseteq trd.have

\* An image exported, or saved by docker, comes back from the tar whatever the order of its entries: a tag is moved last,
\* to the image asked for and with all it refers to at the target, and only if nothing is missing.  Each index and image
\* is pushed after what it refers to, except that an index may come before a manifest that another index lists too
\* (image.go:1697); and a layer file that docker's manifest names twice fills only its last place (image.go:1430).
TarSound ==
    /\ topic = "tars" /\ in.of \in Exported => T!ExportComplete(Obj, in.of, T!ImageExport(Obj, in.of, "v1").tw)
    /\ topic = "tar" =>
        LET i == TarInput(in.of, in.order) IN CameBack(i, T!ImageImport(i, Obj), Wanted[in.of])

FoundForHost(found) == P!BestFound(in.host, in.dl, found) /\ P!OwnFound(in.host, in.dl, found)
BaseChecked(result) ==
    B!UnchangedMeansSame(Bases, in.img, in.opt, result) /\ B!SameMeansUnchanged(Bases, in.img, in.opt, result)

\* The image a host is given from an index, and how platforms are named and compared; and ImageCheckBase, which compares
\* the images of a platform, says unchanged exactly when they start with their base.
PlatformSound ==
    /\ topic = "platform" =>
        FoundForHost(P!DescriptorListSearch(in.dl, [type |-> "", annot |-> {}, sort |-> "", desc |-> FALSE, plat |-> <<in.host>>]))
    /\ topic = "hosts" =>
        \A p \in Platforms : /\ P!StringParses(p, in.local) /\ P!MatchIsSymmetric(p, in.host)
                             /\ P!MatchIsCompatible(p, in.host)
    /\ topic = "filter" => P!FilterSorted(in.dl, in.opt, P!DescriptorListFilter(in.dl, in.opt))
    /\ topic = "base" => BaseChecked(B!ImageCheckBase(Bases, in.img, in.opt, Amd64))
    /\ topic = "built" => \A p \in {Amd64, Arm64} : B!ConfigForHost(in, p, B!ImageConfig(in, p))

\* Two texts compared: the changes make the one out of the other, are as few as can be, and are where the text says.
DiffSound ==
    topic = "diff" =>
        LET ops == F!MyersOperations(in.a, in.b)
        IN  /\ F!Patched(in.a, in.b, ops, 0) = in.b
            /\ F!Shortest(in.a, in.b, ops)
            /\ \A h \in Range(F!DiffOf(in.a, in.b, in.conf)) : F!HunkFits(h, in.a, in.b)

\* A cache keeps to its size, drops what was used longest ago, keeps what was just set (unless it may hold one entry
\* only, which it drops: cache.go:63), and forgets no entry.
CacheSound ==
    topic = "cache" => /\ C!Bounded(in.c, in.conf) /\ C!PruneComes(in.c, in.conf)
                       /\ C!OldestDropped(in.c) /\ C!NewestKept(in.c, in.conf)

\* A manifest is what was asked for, and its digest, media type and value those of its body, whatever is set; only the
\* size given with a value is kept as it is, and a signed manifest made from a value has the size of its own JSON.
ManifestSound ==
    /\ topic = "new" =>
        LET r == M!New(in)
        IN  r.ok => /\ M!AsAsked(in, r.m) /\ M!ConvertsBack(r.m)
                    /\ in.orig = M!NoOrig => M!SizeFits(r.m)
    /\ topic = "manifest" => /\ M!DigestFits(in.m) /\ M!TypeFits(in.m) /\ M!ReadsBack(in.m)
                             /\ in.m.set => M!DigestAlgo(in.m.desc) = in.algo
                             /\ in.sets > 0 => M!SizeFits(in.m) /\ M!ConvertsBack(in.m)

\* A setting of a registry is that of the last entry that gives one; credentials are never a mix of two entries; logins
\* of docker are found whatever the order of its maps; and the credential in use is the last a helper has given, which
\* is asked again when that one has expired, or soon after it has failed.
HostsSound ==
    /\ topic = "options" => \A n \in {Reg, H!DockerRegistry} : H!LastWins(in, n) /\ H!CredOfLast(in, n, <<"z", "s">>)
    /\ topic = "docker" => H!DockerSound(in)
    /\ topic = "cred" =>
        /\ H!CredOf(in.h) = in.cred
        /\ in.h.CredHelper # "" /\ ~H!Asks(in.h, in.now) =>
             \/ in.ok >= in.failed /\ in.now - in.ok <= in.h.CredExpire
             \/ in.failed > in.ok /\ in.now - in.failed <= H!DefaultRetry
=============================================================================

------------------------------- MODULE ModDag -------------------------------
(***************************************************************************)
(* mod.Apply: an image is pulled into a tree of manifests, configs and     *)
(* layers, the options change the tree, and dagPut pushes it bottom up.    *)
(*                                                                         *)
(* Content is addressed by its digest, so that here content is its own     *)
(* digest: a descriptor holds the content itself.  A layer is a set of     *)
(* files and a compression; its diff ID is the set of files.  Options that *)
(* select platforms, WithData and the digest algorithms are left out.      *)
(***************************************************************************)
EXTENDS Integers, Sequences, FiniteSets, SequencesExt

NoBlob  == [files |-> {}, comp |-> ""]      \* the digest ""
Drained == [files |-> {}, comp |-> "eof"]   \* what a reader at its end gives
NoType  == [fam |-> "", comp |-> "", foreign |-> FALSE]
NoDesc  == [mt |-> NoType, blob |-> NoBlob, urls |-> FALSE]

LayerDesc(fam, files, comp) ==
    [mt |-> [fam |-> fam, comp |-> comp, foreign |-> FALSE],
     blob |-> [files |-> files, comp |-> comp], urls |-> FALSE]

\* dagLayer; "uc" is <<>> or <<uncompressed digest>>, "from" a repository.
DagLayer(desc) == [mod |-> "unchanged", desc |-> desc, new |-> NoDesc, uc |-> <<>>, from |-> "src"]

NoConfig == [hist |-> <<>>, diffs |-> <<>>, labels |-> {}, env |-> <<>>, late |-> FALSE, cmd |-> "",
             entrypoint |-> "", plat |-> "", ports |-> {}, volumes |-> {}]

IsList(n) == n.m.kind = "index"
IsImage(n) == n.m.kind = "image"
Touch(mod) == IF mod = "unchanged" THEN "replaced" ELSE mod
Touched(n) == [n EXCEPT !.mod = Touch(@)]

\* dagGet: the tree of manifest m; refs are the manifests with a subject.  Only
\* configs of a known type are pulled.
RECURSIVE DagGet(_, _)
DagGet(m, refs) ==
    [mod |-> "unchanged", top |-> FALSE, err |-> FALSE, m |-> m, orig |-> m,
     config |-> IF m.kind = "image" THEN <<[modified |-> FALSE, oc |-> m.cfg, fam |-> m.cfgfam]>>
                ELSE <<>>,
     layers |-> IF m.kind = "index" THEN <<>> ELSE [i \in DOMAIN m.layers |-> DagLayer(m.layers[i])],
     manifests |-> IF m.kind = "index"
                   THEN [i \in DOMAIN m.manifests |-> DagGet(m.manifests[i].m, refs)] ELSE <<>>,
     referrers |-> LET rl == SelectSeq(refs, LAMBDA r : r.subject = <<m>>)
                   IN  [i \in DOMAIN rl |-> DagGet(rl[i], refs)]]

Failed(n) == [n EXCEPT !.err = TRUE]
-----------------------------------------------------------------------------
(* Steps on manifests; dagWalkManifests leaves the referrers out.          *)

WithAnnotation(n, a, all) ==
    IF n.mod = "deleted" \/ ~(all \/ n.top) \/ a \in n.m.annot THEN n
    ELSE Touched([n EXCEPT !.m.annot = @ \cup {a}])

\* The value "" takes the annotation away.
WithoutAnnotation(n, a) ==
    IF n.mod = "deleted" \/ ~n.top \/ a \notin n.m.annot THEN n
    ELSE Touched([n EXCEPT !.m.annot = @ \ {a}])

WithAnnotationOCIBase(n) ==
    IF n.mod = "deleted" \/ "base" \in n.m.annot THEN n
    ELSE Touched([n EXCEPT !.m.annot = @ \cup {"base"}])

WithAnnotationPromoteCommon(n) ==
    LET alive == {i \in DOMAIN n.manifests : n.manifests[i].mod # "deleted"}
        common == {a \in UNION {n.manifests[i].m.annot : i \in alive} :
                      \A i \in alive : a \in n.manifests[i].m.annot}
    IN  IF n.mod = "deleted" \/ ~IsList(n) \/ common \subseteq n.m.annot THEN n
        ELSE Touched([n EXCEPT !.m.annot = @ \cup common])

WithLabelToAnnotation(n) ==
    IF \/ n.mod = "deleted" \/ n.config = <<>>
       \/ n.config[1].oc.labels \subseteq n.m.annot THEN n
    ELSE Touched([n EXCEPT !.m.annot = @ \cup n.config[1].oc.labels])

\* The media types of a manifest, of its config and of its layers.
Convert(n, fam) ==
    LET m == n.m
        changed == \/ m.fam # fam
                   \/ ~IsList(n) /\ \/ IsImage(n) /\ m.cfgfam # fam
                                    \/ \E i \in DOMAIN m.layers : m.layers[i].mt.fam # fam
    IN  IF n.mod = "deleted" \/ ~changed THEN n
        ELSE IF IsList(n) THEN Touched([n EXCEPT !.m.fam = fam])
        ELSE Touched([n EXCEPT !.m.fam = fam,
                               !.m.cfgfam = IF IsImage(n) THEN fam ELSE @,
                               !.m.layers = [i \in DOMAIN @ |-> [@[i] EXCEPT !.mt.fam = fam]]])

WithManifestToDocker(n) ==
    IF n.m.kind = "artifact" /\ n.mod # "deleted" THEN Failed(n) ELSE Convert(n, "docker")

WithManifestToOCI(n) == Convert(n, "oci")

\* Entries of an index that docker marks as referring to another entry become
\* referrers of that entry, the last with its digest.  The code's map of digests has
\* the index too, whose own digest no entry of it can hold.
WithManifestToOCIReferrers(n) ==
    LET children == n.manifests
        Due(i) == children[i].mod \notin {"added", "deleted"} /\ n.m.manifests[i].ref # <<>>
        Named(i) == {k \in DOMAIN children : <<children[k].orig>> = n.m.manifests[i].ref}
        Subject(i) == {k \in Named(i) : \A x \in Named(i) : x <= k}
        due == {i \in DOMAIN children : Due(i)}
        Refer(i) == [children[i] EXCEPT !.mod = "added", !.m.annot = @ \cup {"docker"}]
        New(k) == SelectSeq([i \in DOMAIN children |-> i], LAMBDA i : i \in due /\ k \in Subject(i))
        Changed(k) ==
            [children[k] EXCEPT
                !.mod = IF k \in due THEN "deleted" ELSE @,
                !.referrers = @ \o [x \in DOMAIN New(k) |-> Refer(New(k)[x])]]
    IN  IF n.mod = "deleted" \/ ~IsList(n) \/ due = {} THEN n
        ELSE IF \E i \in due : Subject(i) = {} \/ children[i].m.fam = "docker" THEN Failed(n)
        ELSE Touched([n EXCEPT !.manifests = [k \in DOMAIN @ |-> Changed(k)]])

\* The URLs go from the manifest and, into newDesc, from the tree.
WithExternalURLsRm(n) ==
    LET Local(d) == IF d.urls THEN [d EXCEPT !.urls = FALSE, !.mt.foreign = FALSE] ELSE d
        Strip(l) == IF l.mod # "deleted" /\ l.new.blob = NoBlob /\ l.desc.urls
                    THEN [l EXCEPT !.new = [l.desc EXCEPT !.urls = FALSE]] ELSE l
    IN  IF n.mod = "deleted" \/ IsList(n) \/ (\A i \in DOMAIN n.m.layers : ~n.m.layers[i].urls) THEN n
        ELSE Touched([n EXCEPT !.m.layers = [i \in DOMAIN @ |-> Local(@[i])],
                               !.layers = [i \in DOMAIN @ |-> Strip(@[i])]])

NonEmpty(hist) == Cardinality({i \in DOMAIN hist : ~hist[i].empty})
IsAligned(m) == Len(m.layers) = Len(m.cfg.diffs) /\ Len(m.layers) = NonEmpty(m.cfg.hist)

SameDesc(d, e) == d.blob = e.blob /\ d.mt.comp = e.mt.comp

\* The first k layers of the tree that were not added go.
RECURSIVE Prune(_, _)
Prune(layers, k) ==
    IF k = 0 THEN layers
    ELSE IF Head(layers).mod = "added" THEN <<Head(layers)>> \o Prune(Tail(layers), k)
    ELSE Prune(Tail(layers), k - 1)

Drop(s, k) == SubSeq(s, k + 1, Len(s))

\* rebaseAddStep: the layers and the history of the old base must be where the
\* image begins; those of the new base take their place.
WithRebase(n, old, new) ==
    LET m == n.m
        oc == n.config[1].oc
        k == Len(old.layers)
        valid == /\ Len(old.layers) <= Len(m.layers)
                 /\ \A i \in DOMAIN old.layers : SameDesc(m.layers[i], old.layers[i])
                 /\ IsPrefix(old.cfg.hist, oc.hist)
                 /\ IsAligned(old)
                 /\ IsPrefix(old.cfg.diffs, oc.diffs)
                 /\ IsAligned(new)
        oc2 == [oc EXCEPT !.hist = new.cfg.hist \o Drop(@, Len(old.cfg.hist)),
                          !.diffs = new.cfg.diffs \o Drop(@, k)]
        add == [i \in DOMAIN new.layers |->
                  [DagLayer(new.layers[i]) EXCEPT !.uc = <<new.cfg.diffs[i]>>, !.from = "base"]]
    IN  IF n.mod = "deleted" \/ n.config = <<>> \/ old = new THEN n
        ELSE IF ~valid THEN Failed(n)
        ELSE Touched([n EXCEPT !.m.layers = new.layers \o Drop(@, k),
                               !.layers = add \o Prune(@, k),
                               !.config[1].oc = oc2, !.config[1].modified = TRUE])

\* The layer is pushed once, and the descriptor is shared by the manifests.
WithLayerAddTar(n, desc) ==
    IF n.mod = "deleted" \/ IsList(n) THEN n
    ELSE [n EXCEPT !.layers = Append(@, [DagLayer(desc) EXCEPT !.mod = "added",
                                                              !.uc = <<desc.blob.files>>])]

\* Positions of the layers that were not added.
Original(n) == SelectSeq([i \in DOMAIN n.layers |-> i], LAMBDA i : n.layers[i].mod # "added")

DeleteLayers(n, which) ==
    LET orig == Original(n)
    IN  IF \E k \in which : k > Len(orig) THEN Failed(n)
        ELSE [n EXCEPT !.layers = [i \in DOMAIN @ |->
                 IF \E k \in which : orig[k] = i THEN [@[i] EXCEPT !.mod = "deleted"] ELSE @[i]]]

\* The layers whose entry in the history matches.  Without a config, which the code
\* does not ask for before it looks into it (layer.go:349), it panics; here it fails.
WithLayerRmCreatedBy(n, by) ==
    LET filled == SelectSeq(n.config[1].oc.hist, LAMBDA h : ~h.empty)
        match == {i \in DOMAIN filled : filled[i].by = by}
    IN  IF IsList(n) THEN n
        ELSE IF n.config = <<>> THEN Failed(n)
        ELSE IF n.layers = <<>> \/ match = {} THEN Failed(n)
        ELSE DeleteLayers(n, match)

WithLayerRmIndex(n, k) ==
    IF ~n.top \/ IsList(n) \/ n.config = <<>> \/ n.layers = <<>> THEN Failed(n)
    ELSE DeleteLayers(n, {k})
-----------------------------------------------------------------------------
(* Steps on configs, and on the files of layers.                           *)

WithLabel(oc, l) == [oc EXCEPT !.labels = @ \cup {l}]
WithoutLabel(oc, l) == [oc EXCEPT !.labels = @ \ {l}]

\* An entry is replaced in place, appended, or with the value "" deleted.
WithEnv(oc, name, value) ==
    LET at == {i \in DOMAIN oc.env : oc.env[i][1] = name}
        first == CHOOSE i \in at : \A k \in at : i <= k
    IN  IF at = {} THEN [oc EXCEPT !.env = IF value = "" THEN @ ELSE Append(@, <<name, value>>)]
        ELSE IF value = "" THEN [oc EXCEPT !.env = RemoveAt(@, first)]
        ELSE [oc EXCEPT !.env[first] = <<name, value>>]

WithConfigCmd(oc, cmd) == [oc EXCEPT !.cmd = cmd]
WithConfigEntrypoint(oc, entrypoint) == [oc EXCEPT !.entrypoint = entrypoint]
WithConfigPlatform(oc, plat) == [oc EXCEPT !.plat = plat]
WithExposeAdd(oc, port) == [oc EXCEPT !.ports = @ \cup {port}]
WithExposeRm(oc, port) == [oc EXCEPT !.ports = @ \ {port}]
WithVolumeAdd(oc, volume) == [oc EXCEPT !.volumes = @ \cup {volume}]
WithVolumeRm(oc, volume) == [oc EXCEPT !.volumes = @ \ {volume}]

\* ARG entries go, and RUN entries forget the argument.
WithBuildArgRm(oc) ==
    [oc EXCEPT !.hist =
        LET kept == SelectSeq(@, LAMBDA h : ~(h.by = "ARG" /\ h.empty))
        IN  [i \in DOMAIN kept |-> IF kept[i].by = "RUN arg" THEN [kept[i] EXCEPT !.by = "RUN"]
                                   ELSE kept[i]]]

\* timeModOpt with Set = After: what is late is set back.
TimeModOpt(x) == [x EXCEPT !.late = FALSE]

\* The config itself, and its history from the entry after that of the last of
\* "base" layers on.
WithConfigTimestamp(oc, base) ==
    LET Count(i) == NonEmpty(SubSeq(oc.hist, 1, i))
        past == {i \in DOMAIN oc.hist : Count(i) = base}
        start == IF base = 0 THEN 0
                 ELSE IF past = {} THEN Len(oc.hist)
                 ELSE CHOOSE i \in past : \A k \in past : i <= k
    IN  [TimeModOpt(oc) EXCEPT
            !.hist = [i \in DOMAIN @ |-> IF i > start THEN TimeModOpt(@[i]) ELSE @[i]]]

WithLayerStripFile(f, name) == IF f.name = name THEN {} ELSE {f}
WithLayerReproducible(f) == {[f EXCEPT !.user = FALSE]}

\* layerGetBaseCount: the first layers of every image of the tree.
RECURSIVE LayerGetBaseCount(_, _)
LayerGetBaseCount(n, count) ==
    {n.layers[i].desc.blob : i \in {x \in DOMAIN n.layers : x <= count}} \cup
    UNION {LayerGetBaseCount(n.manifests[i], count) : i \in DOMAIN n.manifests}

WithLayerTimestamp(f, blob, base) == IF blob \in base THEN {f} ELSE {TimeModOpt(f)}

FileStep(o, f, blob, base) ==
    CASE o = "strip file" -> WithLayerStripFile(f, "f")
      [] o = "reproducible" -> WithLayerReproducible(f)
      [] o = "layer time" -> WithLayerTimestamp(f, blob, base)
-----------------------------------------------------------------------------
(* The walk over the layers.  w is [l, rdr, closes, puts, err]: the layer, *)
(* <<>> or <<content the reader will give>>, <<>> or <<the digest its      *)
(* Close will store>>, the blobs pushed or copied, and a failure.          *)

\* What the steps read and set: newDesc once it has a type, desc before.
CurDesc(l) == IF l.new.mt # NoType THEN l.new ELSE l.desc

\* WithLayerCompression: types it does not convert from are left alone.
WithLayerCompression(w, algo) ==
    LET d == CurDesc(w.l)
        out == [files |-> w.rdr[1].files, comp |-> algo]
    IN  IF d.mt.comp = algo \/ d.mt.foreign \/ w.l.mod = "deleted" THEN w
        ELSE [w EXCEPT !.l.mod = Touch(@),
                       !.l.new = [d EXCEPT !.mt.comp = algo, !.blob = NoBlob],
                       !.rdr = <<out>>, !.closes = <<out>>]

\* The files of a layer are unpacked, changed and, if one has changed, packed
\* again the way desc says; a reader that is not replaced is at its end.
FileSteps(w, opts, base) ==
    LET before == w.rdr[1].files
        after == FoldLeft(LAMBDA fs, o : UNION {FileStep(o, f, w.l.desc.blob, base) : f \in fs}, before, opts)
        d == CurDesc(w.l)
        blob == [files |-> after, comp |-> w.l.desc.mt.comp]
    IN  IF w.l.desc.mt.foreign \/ w.l.desc.mt = NoType THEN w
        ELSE IF after = {} THEN [w EXCEPT !.l.mod = "deleted", !.rdr = <<>>]
        ELSE IF after = before THEN [w EXCEPT !.rdr = <<Drained>>]
        ELSE [w EXCEPT !.l.new = [d EXCEPT !.blob = blob], !.l.uc = <<after>>,
                       !.l.mod = Touch(@), !.rdr = <<blob>>, !.closes = <<>>]

\* The blob is pushed, and its digest compared with the one of Close.
PushLayer(w) ==
    LET pushed == w.rdr[1]
        want == IF w.closes # <<>> THEN w.closes[1] ELSE w.l.new.blob
    IN  IF w.l.mod \in {"added", "replaced"} /\ w.rdr # <<>>
        THEN IF want \notin {NoBlob, pushed} THEN [w EXCEPT !.err = TRUE]
             ELSE [w EXCEPT !.l.new.blob = pushed, !.puts = @ \cup {pushed},
                            !.l.uc = IF w.closes # <<>> THEN <<pushed.files>> ELSE @]
        ELSE w

\* The walk, for a layer: compress are the algorithms and opts the file options that
\* were given, "has" the blobs of the repository the layer comes from.
WalkLayer(l, compress, opts, base, tgt, has) ==
    LET start == [l |-> l, rdr |-> <<>>, closes |-> <<>>, puts |-> {}, err |-> FALSE]
        readable == l.desc.blob \in has
        opened == [start EXCEPT !.rdr = <<l.desc.blob>>]
        w1 == IF compress = <<>> THEN start ELSE FoldLeft(WithLayerCompression, opened, compress)
        w2 == IF opts = <<>> THEN w1
              ELSE FileSteps(IF w1.rdr = <<>> THEN [w1 EXCEPT !.rdr = opened.rdr] ELSE w1, opts, base)
        w3 == PushLayer(w2)
    IN  IF l.mod = "deleted" \/ l.desc.urls THEN start
        ELSE IF compress \o opts # <<>> /\ ~readable THEN [start EXCEPT !.err = TRUE]
        ELSE IF w3.l.mod = "unchanged" /\ l.from # tgt
        THEN [w3 EXCEPT !.puts = @ \cup {l.desc.blob}, !.err = @ \/ ~readable]
        ELSE w3
-----------------------------------------------------------------------------
(* dagPut.                                                                 *)

InsertAt_(s, i, x) == SubSeq(s, 1, i - 1) \o <<x>> \o SubSeq(s, i, Len(s))
Without(s, i) == SubSeq(s, 1, i - 1) \o SubSeq(s, i + 1, Len(s))

\* Mutant: entries of the history that stand for no layer are not passed over.
SkipNone(hist, ic, by) == ic

\* The next entry of the history that stands for a layer; 0 without a history.
RECURSIVE SkipEmpty(_, _, _)
SkipEmpty(hist, ic, by) ==
    IF ic \in DOMAIN hist /\ hist[ic].empty THEN SkipEmpty(hist, ic + by, by) ELSE ic

\* First pass: layers are added or replaced, in step with diff IDs and history.
FirstPass(layers, a, i) ==
    LET l == layers[i]
        ic == SkipEmpty(a.hist, a.ic, 1)
        d == IF l.mod # "unchanged" /\ l.new.blob # NoBlob THEN l.new ELSE l.desc
        entry == [empty |-> FALSE, by |-> "regclient", late |-> TRUE]
        next == IF ic > 0 THEN ic + 1 ELSE 0
        short == l.mod # "added" /\ (i > Len(a.layers) \/ (ic > a.ic /\ ic > Len(a.hist)))
    IN  IF a.err \/ short THEN [a EXCEPT !.err = TRUE]
        ELSE IF l.mod = "deleted" THEN [a EXCEPT !.ic = next]
        ELSE IF l.mod = "added"
        THEN [a EXCEPT !.layers = InsertAt_(@, i, d),
                       !.diffs = IF a.nodiffs \/ Len(@) < i - 1 \/ (Len(a.layers) = i - 1 /\ Len(@) # i - 1)
                                 THEN @ ELSE InsertAt_(@, i, l.uc[1]),
                       !.hist = IF ic = 0 THEN @ ELSE InsertAt_(@, ic, entry),
                       !.ic = next, !.changed = TRUE]
        ELSE IF l.mod = "replaced"
        THEN [a EXCEPT !.layers[i] = d,
                       !.diffs = IF Len(@) >= i /\ l.uc # <<>> THEN [@ EXCEPT ![i] = l.uc[1]] ELSE @,
                       !.ic = next, !.changed = TRUE]
        ELSE [a EXCEPT !.ic = next]

\* Second pass, backwards: entries are deleted.
SecondPass(layers, a, i) ==
    LET ic == SkipEmpty(a.hist, a.ic, -1)
        down == IF ic > 0 THEN ic - 1 ELSE 0
    IN  IF layers[i].mod # "deleted" THEN [a EXCEPT !.ic = down]
        ELSE [a EXCEPT !.layers = Without(@, i),
                       !.diffs = IF Len(@) >= i THEN Without(@, i) ELSE @,
                       !.hist = IF ic > 0 THEN Without(@, ic) ELSE @,
                       !.ic = down, !.changed = TRUE]

\* Both passes over the layers of a node.
PutLayers(n) ==
    LET oc == IF n.config = <<>> THEN NoConfig ELSE n.config[1].oc
        len == Len(n.layers)
        start == [layers |-> n.m.layers, diffs |-> oc.diffs, hist |-> oc.hist,
                  nodiffs |-> n.config = <<>>, ic |-> IF oc.hist = <<>> THEN 0 ELSE 1,
                  changed |-> FALSE, err |-> FALSE]
        up[i \in 0 .. len] == IF i = 0 THEN start ELSE FirstPass(n.layers, up[i - 1], i)
        first == up[len]
        down[i \in 1 .. len + 1] ==
            IF i = len + 1 THEN [first EXCEPT !.ic = Len(first.hist)]
            ELSE SecondPass(n.layers, down[i + 1], i)
    IN  IF first.err THEN first ELSE down[1]

Put(kind, v) == <<[kind |-> kind, v |-> v]>>

\* The rest of dagPut for an image or an artifact: the config is pushed or copied,
\* and the manifest is given what has changed.
PutConfig(n, a, same) ==
    LET hasConfig == n.config # <<>>
        modified == hasConfig /\ (n.config[1].modified \/ a.changed)
        oc == IF a.changed THEN [n.config[1].oc EXCEPT !.hist = a.hist, !.diffs = a.diffs]
              ELSE n.config[1].oc
        m1 == [n.m EXCEPT !.layers = a.layers]
        m2 == IF modified THEN [m1 EXCEPT !.cfg = oc, !.cfgfam = n.config[1].fam] ELSE m1
    IN  IF n.err \/ a.err THEN [n |-> n, puts |-> <<>>, err |-> TRUE]
        ELSE [n |-> IF a.changed \/ modified THEN [n EXCEPT !.m = m2, !.mod = "replaced"] ELSE n,
              puts |-> IF modified \/ ~same THEN Put("config", m2.cfg) ELSE <<>>,
              err |-> FALSE]

PutImage(n, same) == PutConfig(n, PutLayers(n), same)

\* The parts of an index, in order: what was pushed for children that are alive.
PutIndex(n, parts) ==
    LET keep == SelectSeq([i \in DOMAIN n.manifests |-> i],
                          LAMBDA i : n.manifests[i].mod # "deleted")
        Entry(i) == IF parts[i].n.mod \in {"replaced", "added"}
                    THEN [n.m.manifests[i] EXCEPT !.m = parts[i].n.m] ELSE n.m.manifests[i]
        list == [x \in DOMAIN keep |-> Entry(keep[x])]
        puts == FlattenSeq([x \in DOMAIN keep |-> parts[keep[x]].puts])
    IN  [n |-> IF list # n.m.manifests
               THEN [n EXCEPT !.m.manifests = list, !.mod = "replaced"] ELSE n,
         puts |-> puts,
         err |-> n.err \/ \E x \in DOMAIN keep : parts[keep[x]].err]

\* dagPut: children, then (in the same repository) the referrers with their new
\* subject, then the manifest itself.
RECURSIVE DagPut(_, _)
PutReferrers(self, same) ==
    LET n1 == self.n
        new == n1.mod \in {"replaced", "added"}
        Follow(r) == IF r.mod = "deleted" \/ ~(new \/ r.mod = "added") THEN r
                     ELSE Touched([r EXCEPT !.m.subject = <<n1.m>>])
        refs == IF same THEN [i \in DOMAIN n1.referrers |-> DagPut(Follow(n1.referrers[i]), same)]
                ELSE <<>>
    IN  [n |-> n1,
         puts |-> self.puts \o FlattenSeq([i \in DOMAIN refs |-> refs[i].puts])
                  \o IF new \/ (n1.mod = "unchanged" /\ ~same) THEN Put("manifest", n1.m) ELSE <<>>,
         err |-> self.err \/ \E i \in DOMAIN refs : refs[i].err]
DagPut(n, same) ==
    PutReferrers(IF IsList(n) THEN PutIndex(n, [i \in DOMAIN n.manifests |-> DagPut(n.manifests[i], same)])
                 ELSE PutImage(n, same), same)
-----------------------------------------------------------------------------
(* Apply.  An input is [m, refs, opts, same, old, new]: the image and the  *)
(* manifests that refer to parts of it, names of options in their order,   *)
(* whether the target is the repository of the source, and two bases.      *)

\* WithLayerAddTar takes the type from the family of the top manifest.
AddedLayer(in) == LayerDesc(in.m.fam, {[name |-> "x", late |-> FALSE, user |-> FALSE]}, "gzip")

ManifestStep(in, o, n) ==
    CASE o = "annotation" -> WithAnnotation(n, "a", FALSE)
      [] o = "annotation all" -> WithAnnotation(n, "a", TRUE)
      [] o = "annotation rm" -> WithoutAnnotation(n, "c")
      [] o = "annotation base" -> WithAnnotationOCIBase(n)
      [] o = "promote common" -> WithAnnotationPromoteCommon(n)
      [] o = "label to annotation" -> WithLabelToAnnotation(n)
      [] o = "to docker" -> WithManifestToDocker(n)
      [] o = "to oci" -> WithManifestToOCI(n)
      [] o = "to oci referrers" -> WithManifestToOCIReferrers(n)
      [] o = "external urls rm" -> WithExternalURLsRm(n)
      [] o = "rebase" -> WithRebase(n, in.old, in.new)
      [] o = "layer add" -> WithLayerAddTar(n, AddedLayer(in))
      [] o = "layer rm created by" -> WithLayerRmCreatedBy(n, "RUN arg")
      [] o = "layer rm index" -> WithLayerRmIndex(n, 1)
      [] OTHER -> n

ConfigStep(o, oc) ==
    CASE o = "label" -> WithLabel(oc, "l")
      [] o = "label rm" -> WithoutLabel(oc, "x")
      [] o = "env" -> WithEnv(oc, "PATH", "v")
      [] o = "env add" -> WithEnv(oc, "HOME", "h")
      [] o = "env rm" -> WithEnv(oc, "PATH", "")
      [] o = "cmd" -> WithConfigCmd(oc, "run")
      [] o = "entrypoint" -> WithConfigEntrypoint(oc, "run")
      [] o = "platform" -> WithConfigPlatform(oc, "arm64")
      [] o = "expose add" -> WithExposeAdd(oc, "80")
      [] o = "expose rm" -> WithExposeRm(oc, "22")
      [] o = "volume add" -> WithVolumeAdd(oc, "v")
      [] o = "volume rm" -> WithVolumeRm(oc, "w")
      [] o = "build arg rm" -> WithBuildArgRm(oc)
      [] o = "config time" -> WithConfigTimestamp(oc, 1)
      [] OTHER -> oc

FileOptions == {"strip file", "reproducible", "layer time"}
Compressions == {"gzip", "zstd", "none"}

\* dagWalkManifests: children first; every option in turn.
RECURSIVE WalkManifests(_, _)
WalkManifests(in, n) ==
    LET kids == [n EXCEPT !.manifests = [i \in DOMAIN @ |-> WalkManifests(in, @[i])]]
    IN  FoldLeft(LAMBDA acc, o : ManifestStep(in, o, acc), kids, in.opts)

\* dagWalkOCIConfig.
RECURSIVE WalkOCIConfig(_, _)
WalkOCIConfig(in, n) ==
    LET oc == FoldLeft(LAMBDA acc, o : ConfigStep(o, acc), n.config[1].oc, in.opts)
        kids == [n EXCEPT !.manifests = [i \in DOMAIN @ |-> WalkOCIConfig(in, @[i])]]
    IN  IF n.config = <<>> \/ oc = n.config[1].oc THEN kids
        ELSE [kids EXCEPT !.config[1].oc = oc, !.config[1].modified = TRUE]

\* dagWalkLayers: the tree, what was pushed, and a failure.
RECURSIVE WalkLayers(_, _, _, _)
Walked(n, ws, kids) ==
    [n |-> [n EXCEPT !.layers = [i \in DOMAIN @ |-> ws[i].l],
                     !.manifests = [i \in DOMAIN @ |-> kids[i].n]],
     puts |-> UNION ({kids[i].puts : i \in DOMAIN kids} \cup {ws[i].puts : i \in DOMAIN ws}),
     err |-> (\E i \in DOMAIN kids : kids[i].err) \/ (\E i \in DOMAIN ws : ws[i].err)]
WalkLayers(in, n, base, has) ==
    LET tgt == IF in.same THEN "src" ELSE "tgt"
        Of(S) == SelectSeq(in.opts, LAMBDA o : o \in S)
        One(l) == WalkLayer(l, Of(Compressions), Of(FileOptions), base, tgt, has[l.from])
    IN  Walked(n, [i \in DOMAIN n.layers |-> One(n.layers[i])],
               [i \in DOMAIN n.manifests |-> WalkLayers(in, n.manifests[i], base, has)])

\* The blobs a tree of manifests refers to and a registry has.
RECURSIVE Blobs(_)
Blobs(m) ==
    IF m.kind = "index" THEN UNION {Blobs(m.manifests[i].m) : i \in DOMAIN m.manifests}
    ELSE {m.layers[i].blob : i \in {k \in DOMAIN m.layers : ~m.layers[k].urls}}

RECURSIVE Failing(_)
Failing(n) == n.err \/ \E i \in DOMAIN n.manifests : Failing(n.manifests[i])

\* Apply: the result is [err, m, blobs, puts].
\* What layers are read from: the source has its own and, as the target, the one that was added.
Added(in) == IF "layer add" \in Range(in.opts) THEN {AddedLayer(in).blob} ELSE {}
Own(in) == Blobs(in.m) \cup UNION {Blobs(in.refs[i]) : i \in DOMAIN in.refs}
Has(in) == [src |-> Own(in) \cup (IF in.same THEN Added(in) ELSE {}), base |-> Blobs(in.new)]

\* Layers are only walked when a step needs them or the target may lack them.
LayerSteps(in, n, base) ==
    IF ~in.same \/ Range(in.opts) \cap (Compressions \cup FileOptions \cup {"rebase"}) # {}
    THEN WalkLayers(in, n, base, Has(in)) ELSE [n |-> n, puts |-> {}, err |-> FALSE]

Result(in, err, pushed, put) ==
    IF err \/ put.err THEN [err |-> TRUE, m |-> in.m, blobs |-> {}, puts |-> <<>>]
    ELSE [err |-> FALSE, m |-> put.n.m, puts |-> put.puts,
          blobs |-> Added(in) \cup pushed \cup (IF in.same THEN Own(in) ELSE {})]

PutAll(in, failing, w) == Result(in, failing \/ w.err, w.puts, DagPut(w.n, in.same))

AfterManifests(in, n, base) == PutAll(in, Failing(n), LayerSteps(in, WalkOCIConfig(in, n), base))

Apply(in) ==
    LET n == [DagGet(in.m, in.refs) EXCEPT !.top = TRUE]
    IN  AfterManifests(in, WalkManifests(in, n), IF "layer time" \in Range(in.opts) THEN LayerGetBaseCount(n, 1) ELSE {})
-----------------------------------------------------------------------------
(* What Apply promises.                                                    *)

\* An image as rows: a layer with its entry of the history.
Rows(m) ==
    LET filled == SelectSeq(m.cfg.hist, LAMBDA h : ~h.empty)
    IN  [i \in DOMAIN m.layers |->
            [by |-> filled[i].by, files |-> m.layers[i].blob.files, comp |-> m.layers[i].blob.comp,
             external |-> m.layers[i].urls]]

\* What option o should do to the rows of an image; a row that goes is kept, without
\* files, since the options count the layers the image had.
RowStep(in, o, rows) ==
    LET Local(F(_)) == [i \in DOMAIN rows |-> IF rows[i].external THEN rows[i] ELSE F(rows[i])]
        Files(F(_)) == Local(LAMBDA r : [r EXCEPT !.files = UNION {F(f) : f \in @}])
        Gone(i) == [rows[i] EXCEPT !.files = {}]
    IN  CASE o = "rebase" -> Rows(in.new) \o Drop(rows, Len(in.old.layers))
          [] o = "layer add" -> Append(rows, [by |-> "regclient", files |-> AddedLayer(in).blob.files,
                                              comp |-> "gzip", external |-> FALSE])
          [] o = "layer rm created by" -> [i \in DOMAIN rows |-> IF rows[i].by = "RUN arg" THEN Gone(i) ELSE rows[i]]
          [] o = "layer rm index" -> [i \in DOMAIN rows |-> IF i = 1 THEN Gone(i) ELSE rows[i]]
          [] o = "external urls rm" -> [i \in DOMAIN rows |-> [rows[i] EXCEPT !.external = FALSE]]
          [] o = "build arg rm" -> [i \in DOMAIN rows |->
                                      IF rows[i].by = "RUN arg" THEN [rows[i] EXCEPT !.by = "RUN"] ELSE rows[i]]
          [] o = "strip file" -> Files(LAMBDA f : WithLayerStripFile(f, "f"))
          [] o = "reproducible" -> Files(WithLayerReproducible)
          [] o = "layer time" -> [i \in DOMAIN rows |->
                 IF i = 1 THEN rows[1]
                 ELSE [rows[i] EXCEPT !.files = {[f EXCEPT !.late = FALSE] : f \in @}]]
          [] o \in Compressions -> Local(LAMBDA r : [r EXCEPT !.comp = o])
          [] OTHER -> rows

LayerOptions == {"rebase", "layer add", "layer rm created by", "layer rm index", "external urls rm"}

\* Options on manifests come first and those on files last.
ExpectedRows(in, rows) ==
    LET Phase(S) == SelectSeq(in.opts, LAMBDA o : o \in S)
        others == SelectSeq(in.opts, LAMBDA o : o \notin LayerOptions \cup FileOptions)
        order == Phase(LayerOptions) \o others \o Phase(FileOptions)
    IN  SelectSeq(FoldLeft(LAMBDA acc, o : RowStep(in, o, acc), rows, order), LAMBDA r : r.files # {})

\* The configs and manifests of a tree, itself included.
RECURSIVE Parts(_)
Parts(m) ==
    {m} \cup IF m.kind = "index" THEN UNION {Parts(m.manifests[i].m) : i \in DOMAIN m.manifests} ELSE {}

RefParts(in) == UNION {Parts(in.refs[i]) : i \in DOMAIN in.refs}
Configs(ms) == {m.cfg : m \in {x \in ms : x.kind # "index"}}

\* Every manifest is pushed after what it is made of.
PushedBottomUp(in, out) ==
    LET known == IF in.same THEN Parts(in.m) \cup RefParts(in) ELSE {}
        Before(i, kind) == {out.puts[k].v : k \in {x \in 1 .. i - 1 : out.puts[x].kind = kind}}
        Based(i, m) ==
            IF m.kind = "index"
            THEN \A k \in DOMAIN m.manifests : m.manifests[k].m \in known \cup Before(i, "manifest")
            ELSE Blobs(m) \subseteq out.blobs /\ m.cfg \in Configs(known) \cup Before(i, "config")
    IN  /\ \A i \in DOMAIN out.puts : out.puts[i].kind = "manifest" => Based(i, out.puts[i].v)
        /\ out.m \in known \cup Before(Len(out.puts) + 1, "manifest")

\* Layers, diff IDs and history stay in step, and are what the options ask for.
ImagesAreAsAsked(in, out) ==
    LET old == SelectSeq(in.m.manifests, LAMBDA e : "to oci referrers" \notin Range(in.opts) \/ e.ref = <<>>)
        Good(m, r) == m.kind = "image" =>
            /\ IsAligned(r)
            /\ \A i \in DOMAIN r.layers : /\ r.cfg.diffs[i] = r.layers[i].blob.files
                                          /\ r.layers[i].mt.comp = r.layers[i].blob.comp
            /\ Rows(r) = ExpectedRows(in, Rows(m))
    IN  IF in.m.kind # "index" THEN Good(in.m, out.m)
        ELSE /\ Len(old) = Len(out.m.manifests)
             /\ \A i \in DOMAIN old : Good(old[i].m, out.m.manifests[i].m)

\* In the repository of the source, what refers to a part that was replaced is
\* pushed again for the part that takes its place.
ReferrersFollow(in, out) ==
    LET pushed == {out.puts[i].v : i \in {k \in DOMAIN out.puts : out.puts[k].kind = "manifest"}}
        Follows(m, r) == \A i \in DOMAIN in.refs :
            in.refs[i].subject = <<m>> /\ m # r
                => \E p \in pushed : p.subject = <<r>> /\ p.layers = in.refs[i].layers
    IN  /\ in.same => Follows(in.m, out.m)
        /\ in.same /\ in.m.kind = "index" /\ "to oci referrers" \notin Range(in.opts) =>
              \A i \in DOMAIN in.m.manifests : Follows(in.m.manifests[i].m, out.m.manifests[i].m)
        /\ in.same /\ in.m.kind = "index" /\ "to oci referrers" \in Range(in.opts) =>
              \A i \in DOMAIN in.m.manifests : in.m.manifests[i].ref # <<>> =>
                  \E p \in pushed : p.subject # <<>> /\ "docker" \in p.annot

ConfigOptions == {"label", "label rm", "env", "env add", "env rm", "build arg rm", "config time", "cmd",
    "entrypoint", "platform", "expose add", "expose rm", "volume add", "volume rm"}

\* What was done is not done again.
Repeatable == ConfigOptions \cup FileOptions \cup Compressions \cup {"annotation", "annotation all",
    "annotation base", "promote common", "label to annotation", "to docker", "to oci"}
SecondTimeIsNoOp(in, out) ==
    in.same /\ Range(in.opts) \subseteq Repeatable /\ Cardinality(Range(in.opts) \cap Compressions) <= 1 =>
        LET again == Apply([in EXCEPT !.m = out.m, !.refs = <<>>])
        IN  [again EXCEPT !.blobs = {}] = [err |-> FALSE, m |-> out.m, blobs |-> {}, puts |-> <<>>]

\* The options that the properties make exceptions for; src/mod/ is what each speaks of.

\* mod.go:130 passes over a layer by the URLs it came with, though manifest.go:597 takes them
\* away "so other steps don't skip the external layer": the blob is neither changed nor brought in.
ExternalKept(in) ==
    /\ "external urls rm" \in Range(in.opts)
    /\ \E m \in Parts(in.m) : m.kind # "index" /\ \E i \in DOMAIN m.layers : m.layers[i].urls

\* Steps on the content of layers with each other: mod.go:193 packs files the way the layer came,
\* under the type a compression has chosen; and mod.go:305 pushes an added layer that no step has
\* changed from a reader at its end, or without a media type.
FilesMixed(in) ==
    LET os == Range(in.opts)
        content == FileOptions \cup Compressions
    IN  \/ os \cap Compressions # {} /\ os \cap FileOptions # {}
        \/ "layer add" \in os /\ os \cap content # {}
        \/ ExternalKept(in) /\ os \cap content # {}

\* What a first call leaves for the second: dagPut gives the manifest the old types of a config or
\* layer that was changed with a conversion (dag.go:345), and labels come after annotations.
Unsettled(in) ==
    LET os == Range(in.opts)
    IN  \/ os \cap {"to oci", "to docker"} # {} /\ os \cap (FileOptions \cup Compressions \cup ConfigOptions) # {}
        \/ {"to oci", "to docker"} \subseteq os
        \/ {"label to annotation", "label"} \subseteq os
=============================================================================

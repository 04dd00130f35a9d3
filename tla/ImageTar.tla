------------------------------ MODULE ImageTar ------------------------------
(***************************************************************************)
(* ImageExport and ImageImport of image.go: an image written to a tar file *)
(* and read back, from an OCI layout or from what "docker save" writes.    *)
(*                                                                         *)
(* A reader of a tar file only meets its entries in their order.  The      *)
(* import therefore keeps a handler per file name it still wants, each     *)
(* manifest it reads adds the handlers of what it refers to, and the file  *)
(* is read again until no handler is left.  Blobs are uploaded while the   *)
(* tar is read, manifests afterwards, last read first.                     *)
(*                                                                         *)
(* A digest is a string; the operators take a table Obj that gives for     *)
(* each digest what the content is: its kind ("index", "image", "config",  *)
(* "layer"), the config and layers of an image (descriptors), the          *)
(* manifests of an index, and, of a layer, the digests of its content      *)
(* uncompressed (plain) and recompressed (gzip).  A file name is the       *)
(* sequence of its path's elements.                                        *)
(***************************************************************************)
EXTENDS Integers, Sequences, FiniteSets, SequencesExt

Desc(d, mt) == [digest |-> d, mt |-> mt, tag |-> ""]

BlobName(d) == <<"blobs", d>>
LayoutFile == <<"oci-layout">>
IndexFile == <<"index.json">>
DockerFile == <<"manifest.json">>

\* An entry of a tar file; a link also has the levels its target goes up.
NoBody == [digest |-> "", version |-> "", descs |-> <<>>, images |-> <<>>]
Entry(type, name, body) == [type |-> type, name |-> name, body |-> body, up |-> 0, to |-> <<>>]
FileOf(d) == Entry("file", BlobName(d), [NoBody EXCEPT !.digest = d])
LinkTo(name, up, to) == [Entry("link", name, NoBody) EXCEPT !.up = up, !.to = to]

\* What a manifest refers to.
Below(Obj, d) ==
    CASE Obj[d].kind = "index" -> Range(Obj[d].manifests)
      [] Obj[d].kind = "image" -> {Obj[d].config} \cup Range(Obj[d].layers)
      [] OTHER -> {}
-----------------------------------------------------------------------------
(* Export.                                                                 *)

\* tarWriteHeader: the directories the tar does not have yet, then the file, once.
TarWriteHeader(twd, e) ==
    LET dirs == [i \in 1 .. Len(e.name) - 1 |-> SubSeq(e.name, 1, i)]
        new == SelectSeq(dirs, LAMBDA p : p \notin twd.dirs)
        tw == twd.tw \o [i \in DOMAIN new |-> Entry("dir", new[i], NoBody)]
        made == twd.dirs \cup Range(new)
    IN  IF e.name \in twd.files THEN [twd EXCEPT !.tw = tw, !.dirs = made, !.err = TRUE]
        ELSE [twd EXCEPT !.tw = Append(tw, e), !.dirs = made, !.files = @ \cup {e.name}]

\* imageExportDescriptor: a blob that was written before is passed over.
RECURSIVE ImageExportDescriptor(_, _, _)
ImageExportDescriptor(Obj, desc, twd) ==
    IF twd.err \/ BlobName(desc.digest) \in twd.files THEN twd
    ELSE IF desc.digest \notin DOMAIN Obj THEN [twd EXCEPT !.err = TRUE]
    ELSE LET o == Obj[desc.digest]
             written == TarWriteHeader(twd, FileOf(desc.digest))
             refs == CASE desc.mt = "image" -> <<o.config>> \o o.layers
                       [] desc.mt = "index" -> o.manifests
                       [] OTHER -> <<>>
         IN  IF desc.mt \in {"image", "index"} /\ o.kind /= desc.mt THEN [twd EXCEPT !.err = TRUE]
             ELSE FoldLeft(LAMBDA w, d : ImageExportDescriptor(Obj, d, w), written, refs)

\* The entry of manifest.json: config and layer files, and the descriptors the layers came from.
DockerEntry(tag, config, layers) == [tags |-> {tag}, config |-> config, layers |-> layers, sources |-> {}]

DockerImage(Obj, d, tag) ==
    [DockerEntry(tag, BlobName(Obj[d].config.digest), [i \in DOMAIN Obj[d].layers |-> BlobName(Obj[d].layers[i].digest)])
        EXCEPT !.sources = Range(Obj[d].layers)]

\* ImageExport: the layout, its index, the docker manifest of a single image, the content.
ImageExport(Obj, d, tag) ==
    LET mDesc == [Desc(d, Obj[d].kind) EXCEPT !.tag = tag]
        layout == Entry("file", LayoutFile, [NoBody EXCEPT !.version = "1.0.0"])
        index == Entry("file", IndexFile, [NoBody EXCEPT !.descs = <<mDesc>>])
        docker == Entry("file", DockerFile, [NoBody EXCEPT !.images = <<DockerImage(Obj, d, tag)>>])
        head == <<layout, index>> \o IF Obj[d].kind = "image" THEN <<docker>> ELSE <<>>
        twd == [tw |-> <<>>, dirs |-> {}, files |-> {}, err |-> FALSE]
    IN  ImageExportDescriptor(Obj, mDesc, FoldLeft(TarWriteHeader, twd, head))
-----------------------------------------------------------------------------
(* Import.  trd is tarReadData, with the calls made to the target in puts. *)

NoHandlers == [n \in {} |-> [do |-> "", desc |-> Desc("", ""), child |-> FALSE, i |-> 0]]
Handler(do, desc) == [do |-> do, desc |-> desc, child |-> FALSE, i |-> 0]
Without(f, S) == [n \in DOMAIN f \ S |-> f[n]]
With(f, n, h) == [m \in DOMAIN f \cup {n} |-> IF m = n THEN h ELSE f[m]]

TarReadData(in) ==
    [handlers |-> With(With(With(NoHandlers, LayoutFile, Handler("layout", Desc("", ""))),
                            IndexFile, Handler("index", Desc("", ""))),
                       DockerFile, Handler("docker", Desc("", ""))),
     links |-> [n \in {} |-> <<>>], processed |-> {}, finish |-> <<>>, manifests |-> {}, added |-> FALSE,
     layout |-> FALSE, index |-> <<>>, foundIndex |-> FALSE, dockerFound |-> FALSE, dockerList |-> <<>>,
     docker |-> [config |-> Desc("", ""), layers |-> <<>>], have |-> in.have, puts |-> <<>>, err |-> "", done |-> FALSE]

Fails(trd, e) == [trd EXCEPT !.err = e, !.done = TRUE]
Put(trd, what, d) == [trd EXCEPT !.puts = Append(@, [what |-> what, d |-> d, tag |-> FALSE]), !.have = @ \cup {d}]

\* A handler for a file that is neither read nor awaited.
Want(trd, desc, h) ==
    LET n == BlobName(desc.digest)
    IN  IF n \in trd.processed \/ n \in DOMAIN trd.handlers THEN trd
        ELSE [trd EXCEPT !.handlers = With(@, n, h)]

\* imageImportBlob: reader holds what is left of the entry, and the target compares its digest.
ImageImportBlob(trd, desc, reader) ==
    IF desc.digest \in trd.have THEN trd
    ELSE IF reader = desc.digest THEN Put(trd, "blob", desc.digest)
    ELSE Fails(trd, "digest mismatch")

\* The descriptor of index.json to import.
SelectRoot(trd, in) ==
    LET dl == trd.index
        tag == IF in.name /= "" THEN in.name ELSE IF in.tag = "" THEN "latest" ELSE in.tag
        match == SelectSeq(dl, LAMBDA d : d.tag = tag)
    IN  IF Len(dl) = 1 THEN dl[1]
        ELSE IF in.digest /= "" THEN Desc(in.digest, "")
        ELSE IF match = <<>> THEN Desc("", "") ELSE match[1]

\* The root index: only the selected manifest is wanted, and tagged at the end.
HandleRoot(trd, in) ==
    LET d == SelectRoot(trd, in)
    IN  IF d.digest = "" THEN Fails(trd, "tag not in index.json")
        ELSE [Want(trd, d, Handler("manifest", d)) EXCEPT
                !.finish = Append(@, [do |-> "tag", d |-> d.digest]), !.added = TRUE]

HandleList(trd, o) ==
    FoldLeft(LAMBDA t, d : Want(t, d, [Handler("manifest", d) EXCEPT !.child = TRUE]), trd, o.manifests)

HandleImage(trd, o) ==
    FoldLeft(LAMBDA t, d : Want(t, d, Handler("blob", d)), trd, <<o.config>> \o o.layers)

\* imageImportOCIHandleManifest for a manifest that is pushed by digest at the end.
HandleManifest(trd, Obj, d) ==
    LET o == Obj[d]
        known == [trd EXCEPT !.manifests = @ \cup {d}]
        wanted == IF o.kind = "index" THEN HandleList(known, o) ELSE HandleImage(known, o)
    IN  [wanted EXCEPT !.finish = Append(@, [do |-> "push", d |-> d]), !.added = TRUE]

\* The handler of a manifest list's entry: what it is depends on the media type, or on the content.
\* The whole entry has been read when imageImportBlob is called.
HandleEntry(trd, Obj, desc, body) ==
    LET isManifest == Obj[body].kind \in {"index", "image"}
    IN  CASE desc.mt \in {"index", "image"} ->
                IF isManifest /\ body = desc.digest /\ Obj[body].kind = desc.mt
                THEN HandleManifest(trd, Obj, body) ELSE Fails(trd, "not the manifest")
          [] desc.mt \in {"config", "layer"} -> ImageImportBlob(trd, desc, "")
          [] OTHER -> IF desc.mt = "" /\ isManifest /\ body = desc.digest THEN HandleManifest(trd, Obj, body)
                      ELSE ImageImportBlob(trd, desc, "")

\* ociHandler, once both oci-layout and index.json have been read.
OciHandler(trd, in) == HandleRoot([trd EXCEPT !.handlers = Without(@, {DockerFile})], in)

\* imageImportOCIAddHandler: the two files come in any order; an unknown version is ignored.
HandleLayout(trd, in, body) ==
    IF body.version /= "1.0.0" THEN trd
    ELSE LET t == [trd EXCEPT !.layout = TRUE] IN IF t.foundIndex THEN OciHandler(t, in) ELSE t

HandleIndex(trd, in, body) ==
    LET t == [trd EXCEPT !.foundIndex = TRUE, !.index = body.descs] IN IF t.layout THEN OciHandler(t, in) ELSE t

\* imageImportDockerAddHandler.
HandleDocker(trd, body) == [trd EXCEPT !.dockerFound = TRUE, !.dockerList = body.images]

\* The image of manifest.json to import: the first one, or the one with the name.
DockerIndex(trd, in) ==
    IF in.name = "" THEN 1
    ELSE SelectInSeq(trd.dockerList, LAMBDA e : in.name \in e.tags)

\* The descriptor a docker blob gets: the one the image was exported with, where it is the same content.
DockerDesc(trd, in, d, mt) ==
    LET od == {s \in trd.dockerList[DockerIndex(trd, in)].sources : s.digest = d}
    IN  IF od = {} THEN Desc(d, mt) ELSE CHOOSE s \in od : TRUE

DockerConfig(trd, in, d) ==
    [Put(trd, "blob", d) EXCEPT !.docker.config = DockerDesc(trd, in, d, "config")]

\* Layers are decompressed, and compressed with gzip.
DockerLayer(trd, in, Obj, d, i) ==
    LET gz == Obj[Obj[d].plain].gzip
    IN  [Put(trd, "blob", gz) EXCEPT !.docker.layers[i] = DockerDesc(trd, in, gz, "layer")]

\* imageImportDockerAddLayerHandlers.
DockerAddLayerHandlers(trd, in) ==
    LET t == [trd EXCEPT !.handlers = Without(@, {LayoutFile, IndexFile}), !.done = FALSE, !.err = ""]
        k == DockerIndex(trd, in)
        img == trd.dockerList[k]
        withConfig == With(t.handlers, img.config, Handler("config", Desc("", "")))
        AddLayer(hs, i) == With(hs, img.layers[i], [Handler("docker layer", Desc("", "")) EXCEPT !.i = i])
    IN  IF k = 0 THEN t
        ELSE [t EXCEPT !.docker.layers = [i \in DOMAIN img.layers |-> Desc("", "")],
                       !.handlers = FoldLeft(AddLayer, withConfig, [i \in DOMAIN img.layers |-> i]),
                       !.added = TRUE]

RunHandler(trd, in, Obj, h, body) ==
    CASE h.do = "layout" -> HandleLayout(trd, in, body)
      [] h.do = "index" -> HandleIndex(trd, in, body)
      [] h.do = "docker" -> HandleDocker(trd, body)
      [] h.do = "manifest" -> HandleEntry(trd, Obj, h.desc, body.digest)
      [] h.do = "blob" -> ImageImportBlob(trd, h.desc, body.digest)
      [] h.do = "config" -> DockerConfig(trd, in, body.digest)
      [] h.do = "docker layer" -> DockerLayer(trd, in, Obj, body.digest, h.i)
-----------------------------------------------------------------------------
(* tarReadAll.                                                             *)

LinksOf(trd, n) == IF n \in DOMAIN trd.links THEN trd.links[n] ELSE <<>>

\* linkList: the links to a file and the links to those.
LinkList(trd, tgt) == LinksOf(trd, tgt) \o FlattenSeq([i \in DOMAIN LinksOf(trd, tgt) |-> LinksOf(trd, LinksOf(trd, tgt)[i])])
LinkLoop(trd, tgt) == tgt \in Range(LinksOf(trd, tgt))

\* A link's target, from the top of the tar: filepath.Rel takes the common directory off it.
LinkTarget(e) ==
    IF e.up = 0 /\ Len(e.name) = 2 /\ Len(e.to) = 2 /\ e.to[1] = e.name[1] THEN Tail(e.to) ELSE e.to

\* A link that a wanted file may be read through makes another pass worthwhile.
ReadLink(trd, e) ==
    LET tgt == LinkTarget(e)
        new == e.name \notin Range(LinksOf(trd, tgt))
        t == [trd EXCEPT !.links = With(@, tgt, Append(LinksOf(trd, tgt), e.name))]
        useful == \E n \in Range(LinkList(t, tgt)) \cup {e.name} : n \in DOMAIN t.handlers
    IN  IF ~new THEN trd
        ELSE IF t.added THEN t
        ELSE IF LinkLoop(t, tgt) THEN Fails(t, "symlink loop")
        ELSE [t EXCEPT !.added = useful]

\* The handler of a file's name or of a link to it; an entry can be read only once in a pass.
AfterHandler(ran, list, k) ==
    LET off == [ran EXCEPT !.handlers = Without(@, {list[k]}), !.processed = @ \cup {list[k]}]
        more == \E j \in k + 1 .. Len(list) : list[j] \in DOMAIN off.handlers
    IN  IF ran.err /= "" THEN ran
        ELSE IF DOMAIN off.handlers = {} THEN [off EXCEPT !.done = TRUE]
        ELSE [off EXCEPT !.added = @ \/ more]

ReadFile(trd, in, Obj, e) ==
    LET list == Append(LinkList(trd, e.name), e.name)
        k == SelectInSeq(list, LAMBDA n : n \in DOMAIN trd.handlers)
    IN  IF LinkLoop(trd, e.name) THEN Fails(trd, "symlink loop")
        ELSE IF k = 0 THEN trd
        ELSE AfterHandler(RunHandler(trd, in, Obj, trd.handlers[list[k]], e.body), list, k)

ReadEntry(trd, in, Obj, e) ==
    IF trd.done THEN trd
    ELSE IF e.type = "link" THEN ReadLink(trd, e)
    ELSE ReadFile(trd, in, Obj, e)

\* Passes over the file until nothing is wanted, or a pass has added nothing to want.
RECURSIVE TarReadAll(_, _, _)
AfterPass(pass, in, Obj) ==
    IF pass.done THEN pass
    ELSE IF ~pass.added THEN Fails(pass, "not found")
    ELSE TarReadAll(pass, in, Obj)
TarReadAll(trd, in, Obj) ==
    IF DOMAIN trd.handlers = {} THEN [trd EXCEPT !.done = TRUE]
    ELSE AfterPass(FoldLeft(LAMBDA t, e : ReadEntry(t, in, Obj, e), [trd EXCEPT !.added = FALSE], in.tar), in, Obj)
-----------------------------------------------------------------------------
(* ImageImport.                                                            *)

Finish(trd, f) ==
    CASE trd.err /= "" -> trd
      [] f.do = "tag" ->
            IF f.d \notin trd.manifests THEN Fails(trd, "no manifest to tag")
            ELSE [Put(trd, "manifest", f.d) EXCEPT !.puts = [@ EXCEPT ![Len(trd.puts) + 1].tag = TRUE]]
      [] f.do = "push" -> IF f.d \in trd.have THEN trd ELSE Put(trd, "manifest", f.d)

\* Not what the code does: the manifests in the order they were read.
PushInOrder(trd) == FoldLeft(Finish, trd, trd.finish)

\* imageImportOCIPushManifests: last one first, so that an index comes after its manifests.
PushManifests(trd) == FoldRight(LAMBDA f, t : Finish(t, f), trd.finish, trd)

PushDocker(trd) ==
    IF trd.err /= "" THEN trd ELSE [trd EXCEPT !.puts = Append(@, [what |-> "docker", d |-> "", tag |-> TRUE])]

PushRead(trd, in, Obj) ==
    IF trd.err = "not found" /\ trd.dockerFound
    THEN PushDocker(TarReadAll(DockerAddLayerHandlers(trd, in), in, Obj))
    ELSE IF trd.err /= "" THEN trd
    ELSE PushManifests(trd)

ImageImport(in, Obj) == PushRead(TarReadAll(TarReadData(in), in, Obj), in, Obj)
-----------------------------------------------------------------------------
(* What they should do.                                                    *)

RECURSIVE Closure(_, _)
Closure(Obj, d) == {d} \cup UNION {Closure(Obj, c.digest) : c \in Below(Obj, d)}

FileNames(tar) == {tar[i].name : i \in DOMAIN tar}

\* Every file of the closure, each once, after its directory.
ExportComplete(Obj, d, tw) ==
    /\ \A i, j \in DOMAIN tw : tw[i].name = tw[j].name => i = j
    /\ \A x \in Closure(Obj, d) : BlobName(x) \in FileNames(tw)
    /\ \A i \in DOMAIN tw : Len(tw[i].name) = 2 =>
            \E j \in 1 .. i - 1 : tw[j] = Entry("dir", <<tw[i].name[1]>>, NoBody)

Before(in, trd, i) == in.have \cup {trd.puts[j].d : j \in 1 .. i - 1}

\* The manifests of image d that several of its indexes list.  Each is read once and pushed before the
\* first index that was read, but maybe after another.
Shared(Obj, d) ==
    LET indexes == {x \in Closure(Obj, d) : Obj[x].kind = "index"}
    IN  {c \in Closure(Obj, d) : Cardinality({x \in indexes : \E e \in Below(Obj, x) : e.digest = c}) > 1}

\* A manifest is pushed only when all it refers to is at the target, but for shared manifests; a tag always.
PushedAfterContent(in, Obj, d, trd) ==
    \A i \in DOMAIN trd.puts : trd.puts[i].what = "manifest" =>
        \A c \in Below(Obj, trd.puts[i].d) :
            c.digest \in Before(in, trd, i) \cup IF trd.puts[i].tag THEN {} ELSE Shared(Obj, d)

TaggedOnce(trd) == LET tags == {i \in DOMAIN trd.puts : trd.puts[i].tag} IN tags = {Len(trd.puts)}

\* The image of a docker tar has the config and, layer by layer, the content of the one saved, but for a
\* layer whose file is named again: a file has one handler, which fills the last place (image.go:1430).
SameDockerImage(in, Obj, d, trd) ==
    LET files == trd.dockerList[DockerIndex(trd, in)].layers
        Again(i) == \E k \in i + 1 .. Len(files) : files[k] = files[i]
    IN
    /\ trd.docker.config.digest = Obj[d].config.digest
    /\ Len(trd.docker.layers) = Len(Obj[d].layers)
    /\ \A i \in {k \in DOMAIN trd.docker.layers : ~Again(k)} :
            /\ trd.docker.layers[i].digest \in trd.have
            /\ Obj[trd.docker.layers[i].digest].plain = Obj[Obj[d].layers[i].digest].plain
=============================================================================

------------------------------- MODULE OCIDir -------------------------------
(***************************************************************************)
(* scheme/ocidir: an OCI layout on disk that several goroutines of one     *)
(* process write to, and its garbage collection.  Clients copy images into *)
(* the layout (ImageCopy, with the GC lock held), delete tags and          *)
(* manifests, and close the reference, which runs the collection when the  *)
(* layout was modified and nobody holds the lock.                          *)
(*                                                                         *)
(* Methods that hold o.mu from start to end are one step each.  BlobPut    *)
(* works on files without o.mu and the collection removes one file after   *)
(* the other, so these take several steps.  The process may stop and start *)
(* again: files survive, modRefs does not.                                 *)
(***************************************************************************)
EXTENDS Integers, Sequences, FiniteSets, SequencesExt

CONSTANTS
    Client,     \* goroutines that use the layout
    Manifest,   \* digests of image manifests, indexes and artifacts
    Blob,       \* digests of configs and layers
    Tag,        \* tags
    Children,   \* Children[m]: the manifests index m lists
    Layers,     \* Layers[m]: config and layers of image m
    Subject,    \* Subject[m]: the subject of artifact m, or None
    None,       \* no tag, no subject, nobody
    Junk,       \* a temporary file that was left behind
    Deletable,  \* the manifests ManifestDelete is called for
    CrashInGC,  \* the process may stop while it removes files
    MaxJobs,    \* bound on the number of jobs
    MaxCrashes  \* bound on the number of crashes

ASSUME OCIDirAssumption ==
    /\ Children \in [Manifest -> SUBSET Manifest]
    /\ Layers \in [Manifest -> SUBSET Blob]
    /\ Subject \in [Manifest -> Manifest \cup {None}]
    /\ Deletable \subseteq Manifest
    /\ None \notin Manifest \cup Tag \cup Client
    /\ Junk \notin Manifest \cup Blob
    /\ IsFiniteSet(Manifest)
    /\ MaxJobs \in Nat /\ MaxCrashes \in Nat

VARIABLES
    index,      \* index.json: a sequence of digests with their tags
    indexed,    \* whether there is an index.json
    torn,       \* whether oci-layout was cut off by a crash
    files,      \* the digests (and Junk) under blobs/
    tmp,        \* the clients whose *.tmp file is under blobs/
    modRefs,    \* the entry of the layout: whether there is one, mod and locks
    mu,         \* the client whose collection holds o.mu, or None
    client,     \* what each client is doing
    jobs,       \* jobs started so far
    crashes     \* crashes so far

vars == <<index, indexed, torn, files, tmp, modRefs, mu, client, jobs, crashes>>
-----------------------------------------------------------------------------
(* Digests, tags and the index.                                            *)

\* The list of referrers of a manifest is an index of its own, kept under a tag
\* made from the digest of the subject.
List(s, refs) == <<s, refs>>
FallbackTag(s) == <<"fallback", s>>

Lists == {List(s, refs) : s \in Manifest, refs \in SUBSET Manifest}

AnyTag == Tag \cup {FallbackTag(s) : s \in Manifest}

\* What a file refers to.
RefsOf(d) ==
    CASE d \in Manifest -> Children[d] \cup Layers[d]
      [] d \in Lists    -> d[2]
      [] OTHER          -> {}

\* Everything the digests of S lead to, through the files Through.
Closure(S, Through) ==
    LET step[n \in 0 .. (Cardinality(Manifest) + 1)] ==
          IF n = 0 THEN S
          ELSE step[n - 1] \cup UNION {RefsOf(d) : d \in step[n - 1] \cap Through}
    IN  step[Cardinality(Manifest) + 1]

Roots(idx) == {idx[i].dig : i \in DOMAIN idx}

\* indexGet by tag.
Lookup(idx, t) ==
    LET hits == {i \in DOMAIN idx : idx[i].tag = t}
    IN  IF hits = {} THEN None ELSE idx[Min(hits)].dig
\* An entry is replaced by any entry with the same digest.
MatchesDigest(entry, t, d) == entry.dig = d \/ (t # None /\ entry.tag = t)

\* indexSet: replace the first entry that has the tag, or the digest and no tag,
\* and remove the others of that kind behind it.
Matches(entry, t, d) ==
    \/ entry.tag = None /\ entry.dig = d
    \/ t # None /\ entry.tag = t

IndexSet(idx, t, d) ==
    LET new  == [dig |-> d, tag |-> t]
        hits == {i \in DOMAIN idx : Matches(idx[i], t, d)}
        rest == SelectSeq(SubSeq(idx, Min(hits) + 1, Len(idx)),
                          LAMBDA e : ~Matches(e, t, d))
    IN  IF hits = {} THEN Append(idx, new)
        ELSE SubSeq(idx, 1, Min(hits) - 1) \o <<new>> \o rest

\* tagDelete.  The code shortens the slice it ranges over, which is right as long
\* as a tag has one entry (IndexWellFormed).
IndexDelete(idx, t) ==
    LET hits == {i \in DOMAIN idx : idx[i].tag = t}
    IN  RemoveAt(idx, Min(hits))

\* referrerList: the referrers of a subject.
RefList(idx, s) ==
    LET d == Lookup(idx, FallbackTag(s))
    IN  IF d = None THEN {} ELSE d[2]
-----------------------------------------------------------------------------
(* "idle" between jobs, "copy" in ImageCopy, "tmp" BlobPut wrote its       *)
(* temporary file, "mod" BlobPut renamed it, "unlock" the deferred         *)
(* GCUnlock, "close" about to call Close, "gc" collecting                  *)
PC == {"idle", "copy", "tmp", "mod", "unlock", "close", "gc"}

Idle == [pc |-> "idle", root |-> None, tag |-> None, child |-> FALSE,
         check |-> {}, todo |-> {}, blob |-> None, list |-> {}]

NoEntry == [ok |-> FALSE, mod |-> FALSE, locks |-> 0]

Init ==
    /\ index = <<>>
    /\ indexed = FALSE
    /\ torn = FALSE
    /\ files = {}
    /\ tmp = {}
    /\ modRefs = NoEntry
    /\ mu = None
    /\ client = [c \in Client |-> Idle]
    /\ jobs = 0
    /\ crashes = 0

At(c, pc) == client[c].pc = pc
Upd(c, rec) == client' = [client EXCEPT ![c] = rec]
Goto(c, pc) == Upd(c, [client[c] EXCEPT !.pc = pc])

\* readIndex: oci-layout is valid and there is an index.json.
Valid == ~torn
Readable == Valid /\ indexed
Current == IF Readable THEN index ELSE <<>>

\* o.mu is free: a collection is not running.
Free == mu = None

RefMod == modRefs' = [modRefs EXCEPT !.ok = TRUE, !.mod = TRUE]

StartJob(c) ==
    /\ At(c, "idle")
    /\ jobs < MaxJobs
    /\ jobs' = jobs + 1
-----------------------------------------------------------------------------
(* ImageCopy into the layout.                                              *)

\* The copy starts with GCLock.  An artifact that is copied as a child, the way
\* the referrers of an image are, gets no entry of its own in the index.
StartCopy(c, m, t, child) ==
    /\ StartJob(c)
    /\ Free
    /\ child => Subject[m] # None /\ t = None
    /\ modRefs' = [modRefs EXCEPT !.ok = TRUE, !.locks = @ + 1]
    /\ Upd(c, [Idle EXCEPT !.pc = "copy", !.root = m, !.tag = t,
                           !.child = child, !.check = {m}])
    /\ UNCHANGED <<index, indexed, torn, files, tmp, mu, crashes>>

\* ManifestHead in the target: what is there is taken to be complete.
Check(c, m) ==
    /\ At(c, "copy")
    /\ Free
    /\ m \in client[c].check
    /\ LET rec == [client[c] EXCEPT !.check = @ \ {m}]
           byTag == m = client[c].root /\ client[c].tag # None
           found == Readable /\ m \in files /\ (byTag => Lookup(index, client[c].tag) = m)
       IN  Upd(c, IF found THEN rec
                  ELSE [rec EXCEPT !.check = @ \cup Children[m],
                                   !.todo = @ \cup Layers[m] \cup {m}])
    /\ UNCHANGED <<index, indexed, torn, files, tmp, modRefs, mu, jobs, crashes>>

\* BlobCopy skips a blob the target has.
SkipBlob(c, b) ==
    /\ At(c, "copy")
    /\ b \in client[c].todo \cap Blob
    /\ b \in files
    /\ Upd(c, [client[c] EXCEPT !.todo = @ \ {b}])
    /\ UNCHANGED <<index, indexed, torn, files, tmp, modRefs, mu, jobs, crashes>>

\* BlobPut, up to the end of io.Copy.
WriteBlob(c, b) ==
    /\ At(c, "copy")
    /\ Free                     \* initIndex
    /\ b \in client[c].todo \cap Blob
    /\ b \notin files
    /\ tmp' = tmp \cup {c}
    /\ Upd(c, [client[c] EXCEPT !.pc = "tmp", !.blob = b])
    /\ UNCHANGED <<index, indexed, torn, files, modRefs, mu, jobs, crashes>>

\* The source failed or sent something else: the temporary file stays behind.
BlobFails(c) ==
    /\ At(c, "tmp")
    /\ tmp' = tmp \ {c}
    /\ files' = IF c \in tmp THEN files \cup {Junk} ELSE files
    /\ Goto(c, "unlock")
    /\ UNCHANGED <<index, indexed, torn, modRefs, mu, jobs, crashes>>

RenameBlob(c) ==
    /\ At(c, "tmp")
    /\ IF c \in tmp
       THEN files' = files \cup {client[c].blob} /\ Goto(c, "mod")
       ELSE UNCHANGED files /\ Goto(c, "unlock")
    /\ tmp' = tmp \ {c}
    /\ UNCHANGED <<index, indexed, torn, modRefs, mu, jobs, crashes>>

BlobMod(c) ==
    /\ At(c, "mod")
    /\ Free
    /\ RefMod
    /\ Upd(c, [client[c] EXCEPT !.pc = "copy", !.todo = @ \ {client[c].blob},
                                !.blob = None])
    /\ UNCHANGED <<index, indexed, torn, files, tmp, mu, jobs, crashes>>

\* manifestPut: the file, the entry in the index unless it is a child, and the
\* list of referrers of its subject.  updateIndex takes an index it cannot read
\* for a new one, and writes oci-layout anew with every index.
CanPut(c, m) ==
    /\ At(c, "copy")
    /\ Free
    /\ m \in client[c].todo \cap Manifest
    /\ RefsOf(m) \cap (client[c].todo \cup client[c].check) = {}

AsChild(c, m) == m # client[c].root \/ client[c].child
WithEntry(c, m) == IF AsChild(c, m) THEN Current ELSE IndexSet(Current, client[c].tag, m)
NewList(c, m) == List(Subject[m], RefList(WithEntry(c, m), Subject[m]) \cup {m})

ManifestPut(c, m) ==
    /\ CanPut(c, m)
    /\ IF Subject[m] = None
       THEN /\ index' = WithEntry(c, m)
            /\ files' = files \cup {m}
       ELSE /\ index' = IndexSet(WithEntry(c, m), FallbackTag(Subject[m]), NewList(c, m))
            /\ files' = files \cup {m, NewList(c, m)}
    /\ indexed' = TRUE
    /\ torn' = FALSE
    /\ RefMod
    /\ Upd(c, [client[c] EXCEPT !.todo = @ \ {m}])
    /\ UNCHANGED <<tmp, mu, jobs, crashes>>

\* The copy is over, or it failed half way.
EndCopy(c) ==
    /\ At(c, "copy")
    /\ client[c].check \cup client[c].todo = {}
    /\ Goto(c, "unlock")
    /\ UNCHANGED <<index, indexed, torn, files, tmp, modRefs, mu, jobs, crashes>>

CopyFails(c) ==
    /\ At(c, "copy")
    /\ client[c].check \cup client[c].todo # {}
    /\ Goto(c, "unlock")
    /\ UNCHANGED <<index, indexed, torn, files, tmp, modRefs, mu, jobs, crashes>>

GCUnlock(c) ==
    /\ At(c, "unlock")
    /\ Free
    /\ modRefs' = IF modRefs.ok /\ modRefs.locks > 0
                  THEN [modRefs EXCEPT !.locks = @ - 1] ELSE modRefs
    /\ Upd(c, [Idle EXCEPT !.pc = "close"])
    /\ UNCHANGED <<index, indexed, torn, files, tmp, mu, jobs, crashes>>
-----------------------------------------------------------------------------
(* Deletions.                                                              *)

TagDelete(c, t) ==
    /\ StartJob(c)
    /\ Free
    /\ Readable /\ Lookup(index, t) # None
    /\ index' = IndexDelete(index, t)
    /\ RefMod
    /\ Goto(c, "close")
    /\ UNCHANGED <<indexed, torn, files, tmp, mu, crashes>>

\* ManifestDelete: the list of referrers of its subject is updated, every entry
\* of the index with this digest goes, and then the file.
ManifestDelete(c, m) ==
    /\ StartJob(c)
    /\ Free
    /\ Readable /\ m \in Deletable \cap files
    /\ LET s    == Subject[m]
           left == RefList(index, s) \ {m}
           idx  == CASE s = None \/ m \notin RefList(index, s) -> index
                     [] OTHER -> IF left = {}
                                 THEN IndexDelete(index, FallbackTag(s))
                                 ELSE IndexSet(index, FallbackTag(s), List(s, left))
       IN  /\ index' = SelectSeq(idx, LAMBDA e : e.dig # m)
           /\ files' = IF idx = index \/ left = {} THEN files \ {m}
                       ELSE (files \ {m}) \cup {List(s, left)}
    /\ RefMod
    /\ Goto(c, "close")
    /\ UNCHANGED <<indexed, torn, tmp, mu, crashes>>
-----------------------------------------------------------------------------
(* Close and the garbage collection.                                       *)
\* Close does not look at the locks.
CollectionDueUnlocked == modRefs.ok /\ modRefs.mod

\* Close only collects a modified layout that nobody has locked.
CollectionDue == modRefs.ok /\ modRefs.mod /\ modRefs.locks = 0

\* Close has nothing to do, or fails because no manifest was ever written and
\* there is no index.json to read, or oci-layout is cut off.
CloseSkips(c) ==
    /\ At(c, "close")
    /\ Free
    /\ ~CollectionDue \/ ~Readable
    /\ Goto(c, "idle")
    /\ UNCHANGED <<index, indexed, torn, files, tmp, modRefs, mu, jobs, crashes>>

\* closeProcManifest marks what the index leads to (through the manifests that
\* can be read), and the directories are listed.
CloseMarks(c) ==
    /\ At(c, "close")
    /\ Free
    /\ CollectionDue /\ Readable
    /\ mu' = c
    /\ Upd(c, [Idle EXCEPT !.pc = "gc",
                           !.list = (files \ Closure(Roots(index), files)) \cup tmp])
    /\ UNCHANGED <<index, indexed, torn, files, tmp, modRefs, jobs, crashes>>
\* The collection steps over the temporary files.
CloseKeepsTmp(c, f) ==
    /\ At(c, "gc")
    /\ f \in client[c].list
    /\ files' = files \ ({f} \ {Junk})
    /\ Upd(c, [client[c] EXCEPT !.list = @ \ {f}])
    /\ UNCHANGED <<index, indexed, torn, tmp, modRefs, mu, jobs, crashes>>

\* One file is removed; one that is gone ends the collection with an error.
CloseRemoves(c, f) ==
    /\ At(c, "gc")
    /\ f \in client[c].list
    /\ IF f \in files \cup tmp
       THEN /\ files' = files \ {f}
            /\ tmp' = tmp \ {f}
            /\ Upd(c, [client[c] EXCEPT !.list = @ \ {f}])
            /\ UNCHANGED mu
       ELSE /\ mu' = None
            /\ Upd(c, Idle)
            /\ UNCHANGED <<files, tmp>>
    /\ UNCHANGED <<index, indexed, torn, modRefs, jobs, crashes>>

CloseEnds(c) ==
    /\ At(c, "gc")
    /\ client[c].list = {}
    /\ modRefs' = NoEntry
    /\ mu' = None
    /\ Upd(c, Idle)
    /\ UNCHANGED <<index, indexed, torn, files, tmp, jobs, crashes>>

\* The process stops and is started again.
Restart ==
    /\ crashes < MaxCrashes
    /\ crashes' = crashes + 1
    /\ tmp' = {}
    /\ modRefs' = NoEntry
    /\ mu' = None
    /\ client' = [c \in Client |-> Idle]

LeftBehind == IF tmp = {} THEN files ELSE files \cup {Junk}

Crash ==
    /\ Restart
    /\ Free \/ CrashInGC
    /\ files' = LeftBehind
    /\ UNCHANGED <<index, indexed, torn, jobs>>

\* It stops in manifestPut: the manifest has its name, and writeIndex has not
\* begun, has cut off oci-layout, or has ended and the referrers follow.
CrashInPut(c, m) ==
    /\ CanPut(c, m)
    /\ Restart
    /\ \/ /\ files' = LeftBehind \cup {m}
          /\ torn' \in {torn, TRUE}
          /\ torn' # torn => ~AsChild(c, m) \/ ~Readable
          /\ UNCHANGED <<index, indexed>>
       \/ /\ Subject[m] # None
          /\ files' = LeftBehind \cup {m, NewList(c, m)}
          /\ torn' \in BOOLEAN
          /\ index' = WithEntry(c, m)
          /\ indexed' = (indexed \/ ~AsChild(c, m) \/ ~Readable)
    /\ UNCHANGED jobs

\* Or in tagDelete, the same way.
CrashInTagDelete(c, t) ==
    /\ StartJob(c)
    /\ Free
    /\ Readable /\ Lookup(index, t) # None
    /\ Restart
    /\ files' = LeftBehind
    /\ torn' = TRUE
    /\ UNCHANGED <<index, indexed>>

Copying(c) ==
    \/ \E m \in Manifest, t \in Tag \cup {None}, child \in BOOLEAN : StartCopy(c, m, t, child)
    \/ \E m \in Manifest : Check(c, m) \/ ManifestPut(c, m)
    \/ \E b \in Blob : SkipBlob(c, b) \/ WriteBlob(c, b)
    \/ BlobFails(c) \/ RenameBlob(c) \/ BlobMod(c)
    \/ EndCopy(c) \/ CopyFails(c) \/ GCUnlock(c)

Deleting(c) ==
    \/ \E t \in Tag : TagDelete(c, t)
    \/ \E m \in Manifest : ManifestDelete(c, m)

Closing(c) ==
    \/ CloseSkips(c) \/ CloseMarks(c) \/ CloseEnds(c)
    \/ \E f \in client[c].list : CloseRemoves(c, f)

Crashing ==
    \/ Crash
    \/ \E c \in Client, m \in Manifest : CrashInPut(c, m)
    \/ \E c \in Client, t \in Tag : CrashInTagDelete(c, t)

Next == Crashing \/ \E c \in Client : Copying(c) \/ Deleting(c) \/ Closing(c)

Spec == Init /\ [][Next]_vars
-----------------------------------------------------------------------------
File == Manifest \cup Blob \cup Lists \cup {Junk}

TypeOK ==
    /\ index \in Seq([dig : Manifest \cup Lists, tag : AnyTag \cup {None}])
    /\ files \subseteq File
    /\ indexed \in BOOLEAN /\ torn \in BOOLEAN
    /\ tmp \subseteq Client
    /\ modRefs \in [ok : BOOLEAN, mod : BOOLEAN, locks : 0 .. Cardinality(Client)]
    /\ mu \in Client \cup {None}
    /\ \A c \in Client : client[c].pc \in PC

\* Everything the index leads to is on disk, while copies, deletions and
\* collections overlap: nothing that is in use or about to be used is collected,
\* and what a copy found in the layout is still there when it is done.  The
\* process may stop at any moment except inside a collection (CrashInGC), which
\* can leave a manifest without its blobs.
Complete == Closure(Roots(index), File) \subseteq files

\* A tag has one entry, and a digest has one entry without a tag.
IndexWellFormed ==
    \A i, j \in DOMAIN index :
        index[i].tag = index[j].tag /\ (index[i].tag = None => index[i].dig = index[j].dig)
            => i = j

\* The layout on disk: what the index leads to is there, its entries are unique, and all state has its type.
LayoutSound == TypeOK /\ Complete /\ IndexWellFormed

\* A tag only changes when it is pushed, deleted, or when the manifest it points
\* to is deleted; a referrer only leaves its list when it is deleted.  Only the
\* first push after the process stopped while it wrote oci-layout loses them all.
TagsKept ==
    [][\/ torn
       \/ /\ \A t \in Tag : Lookup(index, t) # None /\ Lookup(index', t) # Lookup(index, t) =>
                \E c \in Client :
                    \/ TagDelete(c, t)
                    \/ ManifestDelete(c, Lookup(index, t))
                    \/ client[c].tag = t /\ (ManifestPut(c, client[c].root) \/ CrashInPut(c, client[c].root))
          /\ \A s \in Manifest : \A m \in RefList(index, s) \ RefList(index', s) :
                \E c \in Client : ManifestDelete(c, m)]_vars

\* A collection that ends without an error leaves nothing behind: neither content
\* that lost its last reference nor files of copies that failed.
NothingLeft ==
    [][\A c \in Client : CloseEnds(c) => files \cup tmp = Closure(Roots(index), files)]_vars
=============================================================================

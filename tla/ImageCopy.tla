------------------------------ MODULE ImageCopy ------------------------------
(***************************************************************************)
(* RegClient.ImageCopy: the recursive, concurrent copy of a manifest, its  *)
(* nested manifests and blobs, its referrers and its digest tags.          *)
(*                                                                         *)
(* A task is one call of imageCopyOpt or imageCopyBlob; every task but the *)
(* outermost one runs in a goroutine of its own, started by its parent     *)
(* task, which collects one error per goroutine from an unbuffered channel *)
(* (waitCh).  A task is named by its call path, so the tasks of a run form *)
(* a tree.  The map opt.seen joins the branches: the first task to reach a *)
(* (tag, digest) key copies it, later ones wait for that copy.             *)
(*                                                                         *)
(* The source is immutable and given by CONSTANTS.  Requests are atomic,   *)
(* and at most MaxFails of them fail.  Left out: copies within one         *)
(* repository, which only move tags (image.go:640 and 694), and entries of *)
(* an index of an unknown media type, which are tried as a manifest and,   *)
(* after any error, as a blob (image.go:681).                              *)
(***************************************************************************)
EXTENDS Integers, Sequences, FiniteSets, SequencesExt

CONSTANTS
    Manifest,       \* digests of the manifests of the source
    Index,          \* those that are an index (manifest.IsList)
    Blob,           \* digests of configs and layers
    Tag,            \* digest tags of the source
    Children,       \* Children[m]: the manifests index m lists
    Layers,         \* Layers[m]: config and layers of image m, blobs in index m
    Referrers,      \* Referrers[m]: the answer of ReferrerList for m
    DigestTags,     \* DigestTags[m]: the tags that begin with the digest of m
    TagDigest,      \* TagDigest[t]: the manifest tag t points to
    Root,           \* the manifest to copy
    NoTag,          \* the empty tag of a reference by digest
    RootTag,        \* the tag of source and target, NoTag for a copy by digest
    ForceRecursive, \* opt.forceRecursive
    WithReferrers,  \* opt.referrerConfs # nil
    WithDigestTags, \* opt.digestTags
    TgtChecksCtx,   \* the target notices a cancelled context: a registry does,
                    \* ManifestPut of an OCI layout does not look at it
    InitTargets,    \* the target repositories to start from
    MayCancel,      \* the caller may cancel its context
    MaxFails,       \* bound on the number of failing requests
    MaxAttempts,    \* bound on the number of calls of ImageCopy
    MaxDepth        \* bound on the depth of the tree of tasks; only tasks left
                    \* behind by a task that returned early get that deep

ASSUME SourceAssumption ==
    /\ Index \subseteq Manifest /\ Root \in Manifest
    /\ Manifest \cap Blob = {}
    /\ Children \in [Manifest -> SUBSET Manifest]
    /\ Layers \in [Manifest -> SUBSET Blob]
    /\ Referrers \in [Manifest -> SUBSET Manifest]
    /\ DigestTags \in [Manifest -> SUBSET Tag]
    /\ TagDigest \in [Tag \cup {RootTag} -> Manifest]
    /\ \A m \in Manifest \ Index : Children[m] = {}
    /\ MaxFails \in Nat

\* A target to start from is one an earlier copy or push may have left.
ASSUME TargetAssumption ==
    \A t \in InitTargets :
        /\ t \in [man : SUBSET Manifest, blob : SUBSET Blob,
                  tag : SUBSET ((Tag \cup {RootTag}) \X Manifest)]
        /\ \A x \in t.tag : x[2] \in t.man
        /\ \A m \in t.man : Children[m] \subseteq t.man /\ Layers[m] \subseteq t.blob

VARIABLES
    task,       \* the tasks so far: path |-> record, see Task
    seen,       \* opt.seen: key |-> path of the task that reports for it
    finalFn,    \* opt.finalFn: the copies put off because of a loop
    tagList,    \* opt.tagList has been loaded
    main,       \* ImageCopy itself: its result ("busy" until it returns), the
                \* finalFn it runs (i of n), whether its context is done, and
                \* how many times it was called
    tgt,        \* the target repository: man, blob and tag
    fails       \* failing requests so far

vars == <<task, seen, finalFn, tagList, main, tgt, fails>>

Err == {"ok", "fail", "canceled", "loop"}

(* "seen" imageSeenOrWait, "wait" waiting in it for another task,          *)
(* "head" ManifestHead of the target, "get" ManifestGet of the source, or  *)
(* "tagget" the one that tells the digest of a tag,                        *)
(* "early" the first receive loop, "refs" ReferrerList, "tags" TagList,    *)
(* "drain" the second receive loop, "put" ManifestPut, "copy" BlobCopy,    *)
(* "ret" the deferred seenCB, "unsee" its delete from opt.seen,            *)
(* "post" back in the goroutine, "send" blocked in waitCh <- err, "dead"   *)
PC == {"seen", "wait", "head", "tagget", "get", "early", "refs", "tags", "drain", "put",
       "copy", "ret", "unsee", "post", "send", "dead"}

\* A new task.  A copy by digest consults opt.seen first; a copy by tag learns
\* its digest from the first requests and consults opt.seen after them.
NewTask(kind, tag, dig) ==
    [kind   |-> kind,       \* "root", "child", "blob", "ref", "tag", "final"
     tag    |-> tag,
     dig    |-> dig,
     pc     |-> IF tag = NoTag \/ dig \in Blob THEN "seen" ELSE "head",
     own    |-> FALSE,      \* seenCB is to be called
     entry  |-> "busy",     \* what seenCB reported, for those who wait
     on     |-> <<>>,       \* the task waited for
     match  |-> FALSE,      \* the target has this digest at this reference
     read   |-> FALSE,      \* the source manifest was read by its tag
     out    |-> {},         \* goroutines started and not yet received from
     cancel |-> FALSE,      \* the context of the task is cancelled
     err    |-> "ok"]

\* One step of a path: what is copied, and for the put-off copies which one.
Ref(kind, tag, dig, n) == [kind |-> kind, tag |-> tag, dig |-> dig, n |-> n]

RootPath == <<Ref("root", RootTag, Root, 0)>>

\* What ImageCopy starts from: fresh options, one call of imageCopyOpt.
Start ==
    [task    |-> [p \in {RootPath} |-> NewTask("root", RootTag, Root)],
     seen    |-> <<>>,
     finalFn |-> <<>>,
     tagList |-> FALSE]

Init ==
    /\ task = Start.task
    /\ seen = Start.seen
    /\ finalFn = Start.finalFn
    /\ tagList = Start.tagList
    /\ main = [result |-> "busy", i |-> 0, n |-> 0, ctx |-> FALSE, attempt |-> 1]
    /\ tgt \in InitTargets
    /\ fails = 0
-----------------------------------------------------------------------------
\* A map f with v as the value of k.
With(f, k, v) == [x \in DOMAIN f \cup {k} |-> IF x = k THEN v ELSE f[x]]

At(p, pc) == p \in DOMAIN task /\ task[p].pc = pc

KeyOf(p) == <<task[p].tag, task[p].dig>>

\* The context of p is done when p, a task above it or the caller cancelled.
Canceled(p) == main.ctx \/ \E n \in 1 .. Len(p) : task[SubSeq(p, 1, n)].cancel

\* The argument parents: the digests of the manifests on the way to p.
\* imageCopyBlob passes an empty list.
Parents(p) ==
    IF task[p].kind = "blob" THEN {}
    ELSE {task[SubSeq(p, 1, n)].dig : n \in 1 .. (Len(p) - 1)}

Upd(p, t) == task' = [task EXCEPT ![p] = t]

Go(p, pc) == Upd(p, [task[p] EXCEPT !.pc = pc])

\* return err: the deferred cancel runs, then seenCB if the task has one.
Ret(p, err) ==
    Upd(p, [task[p] EXCEPT !.pc = IF task[p].own THEN "ret" ELSE "post",
                           !.err = err, !.cancel = TRUE])

\* A request of p fails.
RequestFails(p) ==
    /\ fails < MaxFails
    /\ fails' = fails + 1
    /\ Ret(p, "fail")
    /\ UNCHANGED <<seen, finalFn, tagList, main, tgt>>


\* Start one goroutine per reference of refs and go to pc.
Spawn(p, refs, pc) ==
    LET paths == {Append(p, r) : r \in refs}
    IN  /\ refs # {} => Len(p) < MaxDepth
        /\ task' = [x \in DOMAIN task \cup paths |->
                    IF x \in paths
                    THEN NewTask(Last(x).kind, Last(x).tag, Last(x).dig)
                    ELSE IF x = p
                    THEN [task[p] EXCEPT !.out = @ \cup paths, !.pc = pc]
                    ELSE task[x]]
-----------------------------------------------------------------------------


\* imageSeenOrWait, key not in the map: register and go on with the copy.
SeenNew(p) ==
    /\ At(p, "seen")
    /\ KeyOf(p) \notin DOMAIN seen
    /\ seen' = With(seen, KeyOf(p), p)
    /\ Upd(p, [task[p] EXCEPT
                 !.own = TRUE,
                 !.pc  = IF task[p].kind = "blob" THEN "copy"
                         ELSE IF task[p].tag = NoTag THEN "head" ELSE "get"])
    /\ UNCHANGED <<finalFn, tagList, main, tgt, fails>>

\* Mutant: no look for loops in parents.
SeenOldNoLoop(p) ==
    /\ At(p, "seen")
    /\ KeyOf(p) \in DOMAIN seen
    /\ LET o == seen[KeyOf(p)]
       IN  \/ task[o].entry # "busy" /\ Ret(p, task[o].entry)
           \/ task[o].entry = "busy" /\ Upd(p, [task[p] EXCEPT !.pc = "wait", !.on = o])
    /\ UNCHANGED <<seen, finalFn, tagList, main, tgt, fails>>

\* imageSeenOrWait, key in the map: take the result of a finished copy, refuse
\* to wait for a copy this one is part of, or wait.
SeenOld(p) ==
    /\ At(p, "seen")
    /\ KeyOf(p) \in DOMAIN seen
    /\ LET o == seen[KeyOf(p)]
       IN  \/ task[o].entry # "busy" /\ Ret(p, task[o].entry)
           \/ /\ task[o].entry = "busy"
              /\ task[p].dig \in Parents(p)
              /\ Ret(p, "loop")
           \/ /\ task[o].entry = "busy"
              /\ task[p].dig \notin Parents(p)
              /\ Upd(p, [task[p] EXCEPT !.pc = "wait", !.on = o])
    /\ UNCHANGED <<seen, finalFn, tagList, main, tgt, fails>>

\* ... until that copy reports, or the context is done.
SeenWait(p) ==
    /\ At(p, "wait")
    /\ \/ task[task[p].on].entry # "busy" /\ Ret(p, task[task[p].on].entry)
       \/ Canceled(p) /\ Ret(p, "canceled")
    /\ UNCHANGED <<seen, finalFn, tagList, main, tgt, fails>>

\* Nothing to do for a reference the target already has, unless nested content,
\* referrers or digest tags may still have to be copied.
FastCheck == ~ForceRecursive /\ ~WithReferrers /\ ~WithDigestTags

InTarget(p) ==
    IF task[p].tag = NoTag THEN task[p].dig \in tgt.man
    ELSE <<task[p].tag, task[p].dig>> \in tgt.tag

\* ManifestHead of the target, and for a copy by digest what follows from it.
HeadDigest(p) ==
    /\ At(p, "head")
    /\ task[p].tag = NoTag
    /\ LET there == InTarget(p) /\ ~(TgtChecksCtx /\ Canceled(p))
       IN  IF there /\ FastCheck THEN Ret(p, "ok")
           ELSE Upd(p, [task[p] EXCEPT
                          !.match = there,
                          !.pc = IF there /\ ~ForceRecursive /\ task[p].dig \notin Index
                                 THEN "early" ELSE "get"])
    /\ UNCHANGED <<seen, finalFn, tagList, main, tgt, fails>>

\* For a tag the target has the head of the source is asked as well, and opt.seen
\* after that; without it the manifest is needed.
HeadTag(p) ==
    LET there == \E k \in tgt.tag : k[1] = task[p].tag
    IN  /\ At(p, "head")
        /\ task[p].tag # NoTag
        /\ IF Canceled(p) THEN Ret(p, "canceled")
           ELSE Upd(p, [task[p] EXCEPT !.match = InTarget(p),
                                       !.pc = IF there /\ ~ForceRecursive THEN "seen" ELSE "tagget"])
        /\ UNCHANGED <<seen, finalFn, tagList, main, tgt, fails>>

\* The registry cannot be reached, or a head of the source fails.
HeadFails(p) == At(p, "head") /\ RequestFails(p)

\* Any other failure of the target's head is taken for "not there".
HeadRefused(p) ==
    /\ At(p, "head")
    /\ fails < MaxFails
    /\ fails' = fails + 1
    /\ Upd(p, [task[p] EXCEPT !.match = FALSE, !.pc = IF task[p].tag = NoTag THEN "get" ELSE "tagget"])
    /\ UNCHANGED <<seen, finalFn, tagList, main, tgt>>

\* ManifestGet by tag: the digest is known, and opt.seen is asked.
TagGet(p) ==
    /\ At(p, "tagget")
    /\ IF Canceled(p) THEN Ret(p, "canceled")
       ELSE Upd(p, [task[p] EXCEPT !.read = TRUE, !.pc = "seen"])
    /\ UNCHANGED <<seen, finalFn, tagList, main, tgt, fails>>

TagGetFails(p) == At(p, "tagget") /\ RequestFails(p)

\* ManifestGet of the source, unless it was read before, and a goroutine for every
\* nested manifest and every blob.  A copy by tag comes here with its comparison
\* still to do.  The
\* source manifest may come from the cache of the registry client, which does
\* not look at the context.
Get(p) ==
    /\ At(p, "get")
    /\ LET t == task[p]
           skip == t.tag # NoTag /\ t.match /\ ~ForceRecursive
       IN  \/ skip /\ FastCheck /\ Ret(p, "ok")
           \/ skip /\ ~FastCheck /\ t.dig \notin Index /\ Go(p, "early")
           \/ /\ ~(skip /\ (FastCheck \/ t.dig \notin Index))
              /\ \/ ~t.read /\ Canceled(p) /\ Ret(p, "canceled")
                 \/ Spawn(p, {Ref("child", NoTag, m, 0) : m \in Children[t.dig]} \cup
                             {Ref("blob", NoTag, b, 0) : b \in Layers[t.dig]},
                          "early")
    /\ UNCHANGED <<seen, finalFn, tagList, main, tgt, fails>>

GetFails(p) == At(p, "get") /\ ~task[p].read /\ RequestFails(p)

\* One receive from waitCh.  The first error cancels the context of the task;
\* a "canceled" is replaced by whatever is received next.
Receive(p, c) ==
    LET old == task[p].err
        new == task[c].err
        err == IF old \in {"ok", "canceled"} THEN new ELSE old
    IN  task' = [task EXCEPT
                   ![p].out = @ \ {c},
                   ![p].err = err,
                   ![p].cancel = @ \/ (old = "ok" /\ new # "ok"),
                   ![c].pc = "dead"]

EarlyReceive(p) ==
    /\ At(p, "early")
    /\ \E c \in task[p].out : At(c, "send") /\ Receive(p, c)
    /\ UNCHANGED <<seen, finalFn, tagList, main, tgt, fails>>

AfterEarly == IF WithReferrers THEN "refs" ELSE IF WithDigestTags THEN "tags" ELSE "drain"

\* Mutant: an error is returned without waiting for the others.
EarlyEndMutant(p) ==
    /\ At(p, "early")
    /\ IF task[p].err = "ok" THEN Go(p, AfterEarly) ELSE Ret(p, task[p].err)
    /\ UNCHANGED <<seen, finalFn, tagList, main, tgt, fails>>

\* The loop ends when nobody is ready to send (the select has a default), or
\* with an error once everybody has reported.
EarlyEnd(p) ==
    /\ At(p, "early")
    /\ \/ task[p].err = "ok" /\ Go(p, AfterEarly)
       \/ task[p].err # "ok" /\ task[p].out = {} /\ Ret(p, task[p].err)
    /\ UNCHANGED <<seen, finalFn, tagList, main, tgt, fails>>

\* ReferrerList, and a goroutine for every referrer.  The list may come from a
\* cache that does not look at the context.
Refs(p) ==
    /\ At(p, "refs")
    /\ \/ Canceled(p) /\ Ret(p, "canceled")
       \/ Spawn(p, {Ref("ref", NoTag, m, 0) : m \in Referrers[task[p].dig]},
                IF WithDigestTags THEN "tags" ELSE "drain")
    /\ UNCHANGED <<seen, finalFn, tagList, main, tgt, fails>>

RefsFails(p) == At(p, "refs") /\ RequestFails(p)

\* TagList, once for all tasks, and a goroutine for every digest tag.
Tags(p) ==
    /\ At(p, "tags")
    /\ \/ ~tagList /\ Canceled(p) /\ Ret(p, "canceled") /\ UNCHANGED tagList
       \/ /\ tagList \/ ~Canceled(p)
          /\ tagList' = TRUE
          /\ Spawn(p, {Ref("tag", x, TagDigest[x], 0) : x \in DigestTags[task[p].dig]},
                   "drain")
    /\ UNCHANGED <<seen, finalFn, main, tgt, fails>>

TagsFails(p) == At(p, "tags") /\ ~tagList /\ RequestFails(p)

Drain(p) ==
    /\ At(p, "drain")
    /\ \E c \in task[p].out : At(c, "send") /\ Receive(p, c)
    /\ UNCHANGED <<seen, finalFn, tagList, main, tgt, fails>>

\* Mutant: the manifest is pushed without waiting for its content.
DrainedMutant(p) ==
    /\ At(p, "drain")
    /\ IF task[p].err = "ok" THEN Go(p, "put") ELSE Ret(p, task[p].err)
    /\ UNCHANGED <<seen, finalFn, tagList, main, tgt, fails>>

Drained(p) ==
    /\ At(p, "drain")
    /\ task[p].out = {}
    /\ IF task[p].err = "ok" THEN Go(p, "put") ELSE Ret(p, task[p].err)
    /\ UNCHANGED <<seen, finalFn, tagList, main, tgt, fails>>

NeedsPut(p) == ~task[p].match \/ ForceRecursive

\* Mutant: the manifest is always pushed by digest.
PutMutant(p) ==
    /\ At(p, "put")
    /\ IF TgtChecksCtx /\ Canceled(p) THEN Ret(p, "canceled") /\ UNCHANGED tgt
       ELSE Ret(p, "ok") /\ tgt' = [tgt EXCEPT !.man = @ \cup {task[p].dig}]
    /\ UNCHANGED <<seen, finalFn, tagList, main, fails>>

\* ManifestPut, by digest or by tag.
Put(p) ==
    /\ At(p, "put")
    /\ \/ ~NeedsPut(p) /\ Ret(p, "ok") /\ UNCHANGED tgt
       \/ NeedsPut(p) /\ TgtChecksCtx /\ Canceled(p) /\ Ret(p, "canceled") /\ UNCHANGED tgt
       \/ /\ NeedsPut(p) /\ ~(TgtChecksCtx /\ Canceled(p))
          /\ tgt' = [tgt EXCEPT
                       !.man = @ \cup {task[p].dig},
                       !.tag = IF task[p].tag = NoTag THEN @
                               ELSE {x \in @ : x[1] # task[p].tag} \cup {KeyOf(p)}]
          /\ Ret(p, "ok")
    /\ UNCHANGED <<seen, finalFn, tagList, main, fails>>

PutFails(p) == At(p, "put") /\ NeedsPut(p) /\ RequestFails(p)

\* imageCopyBlob: BlobCopy skips a blob the target has.
CopyBlob(p) ==
    /\ At(p, "copy")
    /\ LET there == task[p].dig \in tgt.blob /\ ~(TgtChecksCtx /\ Canceled(p))
       IN  IF Canceled(p) /\ ~there THEN Ret(p, "canceled") /\ UNCHANGED tgt
           ELSE Ret(p, "ok") /\ tgt' = [tgt EXCEPT !.blob = @ \cup {task[p].dig}]
    /\ UNCHANGED <<seen, finalFn, tagList, main, fails>>

CopyBlobFails(p) == At(p, "copy") /\ RequestFails(p)
-----------------------------------------------------------------------------
\* seenCB: report to those who wait, and after that forget a failed copy.
SeenCB(p) ==
    /\ At(p, "ret")
    /\ Upd(p, [task[p] EXCEPT
                 !.entry = task[p].err,
                 !.pc = IF task[p].err = "ok" THEN "post" ELSE "unsee"])
    /\ UNCHANGED <<seen, finalFn, tagList, main, tgt, fails>>

Unsee(p) ==
    /\ At(p, "unsee")
    /\ seen' = [k \in DOMAIN seen \ {KeyOf(p)} |-> seen[k]]
    /\ Go(p, "post")
    /\ UNCHANGED <<finalFn, tagList, main, tgt, fails>>

\* Back in the goroutine: a referrer or digest tag that ran into a loop is put
\* off until the rest is done.
Post(p) ==
    /\ At(p, "post")
    /\ task[p].kind \notin {"root", "final"}
    /\ IF task[p].kind \in {"ref", "tag"} /\ task[p].err = "loop"
       THEN /\ finalFn' = Append(finalFn, KeyOf(p))
            /\ Upd(p, [task[p] EXCEPT !.pc = "send", !.err = "ok"])
       ELSE Go(p, "send") /\ UNCHANGED finalFn
    /\ UNCHANGED <<seen, tagList, main, tgt, fails>>


\* The outermost call returns to ImageCopy, which then runs the put-off copies
\* one after the other.  The range loop takes the length of finalFn when the
\* loop starts.
Return(p) ==
    /\ At(p, "post")
    /\ task[p].kind \in {"root", "final"}
    /\ LET n == IF task[p].kind = "root" THEN Len(finalFn) ELSE main.n
           i == main.i + 1
           f == Ref("final", finalFn[i][1], finalFn[i][2], i)
           dead == [task EXCEPT ![p].pc = "dead"]
       IN  IF task[p].err # "ok" \/ i > n
           THEN /\ main' = [main EXCEPT !.result = task[p].err]
                /\ task' = dead
           ELSE /\ main' = [main EXCEPT !.i = i, !.n = n]
                /\ task' = With(dead, <<f>>, NewTask("final", f.tag, f.dig))
    /\ UNCHANGED <<seen, finalFn, tagList, tgt, fails>>

CallerCancels ==
    /\ MayCancel
    /\ ~main.ctx
    /\ main.result = "busy"
    /\ main' = [main EXCEPT !.ctx = TRUE]
    /\ UNCHANGED <<task, seen, finalFn, tagList, tgt, fails>>

\* The caller tries again after an error, with what the first call left in the
\* target.
CallAgain ==
    /\ main.result \notin {"busy", "ok"}
    /\ main.attempt < MaxAttempts
    /\ \A p \in DOMAIN task : task[p].pc = "dead"
    /\ task' = Start.task
    /\ seen' = Start.seen
    /\ finalFn' = Start.finalFn
    /\ tagList' = Start.tagList
    /\ main' = [result |-> "busy", i |-> 0, n |-> 0, ctx |-> FALSE,
                attempt |-> main.attempt + 1]
    /\ UNCHANGED <<tgt, fails>>

\* The steps a task takes when nothing fails.
Work(p) ==
    \/ SeenNew(p) \/ SeenOld(p) \/ SeenWait(p) \/ HeadDigest(p) \/ HeadTag(p)
    \/ TagGet(p) \/ Get(p) \/ EarlyReceive(p) \/ EarlyEnd(p) \/ Refs(p) \/ Tags(p)
    \/ Drain(p) \/ Drained(p) \/ Put(p) \/ CopyBlob(p)
    \/ SeenCB(p) \/ Unsee(p) \/ Post(p) \/ Return(p)

Failure(p) ==
    \/ HeadFails(p) \/ HeadRefused(p) \/ TagGetFails(p) \/ GetFails(p) \/ RefsFails(p) \/ TagsFails(p)
    \/ PutFails(p) \/ CopyBlobFails(p)

\* ImageCopy has returned.  Nothing needs to happen any more, and what tasks it
\* may have left behind do from here on is outside of this model.
Returned == main.result # "busy" /\ UNCHANGED vars

Next ==
    \/ main.result = "busy" /\ \E p \in DOMAIN task : Work(p) \/ Failure(p)
    \/ CallerCancels
    \/ CallAgain
    \/ Returned

Spec == Init /\ [][Next]_vars

\* The Go scheduler runs every goroutine that can run.
FairSpec ==
    Spec /\ WF_vars(main.result = "busy" /\ \E p \in DOMAIN task : Work(p))
-----------------------------------------------------------------------------
TypeOK ==
    /\ \A p \in DOMAIN task : /\ task[p].pc \in PC
                              /\ task[p].err \in Err
                              /\ task[p].entry \in Err \cup {"busy"}
                              /\ task[p].out \subseteq DOMAIN task
    /\ \A k \in DOMAIN seen : seen[k] \in DOMAIN task
    /\ main.result \in Err \cup {"busy"}
    /\ fails \in 0 .. MaxFails

\* A manifest is only in the target together with everything it names: nested
\* manifests and blobs are pushed before the manifest that refers to them, in
\* every interleaving and whatever fails or is cancelled on the way.
TargetClosed ==
    \A m \in tgt.man : Children[m] \subseteq tgt.man /\ Layers[m] \subseteq tgt.blob

\* Everything that is to be copied along with a set of manifests.
Nested(S) ==
    S \cup UNION {Children[m] : m \in S}
      \cup (IF WithReferrers THEN UNION {Referrers[m] : m \in S} ELSE {})
      \cup (IF WithDigestTags
            THEN {TagDigest[x] : x \in UNION {DigestTags[m] : m \in S}} ELSE {})

\* All that is to be copied: the least set that has the root and whatever is to
\* be copied along with its members.
Wanted ==
    {m \in Manifest :
        \A S \in SUBSET Manifest : Root \in S /\ Nested(S) \subseteq S => m \in S}

\* When ImageCopy reports success the target has the image with all its nested
\* manifests and, as far as asked for, their referrers and digest tags.
SuccessIsComplete ==
    main.result = "ok" =>
        /\ Wanted \subseteq tgt.man
        /\ \A m \in Wanted : Layers[m] \subseteq tgt.blob
        /\ WithDigestTags =>
              \A m \in Wanted : \A x \in DigestTags[m] : <<x, TagDigest[x]>> \in tgt.tag
        /\ RootTag # NoTag => <<RootTag, Root>> \in tgt.tag

\* No manifest or blob is copied by two tasks at once: the tasks between
\* registering in opt.seen and reporting back have different keys, and the map
\* leads to them (the removal after a failure never hits a later entry).
OneCopyPerKey ==
    \A p \in DOMAIN task :
        task[p].own /\ task[p].entry = "busy" =>
            KeyOf(p) \in DOMAIN seen /\ seen[KeyOf(p)] = p

\* Once ImageCopy has returned no goroutine of it is left behind, neither at
\* work nor blocked in a send to a channel nobody reads any more.
NothingLeftBehind ==
    main.result # "busy" => \A p \in DOMAIN task : task[p].pc = "dead"

\* The tasks of a copy: well formed, one for each key, and gone when ImageCopy has returned.
TasksSound == TypeOK /\ OneCopyPerKey /\ NothingLeftBehind

\* ImageCopy returns, however its tasks wait for each other through opt.seen.
\* Sources that have an index listing both members of a loop side by side are not
\* checked: each task waits for the other there.  What the final phase copies is
\* no part of this property.
Terminates == <>(main.result # "busy")
=============================================================================

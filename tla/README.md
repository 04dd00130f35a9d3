# A TLA+ model of regclient

regclient is a Go library, with the commands regctl, regsync and regbot on top
of it, that talks to OCI registries and to OCI layouts on disk.  This directory
holds TLA+ modules of the parts in which things happen concurrently, fail half
way or depend on order, modules of the algorithms on images, manifests and
settings, the TLC configurations that check them on small instances, and proofs,
checked by TLAPS, of what the throttle queue, the requests above it, the lists of
referrers and the copy of an image keep on instances of any size.

Paths below are relative to `src/`.  `PROJECT.json` names, for every definition
of a module, the lines it models.

## The system

| Component | State | Operations | Works with |
|---|---|---|---|
| `internal/pqueue` | active and queued entries of a queue | Acquire, TryAcquire, release, AcquireMulti | every request and blob copy takes slots from it |
| `internal/reqmeta` | none | DataNext, which picks the next queued request | callback of the queues |
| `internal/reghttp` | hosts with throttle and backoff, responses in progress | Do, Read, Seek, Close | below `scheme/reg`, above `internal/auth` and the mirrors |
| `internal/auth` | challenges, tokens, scopes per host | AddScope, HandleResponse, UpdateRequest | called by reghttp around each attempt |
| `internal/cache` | entries with the time of their last use | Set, Get, Delete, prune | manifests and referrer lists of `scheme/reg` |
| `scheme/reg` | caches, features, `muRefTag` | manifests, blobs, tags, referrers | registry |
| `scheme/ocidir` | `index.json`, blob files, `modRefs` | the same, on disk, and Close (garbage collection) | file system |
| `image.go` | `opt.seen`, `finalFn`, goroutines and channels | ImageCopy, ImageCheckBase, ImageExport, ImageImport | calls both schemes |
| `blob.go`, `manifest.go`, `tag.go`, ... | none | dispatch to a scheme; BlobCopy takes the throttles of both sides | schemes, pqueue |
| `types/*` | values | parsing, comparison, conversion | everything |
| `mod` | tree of manifests and layers to change | Apply | image modification |
| `config`, `regclient.go` | hosts and credentials | load, merge, GetCred | reghttp |
| `cmd/regsync`, `cmd/regbot`, `cmd/regctl` | configuration, schedule | one-shot, server, commands | client API |

Where it is hard:

* *pqueue*: a caller can be cancelled in the moment a slot is handed to it; a
  blob copy needs slots of two registries, and another one the same two in the
  opposite order; the choice of the next entry prefers some requests.
* *image copy*: a tree of goroutines that wait for each other through a shared
  map; errors are collected from channels in any order; contexts are cancelled
  while results are on their way; referrers can form loops.
* *reghttp*: retries over several hosts while the list of hosts shrinks, slots
  that belong to an open body, bodies that go on at another host.
* *ocidir*: a garbage collection next to copies; processes that stop anywhere.
* *blobs*: uploads that are resumed at the offset the registry reports, from a
  buffer that is cut and read again.
* *referrers*: a list that is pulled, changed and pushed back, caches that are
  filled by slow readers, registries with different features.
* *authentication*: requests of one host share handlers, scopes and a token,
  which others change between the calls of one of them.
* *regsync*: a target is looked at, then there are waits for a slot and a rate
  limit, then it is overwritten; runs overlap, sources move, errors of many
  goroutines become one exit code.
* *mod, import, manifests*: long sequential code with several copies of one
  fact (layers, diff ids and history; body, value and descriptor) and inputs
  that come in any order.

`PROJECT.json` lists each such place with its line under "hazards".

## Modules

| Module | Models | Kind |
|---|---|---|
| `PQueueOps` | the data structure of one queue and what each lock region does to it | operators |
| `PQueue` | callers of Acquire and release on one queue | state machine |
| `SliceOps` | removal of nil and of duplicates from the list of queues | operators |
| `PQueueMulti` | AcquireMulti over several queues | state machine, composes several `PQueueOps` queues |
| `ReqMeta` | DataNext | operators |
| `ImageCopy` | ImageCopy with all its goroutines | state machine |
| `RegHttp` | requests to a registry and its mirrors | state machine, composes `PQueueOps` queues |
| `OCIDir` | an OCI layout, its clients and its garbage collection | state machine |
| `BlobCopy` | BlobCopy and BlobPut to a registry, uploads in chunks | state machine |
| `RegReferrer` | referrers in a registry | state machine |
| `Auth` | the handlers of one host and the requests that share them | state machine |
| `JobServer` | how regsync and regbot run their steps, once or on a schedule | state machine |
| `RegSync` | a step of regsync | state machine, extends `JobServer` and `SyncOps` |
| `RegBot` | the sandbox of regbot | state machine, extends `JobServer` |
| `Jobs` | the two programs | state machine, composes `RegSync` and `RegBot` |
| `SyncOps` | filters and differences of tag lists | operators |
| `ModDag` | mod.Apply and its options | algorithm |
| `ImageTar` | ImageExport and ImageImport | algorithm |
| `Platform`, `ImageBase` | platforms, the search of an index, ImageCheckBase | algorithms |
| `Manifest` | manifest.New, setters and conversions | algorithm |
| `Hosts` | host settings, docker's config.json, credential helpers | algorithm |
| `Cache` | internal/cache | algorithm over sequences of calls and times |
| `Diff` | internal/diff | algorithm |
| `PQueueOpsProofs`, `PQueueProofs` | theorems about the queue | proofs |
| `PQueueMultiProofs` | theorems about AcquireMulti and its list | proofs |
| `RegHttpProofs` | theorems about requests | proofs |
| `RegReferrerProofs` | theorems about lists of referrers | proofs |
| `ImageCopyProofs` | theorems about image copies | proofs |
| `BlobCopyProofs` | theorems about uploads of blobs | proofs |
| `JobsProofs` | theorems about regsync and regbot | proofs |
| `MC...` | instances for TLC | models |

`RegSync` and `RegBot` share the variables of `JobServer`; `MCAlgorithms` instantiates all algorithms, and a state of it is one
input.

### The queue (`PQueueOps`, `PQueue`, `PQueueMulti`, `ReqMeta`)

A queue is a record of a set `active` and a sequence `queued`.  One step is what
the code does between Lock and Unlock, or the arm a select takes.  `PQueue` has a
`pc` per caller: "waiting" is the select in Acquire, "missing" the moment after
the scan of the cancelled caller did not find its entry, in which the lock is
not held and the slot it was given has to be released.  `DropQueued` keeps the
condition of the code (`len(q.queued) >= i+1`), which cuts the queue instead of
removing one entry.  The callback is the constant operator `NextEntry`, so the
proofs hold for every callback, and `Clamp` is what `release` does with an index
out of range.

`PQueueMulti` follows the loop of AcquireMulti: block on one queue of the list,
try the others, give everything back when one is full and block on that one in
the next round.  The release functions are collected in `done`.

### Image copies (`ImageCopy`)

A task is a call of imageCopyOpt or imageCopyBlob, named by its path in the tree
of calls.  Each `pc` stands for a request or a wait: "seen" and "wait" are
imageSeenOrWait, "head", "tagget" and "get" the requests for the manifest, "early", "refs",
"tags", "drain" the receives from waitCh with the goroutines started in between,
"put" the push, "post" the send to the parent's channel.  What the code does
between two of those is part of the step before it.  Cancellation is inherited
along the path.  The way an error that is context.Canceled is replaced by the
next received value is modelled as it is (`Receive`).  A HEAD of the target that
is answered with an error counts as "not there" (`HeadRefused`), and a copy by tag that the target
does not have, or with forceRecursive, gets the manifest before it looks at
`opt.seen` (`TagGet`).  The source is given by
constants: `SourceAssumption` says that a digest is that of a manifest or of a
blob and not of both, `TargetAssumption` that a copy starts from a target whose
manifests and tags have what they name.  `Wanted` is the least set of manifests
that has the root and whatever is to be copied along with its members.

### Requests (`RegHttp`)

A request has the list of hosts it still may use and the position in it; `Turn`,
`Acquire`, `BackoffGet`, `Answer` and its failing siblings, `Settle` and `Yield` are the
parts of the loop of `Resp.next`.  Statuses are grouped by what the code does with
them (drop the host, back off, try again, give up).  Time is one bit per host:
whether its backoff lies in the future.  `held` is `resp.throttleDone`.

### OCI layouts (`OCIDir`)

Methods that hold `o.mu` are one step; BlobPut writes its temporary file, renames
it and marks the layout in three; the collection removes one file per step while
it holds `o.mu`.  `Crash` forgets `modRefs` and what the clients were doing; files
stay.  writeIndex truncates `oci-layout` before it replaces `index.json`: when the
process stops in between (`CrashInPut`, `CrashInTagDelete`) the layout is `torn`,
nothing can be read from it, and the next push starts from an empty index, since
updateIndex takes every error of readIndex for a new layout.  Digests are model values; the list of referrers of a subject is a pair
that stands for the digest of an index with these entries, whatever their order.

### Blobs (`BlobCopy`)

One call of BlobCopy or BlobPut; each request is one step, with the retries of
reghttp.Do inside it.  The buffer of blobPutUploadChunked is an array, `off` and
`len` say which part of it bufBytes is, and `bufRdr` which part the reader of the
requests sees, so that a reader that was not made again sends the wrong bytes.
The registry (external) takes a chunk at the end of its session only and may
store a part of what it is sent before it fails.  `misread`, `doubled` and `leaked`
are history.  `Asked` is the blob the target is to have: the one the descriptor names, or what
the reader returns when it names none.  Left out: the copy within one repository, which does nothing, and
the throttles, which are in `PQueueMulti`.

### Referrers (`RegReferrer`)

One goroutine runs one of ManifestPut, ManifestDelete (with CheckReferrers) and
ReferrerList at a time.  Each request is a step, and a failing one may have taken
effect or not; a push of the list without a deleted referrer that the registry
answers with 404 counts as done (`DelPushNotFound`).  All pages of the referrers
API are one request (`ListByAPI`).  The registry is described by two bits, whether it has the
referrers API and whether it can delete a tag, and both values of both are
checked.  `kept`, `quiet` and `degraded` are history: they record which promises the
code has made, and nothing depends on them.

### Authentication (`Auth`)

AddScope, UpdateRequest and HandleResponse hold `a.mu`, requests to the token
server included, and are one step each; a request of reghttp is the sequence of
them with the answer of the registry in between.  A registry is described by the
challenges it offers, whether they name a scope, whether it accepts Basic, and
the credentials the client has.  A token is the set of scopes it was asked for
and the time of its issue.

### Jobs (`JobServer`, `RegSync`, `RegBot`, `Jobs`)

`JobServer` has the goroutine of runOnce, runServer or runCheck, the WaitGroup,
the cron entries (a new run of an entry is skipped while the last one is on),
the throttle and `mainErr`, whose test and assignment are two steps because
nothing guards them.  `RegSync` follows processRef through every early return:
list, HEAD of source and target, platform lookup with its cache, slot, rate
limit with sleeps, backup, copy.  The world moves: `Publish` gives a tag of the
source a new version at any time.  A digest is the number of a version.  `RegBot`
describes each function of the sandbox by what it does: look at the context,
take a slot, honour `--dry-run`.  `Jobs` puts the program of the setup into the
jobs.  A step is an entry of the configuration, so a setup lists each step once
(`JobServerAssumption`), and each step has a target of its own.

### Algorithms

Each is translated from the code and compared with a definition that says what
should come out and is written another way:

* `ModDag`: content is its own digest; a layer is a set of files and a
  compression.  Every pair of options, in both orders, on images, indexes,
  artifacts with subjects and external layers.  The result must have layers,
  diff ids and history in step, every part pushed before what refers to it,
  referrers moved along, and nothing left to do for a second Apply.  Each of the
  last parts has one exception, for what the code does otherwise: `ExternalKept`,
  `FilesMixed` and `Unsettled` at the end of the module name the options and the
  lines.  They weaken one part of the property each; every other part is checked
  for these inputs as well.
* `ImageTar`: the handlers of the import as a table of wanted file names, for
  tar files whose entries come in any order.  `PushedAfterContent` excepts a
  manifest that an index shares with an index inside it, `SameDockerImage` a
  layer file that a Docker tar names twice; inputs of both kinds are checked.
* `Platform`, `ImageBase`: strings as sequences of parts, versions as sequences
  of numbers.
* `Manifest`: a body is its fields and its form (as json.Marshal writes it, or
  not); a digest is the algorithm and the body.
* `Hosts`: a name is scheme, host and path.
* `Cache`: the prunes that Get and the timer start run later, and time passes.
* `Diff`: the furthest points of each diagonal, as in the code.

## Runs

| Run | Instance | Shows |
|---|---|---|
| `pqueue` | 6 callers of different kinds and sizes, 3 slots, one may be cancelled | TypeOK, ActiveBound, WorkConserving, SlotOwnership: limit, hand-over, ownership of slots; PriorityKept: DataNext keeps a small request in flight and bounds overtaking; NoStarvation, for DataNext and without cancellations |
| `pqueue_multi` | 4 callers, 2 queues with one slot, lists in both orders, with nil and duplicates, 1 may be cancelled | SlotsSound: nobody holds a slot while it waits, all or nothing, slots come back; WaitEnds: each wait ends |
| `image_copy` | index of two images with a shared blob, one failing request, cancellation, two attempts | TargetClosed: no manifest without its content; SuccessIsComplete; TasksSound: one copy per digest, no goroutine is left |
| `image_copy_loop` | the referrer loop of the test data with a digest tag to an index of a blob, one failing request | Terminates: the copy ends (not what the final phase copies) |
| `reghttp` | registry and mirror with one slot each, a reader that may resume or seek, an upload, 3 failing answers, a cancellation | ThrottleSound: slots bound connections; ReadsInOrder; EveryHostTried; Answered |
| `ocidir` | image, index, artifact; 2 clients, 3 jobs, one restart outside the collection, also within a push or a deletion | LayoutSound: what the index leads to is on disk, one entry per tag; TagsKept: tags change only on purpose; NothingLeft: the collection leaves no garbage |
| `blob_copy` | blobs of 3 bytes and of none, chunks of 1 to 4 bytes, right, wrong and unknown descriptors, 2 failing requests, a cancellation | UploadSound: chunks carry the bytes they say, resumed uploads are exact; OutcomeSound: success means stored, no known upload is left; Returns |
| `reg_referrer` | 2 artifacts of one subject, 2 goroutines, 4 operations, one failing request, 4 kinds of registry | ListSound: pushes are kept, deletes are ordered unless writes of the list overlap or its push is answered 404; ListsSeePuts: lists are fresh; Returns |
| `auth` | a pull, a DELETE and a listing share a host, 17 kinds of registry and credentials, two tokens that expire or faulty answers | HandlersSound: the token covers all scopes; HeaderFits; NoSameHeader: a refused header is not sent again; FailsForCause |
| `jobs` | regsync on 2 tags and 2 steps with filters, backup, rate limit and a platform for both tags, regbot scripts; once, missing, check, server; interrupt and a failing request | JobsSound: errors reach the exit code, slots come back; OverwritesSaved: what is overwritten was backed up; MissingOnlyAdds; InSync: targets agree with the sources in the end, or with what the platform cache holds under their digest |
| `algorithms` | every pair of options of mod, tars in every order, lists of platforms, texts of 4 lines, caches of up to 3 entries, manifests with one change, 3 host options | ModSound, TarSound, PlatformSound, DiffSound, CacheSound, ManifestSound, HostsSound |

One run ends in a counterexample, a disagreement between the code and what it
says of itself: `pqueue_lost_waiter`, in which a cancelled waiter takes all waiters
behind it out of the queue (`internal/pqueue/pqueue.go:68`); they wait until their
own context ends.

### Met while modelling

Each of these is what the code does and what the model does; the property it
would break says in its comment what it leaves out.

Copies and requests:

* An error that is context.Canceled is replaced by a later nil (`image.go:775`,
  `938`).  A registry refuses the push that follows, an OCI layout does not: with
  `TgtChecksCtx = FALSE` in `MCImageCopy.cfg` a manifest is stored without its blob,
  the next copy takes it for complete, and SuccessIsComplete fails.
* Two copies can wait for each other through `opt.seen` when neither is a parent
  of the other (`image.go:1015`): with an index that lists both members of a loop
  Terminates fails (the run has no such index).
* When ReferrerList fails (`image.go:810`) imageCopyOpt returns without collecting
  the goroutines it has started; a copy put off by a loop that shows up in the
  final phase itself is never run (`image.go:540`).
* A response that was resumed or sought forgets the slot of its first attempt
  (`internal/reghttp/http.go:508`, `573`, `632`), although Close "frees up resources
  from the request" (line 593).
* A registry that has stored nothing of the first chunk reports Range 0-0 or
  none, and blobPutUploadChunked goes on at byte 1 or with the next chunk
  (`scheme/reg/blob.go:557`); a registry that answers each try with 4xx, Location
  and Range keeps the client busy forever (line 533); a cut buffer also loses
  capacity (line 486).
* A HEAD of the target that is answered with any error counts as "not there"; only
  one that cannot be sent ends the copy (`image.go:571`).
* ManifestDelete ignores every ErrNotFound of referrerDelete
  (`scheme/reg/manifest.go:55`), for the case that "the referrer entry wasn't
  found" (line 53).  A 404 on the push of the new list is one too
  (`internal/reghttp/http.go:896`): the manifest is deleted and the list still
  names it.  NoDangling names this exception, next to overlapping writes.
* A delete of a referrer can undo a concurrent push (`scheme/reg/referrer.go:263`);
  one failed request to an existing referrers API yields an empty list without an
  error (line 60).
* AcquireMulti has no bound on its rounds: two callers can back off in lockstep
  (`internal/pqueue/pqueue.go:244`).

Layouts:

* After a crash in writeIndex (`scheme/ocidir/ocidir.go:251`) the next push starts
  from an empty index and its collection removes what the old one led to.
* A collection that stops half way leaves a manifest whose blobs are gone, which
  a later copy takes for complete (`CrashInGC = TRUE`; `close.go:60`).
* ImageImport, mod.Apply and artifact put write without GCLock, so a collection
  next to them may remove their blobs; closeProcManifest passes over a manifest
  it cannot read (`close.go:88`).

Authentication and hosts:

* Between AddScope without a handler and UpdateRequest another request can answer
  the challenge; the 401 that follows is final (`internal/auth/auth.go:164`).
* A refused Basic header is repeated when Bearer was offered too; a challenge
  "Negotiate, Basic ..." is not parsed; Cred.Token is never used (line 53, 629).
* Merge looks at `host.Token` where its comment "unset existing cred helper for
  user/pass or token" means the new one (`config/host.go:284`): a new token does
  not replace a helper, and any entry drops the helper of a host with a token.
* Entries of docker's config carry TLS "enabled" and three connections, so loading
  them after the configuration, as `regclient.go:147` advises, undoes a disabled
  TLS; WithConfigHostDefault does not reach hosts that were loaded before it,
  docker.io never.  Two logins that stand for one registry are merged in the
  order of a Go map.  With RepoAuth several goroutines run GetCred of one host
  without a lock.

Jobs:

* A cron run of a server that has no error writes nil over the error of another
  (so JobsSound speaks of the other modes); the test at `cmd/regsync/root.go:266` is
  inverted; c.Stop does not wait for a run that has not reached wg.Add.
* A failing HEAD of the target counts as missing; a refresh of referrers after
  the source moved overwrites without a backup; lists that are not sorted, and
  patterns with alternatives (`"^" + filter + "$"`), filter wrongly.
* getPlatformDigest fetches a manifest by tag and files it under the digest of an
  earlier HEAD (`cmd/regsync/root.go:919` to `931`).  When the tag moves between
  the two, another tag on the old digest is compared with, and gets, the image of
  the newer version for as long as the program runs.  InSync names this exception
  (`Misfiled`); the run `jobs` reaches it.
* blob.put of regbot reads argument 1 for 2; manifest.put, blob.put and
  image.importTar ignore `--dry-run` (`docs/regbot.md:24`).

Images, tars and manifests:

* mod: a layer that had URLs is passed over also when the removal of external
  urls is one of the options (`mod/mod.go:130`), although
  `mod/manifest.go:597` takes them away "so other steps don't skip the external
  layer"; file steps next to a compression
  pack the layer the old way under the new type (`mod/mod.go:193`); an added layer
  that no step changes is pushed from a reader at its end, or without a media
  type, when there are steps on files (line 305); dagPut gives a manifest back
  the old type of a config that was changed with a conversion (`mod/dag.go:345`);
  created-by removal on an artifact panics (`mod/layer.go:349`), which the model
  shows as an error.
* mod: the data field of a child uses the body of the parent
  (`mod/dag.go:171`); label to annotation sees labels set in the same call only in
  a second one.
* Import: a nested index is pushed before a manifest it shares with its parent
  (`image.go:1696`); a docker tar with a layer file twice fails (line 1430); a name that is not
  found pushes an empty manifest (line 1398); an unsupported layout version
  imports nothing and reports success.
* Platforms: the comparison for SortDesc is not strict for ties
  (`types/descriptor/descriptor.go:274`); a version and a continuation of it are
  equal.  ImageCheckBase looks for annotations on the index only, fails for
  entries without a platform (`image.go:348`), and ManifestHead ignores an error.
* Manifest: a size given with a value is kept although the body has another
  (`types/manifest/manifest.go:391`), which the option for the digest algorithm of
  mod meets; with a raw body and a value the digest is of the value; conversion
  to Docker drops the subject; json.Marshal of a signed manifest drops its
  signatures.
* Cache: a cache for one entry is empty after its second Set
  (`internal/cache/cache.go:63`).

### Bounds

* Six callers and three slots give DataNext a choice among three queued requests,
  small, large and other ones, while two are in flight; two small requests differ
  in their sizes only (`internal/reqmeta/data.go:72`; a size of 0, which the clause
  takes for unknown, is not among them).  A second caller
  that may be cancelled makes the run too long; the theorems hold for any number.  Four callers
  and two queues with one slot let each pair of lists collide in both orders.
* One failing request at a time is enough for the error paths of a copy, because
  each error path cancels its siblings, which produces the further errors; the
  second attempt shows what a failed one left behind.  `MaxDepth` only cuts
  tasks that were left behind.
* Two hosts let a request move on, return and run out; `RetryLimit` 2 and three
  failures reach the limit; a body of two bytes can end early in the middle.
* A blob of three bytes and chunks of two give a full, a partial and, with
  chunks of one or three, an empty last read; two failures let a chunk be cut
  twice.  `RetryLimit` is 2 instead of 10, so that it is exceeded.
* Three jobs give the layout a copy, something that unreferences it, and a
  second copy; the collection itself is not interrupted (`CrashInGC = FALSE`); one
  subject and two referrers suffice for lost updates.  Longer
  sequences repeat states up to the counters.
* Three requests let one act between two calls of another while a third holds a
  token of other scopes; two ticks let a token expire for the client and for the
  registry; `MaxTrouble` bounds faults and ticks together.
* Two steps share a throttle of one slot; two versions let a source move once
  between any two looks at it, and let both tags share a digest.  Versions only
  go up, so a tag that is moved back to an old digest is not in the run; nobody
  but the jobs writes to the targets.
* Two options of mod meet in every pair; a tar of one image or a nested index
  has all its orders, also when it shares a manifest or names a layer twice; texts of four lines over two letters have ties in every
  diagonal; four keys overfill a cache of three.
* Clients and tags are interchangeable in `ocidir`, which has no liveness
  property, so symmetry is used there and nowhere else.

### Fairness

Weak fairness of the steps of each goroutine: the Go scheduler runs runnable
goroutines, mutexes are handed on, and requests are answered or time out (the
failing answers are actions as well).  Nobody is obliged to cancel, to start an
operation or to let a request fail.  Holders of a slot give it back: Done of the
queue is fair, since release functions are deferred.  Time passes (`TimePasses`),
and cron fires its entries.  The jobs of regsync are strongly fair: they compete
for slots, which NoStarvation of `pqueue` justifies for a job that keeps waiting,
and for a Go mutex, which hands over to a waiter after a millisecond.

NoStarvation and WaitEnds are stated for behaviours without cancellations, since
`pqueue_lost_waiter` refutes them otherwise, and checked for one callback each,
DataNext and the oldest first (one that always prefers the newest entry starves the oldest); Answered also for requests that do
not resume, because of the slot they forget.  The number of rounds of
AcquireMulti has no bound: only the end of each single wait is stated.  InSync is
stated for servers that are not interrupted.

## Proofs

The theorems hold for every value of the constants that meets the assumptions of
the modules, so for any number of callers, hosts, goroutines and digests.  Each
temporal theorem is an invariance proof: an inductive invariant `IInv` holds
initially, each action keeps it (one lemma per action), and it implies the
property.  TLC has checked each `IInv` on the instance of the component's run
before it was proved.

### The queue

`PQueueProofs` proves for every set of callers, every limit, every callback and
every set of contexts that may be cancelled:

* `TypeCorrect`: Spec => []TypeOK
* `LimitKept`: Spec => []ActiveBound, never more than MaxActive entries are active
* `SlotsPassedOn`: Spec => []WorkConserving, no free slot while somebody is queued
* `SlotsOwned`: Spec => []SlotOwnership, slots are neither leaked nor shared

Assumptions: MaxActive is a positive natural number (`MaxAssumption`), and there
are finitely many callers (`EntryAssumption`); nothing is assumed about the
callback, since `Clamp` brings any answer into range.

The properties need each other, so the inductive invariant is their conjunction
with QueuedOnce (`Invariance`).  release keeps the bound because the entry it
activates was not active before, which holds because queued and active entries
are disjoint; it keeps the queue duplicate-free because it removes one
occurrence of an entry that occurs once; and a caller that learns of its
cancellation too late still owns the slot it gives back because an active entry
belongs to a caller in "held", "waiting" or "missing".  `PQueueOpsProofs` has the
lemmas about the data structure: what removing an element does to the set of a
duplicate-free sequence (`RemoveFirst...`), what Enter, Enqueue, DropQueued and
Release do to a sound queue (`ReleaseSound` and its siblings).  `PQueueMultiProofs`
and `RegHttpProofs` use them as well.

### AcquireMulti

`PQueueMultiProofs` follows the loops that clean the list by induction on their
rounds: `ListCleaned` says that every list becomes one that names each of its
queues once and no nil.  The loops are recursive functions of the number of
rounds, and `LoopExists` shows once that such a function is defined, from an
invariant of the rounds.

It then proves `MultiSound`: Spec => []SlotsSound for any lists
(`ArgsAssumption`).  Its `IInv` says of each caller which release functions it has
at each place of the loop (`CallerOK`), and of each caller and queue where the
caller is in it (`PlaceOK`).  That the list has no queue twice is needed in each
round: two positions of one queue would release one slot twice.

### Requests

`RegHttpProofs`: `ThrottleKept` (Spec => []ThrottleSound), `BodyInOrder`
(Spec => []ReadsInOrder), `HostsTried` (Spec => EveryHostTried).  `IInv` has, for
each request, where it is in its list of hosts, which slots it owns or is queued
for, how far its body has been read, and that the hosts it has dropped have had
their turn.  Slots that a resumed response forgets (see above) stay active
without a connection, so the theorem bounds connections by slots and not the
other way round.

### Referrers

`RegReferrerProofs`: `ListKept` (Spec => []ListSound) and `ListsNotStale`
(Spec => []ListsSeePuts).  `muRefTag` makes the pull, the change and the push of
a list by ManifestPut one unit (`MutexOK`, `PutOK`), so a push carries all that was
kept when it began.  A delete has no such protection: what it carries is related
to the list by the history only, and `OverlapOK` says that a delete and whoever
changes the same list know of each other.  ListKept has two exceptions, both by
name in NoDangling: a delete may leave an entry for the manifest it deletes when
another write of the list overlaps with it, or when the push of the new list is
answered 404.  After every other error the manifest is not deleted, which is what
the proof shows of each path to `DelMan`.  For a listing, what has to be shown
when it ends lies between what was quiet and what was kept when it began.

### Image copies

`ImageCopyProofs`, for every source (loops included), every depth and every number
of failing requests, cancellations and calls:

* `CopiedOnce`: Spec => [](TypeOK /\ OneCopyPerKey), without further conditions;
* `TargetKept`: Spec => []TargetClosed, if the target looks at the context;
* `TasksKept`: Spec => []TasksSound, without referrers and digest tags;
* `SuccessComplete`: Spec => []SuccessIsComplete, under both conditions.

The conditions are what the code needs.  With an OCI layout as the target
TargetClosed is false, and with referrers or digest tags a task may return while
goroutines it has started are at work (both under "Met while modelling").  Both
conditions are met by the run `image_copy`.

`IInv` has three parts.  `Base` types the tasks and says that `opt.seen` leads to
the task that copies a key.  `Full` is about the content: as long as its context
is not cancelled, what the manifest of a task names is in the target or has a
goroutine at work on it (`InHand`); a success that is reported, to the parent or
through `opt.seen`, is one (`DoneOK`).  A lost error can only be context.Canceled,
in which case the context of the task that lost it is cancelled: that is why the
push, which looks at the context, closes the gap, and why `InHand` speaks of
tasks that are not cancelled only.  `Tree` says that a task is at work only while
its parent waits for it; if one were at work after the return, the shortest such
path would have a parent that is at work, which is shorter still (`NobodyLeft`).

### Uploads of blobs

`BlobCopyProofs`, for every blob, descriptor (right, wrong or without digest or
size), chunk size, limit of retries and number of failing requests:

* `UploadIsSound`: Spec => []UploadSound;
* `OutcomeIsSound`: Spec => []OutcomeSound.

Assumption (`BlobAssumption`): a blob is a sequence of numbers and its own digest,
BlobCopy has a reader that can seek, and sizes and limits are natural numbers.

That a chunk carries the bytes it says depends on four positions which the loop
moves one after the other, so the invariant ties them together: the slice of the
buffer holds the last bytes that were hashed (`BufferOK`); the reader of the
request is the slice as it is whenever a request can be sent (`ReaderOK`); the
offset of the next chunk is the end of the session on the registry, or nothing
has been sent (`OffsetOK`); and byte k of the session is byte k of the blob or of
what was hashed (`SessionOK`).  The alternative in `SessionOK` is needed: the
transport of the failed upload in one request may still take bytes from the
reader of the blob, so that what is hashed is not the blob, and only the
comparison of digests at the end (`FinalOK`) tells.  `BlobReaderOK` says that this
cannot happen without a digest, as the upload in one request is not tried then.
`OffsetOK` holds up to the first report that the code misreads; what remains true
after it (`misread` only with an empty session) is enough for success to mean
stored.  `CleanupOK` follows the uploads that are open: none but the current one.

### regsync and regbot

`JobsProofs`, for any number of steps, tags, slots, versions and failing requests,
for both programs and in all modes:

* `JobsAreSound`: Spec => []JobsSound, errors reach the exit code and slots of the
  throttle come back once on every path;
* `MissingAdds`: Spec => MissingOnlyAdds;
* `OverwritesAreSaved`: Spec => OverwritesSaved.

Assumptions: finitely many steps, each once in a setup, at least one slot
(`JobServerAssumption`); tags and versions are natural numbers (`SyncAssumption`).

`HeldOK` says of each place of processRef and of each call of the sandbox whether
a slot is held there; each lemma about an action then shows that it takes or gives
back the slot exactly when it goes from one kind of place to the other
(`SlotStep`).  A call of the sandbox that waits for the rate limit never has a
slot, which is part of `ShapeOK`.  Errors need `ErrorOK`: an error that is not in
mainErr is still with a job that will look at mainErr.  The test and the
assignment are two steps, and the proof shows why this is harmless outside of
servers: whoever is about to assign has an error to assign (`At(j, "write")` only
with an error), and that rests on cron runs existing in servers only (`OrderOK`).
In a server a cron run assigns nil, so nothing is claimed there.

The two action properties rest on `SyncOK`: from the lookup of the target to the
copy the target stays as it was seen, and before a copy that overwrites it the
backup has it.  The reason is `OneRun`: a step has at most one run in process,
because first runs end before cron starts (`OrderOK`), cron skips an entry that
is still running, and main starts each first run once.

### Only model-checked

* everything about liveness (NoStarvation, WaitEnds, Terminates, Answered,
  Returns, InSync), which is out of reach of the prover, as is ENABLED;
* PriorityKept, since it depends on what DataNext computes from the whole queue;
* `OCIDir`: what garbage collection keeps is a closure over the manifests, a
  recursion over data;
* `Auth`: no proof has been written; what a handler does with a list of
  challenges and scopes is a fold over it, and TLC checks lists that three
  requests can build;
* the algorithms of `MCAlgorithms`: most of them compute by recursion over trees
  and texts, for which the prover has no induction.

## Not modelled

See the components with status `not_modelled` in `PROJECT.json`, and the notes of
those that are `partly` modelled.  In short:

* regctl, the templates and the archives: option parsing, output, and calls of
  the client API one after the other;
* parsing of references, which is the text of a few regular expressions, Link
  headers and option strings;
* `internal/retryable` and `internal/muset`, which no package imports;
* the jwtHub handler, TLS settings and URLs of requests, limits on the size of
  manifests, Lua, and the bytes of tar files and compressed layers;
* copies of an image within one repository, which only move tags, entries of an
  index of an unknown media type, and the pages of a list of referrers;
* file system errors, except where the code goes on after them, and writers to a
  layout that do not take GCLock.

## Plan

1. Proofs: IndexWellFormed of `OCIDir`; HeaderFits and FailsForCause of `Auth`.
2. Writers without GCLock in `OCIDir`, and the platform and external options of
   `ImageCopy`.
3. References and Link headers as algorithms over token classes.

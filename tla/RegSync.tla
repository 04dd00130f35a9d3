------------------------------ MODULE RegSync ------------------------------
(***************************************************************************)
(* regsync: what a job of JobServer does for a step of type "repository":  *)
(* list the tags, and for each of them compare source and target, back up  *)
(* the target and copy.  Every step has a target of its own; the sources   *)
(* move on while steps run.                                                *)
(*                                                                         *)
(* Tags are numbers, in the order of strings.Compare.  A digest is the     *)
(* number of a version of the tag; Plat(v) is the digest of the image for  *)
(* the platform within the index of version v.  A copy is one step here:   *)
(* see ImageCopy.                                                          *)
(***************************************************************************)
EXTENDS JobServer, SyncOps

CONSTANTS
    Tags,           \* the tags
    Allow, Deny,    \* Allow[s], Deny[s]: the patterns of a step, sets of tags
    Unsupported,    \* tags whose media type is not in s.MediaTypes
    HasBackup,      \* steps with s.Backup
    HasPlatform,    \* steps with s.Platform
    HasRateLimit,   \* steps with s.RateLimit.Min > 0 whose source reports its limit
    Recopy,         \* Recopy[s]: "no", "referrers" (or digestTags), "force"
    FirstVersion,   \* FirstVersion[t]: the version at the source, 0 if none yet
    FirstTarget,    \* FirstTarget[t]: the version at the targets, 0 if none
    MaxVersion,     \* bound on the versions of a tag
    MaxFails,       \* bound on the requests that fail
    MaxLow          \* bound on the HEADs that find the rate limit used up

ASSUME SyncAssumption ==
    /\ Tags \subseteq Nat /\ {FirstVersion, FirstTarget} \subseteq [Tags -> Nat]
    /\ {MaxVersion, MaxFails, MaxLow} \subseteq Nat

VARIABLES
    work,       \* work[j]: where processRef of job j is
    src,        \* src[t]: version of tag t at the source
    tgt,        \* tgt[s][t]: digest of tag t at the target of step s, 0 if none
    backup,     \* backup[s][t]: digest of its backup, 0 if none
    cache,      \* manifestCache: cache[v] is the version stored for digest v, 0 if none
    lock,       \* the holder of manifestCache.mu
    fails,
    low

syncVars == <<work, src, tgt, backup, cache, lock, fails, low>>

Free == <<"nobody">>

Plat(v) == MaxVersion + v

(* "list"      : before the TagLists of processRepo                        *)
(* "headsrc", "headtgt" : before the HEADs of processRef                   *)
(* "plat", "platget"    : in getPlatformDigest, before and after Lock      *)
(* "acquire"   : at the throttle                                           *)
(* "rate"      : with a slot, before the HEAD for the rate limit           *)
(* "sleep"     : without a slot, for s.RateLimit.Retry                     *)
(* "ctx"       : with a slot, before the look at the context               *)
(* "backup", "copy" : before the copies                                    *)
(* "close"     : before rc.Close of the target                             *)
NewWork ==
    [pc |-> "list", todo |-> <<>>, sSeen |-> 0, tSeen |-> 0, pin |-> 0, err |-> FALSE,
     blind |-> FALSE, unsaved |-> FALSE]

SyncInit ==
    /\ work = [j \in Job |-> NewWork]
    /\ src = FirstVersion
    /\ tgt = [s \in Steps |-> FirstTarget]
    /\ backup = [s \in Steps |-> [t \in Tags |-> 0]]
    /\ cache = [v \in 1 .. MaxVersion |-> 0]
    /\ lock = Free
    /\ fails = 0 /\ low = 0

\* actionCopy, actionMissing or actionCheck.
Action(j) ==
    CASE setup.mode = "server" -> IF j[2] = "first" THEN "missing" ELSE "copy"
      [] setup.mode = "once" -> "copy"
      [] OTHER -> setup.mode

Working(j, pc) == At(j, "body") /\ main.pc # "returned" /\ work[j].pc = pc

Goto(j, rec) == work' = [work EXCEPT ![j] = rec]

Cur(j) == work[j].todo[1]
S(j) == j[1]

\* A request can fail; after the interrupt it can do so at no charge.
MayFail == fails < MaxFails \/ canceled
Fails == /\ MayFail
         /\ fails' = IF canceled THEN fails ELSE fails + 1

\* processRef returns, with or without an error; processImage closes the target.
Finish(j, err) ==
    Goto(j, [work[j] EXCEPT !.pc = "close", !.err = @ \/ err])

ServerSame == UNCHANGED <<setup, main, job, mainErr, failed, canceled>>
WorldSame == UNCHANGED <<src, tgt, backup, cache, lock, low>>
-----------------------------------------------------------------------------
(* processRepo.                                                            *)

SourceTags == {t \in Tags : src[t] # 0}
TargetTags(s) == {t \in Tags : tgt[s][t] # 0}

Listed(j, tTags) ==
    LET found == FilterList(Allow[S(j)], Deny[S(j)], Sorted(SourceTags))
    IN  IF Action(j) = "missing" THEN MissingOf(found, tTags) ELSE found

\* The source tags that pass the filters; of these, for actionMissing, the ones
\* the target does not have: none of its tags if they cannot be listed.
List(j) ==
    /\ Working(j, "list")
    /\ \/ /\ \/ /\ Goto(j, [work[j] EXCEPT !.pc = "next",
                                          !.todo = Listed(j, Sorted(TargetTags(S(j))))])
                /\ UNCHANGED fails
             \/ /\ Action(j) = "missing" /\ Fails
                /\ Goto(j, [work[j] EXCEPT !.pc = "next", !.todo = Listed(j, <<>>)])
       \/ Fails /\ Goto(j, [work[j] EXCEPT !.pc = "next", !.err = TRUE])
    /\ WorldSame /\ ServerSame /\ UNCHANGED held

\* The loop over the tags; at its end process returns the last error.
NextTag(j) ==
    /\ Working(j, "next")
    /\ IF work[j].todo = <<>>
       THEN /\ Ended(j, work[j].err)
            /\ Goto(j, NewWork)
            /\ UNCHANGED <<setup, main, mainErr, canceled>>
       ELSE /\ Goto(j, [work[j] EXCEPT !.pc = "headsrc"])
            /\ ServerSame
    /\ WorldSame /\ UNCHANGED <<fails, held>>

\* processImage: rc.Close, whose error is only logged.
Close(j) ==
    /\ Working(j, "close")
    /\ Goto(j, [NewWork EXCEPT !.pc = "next", !.todo = Tail(work[j].todo), !.err = work[j].err])
    /\ WorldSame /\ ServerSame /\ UNCHANGED <<fails, held>>
-----------------------------------------------------------------------------
(* processRef.                                                             *)

HeadSource(j) ==
    /\ Working(j, "headsrc")
    /\ \/ /\ Goto(j, [work[j] EXCEPT !.pc = "headtgt", !.sSeen = src[Cur(j)]])
          /\ UNCHANGED fails
       \/ Fails /\ Finish(j, TRUE)
    /\ WorldSame /\ ServerSame /\ UNCHANGED held
\* Mutant: --missing is looked at only when the tags are listed.
AfterCompareNoMissing(j, d) ==
    LET s == S(j)
    IN  IF (d # 0 /\ d = work[j].sSeen /\ Recopy[s] = "no") \/ Cur(j) \in Unsupported THEN "close"
        ELSE IF s \in HasPlatform THEN "plat"
        ELSE IF Action(j) = "check" THEN "close"
        ELSE "acquire"

\* Where processRef goes after the comparison with digest d of the target, 0
\* if it does not exist or could not be looked up.
AfterCompare(j, d) ==
    LET s == S(j)
        exists == d # 0
        matches == exists /\ d = work[j].sSeen
    IN  IF \/ matches /\ Recopy[s] = "no"
           \/ exists /\ Action(j) = "missing"
           \/ Cur(j) \in Unsupported
        THEN "close"
        ELSE IF s \in HasPlatform THEN "plat"
        ELSE IF Action(j) = "check" THEN "close"
        ELSE "acquire"

HeadTarget(j) ==
    /\ Working(j, "headtgt")
    /\ \/ /\ Goto(j, [work[j] EXCEPT !.pc = AfterCompare(j, tgt[S(j)][Cur(j)]),
                                     !.tSeen = tgt[S(j)][Cur(j)]])
          /\ UNCHANGED fails
       \/ /\ Fails
          /\ Goto(j, [work[j] EXCEPT !.pc = AfterCompare(j, 0), !.tSeen = 0,
                                     !.blind = tgt[S(j)][Cur(j)] # 0])
    /\ WorldSame /\ ServerSame /\ UNCHANGED held

\* Once the digest p of the platform is known: go on unless the target has it (or
\* has the whole index) and no copy is forced.
AfterPlatform(j, p) ==
    LET matches == work[j].tSeen # 0 /\ work[j].tSeen \in {work[j].sSeen, p}
    IN  [work[j] EXCEPT !.pin = p,
            !.pc = IF (matches /\ Recopy[S(j)] # "force") \/ Action(j) = "check"
                   THEN "close" ELSE "acquire"]

\* getPlatformDigest: under the mutex, the cached manifest of the digest seen ...
\* (The sources of a step with a platform are indexes.  That one has no image for
\* the platform counts as a failure.)
CacheLookup(j) ==
    /\ Working(j, "plat") /\ lock = Free
    /\ \/ /\ cache[work[j].sSeen] = 0
          /\ Goto(j, [work[j] EXCEPT !.pc = "platget"])
          /\ lock' = j
          /\ UNCHANGED fails
       \/ /\ cache[work[j].sSeen] # 0
          /\ \/ Goto(j, AfterPlatform(j, Plat(cache[work[j].sSeen]))) /\ UNCHANGED fails
             \/ Fails /\ Finish(j, TRUE)
          /\ UNCHANGED lock
    /\ UNCHANGED <<src, tgt, backup, cache, low, held>> /\ ServerSame

\* The cache with what a GET of the tag answers, under the digest of the HEAD: the
\* tag may have moved in between.
Filled(j) == [cache EXCEPT ![work[j].sSeen] = src[Cur(j)]]
\* Mutant: the mutex is not unlocked when the GET fails.
CacheFillKeepsLock(j) ==
    /\ Working(j, "platget")
    /\ \/ /\ cache' = Filled(j)
          /\ Goto(j, AfterPlatform(j, Plat(src[Cur(j)])))
          /\ lock' = Free
          /\ UNCHANGED fails
       \/ Fails /\ Finish(j, TRUE) /\ UNCHANGED <<cache, lock>>
    /\ UNCHANGED <<src, tgt, backup, low, held>> /\ ServerSame

\* ... or that GET, with the mutex held.
CacheFill(j) ==
    /\ Working(j, "platget")
    /\ lock' = Free
    /\ \/ /\ cache' = Filled(j)
          /\ \/ Goto(j, AfterPlatform(j, Plat(src[Cur(j)]))) /\ UNCHANGED fails
             \/ Fails /\ Finish(j, TRUE)
       \/ Fails /\ Finish(j, TRUE) /\ UNCHANGED cache
    /\ UNCHANGED <<src, tgt, backup, low, held>> /\ ServerSame

\* throttle.Acquire: a slot, or the error of a context that is done.
AcquireSlot(j) ==
    /\ Working(j, "acquire")
    /\ \/ /\ Acquire(j)
          /\ Goto(j, [work[j] EXCEPT !.pc = IF S(j) \in HasRateLimit THEN "rate" ELSE "ctx"])
       \/ canceled /\ UNCHANGED held /\ Finish(j, TRUE)
    /\ WorldSame /\ ServerSame /\ UNCHANGED fails

\* The HEAD with the slot in hand: enough is left, or the slot is given back for
\* a sleep, or the HEAD fails and the slot is given back for good.
RateHead(j) ==
    /\ Working(j, "rate")
    /\ \/ /\ Goto(j, [work[j] EXCEPT !.pc = "ctx"])
          /\ UNCHANGED <<fails, low, held>>
       \/ /\ low < MaxLow /\ low' = low + 1
          /\ Release(j)
          /\ Goto(j, [work[j] EXCEPT !.pc = "sleep"])
          /\ UNCHANGED fails
       \/ /\ Fails /\ Finish(j, TRUE) /\ Release(j) /\ UNCHANGED low
    /\ UNCHANGED <<src, tgt, backup, cache, lock>> /\ ServerSame

\* The sleep ends: queue again, or give up with ErrCanceled.
Sleep(j) ==
    /\ Working(j, "sleep")
    /\ \/ Goto(j, [work[j] EXCEPT !.pc = "acquire"])
       \/ canceled /\ Finish(j, TRUE)
    /\ WorldSame /\ ServerSame /\ UNCHANGED <<fails, held>>
\* Mutant: a target that differs from the index seen counts as new.
CheckContextNoBackup(j) ==
    LET w == work[j]
    IN  /\ Working(j, "ctx")
        /\ IF canceled THEN Finish(j, TRUE) /\ Release(j)
           ELSE /\ Goto(j, [w EXCEPT !.pc =
                       IF w.tSeen # 0 /\ w.pin = 0 /\ S(j) \in HasBackup
                       THEN "backup" ELSE "copy"])
                /\ UNCHANGED held
        /\ WorldSame /\ ServerSame /\ UNCHANGED fails

\* The look at the context.  A backup is due when a target was seen that differs.
CheckContext(j) ==
    LET w == work[j]
        matches == w.tSeen # 0 /\ w.tSeen \in {w.sSeen, w.pin}
    IN  /\ Working(j, "ctx")
        /\ IF canceled THEN Finish(j, TRUE) /\ Release(j)
           ELSE /\ Goto(j, [w EXCEPT !.pc =
                       IF w.tSeen # 0 /\ ~matches /\ S(j) \in HasBackup
                       THEN "backup" ELSE "copy"])
                /\ UNCHANGED held
        /\ WorldSame /\ ServerSame /\ UNCHANGED fails

\* The backup.  Its name may be at fault; a copy that fails is only logged.
BackupCopy(j) ==
    /\ Working(j, "backup")
    /\ \/ /\ backup' = [backup EXCEPT ![S(j)][Cur(j)] = tgt[S(j)][Cur(j)]]
          /\ Goto(j, [work[j] EXCEPT !.pc = "copy"])
          /\ UNCHANGED <<fails, held>>
       \/ /\ Fails
          /\ Goto(j, [work[j] EXCEPT !.pc = "copy", !.unsaved = TRUE])
          /\ UNCHANGED <<backup, held>>
       \/ Fails /\ Finish(j, TRUE) /\ Release(j) /\ UNCHANGED backup
    /\ UNCHANGED <<src, tgt, cache, lock, low>> /\ ServerSame

\* ImageCopy from the tag, or from the digest of the platform; then the deferred
\* throttleDone.
Copy(j) ==
    /\ Working(j, "copy")
    /\ Release(j)
    /\ \/ /\ tgt' = [tgt EXCEPT ![S(j)][Cur(j)] =
                        IF work[j].pin # 0 THEN work[j].pin ELSE src[Cur(j)]]
          /\ Finish(j, FALSE)
          /\ UNCHANGED fails
       \/ Fails /\ Finish(j, TRUE) /\ UNCHANGED tgt
    /\ UNCHANGED <<src, backup, cache, lock, low>> /\ ServerSame

\* (external) a new version of a tag is published.
Publish(t) ==
    /\ main.pc # "returned"
    /\ src[t] < MaxVersion /\ src' = [src EXCEPT ![t] = @ + 1]
    /\ UNCHANGED <<work, tgt, backup, cache, lock, fails, low, held>> /\ ServerSame

SyncJob(j) ==
    \/ List(j) \/ NextTag(j) \/ Close(j)
    \/ HeadSource(j) \/ HeadTarget(j) \/ CacheLookup(j) \/ CacheFill(j)
    \/ AcquireSlot(j) \/ RateHead(j) \/ Sleep(j) \/ CheckContext(j)
    \/ BackupCopy(j) \/ Copy(j)
-----------------------------------------------------------------------------
(* "Ability to backup previous target image before overwriting": what a    *)
(* step with a backup overwrites is in the backup, although the target was *)
(* looked up long before and other runs of the step may be due.  Not when  *)
(* the backup failed (it is logged), when the lookup of the target failed  *)
(* (it then counts as missing), and when source and target agreed and the  *)
(* source moved on before a copy for the sake of referrers.                *)
OverwritesSaved ==
    [][ \A j \in Job :
          LET w == work[j]
              old == tgt[S(j)][Cur(j)]
              new == tgt'[S(j)][Cur(j)]
          IN  /\ Working(j, "copy") /\ work'[j].pc = "close"
              /\ S(j) \in HasBackup /\ old # 0 /\ new # old
              => \/ backup[S(j)][Cur(j)] = old
                 \/ w.blind \/ w.unsaved
                 \/ w.tSeen \in {w.sSeen, w.pin} ]_syncVars

(* The first runs of a server, and runs with --missing, add images and     *)
(* never replace one (unless the lookup of the target fails).              *)
MissingOnlyAdds ==
    [][ \A j \in Job :
          /\ Working(j, "copy") /\ work'[j].pc = "close"
          /\ Action(j) = "missing" /\ ~work[j].blind
          => tgt[S(j)][Cur(j)] \in {0, tgt'[S(j)][Cur(j)]} ]_syncVars

\* The target has what the source has: all of it, or the image of the platform.
UpToDate(s, t) == tgt[s][t] = src[t] \/ (s \in HasPlatform /\ tgt[s][t] = Plat(src[t]))

\* The manifest of another version is filed under the digest of version v: the tag
\* moved between a HEAD and the GET.  The entry stays while the program runs.
Misfiled(v) == cache[v] \notin {0, v}

(* A server that is not interrupted brings every target up to date: after  *)
(* the last publication and the last failing request the targets agree     *)
(* with the source, for good, although runs look at the source several     *)
(* times, cache what they have seen and share a mutex and a throttle.      *)
(* One exception: a tag of a step with a platform whose digest is misfiled *)
(* in manifestCache, which may be the work of another tag with this        *)
(* digest.  It gets, and keeps, the image of the version that is filed.    *)
InSync ==
    setup.program = "regsync" /\ setup.mode = "server" =>
        <>[](\/ canceled
             \/ \A s \in Range(setup.steps) \ (NoSchedule \cup BadSchedule) :
                   \A t \in (Range(FilterList(Allow[s], Deny[s], Sorted(Tags))) \ Unsupported) :
                      \/ UpToDate(s, t)
                      \/ /\ s \in HasPlatform /\ Misfiled(src[t])
                         /\ tgt[s][t] = Plat(cache[src[t]]))
=============================================================================

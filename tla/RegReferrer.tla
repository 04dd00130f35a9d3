----------------------------- MODULE RegReferrer -----------------------------
(***************************************************************************)
(* scheme/reg: manifests that refer to a subject, pushed to, deleted from  *)
(* and listed by one client of a registry.  A registry with the referrers  *)
(* API keeps the list of referrers itself; without it the client keeps the *)
(* list as an index under the fallback tag of the subject, which it pulls, *)
(* changes and pushes back.  Goroutines share the cache of lists           *)
(* (cacheRL), what is known about the API (features) and muRefTag.         *)
(*                                                                         *)
(* A step is one request, or what a goroutine does between two requests.   *)
(* A request may fail before or after it took effect.  The cache of        *)
(* manifests is left out: the fallback tag is always pulled by its name,   *)
(* which that cache does not answer.                                       *)
(***************************************************************************)
EXTENDS Integers, FiniteSets

CONSTANTS
    Client,     \* goroutines
    Referrer,   \* manifests with a subject
    Subject,    \* Subject[m]: the subject of m
    None,       \* no tag, no cache entry, nobody
    Dummy,      \* the empty image TagDelete pushes to a tag it cannot delete
    MaxOps,     \* bound on the number of operations
    MaxFails    \* bound on the number of failing requests

Subjects == {Subject[m] : m \in Referrer}
List == {rl : rl \in SUBSET Referrer}

ASSUME ReferrerAssumption ==
    /\ DOMAIN Subject = Referrer
    /\ None \notin Client \cup List /\ Dummy \notin List /\ None # Dummy
    /\ MaxOps \in Nat /\ MaxFails \in Nat

VARIABLES
    server,     \* what the registry supports: the API, deleting a tag
    man,        \* the manifests in the registry
    tag,        \* tag[s]: what the fallback tag of s points to
    cacheRL,    \* cacheRL[s]: the cached list of s
    feature,    \* features["referrer"]: "unknown", "yes" or "no"
    muRefTag,   \* the goroutine that has the mutex
    op,         \* op[c]: the operation c is in
    kept,       \* history: referrers that were pushed while no delete was under
                \* way, and not deleted since
    quiet,      \* history: those of them whose push ended with no listing under way
    degraded,   \* history: the API of a registry that has one failed
    ops,        \* operations so far
    fails       \* failed requests so far

hist == <<kept, quiet, degraded>>
vars == <<server, man, tag, cacheRL, feature, muRefTag, op, hist, ops, fails>>
-----------------------------------------------------------------------------
(* ManifestPut  : "put", "putack", then "lock", "pull", "push", "pushack"  *)
(* ManifestDelete : "ping", "delpull", "deltag", "dummy", "deldummy",      *)
(*                "delpush", "delman", or "delmissed" if the list could    *)
(*                not be pushed but the delete goes on                     *)
(* ReferrerList : "api", "tag", "set"                                      *)
PC == {"idle", "put", "putack", "lock", "pull", "push", "pushack",
       "ping", "delpull", "deltag", "dummy", "deldummy", "delpush", "delman",
       "delmissed", "api", "tag", "set"}

Putting == {"put", "putack", "lock", "pull", "push", "pushack"}
Deleting == {"ping", "delpull", "deltag", "dummy", "deldummy", "delpush", "delman",
             "delmissed"}
Listing == {"api", "tag", "set"}

\* subj: the subject; m: the manifest; rl: the list in hand; overlap: a delete of
\* another goroutine was under way; known: features had an answer at the start;
\* sees: what a listing has to show
Idle == [pc |-> "idle", subj |-> None, m |-> None, rl |-> {}, known |-> FALSE,
         overlap |-> FALSE, sees |-> {}]

Init ==
    /\ server \in [api : BOOLEAN, tagDelete : BOOLEAN]
    /\ man = {}
    /\ tag = [s \in Subjects |-> None]
    /\ cacheRL = [s \in Subjects |-> None]
    /\ feature = "unknown"
    /\ muRefTag = None
    /\ op = [c \in Client |-> Idle]
    /\ kept = {}
    /\ quiet = {}
    /\ degraded = FALSE
    /\ ops = 0
    /\ fails = 0

At(c, pc) == op[c].pc = pc
Upd(c, rec) == op' = [op EXCEPT ![c] = rec]
Goto(c, pc) == Upd(c, [op[c] EXCEPT !.pc = pc])

\* The goroutines that are in a phase of S for subject s.
Busy(S, s) == {c \in Client : op[c].pc \in S /\ op[c].subj = s}

\* A request fails: its effect on the registry may have taken place.
Fails == fails < MaxFails /\ fails' = fails + 1

StartOp(c) == At(c, "idle") /\ ops < MaxOps /\ ops' = ops + 1

\* What a pull of the fallback tag answers; Dummy is no index.
Pulled(s) == IF tag[s] = None THEN {} ELSE tag[s]
-----------------------------------------------------------------------------
(* ManifestPut and referrerPut.                                            *)

StartPut(c, m) ==
    /\ StartOp(c)
    /\ LET deletes == Busy(Deleting, Subject[m])
       IN  op' = [d \in Client |->
                    IF d = c
                    THEN [Idle EXCEPT !.pc = "put", !.subj = Subject[m], !.m = m,
                                      !.overlap = deletes # {}]
                    ELSE [op[d] EXCEPT !.overlap = @ \/ d \in deletes]]
    /\ UNCHANGED <<server, man, tag, cacheRL, feature, muRefTag, hist, fails>>

Put(c) ==
    /\ At(c, "put")
    /\ man' = man \cup {op[c].m}
    /\ Goto(c, "putack")
    /\ UNCHANGED <<server, tag, cacheRL, feature, muRefTag, hist, ops, fails>>

PutFails(c) ==
    /\ At(c, "put")
    /\ Fails
    /\ man' \in {man, man \cup {op[c].m}}
    /\ Upd(c, Idle)
    /\ UNCHANGED <<server, tag, cacheRL, feature, muRefTag, hist, ops>>

\* The push is over, without an error.
Kept(c) ==
    /\ kept' = IF op[c].overlap THEN kept ELSE kept \cup {op[c].m}
    /\ quiet' = IF op[c].overlap \/ Busy(Listing, op[c].subj) # {}
                THEN quiet ELSE quiet \cup {op[c].m}
\* The cached list survives the push.
PutAckCached(c) ==
    /\ At(c, "putack")
    /\ IF server.api THEN Kept(c) /\ Upd(c, Idle)
                     ELSE Goto(c, "lock") /\ UNCHANGED <<kept, quiet>>
    /\ UNCHANGED <<server, man, tag, cacheRL, feature, muRefTag, degraded, ops, fails>>

\* The registry says in the OCI-Subject header that it keeps the list.
PutAck(c) ==
    /\ At(c, "putack")
    /\ cacheRL' = [cacheRL EXCEPT ![op[c].subj] = None]
    /\ IF server.api THEN Kept(c) /\ Upd(c, Idle)
                     ELSE Goto(c, "lock") /\ UNCHANGED <<kept, quiet>>
    /\ UNCHANGED <<server, man, tag, feature, muRefTag, degraded, ops, fails>>
\* The list is pulled without a wait for the mutex.
LockNot(c) ==
    /\ At(c, "lock")
    /\ Goto(c, "pull")
    /\ UNCHANGED <<server, man, tag, cacheRL, feature, muRefTag, hist, ops, fails>>

Lock(c) ==
    /\ At(c, "lock")
    /\ muRefTag = None
    /\ muRefTag' = c
    /\ Goto(c, "pull")
    /\ UNCHANGED <<server, man, tag, cacheRL, feature, hist, ops, fails>>
\* An error return without the Unlock.
PutAbortLocked(c) == Upd(c, Idle) /\ UNCHANGED muRefTag

\* referrerPut returns an error, the deferred Unlock included.
PutAbort(c) == Upd(c, Idle) /\ muRefTag' = None

Pull(c) ==
    /\ At(c, "pull")
    /\ IF tag[op[c].subj] = Dummy
       THEN PutAbort(c)
       ELSE /\ Upd(c, [op[c] EXCEPT !.pc = "push",
                                    !.rl = Pulled(op[c].subj) \cup {op[c].m}])
            /\ UNCHANGED muRefTag
    /\ UNCHANGED <<server, man, tag, cacheRL, feature, hist, ops, fails>>

Push(c) ==
    /\ At(c, "push")
    /\ tag' = [tag EXCEPT ![op[c].subj] = op[c].rl]
    /\ Goto(c, "pushack")
    /\ UNCHANGED <<server, man, cacheRL, feature, muRefTag, hist, ops, fails>>

PushFails(c) ==
    /\ op[c].pc \in {"pull", "push"}
    /\ Fails
    /\ \/ UNCHANGED tag
       \/ At(c, "push") /\ tag' = [tag EXCEPT ![op[c].subj] = op[c].rl]
    /\ PutAbort(c)
    /\ UNCHANGED <<server, man, cacheRL, feature, hist, ops>>

PushAck(c) ==
    /\ At(c, "pushack")
    /\ cacheRL' = [cacheRL EXCEPT ![op[c].subj] = op[c].rl]
    /\ muRefTag' = None
    /\ Kept(c)
    /\ Upd(c, Idle)
    /\ UNCHANGED <<server, man, tag, feature, degraded, ops, fails>>
-----------------------------------------------------------------------------
(* ManifestDelete with CheckReferrers, referrerDelete and TagDelete.       *)

\* The manifest was pulled to learn its subject.  History: nothing is promised
\* about it from now on, nor about pushes and deletes that go on meanwhile.
StartDelete(c, m) ==
    LET s == Subject[m]
        others == Busy(Putting \cup Deleting, s)
    IN  /\ StartOp(c)
        /\ m \in man
        /\ kept' = kept \ {m}
        /\ quiet' = quiet \ {m}
        /\ op' = [d \in Client |->
                    IF d = c
                    THEN [Idle EXCEPT !.pc = "ping", !.subj = s, !.m = m,
                                      !.overlap = others # {}]
                    ELSE [op[d] EXCEPT !.overlap = @ \/ d \in others,
                                       !.sees = @ \ {m}]]
        /\ cacheRL' = [cacheRL EXCEPT ![s] = None]
        /\ UNCHANGED <<server, man, tag, feature, muRefTag, degraded, fails>>

AfterPing(f) == IF f = "yes" THEN "delman" ELSE "delpull"

\* referrerPing: a known answer, or a request.
Ping(c) ==
    /\ At(c, "ping")
    /\ feature' = IF feature # "unknown" THEN feature
                  ELSE IF server.api THEN "yes" ELSE "no"
    /\ Goto(c, AfterPing(feature'))
    /\ UNCHANGED <<server, man, tag, cacheRL, muRefTag, hist, ops, fails>>

PingFails(c) ==
    /\ At(c, "ping")
    /\ feature = "unknown"
    /\ Fails
    /\ feature' = "no"
    /\ degraded' = (degraded \/ server.api)
    /\ Goto(c, AfterPing("no"))
    /\ UNCHANGED <<server, man, tag, cacheRL, muRefTag, kept, quiet, ops>>

\* A manifest that is not in the list is deleted all the same.
DelPull(c) ==
    /\ At(c, "delpull")
    /\ LET rl == Pulled(op[c].subj)
       IN  Upd(c, IF rl = Dummy THEN Idle
                  ELSE IF op[c].m \notin rl THEN [op[c] EXCEPT !.pc = "delman"]
                  ELSE [op[c] EXCEPT !.rl = rl \ {op[c].m},
                                     !.pc = IF rl = {op[c].m} THEN "deltag" ELSE "delpush"])
    /\ UNCHANGED <<server, man, tag, cacheRL, feature, muRefTag, hist, ops, fails>>

\* The tag of an empty list is deleted, if the registry can do that and has it.
DelTag(c) ==
    /\ At(c, "deltag")
    /\ IF server.tagDelete /\ tag[op[c].subj] # None
       THEN tag' = [tag EXCEPT ![op[c].subj] = None] /\ Goto(c, "delman")
       ELSE UNCHANGED tag /\ Goto(c, "dummy")
    /\ UNCHANGED <<server, man, cacheRL, feature, muRefTag, hist, ops, fails>>

\* Otherwise a dummy takes its place, which is deleted with the tags it has.
PushDummy(c) ==
    /\ At(c, "dummy")
    /\ IF tag[op[c].subj] = None
       THEN UNCHANGED tag /\ Goto(c, "delpush")
       ELSE tag' = [tag EXCEPT ![op[c].subj] = Dummy] /\ Goto(c, "deldummy")
    /\ UNCHANGED <<server, man, cacheRL, feature, muRefTag, hist, ops, fails>>

DeleteDummy(c) ==
    /\ At(c, "deldummy")
    /\ tag' = [tag EXCEPT ![op[c].subj] = IF @ = Dummy THEN None ELSE @]
    /\ Goto(c, "delman")
    /\ UNCHANGED <<server, man, cacheRL, feature, muRefTag, hist, ops, fails>>

\* Any error on the way ends in a push of the empty list.
DelTagFails(c) ==
    /\ op[c].pc \in {"deltag", "dummy", "deldummy"}
    /\ Fails
    /\ \/ UNCHANGED tag
       \/ tag' = [tag EXCEPT ![op[c].subj] =
                    CASE At(c, "deltag") /\ server.tagDelete -> None
                      [] At(c, "dummy") /\ @ # None -> Dummy
                      [] At(c, "deldummy") /\ @ = Dummy -> None
                      [] OTHER -> @]
    /\ Goto(c, IF At(c, "deltag") THEN "dummy" ELSE "delpush")
    /\ UNCHANGED <<server, man, cacheRL, feature, muRefTag, hist, ops>>

DelPush(c) ==
    /\ At(c, "delpush")
    /\ tag' = [tag EXCEPT ![op[c].subj] = op[c].rl]
    /\ Goto(c, "delman")
    /\ UNCHANGED <<server, man, cacheRL, feature, muRefTag, hist, ops, fails>>

\* The manifest goes last.
DelMan(c) ==
    /\ op[c].pc \in {"delman", "delmissed"}
    /\ man' = man \ {op[c].m}
    /\ Upd(c, Idle)
    /\ UNCHANGED <<server, tag, cacheRL, feature, muRefTag, hist, ops, fails>>

\* Any "not found" of referrerDelete is taken for a referrer that was not listed,
\* also a 404 that answers the push of the new list: the old one stays.
DelPushNotFound(c) ==
    /\ At(c, "delpush")
    /\ Fails
    /\ Goto(c, "delmissed")
    /\ UNCHANGED <<server, man, tag, cacheRL, feature, muRefTag, hist, ops>>

\* Any other error ends the delete.
DeleteFails(c) ==
    /\ op[c].pc \in {"delpull", "delpush", "delman", "delmissed"}
    /\ Fails
    /\ \/ UNCHANGED <<man, tag>>
       \/ At(c, "delpush") /\ tag' = [tag EXCEPT ![op[c].subj] = op[c].rl] /\ UNCHANGED man
       \/ op[c].pc \in {"delman", "delmissed"} /\ man' = man \ {op[c].m} /\ UNCHANGED tag
    /\ Upd(c, Idle)
    /\ UNCHANGED <<server, cacheRL, feature, muRefTag, hist, ops>>
-----------------------------------------------------------------------------
(* ReferrerList.                                                           *)

\* A cached list is returned at once, and nothing changes.
StartList(c, s) ==
    /\ StartOp(c)
    /\ cacheRL[s] = None
    /\ Upd(c, [Idle EXCEPT !.pc = IF feature = "no" THEN "tag" ELSE "api",
                           !.known = feature # "unknown",
                           !.subj = s, !.sees = {m \in kept : Subject[m] = s}])
    /\ UNCHANGED <<server, man, tag, cacheRL, feature, muRefTag, hist, fails>>

\* All pages of the answer are one request here.
ListByAPI(c) ==
    /\ At(c, "api")
    /\ feature' = IF op[c].known THEN feature ELSE IF server.api THEN "yes" ELSE "no"
    /\ Upd(c, IF server.api
              THEN [op[c] EXCEPT !.pc = "set", !.rl = {m \in man : Subject[m] = op[c].subj}]
              ELSE [op[c] EXCEPT !.pc = "tag"])
    /\ UNCHANGED <<server, man, tag, cacheRL, muRefTag, hist, ops, fails>>

\* An error of the API sends the listing to the fallback tag, and is remembered.
ListByAPIFails(c) ==
    /\ At(c, "api")
    /\ Fails
    /\ feature' = IF op[c].known THEN feature ELSE "no"
    /\ degraded' = (degraded \/ server.api)
    /\ Goto(c, "tag")
    /\ UNCHANGED <<server, man, tag, cacheRL, muRefTag, kept, quiet, ops>>

ListByTag(c) ==
    /\ At(c, "tag")
    /\ LET rl == Pulled(op[c].subj)
       IN  Upd(c, IF rl = Dummy THEN Idle ELSE [op[c] EXCEPT !.pc = "set", !.rl = rl])
    /\ UNCHANGED <<server, man, tag, cacheRL, feature, muRefTag, hist, ops, fails>>

ListFails(c) ==
    /\ At(c, "tag")
    /\ Fails
    /\ Upd(c, Idle)
    /\ UNCHANGED <<server, man, tag, cacheRL, feature, muRefTag, hist, ops>>

ListEnd(c) ==
    /\ At(c, "set")
    /\ cacheRL' = [cacheRL EXCEPT ![op[c].subj] = op[c].rl]
    /\ Upd(c, Idle)
    /\ UNCHANGED <<server, man, tag, feature, muRefTag, hist, ops, fails>>
-----------------------------------------------------------------------------
\* Cached lists expire, and so does what is known about the API.
Expire ==
    /\ \/ /\ \E s \in Subjects : /\ cacheRL[s] # None
                                 /\ cacheRL' = [cacheRL EXCEPT ![s] = None]
          /\ UNCHANGED feature
       \/ feature # "unknown" /\ feature' = "unknown" /\ UNCHANGED cacheRL
    /\ UNCHANGED <<server, man, tag, muRefTag, op, hist, ops, fails>>

Start(c) ==
    \/ \E m \in Referrer : StartPut(c, m) \/ StartDelete(c, m)
    \/ \E s \in Subjects : StartList(c, s)

\* The operation of c goes on, without a failing request ...
Step(c) ==
    \/ Put(c) \/ PutAck(c) \/ Lock(c) \/ Pull(c) \/ Push(c) \/ PushAck(c)
    \/ Ping(c) \/ DelPull(c) \/ DelTag(c) \/ PushDummy(c) \/ DeleteDummy(c)
    \/ DelPush(c) \/ DelMan(c)
    \/ ListByAPI(c) \/ ListByTag(c) \/ ListEnd(c)

\* ... or with one.
Failure(c) ==
    \/ PutFails(c) \/ PushFails(c) \/ PingFails(c) \/ DelTagFails(c)
    \/ DelPushNotFound(c) \/ DeleteFails(c) \/ ListByAPIFails(c) \/ ListFails(c)

Next == Expire \/ \E c \in Client : Start(c) \/ Step(c) \/ Failure(c)

Spec == Init /\ [][Next]_vars

\* Requests are answered.
FairSpec == Spec /\ \A c \in Client : WF_vars(Step(c))
-----------------------------------------------------------------------------
TypeOK ==
    /\ man \subseteq Referrer
    /\ tag \in [Subjects -> List \cup {None, Dummy}]
    /\ cacheRL \in [Subjects -> List \cup {None}]
    /\ feature \in {"unknown", "yes", "no"}
    /\ kept \subseteq Referrer /\ quiet \subseteq kept
    /\ muRefTag \in Client \cup {None}
    /\ \A c \in Client : op[c].pc \in PC /\ op[c].rl \in List

\* The referrers of s the registry can tell of.
Listed(s) == IF server.api THEN {m \in man : Subject[m] = s} ELSE tag[s]

\* A push that succeeded is not lost: the referrer stays in the list the registry
\* serves until it is deleted, whatever other pushes and failures come in
\* between.  (A delete that is under way during the push may lose it, since
\* referrerDelete changes the list without muRefTag.)
PushesKept == \A m \in kept : m \in Listed(Subject[m])

\* Listings are not stale: a list that is returned or cached shows every referrer
\* whose push was over when the listing began, and for a cached list also when
\* no other listing was under way.  (Once a request to an existing API failed
\* the fallback tag, which is empty there, is taken for the answer.)
ListsSeePuts ==
    ~degraded =>
        /\ \A c \in Client : At(c, "set") => op[c].sees \subseteq op[c].rl
        /\ \A m \in quiet : cacheRL[Subject[m]] # None => m \in cacheRL[Subject[m]]

\* A manifest whose DELETE is about to be sent is not in the list, with two
\* exceptions: another delete or push was under way with this one, or the push of
\* the list without it was answered 404, which ManifestDelete ignores.  Every
\* other error on the way to the new list ends the delete with the manifest there.
NoDangling ==
    \A c \in Client :
        /\ op[c].pc \in {"delman", "delmissed"} /\ ~op[c].overlap
        /\ tag[op[c].subj] \notin {None, Dummy} /\ op[c].m \in tag[op[c].subj]
        => At(c, "delmissed")

\* The list on the registry: of its type, with every push that succeeded, and
\* without what is about to be deleted (but for the exceptions of NoDangling).
ListSound == TypeOK /\ PushesKept /\ NoDangling

\* Every operation returns: the mutex comes back on every path.
Returns == \A c \in Client : ~At(c, "idle") ~> At(c, "idle")
=============================================================================

------------------------------- MODULE RegHttp -------------------------------
(***************************************************************************)
(* internal/reghttp: requests that are sent to a registry and its mirrors, *)
(* with the throttle queue of every host, retries, backoff, and a response *)
(* whose Read and Seek send the request again (resp.next) when the body    *)
(* ends early or the caller moves in it.                                   *)
(*                                                                         *)
(* A host is one clientHost; a step is one critical section of its mutex   *)
(* or of the mutex of its queue, or one answer of a server.  Time is       *)
(* abstracted to "is backoffLast of this host still ahead of the clock".   *)
(* A request within a transaction of AcquireMulti holds its slots already  *)
(* and does not queue here: see PQueueMulti.                               *)
(***************************************************************************)
EXTENDS Integers, Sequences, FiniteSets, SequencesExt

CONSTANTS
    Host,           \* the registry and its mirrors
    Upstream,       \* the registry named in the request
    Priority,       \* Priority[h]: the configured priority
    Request,        \* the calls of Client.Do
    IgnoreErr,      \* requests with Req.IgnoreErr
    NoMirrors,      \* requests with Req.NoMirrors
    Upload,         \* requests whose BodyFunc cannot produce the body twice, and
                    \* whose response nobody reads
    ReqConcurrent,  \* slots of every host's throttle
    RetryLimit,     \* c.retryLimit
    ResetCount,     \* backoffResetCount
    Size,           \* length of the body, known from ExpectLen
    Cancellable,    \* requests whose context may be cancelled
    NoHost,         \* no slot is held
    MaxResume,      \* bound on the Read and Seek calls that send a request again
    MaxFails        \* bound on the number of answers that are not a success

ASSUME RegHttpAssumption ==
    /\ IsFiniteSet(Host) /\ IsFiniteSet(Request)
    /\ Upstream \in Host /\ NoHost \notin Host
    /\ Priority \in [Host -> Nat]
    /\ IgnoreErr \subseteq Request /\ NoMirrors \subseteq Request
    /\ Upload \subseteq Request /\ Cancellable \subseteq Request
    /\ {ReqConcurrent, RetryLimit, Size} \subseteq Nat \ {0}
    /\ {ResetCount, MaxResume, MaxFails} \subseteq Nat

\* One entry of a throttle queue: the n-th call of resp.next of a request.  Within
\* one call every slot is given back before the next one is asked for.
Call == Request \X (0 .. MaxResume)

OldestFirst(queued, active) == 0

Q == INSTANCE PQueueOps
       WITH Entry <- Call, MaxActive <- ReqConcurrent, NextEntry <- OldestFirst

VARIABLES
    q,          \* q[h]: the throttle queue of host h
    backoff,    \* backoff[h]: backoffCur and backoffReset
    ahead,      \* ahead[h]: backoffLast lies in the future
    req,        \* the requests, see Req
    fails       \* answers so far that were not a success

vars == <<q, backoff, ahead, req, fails>>

(* "idle"    : before Do                                                   *)
(* "top"     : at the head of the loop of next                             *)
(* "waiting", "missing" : in the select of Acquire, see PQueue             *)
(* "closure" : the slot is ours, before backoffGet                         *)
(* "sleep"   : sleeping for the backoff                                    *)
(* "send"    : the request is on its way                                   *)
(* "failed"  : the closure returned an error                               *)
(* "yield"   : about to call throttleDone                                  *)
(* "open"    : Do, Read or Seek returned nil, the caller has the response  *)
(* "broken"  : Read or Seek returned an error, the caller has to close     *)
(* "closed"  : Do returned an error, or Close was called                   *)
PC == {"idle", "top", "waiting", "missing", "closure", "sleep", "send",
       "failed", "yield", "open", "broken", "closed"}

\* What a failed attempt asks for; "again" is retryHost, "final" ErrNotRetryable.
Flags == [backoff : BOOLEAN, drop : BOOLEAN, again : BOOLEAN, final : BOOLEAN,
          after : BOOLEAN]

Plain    == [backoff |-> FALSE, drop |-> FALSE, again |-> FALSE,
             final |-> FALSE, after |-> FALSE]
Dropped  == [Plain EXCEPT !.drop = TRUE]
Overload == [Plain EXCEPT !.backoff = TRUE]
Limited  == [Overload EXCEPT !.after = TRUE]      \* with a Retry-After header
Broken   == [Overload EXCEPT !.drop = TRUE]
Again    == [Plain EXCEPT !.again = TRUE]
Final    == [Dropped EXCEPT !.final = TRUE]

Req == [pc : PC, op : {"do", "read", "seek"}, hosts : Seq(Host), cur : Nat,
        retry : Int, n : 0 .. MaxResume, held : (Host \X (0 .. MaxResume)) \cup {<<NoHost, 0>>},
        mirror : Host, tried : SUBSET Host, err : BOOLEAN, flags : Flags,
        resp : BOOLEAN, done : BOOLEAN, readCur : 0 .. Size, pos : 0 .. Size,
        ctx : BOOLEAN]

NotHeld == <<NoHost, 0>>

NewResp ==
    [pc |-> "idle", op |-> "do", hosts |-> <<>>, cur |-> 1, retry |-> 0, n |-> 0,
     held |-> NotHeld, mirror |-> Upstream, tried |-> {}, err |-> FALSE,
     flags |-> Plain, resp |-> FALSE, done |-> FALSE, readCur |-> 0, pos |-> 0,
     ctx |-> FALSE]

\* Nobody uses the response any more.
Closed == [NewResp EXCEPT !.pc = "closed"]

Init ==
    /\ q = [h \in Host |-> Q!EmptyQueue]
    /\ backoff = [h \in Host |-> [cur |-> 0, reset |-> 0]]
    /\ ahead = [h \in Host |-> FALSE]
    /\ fails = 0
    /\ req = [r \in Request |-> NewResp]

At(r, pc) == req[r].pc = pc

Upd(r, rec) == req' = [req EXCEPT ![r] = rec]

\* The host the loop is at, and the entry of its queue.
Cur(r) == req[r].hosts[req[r].cur]
Me(r) == <<r, req[r].n>>
-----------------------------------------------------------------------------
(* Hosts and their backoff.                                                *)

Hosts(r) == IF r \in NoMirrors THEN {Upstream} ELSE Host

\* sortHostsCmp: while the backoff of one of the two is still running the one
\* that ends first comes first; else the lower priority number, and the registry
\* itself after the mirrors of its priority.
SortedBefore(g, h) ==
    IF ahead[g] \/ ahead[h] THEN ahead[h]
    ELSE \/ Priority[g] < Priority[h]
         \/ Priority[g] = Priority[h] /\ g # Upstream

\* The orders sort.Slice can leave the hosts in.
HostOrders(r) ==
    {s \in SetToSeqs(Hosts(r)) :
        \A i \in 1 .. (Len(s) - 1) : SortedBefore(s[i], s[i + 1])}

\* backoffSet without Retry-After; the second is its error, the backoff limit.
BackoffSet(h) == [backoff EXCEPT ![h].cur = @ + 1]
BackoffLimit(h) == backoff[h].cur + 1 >= RetryLimit

BackoffReset(h) ==
    IF backoff[h].cur = 0 THEN UNCHANGED <<backoff, ahead>>
    ELSE IF backoff[h].reset + 1 > ResetCount \/ backoff[h].cur > RetryLimit
    THEN /\ backoff' = [backoff EXCEPT ![h] = [cur |-> @.cur - 1, reset |-> 0]]
         /\ ahead' = [ahead EXCEPT ![h] = @ /\ backoff[h].cur > 1]
    ELSE /\ backoff' = [backoff EXCEPT ![h].reset = @ + 1]
         /\ UNCHANGED ahead

\* The clock passes backoffLast of a host.
TimePasses(h) ==
    /\ ahead[h]
    /\ ahead' = [ahead EXCEPT ![h] = FALSE]
    /\ UNCHANGED <<q, backoff, req, fails>>
-----------------------------------------------------------------------------
(* The loop of next.                                                       *)

\* next starts: the hosts are sorted, the error is cleared.
Next_(r, rec) ==
    \E s \in HostOrders(r) :
        Upd(r, [rec EXCEPT !.pc = "top", !.hosts = s, !.cur = 1,
                           !.tried = {}, !.err = FALSE])

Do(r) ==
    /\ At(r, "idle")
    /\ Next_(r, req[r])
    /\ UNCHANGED <<q, backoff, ahead, fails>>

\* next returns an error, to Do, Read or Seek.
GiveUp(r, rec) ==
    Upd(r, IF rec.op = "do" THEN Closed
           ELSE [rec EXCEPT !.pc = "broken",
                            !.done = IF rec.op = "read" THEN TRUE ELSE @])

Exhausted(r) ==
    /\ At(r, "top")
    /\ req[r].hosts = <<>>
    /\ GiveUp(r, req[r])
    /\ UNCHANGED <<q, backoff, ahead, fails>>

\* The record with curHost wrapped and retryCount counted.
Turn(r) ==
    LET i == IF req[r].cur > Len(req[r].hosts) THEN 1 ELSE req[r].cur
    IN  [req[r] EXCEPT !.cur = i, !.mirror = req[r].hosts[i], !.retry = @ + 1,
                       !.tried = @ \cup {req[r].hosts[i]}]

RetryLimitExceeded(r) ==
    /\ At(r, "top")
    /\ req[r].hosts # <<>>
    /\ req[r].retry > RetryLimit
    /\ GiveUp(r, [Turn(r) EXCEPT !.retry = @ - 1])
    /\ UNCHANGED <<q, backoff, ahead, fails>>

ContextDone(r) ==
    /\ At(r, "top")
    /\ req[r].hosts # <<>>
    /\ req[r].retry <= RetryLimit
    /\ req[r].ctx
    /\ GiveUp(r, Turn(r))
    /\ UNCHANGED <<q, backoff, ahead, fails>>

\* The loop reaches Acquire of the host's throttle.
Acquire(r) ==
    /\ At(r, "top")
    /\ req[r].hosts # <<>>
    /\ req[r].retry <= RetryLimit
    /\ ~req[r].ctx
    /\ LET h == Turn(r).mirror
       IN  \/ /\ Q!HasRoom(q[h])
              /\ q' = [q EXCEPT ![h] = Q!Enter(@, Me(r))]
              /\ Upd(r, [Turn(r) EXCEPT !.pc = "closure"])
           \/ /\ ~Q!HasRoom(q[h])
              /\ q' = [q EXCEPT ![h] = Q!Enqueue(@, Me(r))]
              /\ Upd(r, [Turn(r) EXCEPT !.pc = "waiting"])
    /\ UNCHANGED <<backoff, ahead, fails>>

Granted(r) ==
    /\ At(r, "waiting")
    /\ Me(r) \in q[Cur(r)].active
    /\ Upd(r, [req[r] EXCEPT !.pc = "closure"])
    /\ UNCHANGED <<q, backoff, ahead, fails>>

\* Acquire returns ErrCanceled: found among the queued entries, or granted in
\* the meantime and released in a critical section of its own.
AbortQueued(r) ==
    /\ At(r, "waiting")
    /\ req[r].ctx
    /\ Me(r) \in Q!QueuedSet(q[Cur(r)])
    /\ q' = [q EXCEPT ![Cur(r)] = Q!DropQueued(@, Me(r))]
    /\ GiveUp(r, req[r])
    /\ UNCHANGED <<backoff, ahead, fails>>

AbortMissing(r) ==
    /\ At(r, "waiting")
    /\ req[r].ctx
    /\ Me(r) \notin Q!QueuedSet(q[Cur(r)])
    /\ Upd(r, [req[r] EXCEPT !.pc = "missing"])
    /\ UNCHANGED <<q, backoff, ahead, fails>>

ReleaseMissing(r) ==
    /\ At(r, "missing")
    /\ q' = [q EXCEPT ![Cur(r)] = Q!Release(@, Me(r))]
    /\ GiveUp(r, req[r])
    /\ UNCHANGED <<backoff, ahead, fails>>

\* The closure starts: the previous body is closed and backoffGet tells how long
\* to sleep.  With backoffs counted the delay may or may not have run out.
BackoffGet(r) ==
    /\ At(r, "closure")
    /\ LET h == Cur(r)
       IN  \/ /\ backoff[h].cur > 0 \/ ahead[h]
              /\ ahead' = [ahead EXCEPT ![h] = TRUE]
              /\ Upd(r, [req[r] EXCEPT !.pc = "sleep"])
           \/ /\ ~ahead[h]
              /\ Upd(r, [req[r] EXCEPT !.pc = "send"])
              /\ UNCHANGED ahead
    /\ UNCHANGED <<q, backoff, fails>>

Wake(r) ==
    /\ At(r, "sleep")
    /\ Upd(r, [req[r] EXCEPT !.pc = "send"])
    /\ UNCHANGED <<q, backoff, ahead, fails>>

SleepCanceled(r) ==
    /\ At(r, "sleep")
    /\ req[r].ctx
    /\ Upd(r, [req[r] EXCEPT !.pc = "failed", !.flags = Plain])
    /\ UNCHANGED <<q, backoff, ahead, fails>>

\* The attempt fails; resp tells whether resp.resp is set afterwards.
Fail(r, flags, resp) ==
    /\ fails < MaxFails
    /\ fails' = fails + 1
    /\ Upd(r, [req[r] EXCEPT !.pc = "failed", !.flags = flags, !.resp = resp])
    /\ UNCHANGED <<q, backoff, ahead>>

\* HEAD requests are disabled for this host.
HeadDisabled(r) == At(r, "closure") /\ Fail(r, Dropped, req[r].resp)

\* No body or no credentials: nothing is sent.  404 is an answer.
Refused(r) ==
    /\ At(r, "send")
    /\ \E resp \in {req[r].resp, TRUE} : Fail(r, Dropped, resp)

\* A range that starts at the end of the body is answered with 416.
NotSatisfiable(r) ==
    /\ At(r, "send")
    /\ req[r].readCur >= Size
    /\ Upd(r, [req[r] EXCEPT !.pc = "failed", !.flags = Dropped, !.resp = TRUE])
    /\ UNCHANGED <<q, backoff, ahead, fails>>

\* BodyFunc cannot rewind the body.
NotRetryable(r) ==
    /\ At(r, "send")
    /\ r \in Upload
    /\ req[r].err
    /\ Fail(r, Final, req[r].resp)

\* The token server fails; backoffSet then looks at the headers of the previous
\* answer, if there was one.
AuthFails(r) ==
    /\ At(r, "send")
    /\ \E f \in {Overload, Limited} :
          /\ f = Limited => req[r].resp
          /\ Fail(r, f, req[r].resp)

\* 401 with a challenge that was understood: the same host again.
Unauthorized(r) == At(r, "send") /\ Fail(r, Again, TRUE)

\* 429, 408, 504, 502 and 500, with or without Retry-After, and other statuses.
Status(r) ==
    /\ At(r, "send")
    /\ \E f \in {Overload, Limited, Broken} : Fail(r, f, TRUE)

\* hc.Do fails: no answer at all.
NoAnswer(r) == At(r, "send") /\ Fail(r, Overload, FALSE)

\* A Content-Length that differs from the length expected, seen only when the
\* body is read from its start: on to the next host.
WrongLength(r) ==
    /\ At(r, "send")
    /\ req[r].readCur = 0
    /\ fails < MaxFails
    /\ fails' = fails + 1
    /\ Upd(r, [req[r] EXCEPT !.pc = "failed", !.flags = Plain, !.resp = TRUE,
                             !.done = FALSE, !.pos = 0])
    /\ UNCHANGED <<q, backoff, ahead>>
\* Mutant: the slot is given back as soon as the headers are there.
SuccessMutant(r, pos) ==
    /\ q' = [q EXCEPT ![Cur(r)] = Q!Release(@, Me(r))]
    /\ Upd(r, [req[r] EXCEPT !.pc = "open", !.held = <<Cur(r), req[r].n>>,
                             !.resp = TRUE, !.done = FALSE, !.pos = pos])
    /\ UNCHANGED <<backoff, ahead, fails>>

\* The closure returns nil: the slot now belongs to the response.
Success(r, pos) ==
    /\ Upd(r, [req[r] EXCEPT !.pc = "open", !.held = <<Cur(r), req[r].n>>,
                             !.resp = TRUE, !.done = FALSE, !.pos = pos])
    /\ UNCHANGED <<q, backoff, ahead, fails>>

\* The server sends the body, from readCur on if the request had a Range header.
Answer(r) ==
    /\ At(r, "send")
    /\ req[r].readCur \in 0 .. (Size - 1)
    /\ Success(r, req[r].readCur)
\* Mutant: the missing Content-Range is not noticed.
RangeIgnoredMutant(r) ==
    /\ At(r, "send")
    /\ req[r].readCur > 0
    /\ Success(r, 0)

\* A 2xx answer without Content-Range to a request with a Range header is the
\* whole body: the host is dropped.
RangeIgnored(r) ==
    /\ At(r, "send")
    /\ req[r].readCur > 0
    /\ fails < MaxFails
    /\ fails' = fails + 1
    /\ Upd(r, [req[r] EXCEPT !.pc = "failed", !.flags = Dropped, !.resp = TRUE,
                             !.done = FALSE, !.pos = 0])
    /\ UNCHANGED <<q, backoff, ahead>>

\* After a failed attempt: count the backoff, or drop the host.
Settle(r) ==
    /\ At(r, "failed")
    /\ LET f == req[r].flags
           h == Cur(r)
           drop == Upd(r, [req[r] EXCEPT !.pc = "yield", !.flags.drop = TRUE])
           keep == Upd(r, [req[r] EXCEPT !.pc = "yield"])
       IN  \/ /\ ~f.backoff
              /\ keep
              /\ UNCHANGED <<backoff, ahead>>
           \/ /\ f.backoff /\ r \in IgnoreErr
              /\ drop
              /\ UNCHANGED <<backoff, ahead>>
           \/ /\ f.backoff /\ r \notin IgnoreErr /\ f.after
              /\ ahead' = [ahead EXCEPT ![h] = TRUE]
              /\ keep
              /\ UNCHANGED backoff
           \/ /\ f.backoff /\ r \notin IgnoreErr /\ ~f.after
              /\ backoff' = BackoffSet(h)
              /\ IF BackoffLimit(h) THEN drop ELSE keep
              /\ UNCHANGED ahead
    /\ UNCHANGED <<q, fails>>
\* Mutant: dropping a host cuts off those behind it.
YieldTruncates(r) ==
    /\ At(r, "yield")
    /\ q' = [q EXCEPT ![Cur(r)] = Q!Release(@, Me(r))]
    /\ LET rec == [req[r] EXCEPT !.pc = "top", !.err = TRUE, !.flags = Plain]
       IN  IF req[r].flags.drop
           THEN Upd(r, [rec EXCEPT !.hosts = SubSeq(@, 1, req[r].cur - 1)])
           ELSE Upd(r, [rec EXCEPT !.cur = @ + 1])
    /\ UNCHANGED <<backoff, ahead, fails>>

\* Mutant: the slot of a failed attempt is kept.
YieldKeeps(r) ==
    /\ At(r, "yield")
    /\ LET rec == [req[r] EXCEPT !.pc = "top", !.err = TRUE, !.flags = Plain]
       IN  IF req[r].flags.drop
           THEN Upd(r, [rec EXCEPT !.hosts = RemoveAt(@, req[r].cur)])
           ELSE Upd(r, [rec EXCEPT !.cur = @ + 1])
    /\ UNCHANGED <<q, backoff, ahead, fails>>

\* throttleDone, and on to the next turn of the loop.
Yield(r) ==
    /\ At(r, "yield")
    /\ q' = [q EXCEPT ![Cur(r)] = Q!Release(@, Me(r))]
    /\ LET f == req[r].flags
           rec == [req[r] EXCEPT !.pc = "top", !.err = TRUE, !.flags = Plain]
       IN  \/ /\ f.final
              /\ GiveUp(r, rec)
           \/ /\ ~f.final /\ f.drop
              /\ Upd(r, [rec EXCEPT !.hosts = RemoveAt(@, req[r].cur)])
           \/ /\ ~f.final /\ ~f.drop
              /\ Upd(r, [rec EXCEPT !.cur = IF f.again THEN @ ELSE @ + 1])
    /\ UNCHANGED <<backoff, ahead, fails>>
-----------------------------------------------------------------------------
(* The response in the hands of its caller.                                *)

ReadSome(r) ==
    /\ At(r, "open") /\ r \notin Upload
    /\ ~req[r].done
    /\ req[r].readCur < Size
    /\ Upd(r, [req[r] EXCEPT !.readCur = @ + 1, !.pos = @ + 1])
    /\ UNCHANGED <<q, backoff, ahead, fails>>

\* EOF with everything read.
ReadEOF(r) ==
    /\ At(r, "open") /\ r \notin Upload
    /\ ~req[r].done
    /\ req[r].readCur >= Size
    /\ BackoffReset(req[r].mirror)
    /\ Upd(r, [req[r] EXCEPT !.done = TRUE])
    /\ UNCHANGED <<q, fails>>

\* EOF too early: back off and send the request again, for the rest.
ReadShort(r) ==
    /\ At(r, "open") /\ r \notin Upload
    /\ ~req[r].done
    /\ req[r].readCur < Size
    /\ req[r].n < MaxResume
    /\ backoff' = BackoffSet(req[r].mirror)
    /\ IF BackoffLimit(req[r].mirror)
       THEN Upd(r, [req[r] EXCEPT !.pc = "broken", !.done = TRUE])
       ELSE Next_(r, [req[r] EXCEPT !.op = "read", !.n = @ + 1])
    /\ UNCHANGED <<q, ahead, fails>>

\* Seek to another offset sends the request again and does not count as a retry.
Seek(r, offset) ==
    /\ At(r, "open") /\ r \notin Upload
    /\ offset # req[r].readCur
    /\ req[r].n < MaxResume
    /\ Next_(r, [req[r] EXCEPT !.op = "seek", !.n = @ + 1, !.readCur = offset,
                               !.retry = @ - 1])
    /\ UNCHANGED <<q, backoff, ahead, fails>>

Close(r) ==
    /\ req[r].pc \in {"open", "broken"}
    /\ q' = [q EXCEPT ![req[r].held[1]] = Q!Release(@, <<r, req[r].held[2]>>)]
    /\ Upd(r, Closed)
    /\ IF req[r].resp /\ ~req[r].done THEN BackoffReset(req[r].mirror)
       ELSE UNCHANGED <<backoff, ahead>>
    /\ UNCHANGED fails

CancelContext(r) ==
    /\ r \in Cancellable
    /\ req[r].pc # "closed"
    /\ ~req[r].ctx
    /\ Upd(r, [req[r] EXCEPT !.ctx = TRUE])
    /\ UNCHANGED <<q, backoff, ahead, fails>>

Loop(r) ==
    \/ Exhausted(r) \/ RetryLimitExceeded(r) \/ ContextDone(r) \/ Acquire(r)
    \/ Granted(r) \/ AbortQueued(r) \/ AbortMissing(r) \/ ReleaseMissing(r)
    \/ BackoffGet(r) \/ Wake(r) \/ SleepCanceled(r) \/ Settle(r) \/ Yield(r)

Server(r) ==
    \/ HeadDisabled(r) \/ Answer(r) \/ Refused(r) \/ NotSatisfiable(r)
    \/ NotRetryable(r) \/ AuthFails(r) \/ Unauthorized(r) \/ Status(r) \/ NoAnswer(r) \/ WrongLength(r) \/ RangeIgnored(r)

Caller(r) ==
    \/ ReadSome(r) \/ ReadEOF(r) \/ ReadShort(r)
    \/ \E offset \in 0 .. Size : Seek(r, offset)

Next ==
    \/ \E r \in Request :
         Do(r) \/ Loop(r) \/ Server(r) \/ Caller(r) \/ Close(r) \/ CancelContext(r)
    \/ \E h \in Host : TimePasses(h)

Spec == Init /\ [][Next]_vars

\* The loop keeps running, every server answers in the end (or the connection
\* fails), and the caller closes what it was given.
FairSpec ==
    Spec /\ \A r \in Request :
              WF_vars(Loop(r)) /\ WF_vars(Server(r)) /\ WF_vars(Close(r))
-----------------------------------------------------------------------------
TypeOK ==
    /\ q \in [Host -> Q!Queue]
    /\ backoff \in [Host -> [cur : Nat, reset : 0 .. ResetCount]]
    /\ ahead \in [Host -> BOOLEAN]
    /\ req \in [Request -> Req]
    /\ fails \in 0 .. MaxFails

\* The connections to a host: attempts between Acquire and throttleDone, and
\* responses that were not closed yet.
Connections(h) ==
    {<<r, req[r].n>> : r \in {s \in Request :
        /\ req[s].pc \in {"closure", "sleep", "send", "failed", "yield"}
        /\ Cur(s) = h}}
    \cup {<<r, req[r].held[2]>> : r \in {s \in Request : req[s].held[1] = h}}

\* reqConcurrent holds for connections, not only for queue entries: through
\* retries, resumed bodies and late cancellations a host never sees more of this
\* client at once than it is configured for.
Throttled ==
    \A h \in Host :
        /\ Cardinality(Connections(h)) <= ReqConcurrent
        /\ Connections(h) \subseteq q[h].active

\* The state of the client: of its types, and within what the hosts are configured for.
ThrottleSound == TypeOK /\ Throttled

\* The caller reads the body in order: whatever host the rest comes from after a
\* short read or a Seek, the next byte is the one at readCur.
ReadsInOrder ==
    \A r \in Request : At(r, "open") /\ ~req[r].done => req[r].pos = req[r].readCur

\* Running out of hosts means that each of them had its chance: a host is only
\* dropped by its own failure.
EveryHostTried ==
    [][\A r \in Request : Exhausted(r) => req[r].tried = Hosts(r)]_vars

\* As long as no context is cancelled and no body is resumed, Do, and the close
\* that follows, get through: the slots a failing request uses come back.
Answered ==
    [](\A r \in Request : ~req[r].ctx /\ req[r].n = 0) =>
        \A r \in Request : ~At(r, "idle") ~> At(r, "closed")

=============================================================================

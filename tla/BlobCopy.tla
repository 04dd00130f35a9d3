------------------------------ MODULE BlobCopy ------------------------------
(***************************************************************************)
(* RegClient.BlobCopy and BlobPut to a registry: HEAD, mount, upload in    *)
(* one request, and the fallback to an upload in chunks that is resumed    *)
(* from the offset the registry reports.                                   *)
(*                                                                         *)
(* One call runs against a registry that takes a chunk only at the end of  *)
(* its upload session, stores any prefix of what it was sent before it     *)
(* fails, and verifies the digest of the final request.  Each request is   *)
(* one call of reghttp.Do, its retries included, and fewer than MaxFails   *)
(* of them fail without reason.  Bytes are members of a blob, a sequence,  *)
(* and the digest of a blob is the blob itself.                            *)
(***************************************************************************)
EXTENDS Integers, Sequences

CONSTANTS
    Calls,      \* the calls to start from, see Call
    HostChunks, \* values of BlobChunk in the configuration of the host
    ChunkSize,  \* reg.blobChunkSize
    ChunkLimit, \* reg.blobChunkLimit
    RetryLimit, \* retryLimit of blobPutUploadChunked, 10 in the code
    MaxFails    \* bound on the number of failing requests

NoDig == <<0>>

\* The counter of retries goes on in a loop that never ends.
MaxRetries == RetryLimit + 2 * MaxFails + 2

\* At most n bytes of s that follow the first i.
Bytes(s, i, n) == SubSeq(s, i + 1, IF i + n < Len(s) THEN i + n ELSE Len(s))

(* op       "copy" BlobCopy, "put" BlobPut of a reader of the caller       *)
(* blob     what the reader returns                                        *)
(* dig size the descriptor, NoDig and 0 when unknown                       *)
(* seeker   the reader is an io.Seeker                                     *)
(* sameReg  source and target are on one registry                          *)
(* urls     the descriptor has external URLs                               *)
(* exists   the target repository has the blob of the descriptor           *)
(* mounts   the registry has the blob in a repository it may mount from    *)
(* min      the OCI-Chunk-Min-Length of the registry, 0 for none           *)
(* maxPut   BlobMax of the host or of reg, 0 or less for no limit          *)
(* empty    the Range the registry reports for an empty session, which     *)
(*          has no form for it: "zero" for 0-0, "none" for no header       *)
Call == [op : {"copy", "put"}, blob : Seq(Nat), dig : Seq(Nat), size : Nat,
         seeker : BOOLEAN, sameReg : BOOLEAN, urls : BOOLEAN, exists : BOOLEAN,
         mounts : BOOLEAN, min : Nat, maxPut : Int, empty : {"zero", "none"}]

ASSUME BlobAssumption ==
    /\ \A x \in Calls : x \in Call /\ (x.op = "copy" => x.seeker)
    /\ HostChunks \subseteq Nat
    /\ {ChunkSize, ChunkLimit} \subseteq Nat \ {0}
    /\ {RetryLimit, MaxFails} \subseteq Nat

VARIABLES
    call,       \* the call, never changes
    c,          \* the locals of the call, see Local
    hostChunk,  \* host.BlobChunk
    stored,     \* the target repository has the blob, see Asked
    sess,       \* the upload sessions of the registry: open, data, known
                \* (its location has reached the client)
    misread,    \* a reported Range of an empty session was used as an offset
    doubled,    \* a full put left the bytes of two attempts in its session
    ctxDone,    \* the context of the caller is done
    leaked,     \* a DELETE of a session failed
    fails       \* failing requests so far

vars == <<call, c, hostChunk, stored, sess, misread, doubled, ctxDone, leaked, fails>>

Res == {"busy", "ok", "err"}

(* pc: the next request or step of the call; "slow" and "back" lead from   *)
(* blobMount to BlobGet and from the full put to the chunks, "loop" is the *)
(* test of the outer and "fill" the inner loop of blobPutUploadChunked.    *)
PC == {"head", "mount", "slow", "get", "anon", "post", "full", "back",
       "chunked", "loop", "fill", "patch", "status", "digest", "final",
       "cancel", "done"}

(* bufBytes is the part of the array from off + 1 to off + len, and bufRdr *)
(* what it was when the reader was made.                                   *)
Local == [pc : PC, res : Res, url : Nat, pos : Nat, hashed : Seq(Nat),
          array : Seq(Nat), off : Nat, len : Nat, bufRdr : [off : Nat, len : Nat],
          bufStart : Nat, bufChange : BOOLEAN, finalChunk : BOOLEAN,
          chunkStart : Nat, chunkSize : Nat, retryCur : Nat, late : BOOLEAN,
          d : [dig : Seq(Nat), size : Nat]]

ValidDesc == \/ call.size > 0 /\ call.dig # NoDig
             \/ call.size = 0 /\ call.dig = <<>>
RightDesc == call.size = Len(call.blob) /\ call.dig = call.blob

\* The blob the target is to have: the one the descriptor names, if it does.
Asked == IF call.dig = NoDig THEN call.blob ELSE call.dig

PutPC == IF ValidDesc THEN "anon" ELSE "post"

Init ==
    /\ call \in Calls
    /\ c = [pc |-> IF call.op = "copy" THEN "head" ELSE PutPC,
            res |-> "busy", url |-> 0, pos |-> 0, hashed |-> <<>>,
            array |-> <<>>, off |-> 0, len |-> 0, bufRdr |-> [off |-> 0, len |-> 0],
            bufStart |-> 0, bufChange |-> FALSE, finalChunk |-> FALSE,
            chunkStart |-> 0, chunkSize |-> 0, retryCur |-> 0, late |-> FALSE,
            d |-> [dig |-> call.dig, size |-> call.size]]
    /\ hostChunk \in HostChunks
    /\ stored = call.exists
    /\ sess = <<>>
    /\ misread = FALSE /\ doubled = FALSE /\ ctxDone = FALSE /\ leaked = FALSE
    /\ fails = 0

-----------------------------------------------------------------------------
Goto(l) == c' = [c EXCEPT !.pc = l]
Return(r) == c' = [c EXCEPT !.pc = "done", !.res = r]

\* BlobPut returns an error once it has cancelled the upload.
Abort == c' = [c EXCEPT !.pc = "cancel", !.res = "err"]

\* A request gets an answer of the registry.
Sent == ~ctxDone /\ UNCHANGED <<ctxDone, fails>>

\* A request fails: always when the context is done, or for once.
Fails == /\ \/ ctxDone /\ UNCHANGED fails
            \/ ~ctxDone /\ fails < MaxFails /\ fails' = fails + 1
         /\ UNCHANGED ctxDone

Registry == <<stored, sess>>
History == <<misread, doubled, leaked>>

Open == c.url # 0 /\ sess[c.url].open
Data == sess[c.url].data
-----------------------------------------------------------------------------
(* BlobCopy.                                                               *)

\* The HEAD request does not look at the external URLs of the descriptor.
HeadTarget ==
    /\ c.pc = "head" /\ Sent
    /\ IF stored THEN Return("ok") ELSE Goto(IF call.sameReg THEN "mount" ELSE "get")
    /\ UNCHANGED <<call, hostChunk, Registry, History>>

HeadTargetFails ==
    /\ c.pc = "head" /\ Fails
    /\ Goto(IF call.sameReg THEN "mount" ELSE "get")
    /\ UNCHANGED <<call, hostChunk, Registry, History>>

\* The reader is verified against the descriptor; the URLs are tried in turn.
Get ==
    /\ c.pc = "get" /\ Sent
    /\ c' = [c EXCEPT !.pc = PutPC, !.pos = 0]
    /\ UNCHANGED <<call, hostChunk, Registry, History>>

GetFails ==
    /\ c.pc = "get" /\ Fails
    /\ \/ call.urls /\ ~ctxDone /\ Goto(PutPC)
       \/ Return("err")
    /\ UNCHANGED <<call, hostChunk, Registry, History>>

-----------------------------------------------------------------------------
(* blobMount and blobGetUploadURL.                                         *)
\* The chunk size of the host follows the minimum of the registry.
Grown ==
    IF call.min > (IF hostChunk > 0 THEN hostChunk ELSE ChunkSize)
    THEN IF call.min > ChunkLimit THEN ChunkLimit ELSE call.min
    ELSE hostChunk

\* A new session, whose location is part of the answer.
NewSession == sess' = Append(sess, [open |-> TRUE, data |-> <<>>, known |-> TRUE])

MaxPutKept == call.maxPut <= 0 \/ call.size <= call.maxPut

\* BlobPut goes on with an upload URL.
WithURL == c' = [c EXCEPT !.url = Len(sess) + 1,
                          !.pc = IF ValidDesc /\ MaxPutKept THEN "full" ELSE "chunked"]

\* 201: the registry mounts the blob.
Mounted ==
    /\ c.pc \in {"mount", "anon"} /\ call.mounts /\ Sent
    /\ call.dig = call.blob
    /\ hostChunk' = Grown
    /\ stored' = TRUE
    /\ Return("ok")
    /\ UNCHANGED <<call, sess, History>>

\* 202: the registry starts an upload instead.  BlobMount cancels it, BlobPut
\* uses it.
MountLocation ==
    /\ c.pc \in {"mount", "anon"} /\ Sent
    /\ hostChunk' = Grown
    /\ NewSession
    /\ \/ c.pc = "mount" /\ c' = [c EXCEPT !.url = Len(sess) + 1, !.pc = "slow"]
       \/ c.pc = "anon" /\ WithURL
    /\ UNCHANGED <<call, stored, History>>

MountFails ==
    /\ c.pc \in {"mount", "anon"} /\ Fails
    /\ Goto(IF c.pc = "mount" THEN "get" ELSE "post")
    /\ UNCHANGED <<call, hostChunk, Registry, History>>

Post ==
    /\ c.pc = "post" /\ Sent
    /\ hostChunk' = Grown
    /\ NewSession
    /\ WithURL
    /\ UNCHANGED <<call, stored, History>>

\* The session may exist although the answer is lost.
PostFails ==
    /\ c.pc = "post" /\ Fails
    /\ Return("err")
    /\ \/ UNCHANGED sess
       \/ ~ctxDone /\ sess' = Append(sess, [open |-> TRUE, data |-> <<>>, known |-> FALSE])
    /\ UNCHANGED <<call, hostChunk, stored, History>>

-----------------------------------------------------------------------------
(* blobPutUploadFull.                                                      *)

Full ==
    /\ c.pc = "full" /\ Sent /\ Open /\ RightDesc
    /\ stored' = TRUE
    /\ sess' = [sess EXCEPT ![c.url].open = FALSE]
    /\ Return("ok")
    /\ UNCHANGED <<call, hostChunk, History>>

\* The put fails, after one or two attempts sent a part of the blob.  The
\* blob may be stored although the answer is lost.
FullFails ==
    /\ c.pc = "full"
    /\ Fails \/ (~RightDesc /\ Sent)
    /\ \E i, j \in 0 .. Len(call.blob) :
        /\ ctxDone => i = 0 /\ j = 0
        /\ \/ /\ sess' = [sess EXCEPT ![c.url].data =
                              SubSeq(call.blob, 1, i) \o SubSeq(call.blob, 1, j)]
              /\ doubled' = (i > 0 /\ j > 0)
              /\ UNCHANGED stored
           \/ /\ i = 0 /\ j = 0 /\ ~ctxDone
              /\ sess' = [sess EXCEPT ![c.url].open = FALSE]
              /\ stored' \in {stored, stored \/ RightDesc}
              /\ UNCHANGED doubled
    /\ IF call.seeker THEN Goto("back") ELSE Abort
    /\ UNCHANGED <<call, hostChunk, misread, leaked>>

\* Seek back to the start.  The transport that sent the put may not have
\* noticed yet that it is over, and read on.
SeekBack ==
    /\ c.pc = "back" /\ UNCHANGED <<ctxDone, fails>>
    /\ c' = [c EXCEPT !.pc = "chunked", !.pos = 0, !.late = TRUE]
    /\ UNCHANGED <<call, hostChunk, Registry, History>>
\* Mutant: the upload is not cancelled when the reader cannot go back.
SeekFailsKeeps ==
    /\ c.pc = "back" /\ Fails
    /\ Return("err")
    /\ UNCHANGED <<call, hostChunk, Registry, History>>

SeekFails ==
    /\ c.pc = "back" /\ Fails
    /\ Abort
    /\ UNCHANGED <<call, hostChunk, Registry, History>>

LateRead ==
    /\ c.late /\ c.pc \in {"chunked", "loop", "fill", "patch", "status"}
    /\ c.pos < Len(call.blob)
    /\ c' = [c EXCEPT !.pos = @ + 1, !.late = FALSE]
    /\ UNCHANGED <<call, hostChunk, Registry, History, ctxDone, fails>>

-----------------------------------------------------------------------------
(* blobPutUploadChunked.                                                   *)

StartChunked ==
    /\ c.pc = "chunked"
    /\ c' = [c EXCEPT !.pc = "loop",
                      !.array = [i \in 1 .. (IF hostChunk > 0 THEN hostChunk ELSE ChunkSize) |-> 0]]
    /\ UNCHANGED <<call, hostChunk, Registry, History, ctxDone, fails>>

BufEnd == c.bufStart + c.len

LoopBody ==
    /\ c.pc = "loop" /\ (~c.finalChunk \/ c.chunkStart < BufEnd)
    /\ c' = [c EXCEPT !.pc = "fill", !.bufChange = FALSE]
    /\ UNCHANGED <<call, hostChunk, Registry, History, ctxDone, fails>>

LoopEnd ==
    /\ c.pc = "loop" /\ c.finalChunk /\ c.chunkStart >= BufEnd
    /\ Goto("digest")
    /\ UNCHANGED <<call, hostChunk, Registry, History, ctxDone, fails>>

NeedRead == c.chunkStart >= BufEnd /\ ~c.finalChunk

\* io.ReadFull into the whole capacity of bufBytes.  A blob.Reader fails at
\* the end of a blob that is not what its descriptor says.
ReadFull ==
    LET cap == Len(c.array) - c.off
        got == Bytes(call.blob, c.pos, cap)
        n == Len(got)
    IN  /\ c.pc = "fill" /\ NeedRead
        /\ call.op = "copy" /\ n < cap => RightDesc
        /\ c' = [c EXCEPT
              !.array = [i \in 1 .. Len(@) |->
                            IF i \in c.off + 1 .. c.off + n THEN got[i - c.off] ELSE @[i]],
              !.bufStart = BufEnd, !.len = n, !.chunkSize = n,
              !.bufChange = @ \/ c.len # cap \/ n # cap,
              !.finalChunk = n < cap,
              !.pos = @ + n, !.hashed = @ \o got]
        /\ UNCHANGED <<call, hostChunk, Registry, History, ctxDone, fails>>

ReadFails ==
    /\ c.pc = "fill" /\ NeedRead
    /\ \/ Fails
       \/ /\ call.op = "copy" /\ ~RightDesc
          /\ c.pos + Len(c.array) - c.off > Len(call.blob)
          /\ UNCHANGED <<ctxDone, fails>>
    /\ Abort
    /\ UNCHANGED <<call, hostChunk, Registry, History>>

\* The bytes of the buffer the registry has got already.
CutBy ==
    IF c.chunkStart > c.bufStart /\ c.chunkStart < BufEnd THEN c.chunkStart - c.bufStart ELSE 0

\* The locals with k bytes cut off at the start of the buffer.
Trimmed(k) ==
    [c EXCEPT !.off = @ + k, !.len = @ - k, !.bufStart = @ + k,
              !.chunkSize = IF k > 0 THEN c.len - k ELSE @, !.bufChange = @ \/ k > 0]

\* The reader is made again when the slice has changed.
Renewed(x) ==
    IF x.bufChange THEN [x EXCEPT !.bufRdr = [off |-> x.off, len |-> x.len]] ELSE x

Ready ==
    /\ c.pc = "fill" /\ ~NeedRead
    /\ LET x == Trimmed(CutBy)
       IN  IF x.chunkSize > 0 /\ c.chunkStart # x.bufStart THEN Abort
           ELSE c' = [Renewed(x) EXCEPT !.pc = IF x.chunkSize > 0 THEN "patch" ELSE "loop"]
    /\ UNCHANGED <<call, hostChunk, Registry, History, ctxDone, fails>>

\* What bodyFunc sends.
Body == SubSeq(c.array, c.bufRdr.off + 1, c.bufRdr.off + c.bufRdr.len)

InTurn == Open /\ c.chunkStart = Len(Data)
\* Mutants: the Range is not used; it is taken for a length.
NextStartIgnored(n) == c.chunkStart + c.chunkSize

NextStartEnd(n) ==
    IF n > 0 THEN n - 1 ELSE IF call.empty = "zero" THEN 1 ELSE c.chunkStart + c.chunkSize

\* blobUploadCurBytes of a response for a session of n bytes, and what the
\* caller makes of it: the offset of the next chunk.
NextStart(n) ==
    IF n > 0 THEN n ELSE IF call.empty = "zero" THEN 1 ELSE c.chunkStart + c.chunkSize

Retried == IF c.retryCur < MaxRetries THEN c.retryCur + 1 ELSE c.retryCur

Stores(k) == sess' = [sess EXCEPT ![c.url].data = @ \o SubSeq(Body, 1, k)]

\* 202, or 201 of a registry that needs no final request and refuses it.
Patch ==
    /\ c.pc = "patch" /\ InTurn /\ Sent
    /\ Stores(c.chunkSize)
    /\ \E early \in BOOLEAN :
          c' = [c EXCEPT !.pc = "loop", !.chunkStart = Len(Data) + c.chunkSize,
                         !.retryCur = IF ~early /\ @ > 0 THEN @ - 1 ELSE @]
    /\ UNCHANGED <<call, hostChunk, stored, History>>

\* 4xx with Location and Range: sent again from the offset of the Range, no
\* matter how often.  A chunk out of turn is refused; one in turn may fail
\* after a part of it was stored.
PatchRecovers ==
    /\ c.pc = "patch"
    /\ \E k \in 0 .. c.chunkSize :
        /\ \/ InTurn /\ Fails /\ ~ctxDone
           \/ Open /\ ~InTurn /\ k = 0 /\ Sent
        /\ Stores(k)
        /\ LET n == Len(Data) + k IN
            /\ n = 0 => call.empty = "zero"
            /\ c' = [c EXCEPT !.pc = "loop", !.chunkStart = NextStart(n), !.retryCur = Retried]
            /\ misread' = (misread \/ n = 0)
    /\ UNCHANGED <<call, hostChunk, stored, doubled, leaked>>

\* Any other status: the registry is asked what it has.
PatchRefused ==
    /\ c.pc = "patch"
    /\ \/ InTurn /\ Fails /\ ~ctxDone /\ \E k \in 0 .. c.chunkSize : Stores(k)
       \/ ~InTurn /\ Sent /\ UNCHANGED sess
    /\ c' = [c EXCEPT !.pc = "status", !.retryCur = Retried]
    /\ UNCHANGED <<call, hostChunk, stored, History>>

\* No answer, or one that is neither a status nor "not found".
PatchFails ==
    /\ c.pc = "patch" /\ Fails
    /\ \/ UNCHANGED sess
       \/ ~ctxDone /\ InTurn /\ \E k \in 1 .. c.chunkSize : Stores(k)
    /\ Abort
    /\ UNCHANGED <<call, hostChunk, stored, History>>

Status ==
    /\ c.pc = "status" /\ Sent /\ Open /\ c.retryCur <= RetryLimit
    /\ c' = [c EXCEPT !.pc = "loop", !.chunkStart = NextStart(Len(Data))]
    /\ misread' = (misread \/ Data = <<>>)
    /\ UNCHANGED <<call, hostChunk, Registry, doubled, leaked>>

StatusFails ==
    /\ c.pc = "status"
    /\ Fails \/ (Sent /\ (~Open \/ c.retryCur > RetryLimit))
    /\ Abort
    /\ UNCHANGED <<call, hostChunk, Registry, History>>

\* The digest and the size are compared with the descriptor if it has them.
Digest ==
    /\ c.pc = "digest"
    /\ IF \/ call.dig # NoDig /\ c.hashed # call.dig
          \/ call.size # 0 /\ c.chunkStart # call.size
       THEN Abort
       ELSE c' = [c EXCEPT !.pc = "final", !.d = [dig |-> c.hashed, size |-> c.chunkStart]]
    /\ UNCHANGED <<call, hostChunk, Registry, History, ctxDone, fails>>

Final ==
    /\ c.pc = "final" /\ Sent /\ Open /\ Data = c.d.dig
    /\ stored' = (stored \/ Data = Asked)
    /\ sess' = [sess EXCEPT ![c.url].open = FALSE]
    /\ Return("ok")
    /\ UNCHANGED <<call, hostChunk, History>>

FinalFails ==
    /\ c.pc = "final"
    /\ \/ Fails /\ UNCHANGED Registry
       \/ /\ Fails /\ ~ctxDone /\ Open /\ Data = c.d.dig   \* the answer is lost
          /\ stored' = (stored \/ Data = Asked)
          /\ sess' = [sess EXCEPT ![c.url].open = FALSE]
       \/ Sent /\ ~(Open /\ Data = c.d.dig) /\ UNCHANGED Registry
    /\ Abort
    /\ UNCHANGED <<call, hostChunk, History>>

-----------------------------------------------------------------------------
(* blobUploadCancel, in BlobPut and in BlobMount; its errors are ignored.  *)

AfterCancel == Goto(IF c.pc = "slow" THEN "get" ELSE "done")

Cancel ==
    /\ c.pc \in {"slow", "cancel"} /\ Sent
    /\ sess' = [sess EXCEPT ![c.url].open = FALSE]
    /\ AfterCancel
    /\ UNCHANGED <<call, hostChunk, stored, History>>

CancelFails ==
    /\ c.pc \in {"slow", "cancel"} /\ Fails
    /\ leaked' = (leaked \/ Open)
    /\ AfterCancel
    /\ UNCHANGED <<call, hostChunk, Registry, misread, doubled>>

CallerCancels ==
    /\ c.pc # "done" /\ ~ctxDone
    /\ ctxDone' = TRUE
    /\ UNCHANGED <<call, c, hostChunk, Registry, History, fails>>

Step ==
    \/ HeadTarget \/ HeadTargetFails \/ Get \/ GetFails
    \/ Mounted \/ MountLocation \/ MountFails \/ Post \/ PostFails
    \/ Full \/ FullFails \/ SeekBack \/ SeekFails
    \/ StartChunked \/ LoopBody \/ LoopEnd \/ ReadFull \/ ReadFails \/ Ready
    \/ Patch \/ PatchRecovers \/ PatchRefused \/ PatchFails
    \/ Status \/ StatusFails \/ Digest \/ Final \/ FinalFails
    \/ Cancel \/ CancelFails

Next == Step \/ LateRead \/ CallerCancels

Spec == Init /\ [][Next]_vars

\* The goroutine of the call goes on.
FairSpec == Spec /\ WF_vars(Step)

-----------------------------------------------------------------------------
TypeOK ==
    /\ call \in Calls
    /\ c \in Local
    /\ c.url <= Len(sess)
    /\ hostChunk \in Nat /\ fails \in 0 .. MaxFails
    /\ sess \in Seq([open : BOOLEAN, data : Seq(Nat), known : BOOLEAN])
    /\ {stored, misread, doubled, ctxDone, leaked} \subseteq BOOLEAN

\* The body of a chunk is what the digest was computed of at the offsets of its
\* Content-Range: whatever part of the buffer was cut off or read again, the
\* slice, its offset and the reader made of it agree.
InPlace ==
    c.pc = "patch" =>
        Body = Bytes(c.hashed, c.chunkStart, c.chunkSize)

\* When the final request of an upload in chunks is sent the session holds the
\* whole blob, byte for byte, after any number of chunks that were stored in
\* part or twice, unless the registry had to report an empty session.  (With the
\* digest of some other blob there may be bytes of the first put in between.)
Exact ==
    c.pc = "final" /\ ~misread /\ ~doubled /\ Open /\ Asked = call.blob
        => Data = call.blob

\* The buffer, the session and the digest of an upload agree at every request.
UploadSound == TypeOK /\ InPlace /\ Exact

\* A call that returns without an error has the blob in the target, the one the
\* descriptor names or else what the reader returned, and BlobPut returns its
\* digest and the size it was not given.
SuccessStored ==
    c.res = "ok" =>
        /\ stored
        /\ call.op = "put" => /\ c.d.dig = Asked
                              /\ call.size = 0 => c.d.size = Len(Asked)

\* No call leaves an upload behind that it knows of, unless its DELETE failed.
NoUploadLeft ==
    c.pc = "done" /\ ~leaked => \A i \in DOMAIN sess : sess[i].known => ~sess[i].open

\* What a call leaves on the registry: the blob when it says so, and no upload.
OutcomeSound == SuccessStored /\ NoUploadLeft

\* The call returns, however the first requests fail, unless the offset of an
\* empty session was misread: then the chunks may be refused forever.
Returns == <>(c.pc = "done" \/ misread)
=============================================================================

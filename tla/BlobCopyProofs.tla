--------------------------- MODULE BlobCopyProofs ---------------------------
(***************************************************************************)
(* Proofs about BlobCopy and BlobPut: for every blob, descriptor, chunk    *)
(* size, retry limit and number of failing requests, the chunks carry the  *)
(* bytes they say, a resumed upload is exact, success means stored and no  *)
(* upload is left behind.                                                  *)
(***************************************************************************)
EXTENDS BlobCopy, SequenceTheorems, TLAPS

\* Before the buffer of blobPutUploadChunked is made.
Early == {"head", "mount", "slow", "get", "anon", "post", "full", "back", "chunked"}

\* Where an upload of this call may be open.
Live == {"slow", "full", "back", "chunked", "loop", "fill", "patch", "status",
         "digest", "final", "cancel"}

Over == {"cancel", "done"}

\* What is known of a call by the place it has reached.
ControlOK ==
    /\ c.res = "busy" <=> c.pc \notin Over
    /\ c.pc = "cancel" => c.res = "err"
    /\ c.pc \in {"head", "mount", "slow", "get"} => call.op = "copy"
    /\ c.pc \in {"anon", "full", "back"} \/ c.late => ValidDesc
    /\ c.pc \in Live => c.url # 0
    /\ c.pc \notin Over \cup {"final"} => c.d = [dig |-> call.dig, size |-> call.size]

\* Nothing is read into the buffer before the upload in chunks.
EarlyOK ==
    c.pc \in Early =>
        /\ c.hashed = <<>> /\ c.off = 0 /\ c.len = 0
        /\ c.chunkStart = 0 /\ ~c.finalChunk /\ ~misread
        /\ c.bufRdr = [off |-> 0, len |-> 0]
        /\ c.pc # "chunked" => c.pos = 0

\* The bytes of the buffer are the last ones that were hashed.
BufferOK ==
    /\ c.off + c.len <= Len(c.array)
    /\ c.bufStart + c.len = Len(c.hashed)
    /\ c.chunkSize = c.len
    /\ \A k \in 1 .. c.len : c.array[c.off + k] = c.hashed[c.bufStart + k]

\* The reader of the request is made of the slice as it is, or is made anew.
ReaderOK ==
    /\ c.pc \in {"loop", "patch", "status"} \/ (c.pc = "fill" /\ ~c.bufChange)
         => c.bufRdr = [off |-> c.off, len |-> c.len]
    /\ c.pc \in {"patch", "status"} => c.len > 0
    /\ c.pc = "patch" => c.chunkStart = c.bufStart

\* The reader of the blob; without a digest nothing is ever skipped.
BlobReaderOK ==
    /\ c.pos <= Len(call.blob)
    /\ c.finalChunk => c.pos = Len(call.blob)
    /\ call.dig = NoDig =>
         /\ Len(c.hashed) = c.pos
         /\ \A k \in 1 .. c.pos : c.hashed[k] = call.blob[k]

\* Byte k of the session is byte k of the blob or of what was hashed.
FromBlob(data, hashed) ==
    \A k \in 1 .. Len(data) :
        \/ k <= Len(call.blob) /\ data[k] = call.blob[k]
        \/ k <= Len(hashed) /\ data[k] = hashed[k]

SessionOK == Open /\ ~doubled => FromBlob(Data, c.hashed)

\* The next chunk starts at the end of the session, or has not been tried yet; an
\* offset that was misread is never the end of the session.
OffsetOK ==
    /\ c.pc \notin Over \cup {"status"} /\ c.url # 0 /\ ~misread
         => c.chunkStart \in {0, Len(Data)}
    /\ misread => c.url # 0 /\ Data = <<>> /\ c.chunkStart > 0 /\ c.hashed # <<>>

\* The loop ends with all of the blob behind it.
FinalOK ==
    /\ c.pc \in {"digest", "final"} => c.finalChunk /\ c.chunkStart >= Len(c.hashed)
    /\ c.pc = "final" => /\ c.d = [dig |-> c.hashed, size |-> c.chunkStart]
                         /\ call.dig # NoDig => c.hashed = call.dig

\* An upload that is known and open is the one the call is at, or was given up.
CleanupOK ==
    ~leaked => \A i \in DOMAIN sess :
        sess[i].known /\ sess[i].open => i = c.url /\ c.pc \in Live

IInv ==
    /\ TypeOK /\ ControlOK /\ EarlyOK /\ BufferOK /\ ReaderOK /\ BlobReaderOK
    /\ SessionOK /\ OffsetOK /\ FinalOK /\ CleanupOK /\ SuccessStored
-----------------------------------------------------------------------------
(* Records of the call and of the sessions.                                 *)

Session == [open : BOOLEAN, data : Seq(Nat), known : BOOLEAN]

\* All locals but the place and the result.
Kept ==
    /\ c' \in Local
    /\ c'.url = c.url /\ c'.pos = c.pos /\ c'.hashed = c.hashed
    /\ c'.array = c.array /\ c'.off = c.off /\ c'.len = c.len
    /\ c'.bufRdr = c.bufRdr /\ c'.bufStart = c.bufStart
    /\ c'.bufChange = c.bufChange /\ c'.finalChunk = c.finalChunk
    /\ c'.chunkStart = c.chunkStart /\ c'.chunkSize = c.chunkSize
    /\ c'.retryCur = c.retryCur /\ c'.late = c.late /\ c'.d = c.d

\* The sessions are as long as they were, and none was opened.
SessKept ==
    /\ sess' \in Seq(Session) /\ Len(sess') = Len(sess)
    /\ \A i \in DOMAIN sess : /\ sess'[i].data = sess[i].data
                              /\ sess'[i].known = sess[i].known
                              /\ sess'[i].open => sess[i].open

\* What is typed apart from the locals and the sessions.
WorldOK ==
    /\ call \in Calls /\ hostChunk \in Nat /\ fails \in 0 .. MaxFails
    /\ stored \in BOOLEAN /\ misread \in BOOLEAN /\ doubled \in BOOLEAN
    /\ ctxDone \in BOOLEAN /\ leaked \in BOOLEAN

LEMMA TypeSplit ==
    TypeOK <=> /\ WorldOK /\ c \in Local /\ c.url <= Len(sess)
               /\ sess \in Seq(Session)
BY Zenon DEF TypeOK, WorldOK, Session

LEMMA GotoFields ==
    ASSUME c \in Local, NEW l \in PC, Goto(l)
    PROVE  Kept /\ c'.pc = l /\ c'.res = c.res
BY DEF Goto, Kept, Local

LEMMA ReturnFields ==
    ASSUME c \in Local, NEW r \in Res, Return(r)
    PROVE  Kept /\ c'.pc = "done" /\ c'.res = r
BY DEF Return, Kept, Local, PC

LEMMA AbortFields ==
    ASSUME c \in Local, Abort
    PROVE  Kept /\ c'.pc = "cancel" /\ c'.res = "err"
BY DEF Abort, Kept, Local, PC, Res

LEMMA FailsFacts ==
    ASSUME WorldOK, Fails
    PROVE  fails' \in 0 .. MaxFails /\ ctxDone' = ctxDone
BY BlobAssumption DEF Fails, WorldOK

LEMMA CallFacts ==
    ASSUME TypeOK
    PROVE  /\ call.blob \in Seq(Nat) /\ Len(call.blob) \in Nat
           /\ call.dig \in Seq(Nat) /\ call.size \in Nat
           /\ call.op \in {"copy", "put"}
<1>1. call \in Call
  BY BlobAssumption DEF TypeOK
<1> QED BY <1>1 DEF Call

LEMMA LocalFacts ==
    ASSUME TypeOK
    PROVE  /\ c.pc \in PC /\ c.res \in Res /\ c.url \in Nat /\ c.pos \in Nat
           /\ c.hashed \in Seq(Nat) /\ c.array \in Seq(Nat)
           /\ c.off \in Nat /\ c.len \in Nat /\ c.bufStart \in Nat
           /\ c.bufRdr \in [off : Nat, len : Nat]
           /\ c.bufChange \in BOOLEAN /\ c.finalChunk \in BOOLEAN
           /\ c.chunkStart \in Nat /\ c.chunkSize \in Nat /\ c.retryCur \in Nat
           /\ c.late \in BOOLEAN /\ c.d \in [dig : Seq(Nat), size : Nat]
           /\ Len(c.hashed) \in Nat /\ Len(c.array) \in Nat
BY SMTT(30) DEF TypeOK, Local

LEMMA DataFacts ==
    ASSUME TypeOK, c.url # 0
    PROVE  /\ c.url \in 1 .. Len(sess) /\ sess[c.url] \in Session
           /\ Data \in Seq(Nat) /\ Len(Data) \in Nat
<1>1. c.url \in Nat /\ c.url <= Len(sess) /\ sess \in Seq(Session)
  BY LocalFacts, TypeSplit
<1>2. c.url \in 1 .. Len(sess)
  BY <1>1
<1>3. sess[c.url] \in Session
  BY <1>1, <1>2
<1> QED BY <1>2, <1>3 DEF Session, Data

\* What a step keeps that leaves the locals and what is in the sessions alone.
LEMMA KeptParts ==
    ASSUME IInv, Kept, SessKept, WorldOK', UNCHANGED <<call, doubled>>
    PROVE  TypeOK' /\ BufferOK' /\ BlobReaderOK' /\ SessionOK'
<1>0. TypeOK
  BY DEF IInv
<1>1. TypeOK'
  <2>1. c'.url <= Len(sess')
    BY <1>0, TypeSplit DEF Kept, SessKept
  <2> QED BY <2>1, TypeSplit DEF Kept, SessKept, WorldOK, TypeOK, Session
<1>2. BufferOK'
  BY Zenon DEF IInv, BufferOK, Kept
<1>3. BlobReaderOK'
  BY Zenon DEF IInv, BlobReaderOK, Kept
<1>4. SessionOK'
  <2>1. CASE c.url = 0
    BY <2>1 DEF SessionOK, Open, Kept
  <2>2. CASE c.url # 0
    <3>1. c.url \in DOMAIN sess
      BY <2>2, <1>0, DataFacts, TypeSplit
    <3>2. Data' = Data /\ (Open' => Open)
      BY <2>2, <3>1, Zenon DEF SessKept, Kept, Data, Open
    <3> QED BY <3>2, Zenon DEF IInv, SessionOK, FromBlob, Kept
  <2> QED BY <2>1, <2>2
<1> QED BY <1>1, <1>2, <1>3, <1>4

LEMMA SessionSame ==
    ASSUME SessionOK, UNCHANGED call, UNCHANGED doubled, UNCHANGED sess,
           c'.url = c.url, c'.hashed = c.hashed
    PROVE  SessionOK'
<1>1. Data' = Data /\ Open' = Open
  BY DEF Data, Open
<1> QED BY <1>1, Zenon DEF SessionOK, FromBlob

\* A step that only moves on keeps the invariant when the new place fits.
LEMMA MoveIInv ==
    ASSUME IInv, Kept, SessKept, WorldOK', UNCHANGED <<call, doubled, misread>>,
           leaked => leaked',
           c'.pc \in Early => c.pc \in Early \ {"chunked"},
           c'.pc \notin Over \cup {"status"} => c.pc \notin Over \cup {"status"},
           \/ c'.pc \in Live \/ c.pc \notin Live \/ leaked'
           \/ ~sess'[c.url].open,
           ControlOK', ReaderOK', FinalOK', SuccessStored'
    PROVE  IInv'
<1>0. TypeOK
  BY DEF IInv
<1>1. TypeOK' /\ BufferOK' /\ BlobReaderOK' /\ SessionOK'
  BY KeptParts
<1>2. EarlyOK'
  BY Zenon DEF IInv, EarlyOK, Kept
<1>3. c.url # 0 => Data' = Data
  BY <1>0, DataFacts, TypeSplit DEF SessKept, Kept, Data
<1>4. OffsetOK'
  BY <1>3, Zenon DEF IInv, OffsetOK, Kept
<1>5. CleanupOK'
  <2> SUFFICES ASSUME ~leaked', NEW i \in DOMAIN sess', sess'[i].known, sess'[i].open
               PROVE  i = c'.url /\ c'.pc \in Live
    BY DEF CleanupOK
  <2>1. i \in DOMAIN sess /\ sess[i].known /\ sess[i].open
    BY <1>0, TypeSplit DEF SessKept
  <2>2. i = c.url /\ c.pc \in Live
    BY <2>1, Zenon DEF IInv, CleanupOK
  <2> QED BY <2>2 DEF Kept
<1> QED BY <1>1, <1>2, <1>4, <1>5 DEF IInv

LEMMA SessSame ==
    ASSUME TypeOK, UNCHANGED sess
    PROVE  SessKept
BY TypeSplit DEF SessKept

\* Closing the session of the call.
LEMMA CloseFacts ==
    ASSUME TypeOK, c.url # 0, sess' = [sess EXCEPT ![c.url].open = FALSE]
    PROVE  SessKept /\ ~sess'[c.url].open
<1>1. c.url \in 1 .. Len(sess) /\ sess[c.url] \in Session /\ sess \in Seq(Session)
  BY DataFacts, TypeSplit
<1>2. DOMAIN sess = 1 .. Len(sess) /\ Len(sess) \in Nat
  BY <1>1
<1>3. sess' \in Seq(Session) /\ Len(sess') = Len(sess)
  <2>1. [sess[c.url] EXCEPT !.open = FALSE] \in Session
    BY <1>1 DEF Session
  <2> QED BY <1>1, <2>1, ExceptSeq
<1>4. \A i \in DOMAIN sess : sess'[i] = IF i = c.url THEN [sess[i] EXCEPT !.open = FALSE] ELSE sess[i]
  BY <1>1, <1>2
<1>5. \A i \in DOMAIN sess : sess[i] \in Session
  BY <1>1
<1> QED BY <1>1, <1>2, <1>3, <1>4, <1>5 DEF Session, SessKept

\* The call gives up: what is left to show is that its session is one of the blob.
LEMMA AbortIInv ==
    ASSUME IInv, Abort, WorldOK', UNCHANGED <<call, misread, leaked>>,
           c.pc \in Live \ Over, TypeOK', SessionOK',
           misread => Data' = Data,
           Len(sess') = Len(sess),
           \A i \in DOMAIN sess : sess'[i].known = sess[i].known
                                  /\ (sess'[i].open => sess[i].open)
    PROVE  IInv'
<1>0. TypeOK
  BY DEF IInv
<1>1. Kept /\ c'.pc = "cancel" /\ c'.res = "err"
  BY <1>0, AbortFields, TypeSplit
<1>2. BufferOK' /\ BlobReaderOK'
  <2>1. BufferOK'
    BY <1>1, ZenonT(30) DEF IInv, BufferOK, Kept
  <2>2. BlobReaderOK'
    BY <1>1, Zenon DEF IInv, BlobReaderOK, Kept
  <2> QED BY <2>1, <2>2
<1>3. ControlOK'
  BY <1>1 DEF IInv, ControlOK, Kept, Over, Live, ValidDesc
<1>4. EarlyOK' /\ ReaderOK' /\ FinalOK' /\ SuccessStored'
  BY <1>1 DEF EarlyOK, ReaderOK, FinalOK, SuccessStored, Early
<1>5. OffsetOK'
  BY <1>1 DEF IInv, OffsetOK, Kept, Over
<1>6. CleanupOK'
  <2> SUFFICES ASSUME ~leaked', NEW i \in DOMAIN sess', sess'[i].known, sess'[i].open
               PROVE  i = c'.url /\ c'.pc \in Live
    BY DEF CleanupOK
  <2>1. i \in DOMAIN sess /\ sess[i].known /\ sess[i].open
    BY <1>0, TypeSplit DEF TypeOK
  <2>2. i = c.url
    BY <2>1, Zenon DEF IInv, CleanupOK
  <2> QED BY <1>1, <2>2 DEF Kept, Live
<1> QED BY <1>2, <1>3, <1>4, <1>5, <1>6 DEF IInv

LEMMA AbortSame ==
    ASSUME IInv, Abort, WorldOK', c.pc \in Live \ Over,
           UNCHANGED <<call, misread, doubled, leaked, sess>>
    PROVE  IInv'
<1>0. TypeOK
  BY DEF IInv
<1>1. Kept /\ SessKept
  BY <1>0, AbortFields, TypeSplit, SessSame
<1>2. TypeOK' /\ SessionOK'
  BY <1>1, KeptParts
<1>3. Data' = Data
  BY <1>1 DEF Data, Kept
<1> QED BY <1>2, <1>3, AbortIInv

-----------------------------------------------------------------------------
(* BlobCopy, blobMount and blobGetUploadURL.                                *)

LEMMA HeadIInv ==
    ASSUME IInv, HeadTarget \/ HeadTargetFails
    PROVE  IInv'
<1>0. TypeOK /\ WorldOK /\ c \in Local /\ SessKept /\ c.pc = "head"
  BY TypeSplit, SessSame DEF IInv, HeadTarget, HeadTargetFails, Registry
<1>1. WorldOK' /\ UNCHANGED <<call, doubled, misread, leaked, stored>>
  BY <1>0, FailsFacts DEF HeadTarget, HeadTargetFails, Registry, History, Sent, WorldOK
<1>2. /\ Kept /\ c'.pc \in {"mount", "get", "done"} /\ (c'.pc = "done" => stored /\ c'.res = "ok")
      /\ (c'.pc # "done" => c'.res = c.res)
  <2>1. CASE Return("ok") /\ stored
    BY <2>1, <1>0, ReturnFields DEF Res
  <2>2. CASE \E l \in {"mount", "get"} : Goto(l)
    BY <2>2, <1>0, GotoFields DEF PC
  <2> QED BY <2>1, <2>2 DEF HeadTarget, HeadTargetFails
<1>3. ControlOK'
  BY <1>0, <1>1, <1>2 DEF IInv, ControlOK, Kept, Over, Live, ValidDesc
<1>4. ReaderOK' /\ FinalOK'
  BY <1>2 DEF ReaderOK, FinalOK
<1>5. SuccessStored'
  BY <1>0, <1>1, <1>2 DEF IInv, ControlOK, SuccessStored, Over
<1> QED BY <1>0, <1>1, <1>2, <1>3, <1>4, <1>5, MoveIInv DEF Live, Early, Over

LEMMA GetIInv ==
    ASSUME IInv, Get \/ GetFails
    PROVE  IInv'
<1>0. TypeOK /\ WorldOK /\ c \in Local /\ SessKept /\ c.pc = "get" /\ c.pos = 0
  BY TypeSplit, SessSame DEF IInv, Get, GetFails, Registry, EarlyOK, Early
<1>1. WorldOK' /\ UNCHANGED <<call, doubled, misread, leaked, stored>>
  BY <1>0, FailsFacts DEF Get, GetFails, Registry, History, Sent, WorldOK
<1>2. /\ Kept /\ c'.pc \in {PutPC, "done"} /\ (c'.pc = "done" => c'.res = "err")
      /\ (c'.pc # "done" => c'.res = c.res)
  <2>1. CASE Get
    BY <2>1, <1>0 DEF Get, Kept, Local, PC, PutPC
  <2>2. CASE Return("err")
    BY <2>2, <1>0, ReturnFields DEF Res
  <2>3. CASE Goto(PutPC)
    BY <2>3, <1>0, GotoFields DEF PC, PutPC
  <2> QED BY <2>1, <2>2, <2>3 DEF GetFails
<1>3. ControlOK'
  BY <1>0, <1>1, <1>2 DEF IInv, ControlOK, Kept, Over, Live, ValidDesc, PutPC
<1>4. ReaderOK' /\ FinalOK'
  BY <1>2 DEF ReaderOK, FinalOK, PutPC
<1>5. SuccessStored'
  BY <1>0, <1>1, <1>2 DEF IInv, ControlOK, SuccessStored, Over
<1> QED BY <1>0, <1>1, <1>2, <1>3, <1>4, <1>5, MoveIInv DEF Live, Early, Over, PutPC

LEMMA GrownNat ==
    ASSUME TypeOK
    PROVE  Grown \in Nat
<1>1. call.min \in Nat
  BY BlobAssumption DEF TypeOK, Call
<1> QED BY <1>1, BlobAssumption DEF TypeOK, Grown

LEMMA MountedIInv ==
    ASSUME IInv, Mounted
    PROVE  IInv'
<1>0. TypeOK /\ WorldOK /\ c \in Local /\ SessKept /\ c.pc \in {"mount", "anon"}
  BY TypeSplit, SessSame DEF IInv, Mounted
<1>1. WorldOK' /\ stored' /\ UNCHANGED <<call, doubled, misread, leaked>>
  BY <1>0, GrownNat DEF Mounted, History, Sent, WorldOK
<1>2. Kept /\ c'.pc = "done" /\ c'.res = "ok"
  BY <1>0, ReturnFields DEF Mounted, Res
<1>3. ControlOK'
  BY <1>0, <1>1, <1>2 DEF IInv, ControlOK, Kept, Over, Live, ValidDesc
<1>4. ReaderOK' /\ FinalOK'
  BY <1>2 DEF ReaderOK, FinalOK
<1>5. SuccessStored'
  <2>1. c.d = [dig |-> call.dig, size |-> call.size] /\ (c.pc = "anon" => ValidDesc)
        /\ (c.pc = "mount" => call.op = "copy")
    BY <1>0 DEF IInv, ControlOK, Over
  <2>2. call.dig = call.blob /\ Asked = call.blob
    BY DEF Mounted, Asked
  <2>3. CASE call.op = "put"
    <3>1. c'.d.dig = call.dig /\ c'.d.size = call.size
      BY <1>2, <2>1 DEF Kept
    <3>2. call.size = 0 => call.blob = <<>>
      BY <1>0, <2>1, <2>2, <2>3, CallFacts DEF ValidDesc
    <3>3. Asked' = Asked
      BY <1>1 DEF Asked
    <3> QED BY <1>1, <2>2, <3>1, <3>2, <3>3, CallFacts DEF SuccessStored
  <2>4. CASE call.op # "put"
    BY <2>4, <1>1, Zenon DEF SuccessStored
  <2> QED BY <2>3, <2>4
<1> QED BY <1>0, <1>1, <1>2, <1>3, <1>4, <1>5, MoveIInv DEF Live, Early, Over

LEMMA MountFailsIInv ==
    ASSUME IInv, MountFails
    PROVE  IInv'
<1>0. TypeOK /\ WorldOK /\ c \in Local /\ SessKept /\ c.pc \in {"mount", "anon"}
  BY TypeSplit, SessSame DEF IInv, MountFails, Registry
<1>1. WorldOK' /\ UNCHANGED <<call, doubled, misread, leaked, stored>>
  BY <1>0, FailsFacts DEF MountFails, Registry, History, WorldOK
<1>2. Kept /\ c'.pc = (IF c.pc = "mount" THEN "get" ELSE "post") /\ c'.res = c.res
  BY <1>0, GotoFields DEF MountFails, PC
<1>3. ControlOK'
  BY <1>0, <1>1, <1>2 DEF IInv, ControlOK, Kept, Over, Live, ValidDesc
<1>4. ReaderOK' /\ FinalOK'
  BY <1>2 DEF ReaderOK, FinalOK
<1>5. SuccessStored'
  BY <1>0, <1>1, <1>2 DEF IInv, ControlOK, SuccessStored, Over
<1> QED BY <1>0, <1>1, <1>2, <1>3, <1>4, <1>5, MoveIInv DEF Live, Early, Over

\* The sessions with one more.
LEMMA AppendFacts ==
    ASSUME TypeOK, NEW k \in BOOLEAN,
           sess' = Append(sess, [open |-> TRUE, data |-> <<>>, known |-> k])
    PROVE  /\ sess' \in Seq(Session) /\ Len(sess') = Len(sess) + 1
           /\ DOMAIN sess' = DOMAIN sess \cup {Len(sess) + 1}
           /\ \A i \in DOMAIN sess : sess'[i] = sess[i]
           /\ sess'[Len(sess) + 1] = [open |-> TRUE, data |-> <<>>, known |-> k]
<1>1. sess \in Seq(Session) /\ [open |-> TRUE, data |-> <<>>, known |-> k] \in Session
  BY TypeSplit DEF Session
<1> QED BY <1>1

\* An upload starts: the session before it, if any, is closed or given up.
LEMMA NewSessionIInv ==
    ASSUME IInv, c.pc \in {"mount", "anon", "post"}, NewSession, WorldOK',
           UNCHANGED <<call, stored, misread, doubled, leaked>>,
           NEW l \in {"slow", "full", "chunked"},
           c' = [c EXCEPT !.url = Len(sess) + 1, !.pc = l],
           l = "slow" => call.op = "copy", l = "full" => ValidDesc
    PROVE  IInv'
<1>0. TypeOK /\ c \in Local /\ Len(sess) \in Nat /\ sess \in Seq(Session)
  BY TypeSplit DEF IInv
<1>1. /\ c' \in Local /\ c'.pc = l /\ c'.url = Len(sess) + 1 /\ c'.res = c.res
      /\ c'.pos = c.pos /\ c'.hashed = c.hashed
      /\ c'.array = c.array /\ c'.off = c.off /\ c'.len = c.len
      /\ c'.bufRdr = c.bufRdr /\ c'.bufStart = c.bufStart
      /\ c'.finalChunk = c.finalChunk
      /\ c'.chunkStart = c.chunkStart /\ c'.chunkSize = c.chunkSize
      /\ c'.late = c.late /\ c'.d = c.d
  <2>1. l \in PC /\ Len(sess) + 1 \in Nat
    BY <1>0 DEF PC
  <2> QED BY <1>0, <2>1 DEF Local
<1>2. /\ sess' \in Seq(Session) /\ Len(sess') = Len(sess) + 1
      /\ DOMAIN sess' = DOMAIN sess \cup {Len(sess) + 1}
      /\ \A i \in DOMAIN sess : sess'[i] = sess[i]
      /\ sess'[Len(sess) + 1] = [open |-> TRUE, data |-> <<>>, known |-> TRUE]
  BY <1>0, AppendFacts DEF NewSession
<1>3. Data' = <<>>
  BY <1>1, <1>2 DEF Data
<1>4. TypeOK'
  BY <1>1, <1>2 DEF TypeOK, WorldOK, Session
<1>5. ControlOK'
  BY <1>0, <1>1 DEF IInv, ControlOK, Over, Live, ValidDesc
<1>6. EarlyOK'
  BY <1>1 DEF IInv, EarlyOK, Early
<1>7. BufferOK'
  BY <1>1, Zenon DEF IInv, BufferOK
<1>8. ReaderOK' /\ FinalOK'
  BY <1>1 DEF ReaderOK, FinalOK
<1>9. BlobReaderOK'
  BY <1>1, Zenon DEF IInv, BlobReaderOK
<1>10. SessionOK'
  BY <1>3 DEF SessionOK, FromBlob
<1>11. OffsetOK'
  BY <1>1 DEF IInv, EarlyOK, OffsetOK, Early
<1>12. CleanupOK'
  <2> SUFFICES ASSUME ~leaked', NEW i \in DOMAIN sess', sess'[i].known, sess'[i].open
               PROVE  i = c'.url /\ c'.pc \in Live
    BY DEF CleanupOK
  <2>1. i \notin DOMAIN sess
    BY <1>2 DEF IInv, CleanupOK, Live
  <2> QED BY <1>1, <1>2, <2>1 DEF Live
<1>13. SuccessStored'
  BY <1>1 DEF IInv, ControlOK, SuccessStored, Over
<1> QED BY <1>4, <1>5, <1>6, <1>7, <1>8, <1>9, <1>10, <1>11, <1>12, <1>13 DEF IInv

LEMMA LocationIInv ==
    ASSUME IInv, MountLocation \/ Post
    PROVE  IInv'
<1>0. TypeOK /\ WorldOK /\ c.pc \in {"mount", "anon", "post"} /\ NewSession
  BY TypeSplit DEF IInv, MountLocation, Post
<1>1. WorldOK' /\ UNCHANGED <<call, stored, misread, doubled, leaked>>
  BY <1>0, GrownNat DEF MountLocation, Post, History, Sent, WorldOK
<1>2. c.pc = "mount" => call.op = "copy"
  BY DEF IInv, ControlOK
<1>3. CASE c.pc = "mount" /\ c' = [c EXCEPT !.url = Len(sess) + 1, !.pc = "slow"]
  BY <1>0, <1>1, <1>2, <1>3, NewSessionIInv
<1>4. CASE WithURL
  BY <1>0, <1>1, <1>4, NewSessionIInv DEF WithURL
<1> QED BY <1>3, <1>4 DEF MountLocation, Post

\* The session of a lost answer is not known.
LEMMA PostFailsIInv ==
    ASSUME IInv, PostFails
    PROVE  IInv'
<1>0. TypeOK /\ WorldOK /\ c \in Local /\ c.pc = "post" /\ sess \in Seq(Session)
  BY TypeSplit DEF IInv, PostFails
<1>1. WorldOK' /\ UNCHANGED <<call, stored, misread, doubled, leaked>>
  BY <1>0, FailsFacts DEF PostFails, History, WorldOK
<1>2. Kept /\ c'.pc = "done" /\ c'.res = "err"
  BY <1>0, ReturnFields DEF PostFails, Res
<1>3. ControlOK'
  BY <1>0, <1>1, <1>2 DEF IInv, ControlOK, Kept, Over, Live, ValidDesc
<1>4. ReaderOK' /\ FinalOK' /\ SuccessStored'
  BY <1>2 DEF ReaderOK, FinalOK, SuccessStored
<1>5. CASE UNCHANGED sess
  <2>1. SessKept
    BY <1>0, <1>5, SessSame
  <2> QED BY <1>0, <1>1, <1>2, <1>3, <1>4, <2>1, MoveIInv DEF Live, Early, Over
<1>6. CASE sess' = Append(sess, [open |-> TRUE, data |-> <<>>, known |-> FALSE])
  <2>1. /\ sess' \in Seq(Session) /\ Len(sess') = Len(sess) + 1
        /\ DOMAIN sess' = DOMAIN sess \cup {Len(sess) + 1}
        /\ \A i \in DOMAIN sess : sess'[i] = sess[i]
        /\ sess'[Len(sess) + 1] = [open |-> TRUE, data |-> <<>>, known |-> FALSE]
    BY <1>0, <1>6, AppendFacts
  <2>2. TypeOK'
    <3>1. c'.url <= Len(sess') /\ c' \in Local
      BY <1>0, <1>2, <2>1, LocalFacts, TypeSplit DEF Kept
    <3> QED BY <1>1, <2>1, <3>1 DEF TypeOK, WorldOK, Session
  <2>3. BufferOK'
    BY <1>2, Zenon DEF IInv, BufferOK, Kept
  <2>4. BlobReaderOK'
    BY <1>1, <1>2, Zenon DEF IInv, BlobReaderOK, Kept
  <2>5. SessionOK' /\ OffsetOK'
    <3>1. CASE c.url = 0
      BY <3>1, <1>0, <1>1, <1>2 DEF IInv, EarlyOK, SessionOK, OffsetOK, Open, Kept, Early
    <3>2. CASE c.url # 0
      <4>1. c.url \in DOMAIN sess
        BY <3>2, <1>0, DataFacts
      <4>2. Data' = Data /\ Open' = Open
        BY <4>1, <1>2, <2>1, Zenon DEF Data, Open, Kept
      <4>3. SessionOK'
        BY <4>2, <1>1, <1>2, Zenon DEF IInv, SessionOK, FromBlob, Kept
      <4>4. OffsetOK'
        BY <1>0, <1>1, <1>2 DEF IInv, EarlyOK, OffsetOK, Early, Over
      <4> QED BY <4>3, <4>4
    <3> QED BY <3>1, <3>2
  <2>6. EarlyOK'
    BY <1>2 DEF EarlyOK, Early
  <2>7. CleanupOK'
    BY <1>0, <1>1, <2>1 DEF IInv, CleanupOK, Live
  <2> QED BY <1>3, <1>4, <2>2, <2>3, <2>4, <2>5, <2>6, <2>7 DEF IInv
<1> QED BY <1>5, <1>6 DEF PostFails

-----------------------------------------------------------------------------
(* blobPutUploadFull and the way back.                                      *)

LEMMA FullIInv ==
    ASSUME IInv, Full
    PROVE  IInv'
<1>0. TypeOK /\ WorldOK /\ c \in Local /\ c.pc = "full" /\ c.url # 0
  BY TypeSplit DEF IInv, Full, ControlOK, Live
<1>1. WorldOK' /\ stored' /\ UNCHANGED <<call, doubled, misread, leaked>>
  BY <1>0 DEF Full, History, Sent, WorldOK
<1>2. Kept /\ c'.pc = "done" /\ c'.res = "ok"
  BY <1>0, ReturnFields DEF Full, Res
<1>3. ControlOK'
  BY <1>0, <1>1, <1>2 DEF IInv, ControlOK, Kept, Over, Live, ValidDesc
<1>4. ReaderOK' /\ FinalOK'
  BY <1>2 DEF ReaderOK, FinalOK
<1>5. SuccessStored'
  <2>1. c'.d = [dig |-> call.dig, size |-> call.size]
    BY <1>0, <1>2 DEF IInv, ControlOK, Over, Kept
  <2>2. call.dig = call.blob /\ call.size = Len(call.blob) /\ Asked' = call.blob
    BY <1>1 DEF Full, RightDesc, Asked
  <2> QED BY <1>1, <2>1, <2>2 DEF SuccessStored
<1>6. SessKept /\ ~sess'[c.url].open
  BY <1>0, CloseFacts DEF Full
<1> QED BY <1>0, <1>1, <1>2, <1>3, <1>4, <1>5, <1>6, MoveIInv DEF Live, Early, Over

\* Writing the data of the session of the call.
LEMMA WriteFacts ==
    ASSUME TypeOK, c.url # 0, NEW x \in Seq(Nat),
           sess' = [sess EXCEPT ![c.url].data = x]
    PROVE  /\ sess' \in Seq(Session) /\ Len(sess') = Len(sess)
           /\ DOMAIN sess' = DOMAIN sess /\ c.url \in DOMAIN sess
           /\ \A i \in DOMAIN sess : /\ sess'[i].known = sess[i].known
                                     /\ sess'[i].open = sess[i].open
           /\ sess'[c.url].data = x
<1>1. c.url \in 1 .. Len(sess) /\ sess[c.url] \in Session /\ sess \in Seq(Session)
  BY DataFacts, TypeSplit
<1>2. DOMAIN sess = 1 .. Len(sess) /\ Len(sess) \in Nat
  BY <1>1
<1>3. PICK e : e = [sess[c.url] EXCEPT !.data = x]
  OBVIOUS
<1>4. e \in Session /\ e.data = x /\ e.known = sess[c.url].known /\ e.open = sess[c.url].open
  BY <1>1, <1>3 DEF Session
<1>5. sess' = [sess EXCEPT ![c.url] = e]
  BY <1>3
<1>6. sess' \in Seq(Session) /\ Len(sess') = Len(sess)
  BY <1>1, <1>4, <1>5, ExceptSeq
<1>7. \A i \in DOMAIN sess : sess'[i] = IF i = c.url THEN e ELSE sess[i]
  BY <1>1, <1>2, <1>5
<1> QED BY <1>1, <1>2, <1>4, <1>6, <1>7

\* What one or two attempts of the full put leave is of the blob.
LEMMA TwoParts ==
    ASSUME NEW b \in Seq(Nat), NEW i \in 0 .. Len(b), NEW j \in 0 .. Len(b)
    PROVE  /\ SubSeq(b, 1, i) \o SubSeq(b, 1, j) \in Seq(Nat)
           /\ ~(i > 0 /\ j > 0) =>
                \A k \in 1 .. Len(SubSeq(b, 1, i) \o SubSeq(b, 1, j)) :
                    k <= Len(b) /\ (SubSeq(b, 1, i) \o SubSeq(b, 1, j))[k] = b[k]
<1>1. /\ SubSeq(b, 1, i) \in Seq(Nat) /\ Len(SubSeq(b, 1, i)) = i
      /\ \A k \in 1 .. i : SubSeq(b, 1, i)[k] = b[k]
  BY SubSeqProperties
<1>2. /\ SubSeq(b, 1, j) \in Seq(Nat) /\ Len(SubSeq(b, 1, j)) = j
      /\ \A k \in 1 .. j : SubSeq(b, 1, j)[k] = b[k]
  BY SubSeqProperties
<1>3. PICK s \in Seq(Nat) : s = SubSeq(b, 1, i)
  BY <1>1
<1>4. PICK t \in Seq(Nat) : t = SubSeq(b, 1, j)
  BY <1>2
<1>5. s \o t \in Seq(Nat) /\ Len(s \o t) = i + j
  BY <1>1, <1>2, <1>3, <1>4
<1>6. \A k \in 1 .. i + j : (s \o t)[k] = IF k <= i THEN b[k] ELSE b[k - i]
  BY <1>1, <1>2, <1>3, <1>4
<1>7. ~(i > 0 /\ j > 0) => \A k \in 1 .. i + j : k <= Len(b) /\ (s \o t)[k] = b[k]
  <2> SUFFICES ASSUME ~(i > 0 /\ j > 0), NEW k \in 1 .. i + j
               PROVE  k <= Len(b) /\ (s \o t)[k] = b[k]
    OBVIOUS
  <2>1. Len(b) \in Nat /\ i \in Nat /\ j \in Nat /\ i <= Len(b) /\ j <= Len(b)
    OBVIOUS
  <2>2. k <= Len(b) /\ (k <= i \/ i = 0)
    BY <2>1
  <2>3. (s \o t)[k] = IF k <= i THEN b[k] ELSE b[k - i]
    BY <1>6
  <2>4. i = 0 => k - i = k
    BY <2>1
  <2> QED BY <2>2, <2>3, <2>4
<1> QED BY <1>3, <1>4, <1>5, <1>7

LEMMA FullFailsIInv ==
    ASSUME IInv, FullFails
    PROVE  IInv'
<1>0. /\ TypeOK /\ WorldOK /\ c \in Local /\ c.pc = "full" /\ c.url # 0
      /\ ~misread /\ UNCHANGED <<call, misread, leaked>> /\ c.chunkStart = 0
  BY TypeSplit DEF IInv, FullFails, ControlOK, EarlyOK, Early, Live
<1>1. /\ Kept
      /\ \/ c'.pc = "back" /\ c'.res = c.res
         \/ c'.pc = "cancel" /\ c'.res = "err"
  <2>1. CASE Goto("back")
    BY <2>1, <1>0, GotoFields DEF PC
  <2>2. CASE Abort
    BY <2>2, <1>0, AbortFields
  <2> QED BY <2>1, <2>2 DEF FullFails
<1>2. WorldOK'
  <2>1. fails' \in 0 .. MaxFails /\ ctxDone' = ctxDone
    BY <1>0, FailsFacts DEF FullFails, Sent, WorldOK
  <2>2. hostChunk' = hostChunk /\ doubled' \in BOOLEAN /\ stored' \in BOOLEAN
    BY <1>0 DEF FullFails, WorldOK, RightDesc
  <2> QED BY <1>0, <2>1, <2>2 DEF WorldOK
<1>3. /\ sess' \in Seq(Session) /\ Len(sess') = Len(sess)
      /\ \A i \in DOMAIN sess : /\ sess'[i].known = sess[i].known
                                /\ sess'[i].open => sess[i].open
      /\ SessionOK'
  <2>1. CASE \E i, j \in 0 .. Len(call.blob) :
               /\ sess' = [sess EXCEPT ![c.url].data =
                              SubSeq(call.blob, 1, i) \o SubSeq(call.blob, 1, j)]
               /\ doubled' = (i > 0 /\ j > 0)
    <3>1. PICK i, j \in 0 .. Len(call.blob) :
               /\ sess' = [sess EXCEPT ![c.url].data =
                              SubSeq(call.blob, 1, i) \o SubSeq(call.blob, 1, j)]
               /\ doubled' = (i > 0 /\ j > 0)
      BY <2>1
    <3>2. PICK x : x = SubSeq(call.blob, 1, i) \o SubSeq(call.blob, 1, j)
      OBVIOUS
    <3>3. x \in Seq(Nat) /\ (~doubled' => \A k \in 1 .. Len(x) :
                                k <= Len(call.blob) /\ x[k] = call.blob[k])
      <4>1. call.blob \in Seq(Nat)
        BY <1>0, CallFacts
      <4>2. /\ x \in Seq(Nat)
            /\ ~(i > 0 /\ j > 0) =>
                 \A k \in 1 .. Len(x) : k <= Len(call.blob) /\ x[k] = call.blob[k]
        BY <3>2, <4>1, TwoParts, Zenon
      <4> QED BY <3>1, <4>2
    <3>4. sess' = [sess EXCEPT ![c.url].data = x]
      BY <3>1, <3>2
    <3>5. Data' = x
      BY <1>0, <1>1, <3>3, <3>4, WriteFacts DEF Data, Kept
    <3>6. SessionOK'
      BY <1>0, <3>3, <3>5 DEF SessionOK, FromBlob
    <3> QED BY <1>0, <3>3, <3>4, <3>6, WriteFacts
  <2>2. CASE sess' = [sess EXCEPT ![c.url].open = FALSE]
    <3>1. SessKept /\ ~sess'[c.url].open
      BY <1>0, <2>2, CloseFacts
    <3>2. SessionOK'
      BY <1>1, <3>1 DEF SessionOK, Open, Kept
    <3> QED BY <3>1, <3>2 DEF SessKept
  <2> QED BY <2>1, <2>2 DEF FullFails
<1>4. TypeOK'
  <2>1. c'.url <= Len(sess') /\ c' \in Local
    BY <1>0, <1>1, <1>3, TypeSplit DEF Kept
  <2> QED BY <1>2, <1>3, <2>1 DEF TypeOK, WorldOK, Session
<1>5. CASE Abort
  BY <1>0, <1>2, <1>3, <1>4, <1>5, AbortIInv DEF Live, Over
<1>6. CASE c'.pc = "back" /\ c'.res = c.res
  <2>1. ControlOK'
    BY <1>0, <1>1, <1>6 DEF IInv, ControlOK, Kept, Over, Live, ValidDesc
  <2>2. EarlyOK'
    BY <1>0, <1>1, <1>6 DEF IInv, EarlyOK, Kept, Early
  <2>3. BufferOK'
    BY <1>1, Zenon DEF IInv, BufferOK, Kept
  <2>4. BlobReaderOK'
    BY <1>0, <1>1, Zenon DEF IInv, BlobReaderOK, Kept
  <2>5. ReaderOK' /\ FinalOK'
    BY <1>6 DEF ReaderOK, FinalOK
  <2>6. OffsetOK'
    BY <1>0, <1>1 DEF OffsetOK, Kept
  <2>7. CleanupOK'
    <3> SUFFICES ASSUME ~leaked', NEW i \in DOMAIN sess', sess'[i].known, sess'[i].open
                 PROVE  i = c'.url /\ c'.pc \in Live
      BY DEF CleanupOK
    <3>1. i \in DOMAIN sess /\ sess[i].known /\ sess[i].open
      BY <1>0, <1>3, TypeSplit
    <3>2. i = c.url
      BY <1>0, <3>1, Zenon DEF IInv, CleanupOK
    <3> QED BY <1>1, <1>6, <3>2 DEF Kept, Live
  <2>8. SuccessStored'
    BY <1>0, <1>6 DEF IInv, ControlOK, SuccessStored, Over
  <2> QED BY <1>3, <1>4, <2>1, <2>2, <2>3, <2>4, <2>5, <2>6, <2>7, <2>8 DEF IInv
<1> QED BY <1>5, <1>6, <1>0, GotoFields DEF FullFails, PC

LEMMA SeekFailsIInv ==
    ASSUME IInv, SeekFails
    PROVE  IInv'
<1>1. WorldOK' /\ UNCHANGED <<call, misread, doubled, leaked, sess>>
  BY TypeSplit, FailsFacts DEF IInv, SeekFails, Registry, History, WorldOK
<1> QED BY <1>1, AbortSame DEF SeekFails, Live, Over

\* Seeking back, and a read by a request that is over: only the reader moves.
LEMMA SeekLateIInv ==
    ASSUME IInv, SeekBack \/ LateRead
    PROVE  IInv'
<1>0. /\ TypeOK /\ WorldOK /\ c \in Local /\ SessKept /\ WorldOK'
      /\ UNCHANGED <<call, misread, doubled, leaked, sess, stored>>
  BY TypeSplit, SessSame DEF IInv, SeekBack, LateRead, Registry, History, WorldOK
<1>1. /\ c' \in Local /\ c'.res = c.res /\ c'.url = c.url
      /\ c'.hashed = c.hashed
      /\ c'.array = c.array /\ c'.off = c.off /\ c'.len = c.len
      /\ c'.bufRdr = c.bufRdr /\ c'.bufStart = c.bufStart
      /\ c'.bufChange = c.bufChange /\ c'.finalChunk = c.finalChunk
      /\ c'.chunkStart = c.chunkStart /\ c'.chunkSize = c.chunkSize
      /\ c'.d = c.d
  <2>1. CASE SeekBack
    BY <1>0, <2>1 DEF SeekBack, Local, PC
  <2>2. CASE LateRead
    <3>1. c.pos + 1 \in Nat /\ c' = [c EXCEPT !.pos = c.pos + 1, !.late = FALSE]
      BY <1>0, <2>2, LocalFacts, SMTT(30) DEF LateRead
    <3> QED BY <1>0, <3>1 DEF Local
  <2> QED BY <2>1, <2>2
<1>2. /\ c'.pc \in {"chunked", "loop", "fill", "patch", "status"}
      /\ c'.pc = c.pc \/ (c.pc = "back" /\ c'.pc = "chunked")
      /\ ValidDesc
      /\ c'.pos <= Len(call.blob) /\ (c.finalChunk => c'.pos = Len(call.blob))
      /\ call.dig # NoDig
  <2>1. ValidDesc
    BY DEF IInv, ControlOK, SeekBack, LateRead
  <2>2. call.dig # NoDig
    BY <2>1 DEF ValidDesc, NoDig
  <2>3. CASE SeekBack
    <3>1. c'.pos = 0 /\ c'.pc = "chunked" /\ c.pc = "back" /\ ~c.finalChunk
      BY <2>3, <1>0 DEF SeekBack, Local, IInv, EarlyOK, Early
    <3> QED BY <1>0, <2>1, <2>2, <3>1, CallFacts
  <2>4. CASE LateRead
    <3>1. /\ c'.pos = c.pos + 1 /\ c'.pc = c.pc /\ c.pos < Len(call.blob)
          /\ c.pc \in {"chunked", "loop", "fill", "patch", "status"} /\ c.pos \in Nat
      BY <2>4, <1>0 DEF LateRead, Local
    <3>2. c.finalChunk => c.pos = Len(call.blob)
      BY DEF IInv, BlobReaderOK
    <3> QED BY <1>0, <2>1, <2>2, <3>1, <3>2, CallFacts
  <2> QED BY <2>3, <2>4
<1>3. TypeOK'
  BY <1>0, <1>1, TypeSplit DEF TypeOK, WorldOK, Session
<1>4. ControlOK'
  BY <1>0, <1>1, <1>2 DEF IInv, ControlOK, Over, Live, ValidDesc
<1>5. EarlyOK'
  BY <1>0, <1>1, <1>2 DEF IInv, EarlyOK, Early
<1>6. BufferOK'
  BY <1>1, Zenon DEF IInv, BufferOK
<1>7. ReaderOK' /\ FinalOK'
  BY <1>1, <1>2 DEF IInv, EarlyOK, ReaderOK, FinalOK, Early
<1>8. BlobReaderOK'
  BY <1>0, <1>1, <1>2 DEF BlobReaderOK
<1>9. SessionOK'
  BY <1>0, <1>1, SessionSame DEF IInv
<1>10. OffsetOK'
  BY <1>0, <1>1, <1>2 DEF IInv, OffsetOK, Data, Over
<1>11. CleanupOK'
  BY <1>0, <1>1, <1>2 DEF IInv, CleanupOK, Live
<1>12. SuccessStored'
  BY <1>0, <1>1, <1>2 DEF IInv, ControlOK, SuccessStored, Over
<1> QED BY <1>3, <1>4, <1>5, <1>6, <1>7, <1>8, <1>9, <1>10, <1>11, <1>12 DEF IInv

-----------------------------------------------------------------------------
(* blobPutUploadChunked: the loop.                                          *)

LEMMA StartChunkedIInv ==
    ASSUME IInv, StartChunked
    PROVE  IInv'
<1>0. /\ TypeOK /\ WorldOK /\ c \in Local /\ WorldOK' /\ c.pc = "chunked"
      /\ UNCHANGED <<call, misread, doubled, leaked, sess, stored>>
  BY TypeSplit DEF IInv, StartChunked, Registry, History, WorldOK
<1>1. c.hashed = <<>> /\ c.off = 0 /\ c.len = 0 /\ c.chunkStart = 0 /\ ~c.finalChunk
      /\ ~misread /\ c.bufRdr = [off |-> 0, len |-> 0] /\ c.url # 0
  BY <1>0 DEF IInv, EarlyOK, Early, ControlOK, Live
<1>2. PICK N \in Nat : c' = [c EXCEPT !.pc = "loop", !.array = [i \in 1 .. N |-> 0]]
  BY <1>0, BlobAssumption DEF StartChunked, TypeOK
<1>3. [i \in 1 .. N |-> 0] \in Seq(Nat) /\ Len([i \in 1 .. N |-> 0]) = N
  BY <1>2
<1>4. /\ c' \in Local /\ c'.pc = "loop" /\ c'.res = c.res /\ c'.url = c.url
      /\ c'.hashed = c.hashed /\ c'.pos = c.pos /\ c'.late = c.late
      /\ c'.array = [i \in 1 .. N |-> 0] /\ c'.off = c.off /\ c'.len = c.len
      /\ c'.bufRdr = c.bufRdr /\ c'.bufStart = c.bufStart
      /\ c'.bufChange = c.bufChange /\ c'.finalChunk = c.finalChunk
      /\ c'.chunkStart = c.chunkStart /\ c'.chunkSize = c.chunkSize
      /\ c'.d = c.d
  BY <1>0, <1>2, <1>3 DEF Local, PC
<1>5. TypeOK'
  BY <1>0, <1>4, TypeSplit DEF TypeOK, WorldOK, Session
<1>6. ControlOK'
  BY <1>0, <1>4 DEF IInv, ControlOK, Over, Live, ValidDesc
<1>7. EarlyOK' /\ FinalOK'
  BY <1>4 DEF EarlyOK, Early, FinalOK
<1>8. BufferOK'
  BY <1>1, <1>3, <1>4 DEF IInv, BufferOK
<1>9. ReaderOK'
  BY <1>1, <1>4 DEF ReaderOK
<1>10. BlobReaderOK'
  BY <1>0, <1>4, Zenon DEF IInv, BlobReaderOK
<1>11. SessionOK'
  BY <1>0, <1>4, SessionSame DEF IInv
<1>12. OffsetOK'
  BY <1>0, <1>1, <1>4 DEF OffsetOK
<1>13. CleanupOK'
  BY <1>0, <1>4 DEF IInv, CleanupOK, Live
<1>14. SuccessStored'
  BY <1>0, <1>4 DEF IInv, ControlOK, SuccessStored, Over
<1> QED BY <1>5, <1>6, <1>7, <1>8, <1>9, <1>10, <1>11, <1>12, <1>13, <1>14 DEF IInv

LEMMA LoopBodyIInv ==
    ASSUME IInv, LoopBody
    PROVE  IInv'
<1>0. /\ TypeOK /\ WorldOK /\ c \in Local /\ WorldOK' /\ c.pc = "loop"
      /\ UNCHANGED <<call, misread, doubled, leaked, sess, stored>>
  BY TypeSplit DEF IInv, LoopBody, Registry, History, WorldOK
<1>4. /\ c' \in Local /\ c'.pc = "fill" /\ c'.res = c.res /\ c'.url = c.url
      /\ c'.hashed = c.hashed /\ c'.pos = c.pos /\ c'.late = c.late
      /\ c'.array = c.array /\ c'.off = c.off /\ c'.len = c.len
      /\ c'.bufRdr = c.bufRdr /\ c'.bufStart = c.bufStart
      /\ c'.finalChunk = c.finalChunk
      /\ c'.chunkStart = c.chunkStart /\ c'.chunkSize = c.chunkSize
      /\ c'.d = c.d
  BY <1>0 DEF LoopBody, Local, PC
<1>5. TypeOK'
  BY <1>0, <1>4, TypeSplit DEF TypeOK, WorldOK, Session
<1>6. ControlOK'
  BY <1>0, <1>4 DEF IInv, ControlOK, Over, Live, ValidDesc
<1>7. EarlyOK' /\ FinalOK'
  BY <1>4 DEF EarlyOK, Early, FinalOK
<1>8. BufferOK'
  BY <1>4, Zenon DEF IInv, BufferOK
<1>9. ReaderOK'
  BY <1>0, <1>4 DEF IInv, ReaderOK
<1>10. BlobReaderOK'
  BY <1>0, <1>4, Zenon DEF IInv, BlobReaderOK
<1>11. SessionOK'
  BY <1>0, <1>4, SessionSame DEF IInv
<1>12. OffsetOK'
  BY <1>0, <1>4 DEF IInv, OffsetOK, Data, Over
<1>13. CleanupOK'
  BY <1>0, <1>4 DEF IInv, CleanupOK, Live
<1>14. SuccessStored'
  BY <1>0, <1>4 DEF IInv, ControlOK, SuccessStored, Over
<1> QED BY <1>5, <1>6, <1>7, <1>8, <1>9, <1>10, <1>11, <1>12, <1>13, <1>14 DEF IInv

LEMMA LoopEndIInv ==
    ASSUME IInv, LoopEnd
    PROVE  IInv'
<1>0. /\ TypeOK /\ WorldOK /\ c \in Local /\ WorldOK' /\ c.pc = "loop" /\ SessKept
      /\ UNCHANGED <<call, misread, doubled, leaked, sess, stored>>
  BY TypeSplit, SessSame DEF IInv, LoopEnd, Registry, History, WorldOK
<1>1. Kept /\ c'.pc = "digest" /\ c'.res = c.res
  BY <1>0, GotoFields DEF LoopEnd, PC
<1>2. ControlOK'
  BY <1>0, <1>1 DEF IInv, ControlOK, Kept, Over, Live, ValidDesc
<1>3. ReaderOK'
  BY <1>1 DEF ReaderOK
<1>4. FinalOK'
  BY <1>1 DEF IInv, BufferOK, LoopEnd, BufEnd, FinalOK, Kept
<1>5. SuccessStored'
  BY <1>0, <1>1 DEF IInv, ControlOK, SuccessStored, Over
<1> QED BY <1>0, <1>1, <1>2, <1>3, <1>4, <1>5, MoveIInv DEF Live, Early, Over

LEMMA GiveUpIInv ==
    ASSUME IInv, ReadFails \/ StatusFails
    PROVE  IInv'
<1>1. WorldOK' /\ UNCHANGED <<call, misread, doubled, leaked, sess>>
  BY TypeSplit, FailsFacts DEF IInv, ReadFails, StatusFails, Sent, Registry, History, WorldOK
<1> QED BY <1>1, AbortSame DEF ReadFails, StatusFails, Live, Over

\* The answer to a GET of the upload gives the offset of the next chunk.
LEMMA StatusIInv ==
    ASSUME IInv, Status
    PROVE  IInv'
<1>0. /\ TypeOK /\ WorldOK /\ c \in Local /\ c.pc = "status"
      /\ UNCHANGED <<call, doubled, leaked, sess, stored>>
      /\ c.url # 0 /\ Data \in Seq(Nat) /\ Len(Data) \in Nat
  BY TypeSplit, DataFacts DEF IInv, Status, Registry, Open
<1>1. misread' = (misread \/ Data = <<>>) /\ WorldOK'
  BY <1>0 DEF Status, WorldOK, Sent, Registry
<1>2. c.len > 0 /\ c.chunkSize = c.len /\ c.hashed # <<>>
      /\ c.bufRdr = [off |-> c.off, len |-> c.len]
  <2>1. c.len > 0 /\ c.chunkSize = c.len /\ c.bufRdr = [off |-> c.off, len |-> c.len]
        /\ c.bufStart + c.len = Len(c.hashed)
    BY <1>0 DEF IInv, ReaderOK, BufferOK
  <2>2. c.hashed # <<>>
    BY <1>0, <2>1, LocalFacts
  <2> QED BY <2>1, <2>2
<1>3. PICK n : n = NextStart(Len(Data))
  OBVIOUS
<1>4. n \in Nat /\ n > 0 /\ (Data # <<>> => n = Len(Data))
  BY <1>0, <1>2, <1>3, LocalFacts, SMTT(30) DEF NextStart
<1>5. /\ c' \in Local /\ c'.pc = "loop" /\ c'.res = c.res /\ c'.url = c.url
      /\ c'.hashed = c.hashed /\ c'.pos = c.pos /\ c'.late = c.late
      /\ c'.array = c.array /\ c'.off = c.off /\ c'.len = c.len
      /\ c'.bufRdr = c.bufRdr /\ c'.bufStart = c.bufStart
      /\ c'.finalChunk = c.finalChunk
      /\ c'.chunkStart = n /\ c'.chunkSize = c.chunkSize
      /\ c'.d = c.d
  BY <1>0, <1>3, <1>4 DEF Status, Local, PC
<1>6. TypeOK'
  BY <1>0, <1>1, <1>5, TypeSplit DEF TypeOK, WorldOK, Session
<1>7. ControlOK'
  BY <1>0, <1>5 DEF IInv, ControlOK, Over, Live, ValidDesc
<1>8. EarlyOK' /\ FinalOK'
  BY <1>5 DEF EarlyOK, Early, FinalOK
<1>9. BufferOK'
  BY <1>5, Zenon DEF IInv, BufferOK
<1>10. ReaderOK'
  BY <1>2, <1>5 DEF ReaderOK
<1>11. BlobReaderOK'
  BY <1>0, <1>5, Zenon DEF IInv, BlobReaderOK
<1>12. SessionOK'
  BY <1>0, <1>5, SessionSame DEF IInv
<1>13. OffsetOK'
  <2>1. Data' = Data
    BY <1>0, <1>5 DEF Data
  <2>2. misread => Data = <<>>
    BY DEF IInv, OffsetOK
  <2> QED BY <1>0, <1>1, <1>2, <1>4, <1>5, <2>1, <2>2 DEF OffsetOK
<1>14. CleanupOK'
  BY <1>0, <1>5 DEF IInv, CleanupOK, Live
<1>15. SuccessStored'
  BY <1>0, <1>5 DEF IInv, ControlOK, SuccessStored, Over
<1> QED BY <1>6, <1>7, <1>8, <1>9, <1>10, <1>11, <1>12, <1>13, <1>14, <1>15 DEF IInv

LEMMA DigestIInv ==
    ASSUME IInv, Digest
    PROVE  IInv'
<1>0. /\ TypeOK /\ WorldOK /\ c \in Local /\ WorldOK' /\ c.pc = "digest"
      /\ UNCHANGED <<call, misread, doubled, leaked, sess, stored>>
  BY TypeSplit DEF IInv, Digest, Registry, History, WorldOK
<1>1. CASE Abort
  BY <1>0, <1>1, AbortSame DEF Live, Over
<1>2. CASE /\ c' = [c EXCEPT !.pc = "final", !.d = [dig |-> c.hashed, size |-> c.chunkStart]]
           /\ call.dig # NoDig => c.hashed = call.dig
  <2>1. [dig |-> c.hashed, size |-> c.chunkStart] \in [dig : Seq(Nat), size : Nat]
    BY <1>0, LocalFacts
  <2>2. /\ c' \in Local /\ c'.pc = "final" /\ c'.res = c.res /\ c'.url = c.url
        /\ c'.hashed = c.hashed /\ c'.pos = c.pos /\ c'.late = c.late
        /\ c'.array = c.array /\ c'.off = c.off /\ c'.len = c.len
        /\ c'.bufStart = c.bufStart /\ c'.finalChunk = c.finalChunk
        /\ c'.chunkStart = c.chunkStart /\ c'.chunkSize = c.chunkSize
        /\ c'.d = [dig |-> c.hashed, size |-> c.chunkStart]
    BY <1>0, <1>2, <2>1 DEF Local, PC
  <2>3. TypeOK'
    BY <1>0, <2>2, TypeSplit DEF TypeOK, WorldOK, Session
  <2>4. ControlOK'
    BY <1>0, <2>2 DEF IInv, ControlOK, Over, Live, ValidDesc
  <2>5. EarlyOK' /\ ReaderOK'
    BY <2>2 DEF EarlyOK, Early, ReaderOK
  <2>6. FinalOK'
    BY <1>0, <1>2, <2>2 DEF IInv, FinalOK
  <2>7. BufferOK'
    BY <2>2, Zenon DEF IInv, BufferOK
  <2>8. BlobReaderOK'
    BY <1>0, <2>2, Zenon DEF IInv, BlobReaderOK
  <2>9. SessionOK'
    BY <1>0, <2>2, SessionSame DEF IInv
  <2>10. OffsetOK'
    BY <1>0, <2>2 DEF IInv, OffsetOK, Data, Over
  <2>11. CleanupOK'
    BY <1>0, <2>2 DEF IInv, CleanupOK, Live
  <2>12. SuccessStored'
    BY <1>0, <2>2 DEF IInv, ControlOK, SuccessStored, Over
  <2> QED BY <2>3, <2>4, <2>5, <2>6, <2>7, <2>8, <2>9, <2>10, <2>11, <2>12 DEF IInv
<1> QED BY <1>1, <1>2 DEF Digest

\* At the final request the whole of what was asked for has been hashed.
LEMMA HashedAsked ==
    ASSUME IInv, c.pc = "final"
    PROVE  c.hashed = Asked
<1>0. TypeOK /\ c.finalChunk /\ (call.dig # NoDig => c.hashed = call.dig)
  BY DEF IInv, FinalOK
<1>1. CASE call.dig = NoDig
  <2>1. /\ Len(c.hashed) = Len(call.blob)
        /\ \A k \in 1 .. Len(c.hashed) : c.hashed[k] = call.blob[k]
    BY <1>0, <1>1 DEF IInv, BlobReaderOK
  <2>2. c.hashed = call.blob
    BY <1>0, <2>1, CallFacts, LocalFacts, SeqEqual
  <2> QED BY <1>1, <2>2 DEF Asked
<1>2. CASE call.dig # NoDig
  BY <1>0, <1>2 DEF Asked
<1> QED BY <1>1, <1>2

LEMMA FinalIInv ==
    ASSUME IInv, Final
    PROVE  IInv'
<1>0. TypeOK /\ WorldOK /\ c \in Local /\ c.pc = "final" /\ c.url # 0
  BY TypeSplit DEF IInv, Final, ControlOK, Live
<1>1. /\ c.hashed = Asked /\ Data = c.hashed
      /\ c.d = [dig |-> c.hashed, size |-> c.chunkStart] /\ c.chunkStart >= Len(c.hashed)
  BY <1>0, HashedAsked DEF IInv, FinalOK, Final
<1>2. WorldOK' /\ stored' /\ UNCHANGED <<call, doubled, misread, leaked>>
  BY <1>0, <1>1 DEF Final, History, Sent, WorldOK
<1>3. Kept /\ c'.pc = "done" /\ c'.res = "ok"
  BY <1>0, ReturnFields DEF Final, Res
<1>4. ControlOK'
  BY <1>0, <1>2, <1>3 DEF IInv, ControlOK, Kept, Over, Live, ValidDesc
<1>5. ReaderOK' /\ FinalOK'
  BY <1>3 DEF ReaderOK, FinalOK
<1>6. SuccessStored'
  <2>1. ~misread
    BY <1>1 DEF IInv, OffsetOK
  <2>2. c.chunkStart \in {0, Len(Data)}
    BY <1>0, <2>1 DEF IInv, OffsetOK, Over
  <2>3. c.chunkStart = Len(Asked)
    BY <1>0, <1>1, <2>2, LocalFacts
  <2>4. c'.d.dig = Asked /\ c'.d.size = Len(Asked) /\ Asked' = Asked
    BY <1>1, <1>2, <1>3, <2>3 DEF Kept, Asked
  <2> QED BY <1>2, <2>4 DEF SuccessStored
<1>7. SessKept /\ ~sess'[c.url].open
  BY <1>0, CloseFacts DEF Final
<1> QED BY <1>0, <1>2, <1>3, <1>4, <1>5, <1>6, <1>7, MoveIInv DEF Live, Early, Over

LEMMA FinalFailsIInv ==
    ASSUME IInv, FinalFails
    PROVE  IInv'
<1>0. TypeOK /\ WorldOK /\ c \in Local /\ c.pc = "final" /\ c.url # 0 /\ Abort
  BY TypeSplit DEF IInv, FinalFails, ControlOK, Live
<1>1. WorldOK' /\ UNCHANGED <<call, doubled, misread, leaked>>
  <2>1. fails' \in 0 .. MaxFails /\ ctxDone' = ctxDone
    BY <1>0, FailsFacts DEF FinalFails, Sent, WorldOK
  <2> QED BY <1>0, <2>1 DEF FinalFails, History, Registry, WorldOK
<1>2. SessKept
  BY <1>0, SessSame, CloseFacts DEF FinalFails, Registry
<1>3. Kept
  BY <1>0, AbortFields
<1>4. TypeOK' /\ SessionOK'
  BY <1>1, <1>2, <1>3, KeptParts
<1>5. Data' = Data
  BY <1>0, <1>2, <1>3, DataFacts, TypeSplit DEF SessKept, Kept, Data
<1> QED BY <1>0, <1>1, <1>2, <1>4, <1>5, AbortIInv DEF SessKept, Live, Over

-----------------------------------------------------------------------------
(* blobUploadCancel.                                                        *)

LEMMA CancelIInv ==
    ASSUME IInv, Cancel \/ CancelFails
    PROVE  IInv'
<1>0. TypeOK /\ WorldOK /\ c \in Local /\ c.pc \in {"slow", "cancel"} /\ c.url # 0
  BY TypeSplit DEF IInv, Cancel, CancelFails, ControlOK, Live
<1>1. /\ WorldOK' /\ UNCHANGED <<call, doubled, misread, stored>>
      /\ (leaked => leaked')
  BY <1>0, FailsFacts DEF Cancel, CancelFails, History, Registry, Sent, WorldOK, Open
<1>2. Kept /\ c'.pc = (IF c.pc = "slow" THEN "get" ELSE "done") /\ c'.res = c.res
  BY <1>0, GotoFields DEF Cancel, CancelFails, AfterCancel, PC
<1>3. SessKept /\ (leaked' \/ ~sess'[c.url].open)
  <2>1. CASE Cancel
    BY <1>0, <2>1, CloseFacts DEF Cancel
  <2>2. CASE CancelFails
    BY <1>0, <2>2, SessSame DEF CancelFails, Registry, Open
  <2> QED BY <2>1, <2>2
<1>4. ControlOK'
  BY <1>0, <1>1, <1>2 DEF IInv, ControlOK, Kept, Over, Live, ValidDesc
<1>5. ReaderOK' /\ FinalOK'
  BY <1>2 DEF ReaderOK, FinalOK
<1>6. SuccessStored'
  BY <1>0, <1>2 DEF IInv, ControlOK, SuccessStored, Over
<1> QED BY <1>0, <1>1, <1>2, <1>3, <1>4, <1>5, <1>6, MoveIInv DEF Live, Early, Over

LEMMA CallerCancelsIInv ==
    ASSUME IInv, CallerCancels
    PROVE  IInv'
<1>0. /\ TypeOK /\ TypeOK' /\ UNCHANGED call /\ UNCHANGED c /\ UNCHANGED sess
      /\ UNCHANGED misread /\ UNCHANGED doubled /\ UNCHANGED leaked /\ UNCHANGED stored
  BY DEF IInv, CallerCancels, TypeOK, Registry, History
<1>1. SessionOK'
  BY <1>0, SessionSame DEF IInv
<1>2. ControlOK' /\ EarlyOK' /\ ReaderOK' /\ FinalOK'
  BY <1>0 DEF IInv, ControlOK, EarlyOK, ReaderOK, FinalOK, ValidDesc
<1>3. BufferOK'
  BY <1>0, Zenon DEF IInv, BufferOK
<1>4. BlobReaderOK'
  BY <1>0, Zenon DEF IInv, BlobReaderOK
<1>5. OffsetOK' /\ SuccessStored'
  BY <1>0 DEF IInv, OffsetOK, SuccessStored, Data, Asked
<1>6. CleanupOK'
  BY <1>0, Zenon DEF IInv, CleanupOK
<1> QED BY <1>0, <1>1, <1>2, <1>3, <1>4, <1>5, <1>6 DEF IInv

-----------------------------------------------------------------------------
(* blobPutUploadChunked: the buffer.                                        *)

\* t is as much of s after its first i elements as n elements hold.
Part(t, s, i, n) ==
    /\ t \in Seq(Nat) /\ Len(t) \in Nat
    /\ Len(t) <= n /\ i + Len(t) <= Len(s)
    /\ Len(t) < n => i + Len(t) = Len(s)
    /\ \A k \in 1 .. Len(t) : t[k] = s[i + k]

\* b is a with t written after its first o elements.
Written(b, a, t, o) ==
    /\ b \in Seq(Nat) /\ Len(b) = Len(a)
    /\ \A k \in 1 .. Len(t) : b[o + k] = t[k]

Overwrite(a, t, o) ==
    [i \in 1 .. Len(a) |-> IF i \in o + 1 .. o + Len(t) THEN t[i - o] ELSE a[i]]

\* What io.ReadFull gets.
LEMMA BytesFacts ==
    ASSUME NEW s \in Seq(Nat), NEW i \in Nat, i <= Len(s), NEW n \in Nat
    PROVE  Part(Bytes(s, i, n), s, i, n)
<1>1. PICK m \in Nat : m = (IF i + n < Len(s) THEN i + n ELSE Len(s))
  OBVIOUS
<1>2. m >= i /\ m <= Len(s) /\ m <= i + n /\ (m < i + n => m = Len(s)) /\ Len(s) \in Nat
  BY <1>1
<1>3. Bytes(s, i, n) = SubSeq(s, i + 1, m)
  BY <1>1 DEF Bytes
<1>4. /\ SubSeq(s, i + 1, m) \in Seq(Nat)
      /\ Len(SubSeq(s, i + 1, m)) = m - i
      /\ \A k \in 1 .. m - i : SubSeq(s, i + 1, m)[k] = s[i + k]
  BY <1>2
<1>5. PICK t : t = SubSeq(s, i + 1, m)
  OBVIOUS
<1>6. Part(t, s, i, n)
  BY <1>2, <1>4, <1>5 DEF Part
<1> QED BY <1>3, <1>5, <1>6

LEMMA ConcatFacts ==
    ASSUME NEW s \in Seq(Nat), NEW t \in Seq(Nat)
    PROVE  /\ s \o t \in Seq(Nat) /\ Len(s \o t) = Len(s) + Len(t)
           /\ \A k \in 1 .. Len(s) : (s \o t)[k] = s[k]
           /\ \A k \in 1 .. Len(t) : (s \o t)[Len(s) + k] = t[k]
OBVIOUS

\* Writing t into an array after its first o elements.
LEMMA OverwriteFacts ==
    ASSUME NEW a \in Seq(Nat), NEW t \in Seq(Nat), NEW o \in Nat, o + Len(t) <= Len(a)
    PROVE  Written(Overwrite(a, t, o), a, t, o)
<1>b. PICK b : b = Overwrite(a, t, o)
  OBVIOUS
<1>0. Len(a) \in Nat /\ Len(t) \in Nat
  OBVIOUS
<1>1. \A i \in 1 .. Len(a) : (IF i \in o + 1 .. o + Len(t) THEN t[i - o] ELSE a[i]) \in Nat
  <2> SUFFICES ASSUME NEW i \in 1 .. Len(a)
               PROVE  (IF i \in o + 1 .. o + Len(t) THEN t[i - o] ELSE a[i]) \in Nat
    OBVIOUS
  <2>1. CASE i \in o + 1 .. o + Len(t)
    <3>1. i - o \in 1 .. Len(t)
      BY <1>0, <2>1
    <3> QED BY <2>1, <3>1
  <2>2. CASE i \notin o + 1 .. o + Len(t)
    BY <2>2
  <2> QED BY <2>1, <2>2
<1>2. b \in [1 .. Len(a) -> Nat]
  BY <1>1, <1>b DEF Overwrite
<1>3. b \in Seq(Nat) /\ Len(b) = Len(a)
  <2>1. b = [i \in 1 .. Len(a) |->
               IF i \in o + 1 .. o + Len(t) THEN t[i - o] ELSE a[i]]
    BY <1>b DEF Overwrite
  <2> QED BY <1>0, <1>1, <2>1
<1>4. \A k \in 1 .. Len(t) : b[o + k] = t[k]
  <2> SUFFICES ASSUME NEW k \in 1 .. Len(t)
               PROVE  b[o + k] = t[k]
    OBVIOUS
  <2>1. o + k \in 1 .. Len(a) /\ o + k \in o + 1 .. o + Len(t) /\ (o + k) - o = k
    BY <1>0
  <2> QED BY <1>b, <2>1 DEF Overwrite
<1> QED BY <1>b, <1>3, <1>4 DEF Written

\* The blob is read on into the whole capacity of the slice.
LEMMA ReadFullIInv ==
    ASSUME IInv, ReadFull
    PROVE  IInv'
<1>0. /\ TypeOK /\ WorldOK /\ c \in Local /\ WorldOK' /\ c.pc = "fill"
      /\ UNCHANGED <<call, misread, doubled, leaked, sess, stored>>
  BY TypeSplit DEF IInv, ReadFull, Registry, History, WorldOK
<1>1. /\ c.pos \in Nat /\ c.pos <= Len(call.blob) /\ Len(call.blob) \in Nat
      /\ c.bufStart + c.len = Len(c.hashed) /\ c.off \in Nat /\ c.len \in Nat
      /\ c.hashed \in Seq(Nat) /\ c.array \in Seq(Nat) /\ call.blob \in Seq(Nat)
      /\ Len(c.array) \in Nat /\ Len(c.hashed) \in Nat
      /\ c.off + c.len <= Len(c.array)
  <2>1. BufferOK /\ BlobReaderOK
    BY DEF IInv
  <2>2. /\ c.pos <= Len(call.blob) /\ c.bufStart + c.len = Len(c.hashed)
        /\ c.off + c.len <= Len(c.array)
    BY <2>1, Zenon DEF BufferOK, BlobReaderOK
  <2> QED BY <1>0, <2>2, LocalFacts, CallFacts
<1>c. PICK cap \in Nat : cap = Len(c.array) - c.off
  BY <1>1
<1>2. PICK got : got = Bytes(call.blob, c.pos, cap)
  OBVIOUS
<1>3. /\ got \in Seq(Nat) /\ Len(got) \in Nat
      /\ Len(got) <= cap /\ c.pos + Len(got) <= Len(call.blob)
      /\ Len(got) < cap => c.pos + Len(got) = Len(call.blob)
      /\ \A k \in 1 .. Len(got) : got[k] = call.blob[c.pos + k]
  <2>1. call.blob \in Seq(Nat) /\ c.pos \in Nat /\ c.pos <= Len(call.blob)
    BY <1>1
  <2>2. cap \in Nat
    OBVIOUS
  <2>3. Part(got, call.blob, c.pos, cap)
    BY <1>2, <2>1, <2>2, BytesFacts
  <2> QED BY <2>3 DEF Part
<1>4. PICK arr : arr = Overwrite(c.array, got, c.off)
  OBVIOUS
<1>5. /\ arr \in Seq(Nat) /\ Len(arr) = Len(c.array)
      /\ \A k \in 1 .. Len(got) : arr[c.off + k] = got[k]
  <2>1. c.off + Len(got) <= Len(c.array)
    BY <1>1, <1>c, <1>3
  <2>2. c.array \in Seq(Nat) /\ got \in Seq(Nat) /\ c.off \in Nat
    BY <1>1, <1>3
  <2>3. Written(arr, c.array, got, c.off)
    BY <1>4, <2>1, <2>2, OverwriteFacts
  <2> QED BY <2>3 DEF Written
<1>6. PICK h : h = c.hashed \o got
  OBVIOUS
<1>7. /\ h \in Seq(Nat) /\ Len(h) = Len(c.hashed) + Len(got)
      /\ \A k \in 1 .. Len(c.hashed) : h[k] = c.hashed[k]
      /\ \A k \in 1 .. Len(got) : h[Len(c.hashed) + k] = got[k]
  BY <1>1, <1>3, <1>6, ConcatFacts, SMTT(30)
<1>8. c' = [c EXCEPT !.array = arr, !.bufStart = Len(c.hashed), !.len = Len(got),
                     !.chunkSize = Len(got),
                     !.bufChange = c.bufChange \/ c.len # cap \/ Len(got) # cap,
                     !.finalChunk = Len(got) < cap,
                     !.pos = c.pos + Len(got), !.hashed = h]
  BY <1>1, <1>c, <1>2, <1>4, <1>6, ZenonT(60) DEF ReadFull, BufEnd, Overwrite
<1>9. /\ c' \in Local /\ c'.pc = c.pc /\ c'.res = c.res /\ c'.url = c.url
      /\ c'.hashed = h /\ c'.pos = c.pos + Len(got) /\ c'.late = c.late
      /\ c'.array = arr /\ c'.off = c.off /\ c'.len = Len(got)
      /\ c'.bufRdr = c.bufRdr /\ c'.bufStart = Len(c.hashed)
      /\ c'.bufChange = (c.bufChange \/ c.len # cap \/ Len(got) # cap)
      /\ c'.finalChunk = (Len(got) < cap)
      /\ c'.chunkStart = c.chunkStart /\ c'.chunkSize = Len(got) /\ c'.d = c.d
  <2>1. c.pos + Len(got) \in Nat /\ (Len(got) < cap) \in BOOLEAN
        /\ (c.bufChange \/ c.len # cap \/ Len(got) # cap) \in BOOLEAN
    BY <1>1, <1>3
  <2> QED BY <1>0, <1>1, <1>3, <1>5, <1>7, <1>8, <2>1, ZenonT(60) DEF Local
<1>10. TypeOK'
  BY <1>0, <1>9, TypeSplit DEF TypeOK, WorldOK, Session
<1>11. ControlOK'
  BY <1>0, <1>9 DEF IInv, ControlOK, Over, Live, ValidDesc
<1>12. EarlyOK' /\ FinalOK'
  BY <1>0, <1>9 DEF EarlyOK, Early, FinalOK
<1>13. BufferOK'
  <2>1. c'.off + c'.len <= Len(c'.array) /\ c'.bufStart + c'.len = Len(c'.hashed)
        /\ c'.chunkSize = c'.len
    BY <1>1, <1>c, <1>3, <1>5, <1>7, <1>9
  <2>2. \A k \in 1 .. Len(got) : arr[c.off + k] = h[Len(c.hashed) + k]
    BY <1>5, <1>7
  <2> QED BY <1>9, <2>1, <2>2 DEF BufferOK
<1>14. ReaderOK'
  <2>1. ~c.bufChange => c.bufRdr = [off |-> c.off, len |-> c.len]
    BY <1>0 DEF IInv, ReaderOK
  <2> QED BY <1>0, <1>9, <2>1 DEF ReaderOK
<1>15. BlobReaderOK'
  <2>1. c'.pos <= Len(call'.blob) /\ (c'.finalChunk => c'.pos = Len(call'.blob))
    BY <1>0, <1>1, <1>3, <1>9
  <2>2. ASSUME call.dig = NoDig
        PROVE  Len(h) = c'.pos /\ \A k \in 1 .. c'.pos : h[k] = call.blob[k]
    <3>1. Len(c.hashed) = c.pos /\ \A k \in 1 .. c.pos : c.hashed[k] = call.blob[k]
      BY <2>2 DEF IInv, BlobReaderOK
    <3>2. Len(h) = c'.pos
      BY <1>7, <1>9, <3>1
    <3>3. ASSUME NEW k \in 1 .. c'.pos
          PROVE  h[k] = call.blob[k]
      <4>1. CASE k <= c.pos
        <5>1. k \in 1 .. c.pos
          BY <1>1, <1>3, <1>9, <4>1
        <5> QED BY <1>7, <3>1, <5>1
      <4>2. CASE k > c.pos
        <5>1. k - c.pos \in 1 .. Len(got) /\ c.pos + (k - c.pos) = k
          <6>1. c'.pos = c.pos + Len(got) /\ c.pos \in Nat /\ Len(got) \in Nat
            BY <1>1, <1>3, <1>9
          <6> QED BY <4>2, <6>1
        <5>2. h[c.pos + (k - c.pos)] = got[k - c.pos]
          BY <1>7, <3>1, <5>1
        <5>3. got[k - c.pos] = call.blob[c.pos + (k - c.pos)]
          BY <1>3, <5>1
        <5> QED BY <5>1, <5>2, <5>3
      <4> QED BY <1>1, <1>3, <1>9, <4>1, <4>2
    <3> QED BY <3>2, <3>3
  <2> QED BY <1>0, <1>9, <2>1, <2>2 DEF BlobReaderOK
<1>16. SessionOK'
  <2>1. Data' = Data /\ Open' = Open
    BY <1>0, <1>9 DEF Data, Open
  <2>2. ASSUME Open, ~doubled
        PROVE  FromBlob(Data, h)'
    <3>1. FromBlob(Data, c.hashed)
      BY <2>2 DEF IInv, SessionOK
    <3>2. \A k \in Nat : k <= Len(c.hashed) /\ k >= 1 => k <= Len(h) /\ h[k] = c.hashed[k]
      BY <1>1, <1>3, <1>7
    <3>3. Data \in Seq(Nat) /\ Len(Data) \in Nat
      BY <1>0, <2>2, DataFacts DEF Open
    <3> QED BY <1>0, <2>1, <3>1, <3>2, <3>3 DEF FromBlob
  <2> QED BY <1>0, <1>9, <2>1, <2>2 DEF SessionOK
<1>17. OffsetOK'
  <2>1. Data' = Data
    BY <1>0, <1>9 DEF Data
  <2>2. c.hashed # <<>> => h # <<>>
    BY <1>1, <1>3, <1>7
  <2> QED BY <1>0, <1>9, <2>1, <2>2 DEF IInv, OffsetOK
<1>18. CleanupOK'
  BY <1>0, <1>9 DEF IInv, CleanupOK, Live
<1>19. SuccessStored'
  BY <1>0, <1>9 DEF IInv, ControlOK, SuccessStored, Over
<1> QED BY <1>10, <1>11, <1>12, <1>13, <1>14, <1>15, <1>16, <1>17, <1>18, <1>19 DEF IInv

\* The slice without its first k bytes, and the reader made of it.
Cut(k, b) ==
    /\ c' \in Local /\ c'.res = c.res /\ c'.url = c.url
    /\ c'.hashed = c.hashed /\ c'.pos = c.pos /\ c'.late = c.late
    /\ c'.array = c.array /\ c'.off = c.off + k /\ c'.len = c.len - k
    /\ c'.bufStart = c.bufStart + k /\ c'.chunkSize = c.len - k
    /\ c'.bufRdr = IF b THEN [off |-> c.off + k, len |-> c.len - k] ELSE c.bufRdr
    /\ c'.finalChunk = c.finalChunk /\ c'.chunkStart = c.chunkStart /\ c'.d = c.d

\* The three ways out of the inner loop that send or go round: the slice is cut,
\* has changed since the reader was made, or is as it was.
LEMMA ReadyCut ==
    ASSUME TypeOK, Ready, ~Abort, c.chunkSize = c.len
    PROVE  \E k \in 0 .. c.len :
             /\ Cut(k, TRUE) \/ (k = 0 /\ ~c.bufChange /\ Cut(k, FALSE))
             /\ \/ c'.pc = "patch" /\ c.len - k > 0 /\ c.chunkStart = c.bufStart + k
                \/ c'.pc = "loop"
<1>0. c \in Local /\ c.off \in Nat /\ c.len \in Nat /\ c.bufStart \in Nat
      /\ c.chunkStart \in Nat /\ c.bufChange \in BOOLEAN
  BY TypeSplit, LocalFacts
<1>1. PICK k : k = CutBy
  OBVIOUS
<1>2. k \in 0 .. c.len /\ c.len - k \in Nat /\ c.off + k \in Nat /\ c.bufStart + k \in Nat
  BY <1>0, <1>1 DEF CutBy, BufEnd
<1>3. PICK x : x = Trimmed(k)
  OBVIOUS
<1>4. /\ x \in Local /\ x.res = c.res /\ x.url = c.url /\ x.hashed = c.hashed
      /\ x.pos = c.pos /\ x.late = c.late /\ x.array = c.array
      /\ x.off = c.off + k /\ x.len = c.len - k /\ x.bufStart = c.bufStart + k
      /\ x.chunkSize = c.len - k /\ x.bufRdr = c.bufRdr
      /\ (x.bufChange <=> (c.bufChange \/ k > 0))
      /\ x.finalChunk = c.finalChunk /\ x.chunkStart = c.chunkStart /\ x.d = c.d
  <2>1. c.chunkSize = c.len - k \/ k > 0
    BY <1>0, <1>2
  <2>2. (c.bufChange \/ k > 0) \in BOOLEAN
    OBVIOUS
  <2> QED BY <1>0, <1>2, <1>3, <2>1, <2>2, ZenonT(60) DEF Local, Trimmed
<1>5. PICK l : l = IF x.chunkSize > 0 THEN "patch" ELSE "loop"
  OBVIOUS
<1>6. /\ c' = [Renewed(x) EXCEPT !.pc = l]
      /\ x.chunkSize > 0 => c.chunkStart = x.bufStart
  BY <1>1, <1>3, <1>5, Zenon DEF Ready
<1>7. l \in PC /\ l \in {"patch", "loop"} /\ (l = "patch" => x.chunkSize > 0)
  BY <1>5 DEF PC
<1>8. CASE x.bufChange
  <2>1. [off |-> c.off + k, len |-> c.len - k] \in [off : Nat, len : Nat]
    BY <1>2
  <2>2. c' = [[x EXCEPT !.bufRdr = [off |-> c.off + k, len |-> c.len - k]] EXCEPT !.pc = l]
    BY <1>4, <1>6, <1>8 DEF Renewed
  <2>3. Cut(k, TRUE) /\ c'.pc = l
    BY <1>4, <1>7, <2>1, <2>2 DEF Cut, Local
  <2> QED BY <1>2, <1>4, <1>6, <1>7, <2>3
<1>9. CASE ~x.bufChange
  <2>1. c' = [x EXCEPT !.pc = l]
    BY <1>6, <1>9 DEF Renewed
  <2>2. Cut(k, FALSE) /\ c'.pc = l
    BY <1>4, <1>7, <2>1 DEF Cut, Local
  <2>3. k = 0 /\ ~c.bufChange
    BY <1>2, <1>4, <1>9
  <2> QED BY <1>2, <1>4, <1>6, <1>7, <2>2, <2>3
<1> QED BY <1>8, <1>9

LEMMA ReadyIInv ==
    ASSUME IInv, Ready
    PROVE  IInv'
<1>0. /\ TypeOK /\ WorldOK /\ c \in Local /\ WorldOK' /\ c.pc = "fill"
      /\ UNCHANGED <<call, misread, doubled, leaked, sess, stored>>
  BY TypeSplit DEF IInv, Ready, Registry, History, WorldOK
<1>1. /\ c.off \in Nat /\ c.len \in Nat /\ c.bufStart \in Nat /\ c.chunkStart \in Nat
      /\ c.chunkSize = c.len /\ Len(c.array) \in Nat /\ c.off + c.len <= Len(c.array)
      /\ c.bufStart + c.len = Len(c.hashed) /\ c.bufChange \in BOOLEAN
  <2>1. BufferOK
    BY DEF IInv
  <2> QED BY <1>0, <2>1, LocalFacts, Zenon DEF BufferOK
<1>2. CASE Abort
  BY <1>0, <1>2, AbortSame DEF Live, Over
<1>3. CASE ~Abort
  <2>1. PICK k \in 0 .. c.len :
             /\ Cut(k, TRUE) \/ (k = 0 /\ ~c.bufChange /\ Cut(k, FALSE))
             /\ \/ c'.pc = "patch" /\ c.len - k > 0 /\ c.chunkStart = c.bufStart + k
                \/ c'.pc = "loop"
    BY <1>0, <1>1, <1>3, ReadyCut
  <2>5. c'.pc \in {"patch", "loop"}
    BY <2>1
  <2>9. PICK b \in BOOLEAN : Cut(k, b)
    BY <2>1
  <2>10. TypeOK'
    BY <1>0, <2>9, TypeSplit DEF TypeOK, WorldOK, Session, Cut
  <2>11. ControlOK'
    BY <1>0, <2>5, <2>9 DEF IInv, ControlOK, Over, Live, ValidDesc, Cut
  <2>12. EarlyOK' /\ FinalOK'
    BY <2>5, <2>9 DEF EarlyOK, Early, FinalOK
  <2>13. BufferOK'
    <3>1. /\ c'.off + c'.len <= Len(c'.array) /\ c'.bufStart + c'.len = Len(c'.hashed)
          /\ c'.chunkSize = c'.len
      BY <1>1, <2>9, SMTT(30) DEF Cut
    <3>2. ASSUME NEW i \in 1 .. c.len - k
          PROVE  c.array[(c.off + k) + i] = c.hashed[(c.bufStart + k) + i]
      <4>1. k + i \in 1 .. c.len /\ c.off + (k + i) = (c.off + k) + i
            /\ c.bufStart + (k + i) = (c.bufStart + k) + i
        <5>1. k \in Nat /\ i \in Nat /\ i >= 1 /\ i <= c.len - k /\ c.len \in Nat
              /\ c.off \in Nat /\ c.bufStart \in Nat
          BY <1>1
        <5> QED BY <5>1
      <4>2. c.array[c.off + (k + i)] = c.hashed[c.bufStart + (k + i)]
        BY <4>1 DEF IInv, BufferOK
      <4> QED BY <4>1, <4>2
    <3> QED BY <2>9, <3>1, <3>2 DEF BufferOK, Cut
  <2>14. ReaderOK'
    <3>1. ~c.bufChange => c.bufRdr = [off |-> c.off, len |-> c.len]
      BY <1>0 DEF IInv, ReaderOK
    <3>2. c'.bufRdr = [off |-> c'.off, len |-> c'.len]
      <4>1. CASE Cut(k, TRUE)
        BY <4>1 DEF Cut
      <4>2. CASE k = 0 /\ ~c.bufChange /\ Cut(k, FALSE)
        BY <1>1, <3>1, <4>2 DEF Cut
      <4> QED BY <2>1, <4>1, <4>2
    <3>3. c'.pc = "patch" => c'.len > 0 /\ c'.chunkStart = c'.bufStart
      BY <2>1, <2>9 DEF Cut
    <3> QED BY <2>5, <3>2, <3>3 DEF ReaderOK
  <2>15. BlobReaderOK'
    BY <1>0, <2>9, Zenon DEF IInv, BlobReaderOK, Cut
  <2>16. SessionOK'
    BY <1>0, <2>9, SessionSame DEF IInv, Cut
  <2>17. OffsetOK'
    BY <1>0, <2>9 DEF IInv, OffsetOK, Data, Over, Cut
  <2>18. CleanupOK'
    BY <1>0, <2>5, <2>9 DEF IInv, CleanupOK, Live, Cut
  <2>19. SuccessStored'
    BY <1>0, <2>9 DEF IInv, ControlOK, SuccessStored, Over, Cut
  <2> QED BY <2>10, <2>11, <2>12, <2>13, <2>14, <2>15, <2>16, <2>17, <2>18, <2>19 DEF IInv
<1> QED BY <1>2, <1>3

-----------------------------------------------------------------------------
(* blobPutUploadChunked: the chunks.                                        *)

\* What is sent are the bytes that were hashed last.
LEMMA BodyFacts ==
    ASSUME IInv, c.pc = "patch"
    PROVE  /\ Body \in Seq(Nat) /\ Len(Body) = c.chunkSize
           /\ c.chunkStart + c.chunkSize = Len(c.hashed)
           /\ \A i \in 1 .. c.chunkSize : Body[i] = c.hashed[c.chunkStart + i]
<1>0. TypeOK /\ BufferOK /\ ReaderOK
  BY DEF IInv
<1>1. /\ c.off \in Nat /\ c.len \in Nat /\ c.bufStart \in Nat /\ c.array \in Seq(Nat)
      /\ Len(c.array) \in Nat
  BY <1>0, LocalFacts
<1>2. /\ c.off + c.len <= Len(c.array) /\ c.chunkSize = c.len
      /\ c.bufStart + c.len = Len(c.hashed)
      /\ c.bufRdr = [off |-> c.off, len |-> c.len] /\ c.chunkStart = c.bufStart
  BY <1>0, Zenon DEF BufferOK, ReaderOK
<1>3. PICK o \in Nat, n \in Nat : o = c.off /\ n = c.len
  BY <1>1
<1>4. PICK a \in Seq(Nat) : a = c.array
  BY <1>1
<1>5. Body = SubSeq(a, o + 1, o + n)
  <2>1. c.bufRdr.off = o /\ c.bufRdr.len = n
    BY <1>2, <1>3
  <2> QED BY <1>4, <2>1, Zenon DEF Body
<1>6. /\ SubSeq(a, o + 1, o + n) \in Seq(Nat) /\ Len(SubSeq(a, o + 1, o + n)) = n
      /\ \A i \in 1 .. n : SubSeq(a, o + 1, o + n)[i] = a[o + i]
  <2>1. o + n <= Len(a) /\ Len(a) \in Nat
    BY <1>1, <1>2, <1>3, <1>4
  <2>2. PICK m \in Nat : m = o + n
    OBVIOUS
  <2>3. m >= o /\ m <= Len(a) /\ m - o = n
    BY <2>1, <2>2
  <2>4. /\ SubSeq(a, o + 1, m) \in Seq(Nat) /\ Len(SubSeq(a, o + 1, m)) = m - o
        /\ \A i \in 1 .. m - o : SubSeq(a, o + 1, m)[i] = a[o + i]
    BY <2>1, <2>3
  <2> QED BY <2>2, <2>3, <2>4
<1>7. \A i \in 1 .. n : a[o + i] = c.hashed[c.bufStart + i]
  BY <1>0, <1>3, <1>4, Zenon DEF BufferOK
<1> QED BY <1>2, <1>3, <1>5, <1>6, <1>7

\* The session of the call has other data, and that is all.
Rewritten ==
    /\ sess' \in Seq(Session) /\ Len(sess') = Len(sess)
    /\ \A i \in DOMAIN sess : /\ sess'[i].known = sess[i].known
                              /\ sess'[i].open = sess[i].open

\* A chunk in turn adds bytes that were hashed, at the places where they were hashed.
LEMMA StoresFacts ==
    ASSUME IInv, c.pc = "patch", c.url # 0, NEW k \in 0 .. c.chunkSize, Stores(k),
           InTurn \/ k = 0, UNCHANGED <<call, doubled>>,
           c'.url = c.url, c'.hashed = c.hashed
    PROVE  /\ Rewritten /\ SessionOK'
           /\ Data' \in Seq(Nat) /\ Len(Data') = Len(Data) + k
<1>0. TypeOK /\ Data \in Seq(Nat) /\ Len(Data) \in Nat
  BY DataFacts DEF IInv
<1>1. /\ Body \in Seq(Nat) /\ Len(Body) = c.chunkSize
      /\ c.chunkStart + c.chunkSize = Len(c.hashed)
      /\ \A i \in 1 .. c.chunkSize : Body[i] = c.hashed[c.chunkStart + i]
  BY BodyFacts
<1>2. c.chunkSize \in Nat /\ c.chunkStart \in Nat
  BY <1>0, LocalFacts
<1>3. PICK t : t = SubSeq(Body, 1, k)
  OBVIOUS
<1>4. t \in Seq(Nat) /\ Len(t) = k /\ \A i \in 1 .. k : t[i] = Body[i]
  BY <1>1, <1>2, <1>3, SubSeqProperties, SMTT(30)
<1>5. PICK x : x = Data \o t
  OBVIOUS
<1>6. /\ x \in Seq(Nat) /\ Len(x) = Len(Data) + k
      /\ \A i \in 1 .. Len(Data) : x[i] = Data[i]
      /\ \A i \in 1 .. k : x[Len(Data) + i] = t[i]
  BY <1>0, <1>4, <1>5, ConcatFacts
<1>7. sess' = [sess EXCEPT ![c.url].data = x]
  BY <1>3, <1>5 DEF Stores, Data
<1>8. Rewritten /\ Data' = x /\ c.url \in DOMAIN sess
  BY <1>0, <1>6, <1>7, WriteFacts DEF Rewritten, Data
<1>9. Open' = Open
  BY <1>8 DEF Rewritten, Open
<1>10. ASSUME Open, ~doubled
       PROVE  FromBlob(x, c.hashed)
  <2>1. FromBlob(Data, c.hashed)
    BY <1>10 DEF IInv, SessionOK
  <2> SUFFICES ASSUME NEW i \in 1 .. Len(x)
               PROVE  \/ i <= Len(call.blob) /\ x[i] = call.blob[i]
                      \/ i <= Len(c.hashed) /\ x[i] = c.hashed[i]
    BY DEF FromBlob
  <2>2. CASE i <= Len(Data)
    <3>1. i \in 1 .. Len(Data)
      BY <1>0, <1>6, <2>2
    <3>2. x[i] = Data[i]
      BY <1>6, <3>1
    <3> QED BY <2>1, <3>1, <3>2, Zenon DEF FromBlob
  <2>3. CASE i > Len(Data)
    <3>1. PICK j \in 1 .. k : i = Len(Data) + j
      <4>1. i - Len(Data) \in 1 .. k /\ i = Len(Data) + (i - Len(Data))
        BY <1>0, <1>6, <2>3
      <4> QED BY <4>1
    <3>2. c.chunkStart = Len(Data)
      BY <3>1 DEF InTurn
    <3>3. j \in 1 .. c.chunkSize /\ i <= Len(c.hashed)
      BY <1>1, <1>2, <3>1, <3>2, SMTT(30)
    <3>4. x[i] = t[j] /\ t[j] = Body[j] /\ Body[j] = c.hashed[i]
      BY <1>1, <1>4, <1>6, <3>1, <3>2, <3>3
    <3> QED BY <3>3, <3>4
  <2> QED BY <1>0, <1>6, <2>2, <2>3
<1>11. SessionOK'
  BY <1>8, <1>9, <1>10, Zenon DEF SessionOK, FromBlob
<1> QED BY <1>6, <1>8, <1>11

\* The locals after a chunk: the place, the offset and the retries.
Moved(l, n) ==
    /\ c' \in Local /\ c'.pc = l /\ c'.res = c.res /\ c'.url = c.url
    /\ c'.hashed = c.hashed /\ c'.pos = c.pos /\ c'.late = c.late
    /\ c'.array = c.array /\ c'.off = c.off /\ c'.len = c.len
    /\ c'.bufRdr = c.bufRdr /\ c'.bufStart = c.bufStart
    /\ c'.finalChunk = c.finalChunk
    /\ c'.chunkStart = n /\ c'.chunkSize = c.chunkSize /\ c'.d = c.d

LEMMA MovedFacts ==
    ASSUME c \in Local, NEW l \in PC, NEW n \in Nat, NEW r \in Nat,
           c' = [c EXCEPT !.pc = l, !.chunkStart = n, !.retryCur = r]
    PROVE  Moved(l, n)
BY DEF Moved, Local

LEMMA RetriedNat ==
    ASSUME TypeOK
    PROVE  Retried \in Nat
BY LocalFacts DEF Retried

\* After a chunk only the session and the offset are left to look at.
LEMMA ChunkIInv ==
    ASSUME IInv, c.pc = "patch", WorldOK', UNCHANGED <<call, stored, doubled, leaked>>,
           NEW l \in {"loop", "status"}, NEW n \in Nat, Moved(l, n),
           Rewritten, SessionOK', OffsetOK'
    PROVE  IInv'
<1>0. TypeOK /\ sess \in Seq(Session) /\ c.url # 0
  BY TypeSplit DEF IInv, ControlOK, Live
<1>1. TypeOK'
  <2>1. c'.url <= Len(sess') /\ c' \in Local
    BY <1>0 DEF TypeOK, Rewritten, Moved
  <2> QED BY <2>1 DEF TypeOK, WorldOK, Session, Rewritten
<1>2. ControlOK'
  BY DEF IInv, ControlOK, Over, Live, ValidDesc, Moved
<1>3. EarlyOK' /\ FinalOK'
  BY DEF EarlyOK, Early, FinalOK, Moved
<1>4. BufferOK'
  BY Zenon DEF IInv, BufferOK, Moved
<1>5. ReaderOK'
  BY DEF IInv, ReaderOK, Moved
<1>6. BlobReaderOK'
  BY Zenon DEF IInv, BlobReaderOK, Moved
<1>7. CleanupOK'
  <2> SUFFICES ASSUME ~leaked', NEW i \in DOMAIN sess', sess'[i].known, sess'[i].open
               PROVE  i = c'.url /\ c'.pc \in Live
    BY DEF CleanupOK
  <2>1. i \in DOMAIN sess /\ sess[i].known /\ sess[i].open
    BY <1>0 DEF Rewritten
  <2>2. i = c.url
    BY <2>1, Zenon DEF IInv, CleanupOK
  <2> QED BY <2>2 DEF Moved, Live
<1>8. SuccessStored'
  BY DEF IInv, ControlOK, SuccessStored, Over, Moved
<1> QED BY <1>1, <1>2, <1>3, <1>4, <1>5, <1>6, <1>7, <1>8 DEF IInv

\* What holds before a chunk is sent.
LEMMA PatchState ==
    ASSUME IInv, c.pc = "patch"
    PROVE  /\ TypeOK /\ WorldOK /\ c \in Local /\ c.url # 0
           /\ c.chunkSize \in Nat /\ c.chunkSize > 0 /\ c.hashed # <<>>
           /\ Data \in Seq(Nat) /\ Len(Data) \in Nat
           /\ misread => Data = <<>> /\ c.chunkStart > 0 /\ ~InTurn
<1>0. TypeOK /\ WorldOK /\ c \in Local /\ c.url # 0
  BY TypeSplit DEF IInv, ControlOK, Live
<1>1. /\ c.len > 0 /\ c.chunkSize = c.len /\ c.bufStart + c.len = Len(c.hashed)
      /\ c.len \in Nat /\ c.bufStart \in Nat /\ c.hashed \in Seq(Nat)
      /\ c.chunkStart \in Nat
  <2>1. c.len > 0 /\ c.chunkSize = c.len /\ c.bufStart + c.len = Len(c.hashed)
    BY Zenon DEF IInv, ReaderOK, BufferOK
  <2> QED BY <1>0, <2>1, LocalFacts
<1>2. Data \in Seq(Nat) /\ Len(Data) \in Nat
  BY <1>0, DataFacts
<1>3. misread => Data = <<>> /\ c.chunkStart > 0
  BY DEF IInv, OffsetOK
<1>4. misread => ~InTurn
  BY <1>1, <1>3 DEF InTurn
<1>5. c.hashed # <<>>
  BY <1>1
<1> QED BY <1>0, <1>1, <1>2, <1>3, <1>4, <1>5

LEMMA PatchIInv ==
    ASSUME IInv, Patch
    PROVE  IInv'
<1>0. c.pc = "patch" /\ InTurn /\ UNCHANGED <<call, stored, misread, doubled, leaked>>
  BY DEF Patch, History
<1>1. /\ TypeOK /\ WorldOK /\ c \in Local /\ c.url # 0 /\ ~misread
      /\ c.chunkSize \in Nat /\ Len(Data) \in Nat
  BY <1>0, PatchState
<1>2. WorldOK'
  BY <1>1 DEF Patch, Sent, History, WorldOK
<1>3. PICK n \in Nat : n = Len(Data) + c.chunkSize
  BY <1>1
<1>4. Moved("loop", n)
  <2>1. PICK early \in BOOLEAN :
          c' = [c EXCEPT !.pc = "loop", !.chunkStart = n,
                         !.retryCur = IF ~early /\ c.retryCur > 0 THEN c.retryCur - 1
                                      ELSE c.retryCur]
    BY <1>3 DEF Patch
  <2>2. PICK r \in Nat : r = IF ~early /\ c.retryCur > 0 THEN c.retryCur - 1 ELSE c.retryCur
    BY <1>1, LocalFacts
  <2>3. c' = [c EXCEPT !.pc = "loop", !.chunkStart = n, !.retryCur = r]
    BY <2>1, <2>2
  <2> QED BY <1>1, <2>3, MovedFacts DEF PC
<1>5. Rewritten /\ SessionOK' /\ Len(Data') = n
  BY <1>0, <1>1, <1>3, <1>4, StoresFacts DEF Patch, Moved
<1>6. OffsetOK'
  BY <1>0, <1>1, <1>4, <1>5 DEF OffsetOK, Moved
<1> QED BY <1>0, <1>2, <1>4, <1>5, <1>6, ChunkIInv

LEMMA PatchRecoversIInv ==
    ASSUME IInv, PatchRecovers
    PROVE  IInv'
<1>0. c.pc = "patch" /\ UNCHANGED <<call, stored, doubled, leaked, hostChunk>>
  BY DEF PatchRecovers
<1>1. /\ TypeOK /\ WorldOK /\ c \in Local /\ c.url # 0 /\ c.hashed # <<>>
      /\ c.chunkSize \in Nat /\ Len(Data) \in Nat
      /\ misread => Data = <<>> /\ ~InTurn
  BY <1>0, PatchState
<1>2. PICK k \in 0 .. c.chunkSize :
        /\ \/ InTurn /\ Fails /\ ~ctxDone
           \/ Open /\ ~InTurn /\ k = 0 /\ Sent
        /\ Stores(k)
        /\ Len(Data) + k = 0 => call.empty = "zero"
        /\ c' = [c EXCEPT !.pc = "loop", !.chunkStart = NextStart(Len(Data) + k),
                          !.retryCur = Retried]
        /\ misread' = (misread \/ Len(Data) + k = 0)
  BY DEF PatchRecovers
<1>3. WorldOK'
  <2>1. fails' \in 0 .. MaxFails /\ ctxDone' = ctxDone
    BY <1>1, <1>2, FailsFacts DEF Sent, WorldOK
  <2> QED BY <1>0, <1>1, <1>2, <2>1 DEF WorldOK
<1>4. PICK n \in Nat : n = Len(Data) + k
  BY <1>1
<1>5. PICK m \in Nat : m = NextStart(n) /\ m > 0 /\ (n > 0 => m = n)
  BY <1>2, <1>4 DEF NextStart
<1>6. Moved("loop", m)
  BY <1>1, <1>2, <1>4, <1>5, RetriedNat, MovedFacts DEF PC
<1>7. Rewritten /\ SessionOK' /\ Len(Data') = n /\ Data' \in Seq(Nat)
  BY <1>0, <1>1, <1>2, <1>4, <1>6, StoresFacts DEF Moved
<1>8. OffsetOK'
  <2>1. misread => n = 0
    <3>1. misread => k = 0 /\ Len(Data) = 0
      BY <1>1, <1>2
    <3> QED BY <1>4, <3>1
  <2>2. misread' <=> n = 0
    BY <1>2, <1>4, <2>1
  <2>3. n = 0 => Data' = <<>>
    BY <1>7
  <2> QED BY <1>1, <1>5, <1>6, <1>7, <2>2, <2>3 DEF OffsetOK, Moved
<1> QED BY <1>0, <1>3, <1>6, <1>7, <1>8, ChunkIInv

LEMMA PatchRefusedIInv ==
    ASSUME IInv, PatchRefused
    PROVE  IInv'
<1>0. c.pc = "patch" /\ UNCHANGED <<call, stored, misread, doubled, leaked, hostChunk>>
  BY DEF PatchRefused, History
<1>1. /\ TypeOK /\ WorldOK /\ c \in Local /\ c.url # 0 /\ c.hashed # <<>>
      /\ c.chunkStart \in Nat /\ sess \in Seq(Session)
      /\ misread => Data = <<>> /\ c.chunkStart > 0 /\ ~InTurn
  BY <1>0, PatchState, LocalFacts, TypeSplit
<1>2. WorldOK'
  <2>1. fails' \in 0 .. MaxFails /\ ctxDone' = ctxDone
    BY <1>1, FailsFacts DEF PatchRefused, Sent, WorldOK
  <2> QED BY <1>0, <1>1, <2>1 DEF WorldOK
<1>3. Moved("status", c.chunkStart)
  <2>1. c' = [c EXCEPT !.pc = "status", !.chunkStart = c.chunkStart, !.retryCur = Retried]
    BY <1>1 DEF PatchRefused, Local
  <2> QED BY <1>1, <2>1, RetriedNat, MovedFacts DEF PC
<1>4. CASE InTurn /\ \E k \in 0 .. c.chunkSize : Stores(k)
  <2>1. Rewritten /\ SessionOK'
    BY <1>0, <1>1, <1>3, <1>4, StoresFacts DEF Moved
  <2>2. OffsetOK'
    BY <1>0, <1>1, <1>3, <1>4 DEF OffsetOK, Moved
  <2> QED BY <1>0, <1>1, <1>2, <1>3, <2>1, <2>2, ChunkIInv
<1>5. CASE UNCHANGED sess
  <2>1. Rewritten
    BY <1>1, <1>5 DEF Rewritten
  <2>2. SessionOK'
    BY <1>0, <1>3, <1>5, SessionSame DEF IInv, Moved
  <2>3. OffsetOK'
    BY <1>0, <1>1, <1>3, <1>5 DEF OffsetOK, Moved, Data
  <2> QED BY <1>0, <1>1, <1>2, <1>3, <2>1, <2>2, <2>3, ChunkIInv
<1> QED BY <1>4, <1>5 DEF PatchRefused

LEMMA PatchFailsIInv ==
    ASSUME IInv, PatchFails
    PROVE  IInv'
<1>0. /\ c.pc = "patch" /\ Abort
      /\ UNCHANGED <<call, stored, misread, doubled, leaked, hostChunk>>
  BY DEF PatchFails, History
<1>1. /\ TypeOK /\ WorldOK /\ c \in Local /\ c.url # 0 /\ c.chunkSize \in Nat
      /\ misread => ~InTurn
  BY <1>0, PatchState
<1>2. WorldOK'
  BY <1>0, <1>1, FailsFacts DEF PatchFails, WorldOK
<1>3. CASE UNCHANGED sess
  BY <1>0, <1>2, <1>3, AbortSame DEF Live, Over
<1>4. CASE InTurn /\ \E k \in 1 .. c.chunkSize : Stores(k)
  <2>1. PICK k \in 0 .. c.chunkSize : Stores(k)
    BY <1>1, <1>4
  <2>2. Kept
    BY <1>0, <1>1, AbortFields
  <2>3. Rewritten /\ SessionOK'
    BY <1>0, <1>1, <1>4, <2>1, <2>2, StoresFacts DEF Kept
  <2>4. TypeOK'
    <3>1. c'.url <= Len(sess') /\ c' \in Local
      BY <1>1, <2>2, <2>3 DEF TypeOK, Rewritten, Kept
    <3> QED BY <1>2, <2>3, <3>1 DEF TypeOK, WorldOK, Session, Rewritten
  <2> QED BY <1>0, <1>1, <1>2, <1>4, <2>3, <2>4, AbortIInv DEF Rewritten, Live, Over
<1> QED BY <1>3, <1>4 DEF PatchFails

-----------------------------------------------------------------------------
(* The theorems.                                                            *)

LEMMA InitIInv ==
    ASSUME Init
    PROVE  IInv
<1>1. call \in Calls /\ call \in Call
  BY BlobAssumption DEF Init
<1>2. call.blob \in Seq(Nat) /\ call.dig \in Seq(Nat) /\ call.size \in Nat
      /\ call.exists \in BOOLEAN /\ call.op \in {"copy", "put"}
  BY <1>1 DEF Call
<1>3. PICK l : l = IF call.op = "copy" THEN "head" ELSE PutPC
  OBVIOUS
<1>4. l \in {"head", "anon", "post"} /\ (l = "head" => call.op = "copy")
      /\ (l = "anon" => ValidDesc)
  BY <1>3 DEF PutPC
<1>5. c = [pc |-> l,
           res |-> "busy", url |-> 0, pos |-> 0, hashed |-> <<>>,
           array |-> <<>>, off |-> 0, len |-> 0, bufRdr |-> [off |-> 0, len |-> 0],
           bufStart |-> 0, bufChange |-> FALSE, finalChunk |-> FALSE,
           chunkStart |-> 0, chunkSize |-> 0, retryCur |-> 0, late |-> FALSE,
           d |-> [dig |-> call.dig, size |-> call.size]]
  BY <1>3, Zenon DEF Init
<1>6. /\ c.pc = l /\ c.res = "busy" /\ c.url = 0 /\ c.pos = 0 /\ c.hashed = <<>>
      /\ c.array = <<>> /\ c.off = 0 /\ c.len = 0 /\ c.bufRdr = [off |-> 0, len |-> 0]
      /\ c.bufStart = 0 /\ c.finalChunk = FALSE /\ c.chunkStart = 0
      /\ c.chunkSize = 0 /\ c.late = FALSE /\ c.d = [dig |-> call.dig, size |-> call.size]
  BY <1>5
<1>7. c \in Local
  <2>1. l \in PC
    BY <1>4 DEF PC
  <2>2. [dig |-> call.dig, size |-> call.size] \in [dig : Seq(Nat), size : Nat]
    BY <1>2
  <2> QED BY <1>5, <2>1, <2>2 DEF Local, Res
<1>8. sess = <<>> /\ misread = FALSE /\ doubled = FALSE /\ leaked = FALSE
  BY DEF Init
<1>9. TypeOK
  <2>1. WorldOK
    <3>1. stored = call.exists /\ ctxDone = FALSE /\ fails = 0 /\ hostChunk \in HostChunks
      BY Zenon DEF Init
    <3>2. hostChunk \in Nat /\ MaxFails \in Nat
      BY <3>1, BlobAssumption
    <3>3. fails \in 0 .. MaxFails
      BY <3>1, <3>2
    <3>4. stored \in BOOLEAN
      BY <1>2, <3>1, Zenon
    <3> QED BY <1>1, <1>8, <3>1, <3>2, <3>3, <3>4, Zenon DEF WorldOK
  <2>2. sess \in Seq(Session) /\ c.url <= Len(sess)
    BY <1>6, <1>8
  <2> QED BY <1>7, <2>1, <2>2, TypeSplit
<1>10. ControlOK /\ EarlyOK
  BY <1>4, <1>6, <1>8 DEF ControlOK, EarlyOK, Over, Live, Early
<1>11. BufferOK
  BY <1>6 DEF BufferOK
<1>12. ReaderOK /\ FinalOK /\ SuccessStored
  BY <1>4, <1>6 DEF ReaderOK, FinalOK, SuccessStored
<1>13. BlobReaderOK
  BY <1>2, <1>6 DEF BlobReaderOK
<1>14. SessionOK /\ OffsetOK
  BY <1>6, <1>8 DEF SessionOK, OffsetOK, Open
<1>15. CleanupOK
  BY <1>8 DEF CleanupOK
<1> QED BY <1>9, <1>10, <1>11, <1>12, <1>13, <1>14, <1>15 DEF IInv

LEMMA StutterIInv ==
    ASSUME IInv, UNCHANGED vars
    PROVE  IInv'
<1>0. /\ UNCHANGED call /\ UNCHANGED c /\ UNCHANGED sess /\ UNCHANGED hostChunk
      /\ UNCHANGED misread /\ UNCHANGED doubled /\ UNCHANGED leaked /\ UNCHANGED stored
      /\ UNCHANGED ctxDone /\ UNCHANGED fails
  BY DEF vars
<1>1. TypeOK'
  BY <1>0, Zenon DEF IInv, TypeOK
<1>2. SessionOK'
  BY <1>0, SessionSame DEF IInv
<1>3. ControlOK' /\ EarlyOK' /\ ReaderOK' /\ FinalOK'
  BY <1>0 DEF IInv, ControlOK, EarlyOK, ReaderOK, FinalOK, ValidDesc
<1>4. BufferOK'
  BY <1>0, Zenon DEF IInv, BufferOK
<1>5. BlobReaderOK'
  BY <1>0, Zenon DEF IInv, BlobReaderOK
<1>6. OffsetOK' /\ SuccessStored'
  BY <1>0 DEF IInv, OffsetOK, SuccessStored, Data, Asked
<1>7. CleanupOK'
  BY <1>0, Zenon DEF IInv, CleanupOK
<1> QED BY <1>1, <1>2, <1>3, <1>4, <1>5, <1>6, <1>7 DEF IInv

LEMMA NextIInv ==
    ASSUME IInv, [Next]_vars
    PROVE  IInv'
<1>1. CASE HeadTarget \/ HeadTargetFails \/ Get \/ GetFails
  BY <1>1, HeadIInv, GetIInv
<1>2. CASE Mounted \/ MountLocation \/ MountFails \/ Post \/ PostFails
  BY <1>2, MountedIInv, LocationIInv, MountFailsIInv, PostFailsIInv
<1>3. CASE Full \/ FullFails \/ SeekBack \/ SeekFails \/ LateRead
  BY <1>3, FullIInv, FullFailsIInv, SeekLateIInv, SeekFailsIInv
<1>4. CASE StartChunked \/ LoopBody \/ LoopEnd
  BY <1>4, StartChunkedIInv, LoopBodyIInv, LoopEndIInv
<1>5. CASE ReadFull \/ ReadFails \/ Ready
  BY <1>5, ReadFullIInv, GiveUpIInv, ReadyIInv
<1>6. CASE Patch \/ PatchRecovers \/ PatchRefused \/ PatchFails
  BY <1>6, PatchIInv, PatchRecoversIInv, PatchRefusedIInv, PatchFailsIInv
<1>7. CASE Status \/ StatusFails \/ Digest \/ Final \/ FinalFails
  BY <1>7, StatusIInv, GiveUpIInv, DigestIInv, FinalIInv, FinalFailsIInv
<1>8. CASE Cancel \/ CancelFails \/ CallerCancels
  BY <1>8, CancelIInv, CallerCancelsIInv
<1>9. CASE UNCHANGED vars
  BY <1>9, StutterIInv
<1> QED BY <1>1, <1>2, <1>3, <1>4, <1>5, <1>6, <1>7, <1>8, <1>9 DEF Next, Step

\* Every call keeps the buffer, the reader, the offset and the session in step:
\* the inductive invariant of BlobCopy and BlobPut.
THEOREM Invariance == Spec => []IInv
<1>1. Init => IInv
  BY InitIInv
<1>2. IInv /\ [Next]_vars => IInv'
  BY NextIInv
<1> QED BY <1>1, <1>2, PTL DEF Spec

\* The bytes of a chunk are the ones its Content-Range names.
LEMMA InPlaceHolds ==
    ASSUME IInv
    PROVE  InPlace
<1> SUFFICES ASSUME c.pc = "patch"
             PROVE  Body = Bytes(c.hashed, c.chunkStart, c.chunkSize)
  BY DEF InPlace
<1>0. TypeOK
  BY DEF IInv
<1>1. c.chunkStart \in Nat /\ c.chunkSize \in Nat /\ c.hashed \in Seq(Nat)
      /\ Len(c.hashed) \in Nat
  BY <1>0, LocalFacts
<1>2. /\ Body \in Seq(Nat) /\ Len(Body) = c.chunkSize
      /\ c.chunkStart + c.chunkSize = Len(c.hashed)
      /\ \A i \in 1 .. c.chunkSize : Body[i] = c.hashed[c.chunkStart + i]
  BY BodyFacts
<1>3. PICK t : t = Bytes(c.hashed, c.chunkStart, c.chunkSize)
  OBVIOUS
<1>4. Part(t, c.hashed, c.chunkStart, c.chunkSize)
  <2>1. c.chunkStart <= Len(c.hashed)
    BY <1>1, <1>2
  <2> QED BY <1>1, <1>3, <2>1, BytesFacts
<1>5. t \in Seq(Nat) /\ Len(t) = c.chunkSize
  <2>1. /\ t \in Seq(Nat) /\ Len(t) \in Nat /\ Len(t) <= c.chunkSize
        /\ Len(t) < c.chunkSize => c.chunkStart + Len(t) = Len(c.hashed)
    BY <1>4 DEF Part
  <2>2. c.chunkStart + c.chunkSize = Len(c.hashed)
    BY <1>2
  <2> QED BY <1>1, <2>1, <2>2
<1>6. \A i \in 1 .. c.chunkSize : t[i] = c.hashed[c.chunkStart + i]
  BY <1>4, <1>5 DEF Part
<1>7. \A i \in 1 .. Len(Body) : Body[i] = t[i]
  BY <1>2, <1>6
<1> QED BY <1>2, <1>3, <1>5, <1>7, SeqEqual

\* The session is the blob when the final request is sent.
LEMMA ExactHolds ==
    ASSUME IInv
    PROVE  Exact
<1> SUFFICES ASSUME c.pc = "final", ~misread, ~doubled, Open, Asked = call.blob
             PROVE  Data = call.blob
  BY DEF Exact
<1>0. TypeOK /\ c.url # 0
  BY DEF IInv, Open
<1>1. c.hashed = call.blob
  BY HashedAsked
<1>2. call.blob \in Seq(Nat) /\ Len(call.blob) \in Nat
      /\ Data \in Seq(Nat) /\ Len(Data) \in Nat
  BY <1>0, CallFacts, DataFacts
<1>3. \A k \in 1 .. Len(Data) : k <= Len(call.blob) /\ Data[k] = call.blob[k]
  BY <1>1 DEF IInv, SessionOK, FromBlob
<1>4. Len(Data) <= Len(call.blob)
  BY <1>2, <1>3
<1>5. c.chunkStart \in {0, Len(Data)} /\ c.chunkStart >= Len(call.blob)
  BY <1>0, <1>1 DEF IInv, OffsetOK, FinalOK, Over
<1>6. Len(Data) = Len(call.blob)
  BY <1>2, <1>4, <1>5
<1> QED BY <1>2, <1>3, <1>6, SeqEqual

\* The buffer, the session and the digest of an upload agree at every request,
\* for every blob, chunk size and sequence of failures: every chunk carries the
\* bytes of its Content-Range, and an upload that was resumed any number of times
\* holds the blob byte for byte before it is finished.
THEOREM UploadIsSound == Spec => []UploadSound
<1>1. IInv => UploadSound
  BY InPlaceHolds, ExactHolds DEF IInv, UploadSound
<1> QED BY <1>1, Invariance, PTL

\* A call that reports success has the blob in the target and returns its
\* digest and size, and no upload it knows of is left open unless its DELETE failed.
THEOREM OutcomeIsSound == Spec => []OutcomeSound
<1>1. IInv => NoUploadLeft
  BY DEF IInv, CleanupOK, NoUploadLeft, Live
<1>2. IInv => OutcomeSound
  BY <1>1 DEF IInv, OutcomeSound
<1> QED BY <1>2, Invariance, PTL
=============================================================================

--------------------------- MODULE ImageCopyProofs ---------------------------
(***************************************************************************)
(* ImageCopy, proved for every source, every target and any number of      *)
(* tasks, failing requests and cancellations:                              *)
(*                                                                         *)
(*   - no two tasks copy the same key (Base),                              *)
(*   - a target that looks at the context never has a manifest without     *)
(*     what it names (Full),                                               *)
(*   - without referrers and digest tags no goroutine is left behind, and  *)
(*     success means that the target is complete (Tree, TagOK).            *)
(***************************************************************************)
EXTENDS ImageCopy, SequenceTheorems, WellFoundedInduction, TLAPS

\* The parts of the types below.
Kind == {"root", "child", "blob", "ref", "tag", "final"}
TagName == Tag \cup {RootTag, NoTag}
Digest == Manifest \cup Blob
Step == [kind : Kind, tag : TagName, dig : Digest, n : Nat]
Path == Seq(Step) \ {<<>>}

Rec == [kind : Kind, tag : TagName, dig : Digest, pc : PC, own : BOOLEAN,
        entry : Err \cup {"busy"}, on : Seq(Step), match : BOOLEAN, read : BOOLEAN,
        out : SUBSET Path, cancel : BOOLEAN, err : Err]

MainRec == [result : Err \cup {"busy"}, i : Nat, n : Nat, ctx : BOOLEAN, attempt : Nat]

Target == [man : SUBSET Manifest, blob : SUBSET Blob, tag : SUBSET (TagName \X Manifest)]

\* The task has an error or result and is on its way out.
Over == {"ret", "unsee", "post", "send", "dead"}

\* A task is what the last step of its path says, and its fields fit together.
Fit(p, t) ==
    /\ t.kind = Last(p).kind /\ t.tag = Last(p).tag /\ t.dig = Last(p).dig
    /\ t.kind = "blob" <=> t.dig \in Blob
    /\ t.kind = "blob" => t.pc \in {"seen", "wait", "copy"} \cup Over
    /\ t.pc = "copy" => t.kind = "blob"
    /\ t.pc \notin Over /\ t.err # "ok" => t.cancel
    /\ t.pc \notin Over \ {"ret"} => t.entry = "busy"
    /\ t.pc = "unsee" => t.entry # "busy"
    /\ t.pc \in {"ret", "unsee"} => t.own

\* The goroutines a task has not heard of yet are steps below it.
OutOK(p, t) == \A c \in t.out : c \in DOMAIN task /\ Len(c) = Len(p) + 1

NameOf(p) == <<Last(p).tag, Last(p).dig>>

WaitOK(t) == t.pc = "wait" => t.on \in DOMAIN task /\ NameOf(t.on) = <<t.tag, t.dig>>

\* opt.seen leads to the task that copies a key, until the task is forgotten.
OwnOK(p, t) ==
    t.own /\ (t.entry = "busy" \/ t.pc = "unsee") =>
        NameOf(p) \in DOMAIN seen /\ seen[NameOf(p)] = p

SeenOK == \A k \in DOMAIN seen : seen[k] \in DOMAIN task /\ NameOf(seen[k]) = k

\* All that is not a task.
RestOK ==
    /\ finalFn \in Seq(TagName \X Manifest)
    /\ main \in MainRec /\ main.n <= Len(finalFn)
    /\ tgt \in Target
    /\ fails \in 0 .. MaxFails

TaskOK(p, t) == t \in Rec /\ Fit(p, t) /\ OutOK(p, t) /\ WaitOK(t) /\ OwnOK(p, t)

Base ==
    /\ RestOK /\ SeenOK
    /\ \A p \in DOMAIN task : p \in Path /\ TaskOK(p, task[p])
-----------------------------------------------------------------------------
Stored(d) == d \in tgt.man \cup tgt.blob

Content(d) == Children[d] \cup Layers[d]

\* What a task found in the target stays there.
MatchOK(t) == t.match => t.dig \in tgt.man

\* As long as nothing went wrong below a task, what it names is in the target
\* or still has a goroutine at work on it.
InHand(t) ==
    /\ t.pc \in {"early", "refs", "tags", "drain", "put"} /\ ~t.cancel =>
           \A d \in Content(t.dig) :
               Stored(d) \/ \E c \in t.out : Last(c).dig = d /\ Last(c).kind \notin {"ref", "tag"}
    /\ t.pc = "put" => t.out = {}

\* A success that is reported, to the parent or through opt.seen, is one.  (A
\* referrer or digest tag that is put off reports success as well.)
DoneOK(t) ==
    /\ t.entry = "ok" => Stored(t.dig)
    /\ t.pc \in Over /\ t.err = "ok" /\ (t.kind \in {"ref", "tag"} => t.pc \notin {"send", "dead"})
           => Stored(t.dig)

FullOK(t) == MatchOK(t) /\ InHand(t) /\ DoneOK(t)

TargetOK == TargetClosed /\ \A k \in tgt.tag : k[2] \in tgt.man

Full == TargetOK /\ \A p \in DOMAIN task : FullOK(task[p])
-----------------------------------------------------------------------------
\* Without referrers and digest tags the tasks are a tree below the first one,
\* and a task only returns when it has heard of all those below it.
Plain == ~WithReferrers /\ ~WithDigestTags

PlaceOK(p) ==
    IF Len(p) = 1 THEN p = RootPath
    ELSE Last(p).kind \in {"child", "blob"} /\ Last(p).tag = NoTag

\* p is at work only while the task above it waits for it.
HeardOK(p, t) ==
    /\ t.pc \notin {"refs", "tags"}
    /\ t.pc \notin {"early", "drain"} => t.out = {}
    /\ Len(p) > 1 /\ t.pc # "dead" =>
           Front(p) \in DOMAIN task /\ p \in task[Front(p)].out

Tree ==
    /\ finalFn = <<>>
    /\ RootPath \in DOMAIN task
    /\ \A p \in DOMAIN task : PlaceOK(p) /\ HeardOK(p, task[p])
    /\ main.result # "busy" =>
           task[RootPath].pc = "dead" /\ task[RootPath].err = main.result

\* The tag of the copy only moves by the push of the first task.
TagOK(p, t) ==
    p = RootPath /\ RootTag # NoTag /\ (t.match \/ (t.pc \in Over /\ t.err = "ok")) =>
        <<RootTag, Root>> \in tgt.tag

IInv ==
    /\ Base
    /\ TgtChecksCtx => Full
    /\ Plain => Tree /\ \A p \in DOMAIN task : TagOK(p, task[p])
-----------------------------------------------------------------------------
LEMMA PathFacts ==
    ASSUME NEW p \in Path
    PROVE  /\ Len(p) \in Nat \ {0} /\ Last(p) \in Step
           /\ SubSeq(p, 1, Len(p)) = p
BY DEF Path, Last

LEMMA AppendFacts ==
    ASSUME NEW p \in Path, NEW r \in Step
    PROVE  /\ Append(p, r) \in Path /\ Len(Append(p, r)) = Len(p) + 1
           /\ Last(Append(p, r)) = r
           /\ Front(Append(p, r)) = p
<1>1. p \in Seq(Step) /\ Len(p) \in Nat
  BY DEF Path
<1>2. /\ Append(p, r) \in Seq(Step) /\ Len(Append(p, r)) = Len(p) + 1
      /\ Append(p, r)[Len(p) + 1] = r
      /\ \A j \in 1 .. Len(p) : Append(p, r)[j] = p[j]
  BY <1>1
<1>3. Front(Append(p, r)) = p
  <2> DEFINE a == Append(p, r)
  <2>1. Len(a) = Len(p) + 1 /\ a \in Seq(Step) /\ \A j \in 1 .. Len(p) : a[j] = p[j]
    BY <1>2
  <2> HIDE DEF a
  <2>2. SubSeq(a, 1, Len(a) - 1) = p
    BY <1>1, <2>1
  <2> QED BY <2>2 DEF Front, a
<1>4. Append(p, r) # <<>>
  BY <1>1, <1>2
<1> QED BY <1>1, <1>2, <1>3, <1>4 DEF Path, Last

\* What Fit says of the last step of a path.
StepOK(r) == r \in Step /\ (r.kind = "blob" <=> r.dig \in Blob)

LEMMA FreshFacts ==
    ASSUME NEW r, StepOK(r), NEW t, t = NewTask(r.kind, r.tag, r.dig)
    PROVE  /\ t \in Rec /\ t.kind = r.kind /\ t.tag = r.tag /\ t.dig = r.dig
           /\ t.pc \in {"seen", "head"} /\ (t.kind = "blob" => t.pc = "seen")
           /\ ~t.own /\ ~t.match /\ ~t.cancel
           /\ t.entry = "busy" /\ t.err = "ok" /\ t.out = {}
<1>1. t.pc \in {"seen", "head"} /\ (r.kind = "blob" => t.pc = "seen")
  BY DEF NewTask, StepOK
<1>2. /\ t.kind = r.kind /\ t.tag = r.tag /\ t.dig = r.dig
      /\ t.own = FALSE /\ t.match = FALSE /\ t.read = FALSE /\ t.cancel = FALSE
      /\ t.entry = "busy" /\ t.err = "ok" /\ t.out = {}
  BY DEF NewTask
<1>3. t \in Rec
  <2> DEFINE pc == IF r.tag = NoTag \/ r.dig \in Blob THEN "seen" ELSE "head"
  <2>1. pc \in PC
    BY DEF PC
  <2>2. <<>> \in Seq(Step)
    OBVIOUS
  <2>3. t = [kind |-> r.kind, tag |-> r.tag, dig |-> r.dig, pc |-> pc,
             own |-> FALSE, entry |-> "busy", on |-> <<>>, match |-> FALSE,
             read |-> FALSE, out |-> {}, cancel |-> FALSE, err |-> "ok"]
    BY DEF NewTask
  <2> HIDE DEF pc
  <2> QED BY <2>1, <2>2, <2>3 DEF Rec, StepOK, Step, Err
<1> QED BY <1>1, <1>2, <1>3

LEMMA FreshOK ==
    ASSUME NEW p \in Path, StepOK(Last(p)), NEW t,
           t = NewTask(Last(p).kind, Last(p).tag, Last(p).dig)
    PROVE  TaskOK(p, t)
<1> DEFINE r == Last(p)
<1>1. /\ t \in Rec /\ t.kind = r.kind /\ t.tag = r.tag /\ t.dig = r.dig
      /\ t.pc \in {"seen", "head"} /\ (t.kind = "blob" => t.pc = "seen") /\ ~t.own
      /\ t.entry = "busy" /\ t.err = "ok" /\ t.out = {}
  BY FreshFacts
<1>2. Fit(p, t)
  BY <1>1 DEF Fit, Over, StepOK
<1> QED BY <1>1, <1>2 DEF TaskOK, OutOK, WaitOK, OwnOK

LEMMA FieldFacts ==
    ASSUME Base, NEW p \in DOMAIN task
    PROVE  /\ p \in Path /\ task[p] \in Rec /\ TaskOK(p, task[p]) /\ StepOK(Last(p))
           /\ task[p].pc \in PC /\ task[p].err \in Err /\ task[p].entry \in Err \cup {"busy"}
           /\ task[p].dig \in Digest /\ task[p].tag \in TagName /\ task[p].kind \in Kind
           /\ KeyOf(p) = NameOf(p) /\ KeyOf(p) = <<task[p].tag, task[p].dig>>
           /\ task[p].kind # "blob" => task[p].dig \in Manifest
<1>1. p \in Path /\ task[p] \in Rec /\ TaskOK(p, task[p])
  BY DEF Base, TaskOK
<1>2. Last(p) \in Step
  BY <1>1, PathFacts
<1>3. /\ task[p].pc \in PC /\ task[p].err \in Err /\ task[p].entry \in Err \cup {"busy"}
      /\ task[p].dig \in Digest /\ task[p].tag \in TagName /\ task[p].kind \in Kind
  BY <1>1 DEF Rec
<1>4. /\ KeyOf(p) = NameOf(p) /\ KeyOf(p) = <<task[p].tag, task[p].dig>>
      /\ StepOK(Last(p)) /\ (task[p].kind = "blob" <=> task[p].dig \in Blob)
  BY <1>1, <1>2 DEF TaskOK, Fit, KeyOf, NameOf, StepOK
<1> QED BY <1>1, <1>3, <1>4 DEF Digest

\* A step of one task that leaves the others and opt.seen alone.
LEMMA MoveBase ==
    ASSUME Base, NEW p \in DOMAIN task, NEW t, Upd(p, t), TaskOK(p, t),
           UNCHANGED seen, RestOK'
    PROVE  Base'
<1>1. /\ DOMAIN task' = DOMAIN task /\ task'[p] = t
      /\ \A q \in DOMAIN task : q # p => task'[q] = task[q]
  BY DEF Upd
<1>2. SeenOK'
  BY <1>1 DEF Base, SeenOK
<1>3. ASSUME NEW q \in DOMAIN task' PROVE q \in Path /\ TaskOK(q, task[q])'
  <2>1. q \in Path /\ TaskOK(q, task'[q])
    BY <1>1, <1>3 DEF Base
  <2> QED BY <1>1, <2>1 DEF TaskOK, OutOK, WaitOK, OwnOK
<1> QED BY <1>2, <1>3 DEF Base

LEMMA GoRec ==
    ASSUME NEW t \in Rec, NEW pc \in PC, NEW u, u = [t EXCEPT !.pc = pc]
    PROVE  /\ u \in Rec /\ u.pc = pc
           /\ u.kind = t.kind /\ u.tag = t.tag /\ u.dig = t.dig /\ u.own = t.own
           /\ u.entry = t.entry /\ u.on = t.on /\ u.match = t.match
           /\ u.out = t.out /\ u.cancel = t.cancel /\ u.err = t.err
BY DEF Rec

\* The record of a task that returns.
Left(t, err) ==
    [t EXCEPT !.pc = IF t.own THEN "ret" ELSE "post", !.err = err, !.cancel = TRUE]

LEMMA RetRec ==
    ASSUME NEW t \in Rec, NEW err \in Err, NEW u, u = Left(t, err)
    PROVE  /\ u \in Rec /\ u.pc \in {"ret", "post"} /\ (u.pc = "ret" <=> t.own)
           /\ u.kind = t.kind /\ u.tag = t.tag /\ u.dig = t.dig /\ u.own = t.own
           /\ u.entry = t.entry /\ u.on = t.on /\ u.match = t.match
           /\ u.out = t.out /\ u.cancel /\ u.err = err
<1> DEFINE pc == IF t.own THEN "ret" ELSE "post"
<1>1. pc \in {"ret", "post"} /\ pc \in PC /\ (pc = "ret" <=> t.own)
  BY DEF PC
<1> HIDE DEF pc
<1>2. u = [t EXCEPT !.pc = pc, !.err = err, !.cancel = TRUE]
  BY DEF pc, Left
<1> QED BY <1>1, <1>2 DEF Rec
-----------------------------------------------------------------------------
\* What a step of a task may do to the target and to the options.
Keeps ==
    /\ RestOK' /\ UNCHANGED main /\ main.result = "busy"
    /\ tgt.man \subseteq tgt'.man /\ tgt.blob \subseteq tgt'.blob
    /\ TgtChecksCtx => TargetOK'
    /\ Plain => UNCHANGED finalFn
    /\ Plain /\ RootTag # NoTag /\ <<RootTag, Root>> \in tgt.tag => <<RootTag, Root>> \in tgt'.tag

LEMMA KeepsNothing ==
    ASSUME IInv, UNCHANGED <<finalFn, main, tgt>>, main.result = "busy",
           fails' \in 0 .. MaxFails
    PROVE  Keeps
<1>1. RestOK'
  BY DEF IInv, Base, RestOK
<1>2. TgtChecksCtx => TargetOK'
  BY DEF IInv, Full, TargetOK, TargetClosed
<1> QED BY <1>1, <1>2 DEF Keeps

\* The records of the other tasks keep fitting to a target that only grows.
LEMMA FullFrame ==
    ASSUME Keeps, NEW t, FullOK(t)
    PROVE  FullOK(t)'
BY DEF Keeps, FullOK, MatchOK, InHand, DoneOK, Stored

\* A step of one task, as far as it concerns the others.
LEMMA MoveIInv ==
    ASSUME IInv, Keeps, Base', NEW p \in DOMAIN task, NEW t, Upd(p, t),
           TgtChecksCtx => FullOK(t)',
           Plain => /\ t.pc \notin {"refs", "tags"} /\ task[p].pc # "dead"
                    /\ t.pc \notin {"early", "drain"} => t.out = {}
                    /\ task[p].out \subseteq t.out
                    /\ TagOK(p, t)'
    PROVE  IInv'
<1>1. /\ DOMAIN task' = DOMAIN task /\ task'[p] = t
      /\ \A q \in DOMAIN task : q # p => task'[q] = task[q]
  BY DEF Upd
<1>2. ASSUME TgtChecksCtx PROVE Full'
  <2>1. ASSUME NEW q \in DOMAIN task' PROVE FullOK(task[q])'
    <3>1. CASE q = p
      BY <1>1, <1>2, <3>1 DEF FullOK, MatchOK, InHand, DoneOK
    <3>2. CASE q # p
      <4>1. task'[q] = task[q] /\ FullOK(task[q])
        BY <1>1, <1>2, <2>1, <3>2 DEF IInv, Full
      <4>2. PICK u : u = task[q]
        OBVIOUS
      <4>3. FullOK(u)'
        BY <4>1, <4>2, FullFrame
      <4> QED BY <4>1, <4>2, <4>3 DEF FullOK, MatchOK, InHand, DoneOK
    <3> QED BY <3>1, <3>2
  <2> QED BY <1>2, <2>1 DEF Full, Keeps
<1>3. ASSUME Plain PROVE Tree'
  <2>1. ASSUME NEW q \in DOMAIN task' PROVE PlaceOK(q) /\ HeardOK(q, task[q])'
    <3>1. \A x \in DOMAIN task : task[x].out \subseteq task'[x].out
      BY <1>1, <1>3
    <3>2. PlaceOK(q) /\ HeardOK(q, task[q])
      BY <1>1, <1>3, <2>1 DEF IInv, Tree
    <3>3. /\ task'[q].pc \notin {"refs", "tags"}
          /\ task'[q].pc \notin {"early", "drain"} => task'[q].out = {}
          /\ task'[q].pc # "dead" => task[q].pc # "dead"
      BY <1>1, <1>3, <2>1, <3>2 DEF HeardOK
    <3> QED BY <1>1, <3>1, <3>2, <3>3 DEF HeardOK
  <2> QED BY <1>1, <1>3, <2>1 DEF IInv, Tree, Keeps
<1>4. ASSUME Plain, NEW q \in DOMAIN task' PROVE TagOK(q, task[q])'
  <2>1. CASE q = p
    BY <1>1, <1>4, <2>1 DEF TagOK
  <2>2. CASE q # p
    BY <1>1, <1>4, <2>2 DEF IInv, TagOK, Keeps
  <2> QED BY <2>1, <2>2
<1> QED BY <1>2, <1>3, <1>4 DEF IInv

\* return err, from wherever the task is.
LEMMA RetIInv ==
    ASSUME IInv, Keeps, UNCHANGED seen,
           NEW p \in DOMAIN task, task[p].pc \notin Over, NEW err \in Err, Ret(p, err),
           TgtChecksCtx /\ err = "ok" => task[p].dig \in tgt'.man \cup tgt'.blob,
           Plain => task[p].out = {},
           Plain /\ p = RootPath /\ RootTag # NoTag /\ err = "ok" =>
               <<RootTag, Root>> \in tgt'.tag
    PROVE  IInv'
<1>1. PICK t : t = Left(task[p], err)
  OBVIOUS
<1>2. Upd(p, t)
  BY <1>1 DEF Ret, Upd, Left
<1>3. task[p] \in Rec /\ TaskOK(p, task[p]) /\ p \in Path
  BY FieldFacts DEF IInv
<1>4. /\ t \in Rec /\ t.pc \in {"ret", "post"} /\ (t.pc = "ret" <=> task[p].own)
      /\ t.kind = task[p].kind /\ t.tag = task[p].tag /\ t.dig = task[p].dig
      /\ t.own = task[p].own /\ t.entry = task[p].entry /\ t.on = task[p].on
      /\ t.match = task[p].match /\ t.out = task[p].out /\ t.cancel /\ t.err = err
  BY <1>1, <1>3, RetRec
<1>5. TaskOK(p, t)
  <2>1. Fit(p, t)
    BY <1>3, <1>4 DEF TaskOK, Fit, Over
  <2> QED BY <1>3, <1>4, <2>1 DEF TaskOK, OutOK, WaitOK, OwnOK
<1>6. Base'
  BY <1>2, <1>5, MoveBase DEF IInv, Keeps
<1>7. ASSUME TgtChecksCtx PROVE FullOK(t)'
  <2>1. t.entry = "busy"
    BY <1>3, <1>4 DEF TaskOK, Fit
  <2>2. MatchOK(t)'
    BY <1>4, <1>7 DEF IInv, Full, FullOK, MatchOK, Keeps
  <2>3. InHand(t)' /\ DoneOK(t)'
    BY <1>4, <1>7, <2>1 DEF InHand, DoneOK, Stored
  <2> QED BY <2>2, <2>3 DEF FullOK
<1>8. ASSUME Plain PROVE TagOK(p, t)'
  BY <1>4, <1>8 DEF IInv, TagOK, Keeps
<1>9. task[p].pc # "dead"
  BY DEF Over
<1> QED BY <1>2, <1>4, <1>6, <1>7, <1>8, <1>9, MoveIInv

\* In a copy without referrers and digest tags a task only has goroutines at
\* work in the two receive loops.
LEMMA NoneOut ==
    ASSUME IInv, NEW p \in DOMAIN task, task[p].pc \notin {"early", "drain"}
    PROVE  Plain => task[p].out = {}
BY DEF IInv, Tree, HeardOK

LEMMA RequestFailsIInv ==
    ASSUME IInv, main.result = "busy", NEW p \in DOMAIN task,
           task[p].pc \in {"head", "tagget", "get", "refs", "tags", "put", "copy"}, RequestFails(p)
    PROVE  IInv'
<1>1. fails' \in 0 .. MaxFails
  BY SourceAssumption DEF RequestFails, IInv, Base, RestOK
<1>2. Keeps
  BY <1>1, KeepsNothing DEF RequestFails
<1>3. task[p].pc \notin Over /\ "fail" \in Err
  BY DEF Over, Err
<1>4. Plain => task[p].out = {}
  BY NoneOut
<1>5. Ret(p, "fail") /\ UNCHANGED seen
  BY DEF RequestFails
<1> QED BY <1>2, <1>3, <1>4, <1>5, RetIInv

\* Most steps of a task only change its record.
LEMMA OnlyTask ==
    ASSUME IInv, main.result = "busy", UNCHANGED <<seen, finalFn, main, tgt, fails>>
    PROVE  Keeps /\ UNCHANGED seen
BY KeepsNothing DEF IInv, Base, RestOK

LEMMA GoIInv ==
    ASSUME IInv, Keeps, UNCHANGED seen,
           NEW p \in DOMAIN task, NEW pc \in PC, Go(p, pc),
           <<task[p].pc, pc>> \in {<<"get", "early">>, <<"early", "refs">>, <<"early", "tags">>,
                                   <<"early", "drain">>, <<"drain", "put">>},
           task[p].pc = "get" => task[p].match,
           pc = "put" => task[p].out = {},
           Plain => pc \notin {"refs", "tags"}
    PROVE  IInv'
<1>1. PICK t : t = [task[p] EXCEPT !.pc = pc]
  OBVIOUS
<1>2. Upd(p, t)
  BY <1>1 DEF Go, Upd
<1>3. task[p] \in Rec /\ TaskOK(p, task[p]) /\ p \in Path
  BY FieldFacts DEF IInv
<1>4. /\ t \in Rec /\ t.pc = pc
      /\ t.kind = task[p].kind /\ t.tag = task[p].tag /\ t.dig = task[p].dig
      /\ t.own = task[p].own /\ t.entry = task[p].entry /\ t.on = task[p].on
      /\ t.match = task[p].match /\ t.out = task[p].out /\ t.cancel = task[p].cancel
      /\ t.err = task[p].err
  BY <1>1, <1>3, GoRec
<1>5. TaskOK(p, t)
  <2>1. Fit(p, t)
    BY <1>3, <1>4 DEF TaskOK, Fit, Over
  <2>2. OutOK(p, t) /\ WaitOK(t) /\ OwnOK(p, t)
    BY <1>3, <1>4 DEF TaskOK, OutOK, WaitOK, OwnOK
  <2> QED BY <1>4, <2>1, <2>2 DEF TaskOK
<1>6. Base'
  BY <1>2, <1>5, MoveBase DEF IInv, Keeps
<1>7. ASSUME TgtChecksCtx PROVE FullOK(t)'
  <2>1. FullOK(task[p]) /\ TargetClosed /\ tgt.man \subseteq Manifest
    BY <1>7 DEF IInv, Full, TargetOK, Base, RestOK, Target
  <2>2. FullOK(t)
    <3>1. MatchOK(t) /\ DoneOK(t)
      BY <1>4, <2>1 DEF FullOK, MatchOK, DoneOK, Over
    <3>2. CASE task[p].pc = "get"
      <4>1. task[p].dig \in tgt.man /\ t.pc = "early"
        BY <1>4, <2>1, <3>2 DEF FullOK, MatchOK
      <4>2. \A d \in Content(t.dig) : Stored(d)
        BY <1>4, <2>1, <4>1 DEF Content, Stored, TargetClosed
      <4> QED BY <3>1, <4>1, <4>2 DEF FullOK, InHand
    <3>3. CASE task[p].pc # "get"
      BY <1>4, <2>1, <3>1, <3>3 DEF FullOK, InHand
    <3> QED BY <3>2, <3>3
  <2> QED BY <2>2, FullFrame
<1>8. ASSUME Plain PROVE TagOK(p, t)'
  BY <1>4, <1>8 DEF IInv, TagOK, Keeps, Over
<1>9. /\ task[p].pc # "dead"
      /\ Plain => (t.pc \notin {"early", "drain"} => t.out = {})
  BY <1>4
<1> QED BY <1>2, <1>4, <1>6, <1>7, <1>8, <1>9, MoveIInv

\* A task of the same key found its way into opt.seen.
LEMMA SameKey ==
    ASSUME IInv, NEW p \in DOMAIN task, NEW o \in DOMAIN task, NameOf(o) = NameOf(p)
    PROVE  /\ TgtChecksCtx /\ task[o].entry = "ok" => Stored(task[p].dig)
           /\ Plain /\ p = RootPath /\ RootTag # NoTag => o = p
<1>1. task[o].dig = task[p].dig /\ task[o].tag = task[p].tag
  BY FieldFacts DEF IInv, NameOf
<1>2. TgtChecksCtx /\ task[o].entry = "ok" => Stored(task[p].dig)
  BY <1>1 DEF IInv, Full, FullOK, DoneOK
<1>3. ASSUME Plain, p = RootPath, RootTag # NoTag PROVE o = p
  <2>1. Last(o).tag = RootTag
    BY <1>3 DEF NameOf, RootPath, Ref, Last
  <2>2. Len(o) = 1
    BY <1>3, <2>1 DEF IInv, Tree, PlaceOK
  <2> QED BY <1>3, <2>2 DEF IInv, Tree, PlaceOK
<1> QED BY <1>2, <1>3

\* What imageSeenOrWait returns of another copy is true of this one.
LEMMA EntryIInv ==
    ASSUME IInv, main.result = "busy", UNCHANGED <<seen, finalFn, main, tgt, fails>>,
           NEW p \in DOMAIN task, task[p].pc \in {"seen", "wait"},
           NEW o \in DOMAIN task, NameOf(o) = NameOf(p),
           task[o].entry # "busy", Ret(p, task[o].entry)
    PROVE  IInv'
<1>1. PICK err : err = task[o].entry
  OBVIOUS
<1>2. err \in Err /\ Ret(p, err)
  BY <1>1, FieldFacts DEF IInv
<1>3. task[p].pc \notin Over /\ (Plain => task[p].out = {}) /\ task[p].entry = "busy"
  BY NoneOut, FieldFacts DEF Over, IInv, TaskOK, Fit
<1>4. TgtChecksCtx /\ err = "ok" => task[p].dig \in tgt'.man \cup tgt'.blob
  BY <1>1, SameKey DEF Stored
<1>5. ~(Plain /\ p = RootPath /\ RootTag # NoTag)
  BY <1>3, SameKey
<1>6. Keeps
  BY OnlyTask
<1> QED BY <1>2, <1>3, <1>4, <1>5, <1>6, RetIInv

LEMMA SeenOldIInv ==
    ASSUME IInv, main.result = "busy", NEW p \in DOMAIN task, SeenOld(p)
    PROVE  IInv'
<1> DEFINE o == seen[KeyOf(p)]
<1>1. /\ o \in DOMAIN task /\ NameOf(o) = NameOf(p) /\ task[p].pc = "seen"
      /\ UNCHANGED <<seen, finalFn, main, tgt, fails>>
  BY FieldFacts DEF SeenOld, At, IInv, Base, SeenOK
<1>2. CASE task[o].entry # "busy" /\ Ret(p, task[o].entry)
  BY <1>1, <1>2, EntryIInv
<1>3. CASE Ret(p, "loop")
  <2>1. task[p].pc \notin Over /\ (Plain => task[p].out = {}) /\ "loop" \in Err
    BY <1>1, NoneOut DEF Over, Err
  <2>2. Keeps
    BY <1>1, OnlyTask
  <2> QED BY <1>1, <1>3, <2>1, <2>2, RetIInv
<1>4. CASE Upd(p, [task[p] EXCEPT !.pc = "wait", !.on = o])
  <2>1. PICK t : t = [task[p] EXCEPT !.pc = "wait", !.on = o]
    OBVIOUS
  <2>2. Upd(p, t)
    BY <1>4, <2>1
  <2>3. task[p] \in Rec /\ TaskOK(p, task[p]) /\ p \in Path /\ o \in Path
    BY <1>1, FieldFacts DEF IInv
  <2>4. /\ t \in Rec /\ t.pc = "wait" /\ t.on = o
        /\ t.kind = task[p].kind /\ t.tag = task[p].tag /\ t.dig = task[p].dig
        /\ t.own = task[p].own /\ t.entry = task[p].entry
        /\ t.match = task[p].match /\ t.out = task[p].out /\ t.cancel = task[p].cancel
        /\ t.err = task[p].err
    <3>1. o \in Seq(Step) /\ "wait" \in PC
      BY <2>3 DEF Path, PC
    <3> HIDE DEF o
    <3> QED BY <2>1, <2>3, <3>1 DEF Rec
  <2> HIDE DEF o
  <2>5. Fit(p, t)
    BY <1>1, <2>3, <2>4 DEF TaskOK, Fit, Over
  <2>6. OutOK(p, t) /\ WaitOK(t) /\ OwnOK(p, t)
    <3>1. NameOf(p) = <<t.tag, t.dig>>
      BY <2>4, FieldFacts DEF IInv
    <3>2. task[p].pc # "unsee" /\ t.pc # "unsee"
      BY <1>1, <2>4
    <3> QED BY <1>1, <2>3, <2>4, <3>1, <3>2 DEF TaskOK, OutOK, WaitOK, OwnOK
  <2>7. Keeps
    BY <1>1, OnlyTask
  <2>8. Base'
    BY <1>1, <2>2, <2>4, <2>5, <2>6, <2>7, MoveBase DEF IInv, Keeps, TaskOK
  <2>9. TgtChecksCtx => FullOK(t)'
    <3>1. TgtChecksCtx => FullOK(t)
      BY <1>1, <2>4 DEF IInv, Full, FullOK, MatchOK, InHand, DoneOK, Over
    <3> QED BY <2>7, <3>1, FullFrame
  <2>10. Plain => TagOK(p, t)' /\ t.out = {}
    BY <1>1, <2>4, NoneOut DEF IInv, TagOK, Over
  <2> QED BY <1>1, <2>2, <2>4, <2>7, <2>8, <2>9, <2>10, MoveIInv
<1> QED BY <1>2, <1>3, <1>4 DEF SeenOld

LEMMA SeenWaitIInv ==
    ASSUME IInv, main.result = "busy", NEW p \in DOMAIN task, SeenWait(p)
    PROVE  IInv'
<1>1. /\ task[p].pc = "wait" /\ UNCHANGED <<seen, finalFn, main, tgt, fails>>
      /\ task[p].on \in DOMAIN task /\ NameOf(task[p].on) = NameOf(p)
  BY FieldFacts DEF SeenWait, At, IInv, TaskOK, WaitOK
<1>2. CASE task[task[p].on].entry # "busy" /\ Ret(p, task[task[p].on].entry)
  BY <1>1, <1>2, EntryIInv
<1>3. CASE Ret(p, "canceled")
  <2>1. task[p].pc \notin Over /\ (Plain => task[p].out = {}) /\ "canceled" \in Err
    BY <1>1, NoneOut DEF Over, Err
  <2>2. Keeps
    BY <1>1, OnlyTask
  <2> QED BY <1>1, <1>3, <2>1, <2>2, RetIInv
<1> QED BY <1>2, <1>3 DEF SeenWait

LEMMA SeenNewIInv ==
    ASSUME IInv, main.result = "busy", NEW p \in DOMAIN task, SeenNew(p)
    PROVE  IInv'
<1> DEFINE pc == IF task[p].kind = "blob" THEN "copy"
                 ELSE IF task[p].tag = NoTag THEN "head" ELSE "get"
<1>1. PICK t : t = [task[p] EXCEPT !.own = TRUE, !.pc = pc]
  OBVIOUS
<1>2. /\ Upd(p, t) /\ task[p].pc = "seen" /\ KeyOf(p) \notin DOMAIN seen
      /\ seen' = With(seen, KeyOf(p), p)
      /\ UNCHANGED <<finalFn, main, tgt, fails>>
  BY <1>1 DEF SeenNew, At
<1>3. task[p] \in Rec /\ TaskOK(p, task[p]) /\ p \in Path /\ KeyOf(p) = NameOf(p)
  BY FieldFacts DEF IInv
<1>4. pc \in {"copy", "head", "get"} /\ pc \in PC /\ (pc = "copy" <=> task[p].kind = "blob")
  BY DEF PC
<1> HIDE DEF pc
<1>5. /\ t \in Rec /\ t.pc = pc /\ t.own
      /\ t.kind = task[p].kind /\ t.tag = task[p].tag /\ t.dig = task[p].dig
      /\ t.entry = task[p].entry /\ t.on = task[p].on
      /\ t.match = task[p].match /\ t.out = task[p].out /\ t.cancel = task[p].cancel
      /\ t.err = task[p].err
  BY <1>1, <1>3, <1>4 DEF Rec
<1>6. /\ DOMAIN seen' = DOMAIN seen \cup {NameOf(p)} /\ seen'[NameOf(p)] = p
      /\ \A k \in DOMAIN seen : k # NameOf(p) /\ seen'[k] = seen[k]
  BY <1>2, <1>3 DEF With
<1>7. Keeps
  BY <1>2, KeepsNothing DEF IInv, Base, RestOK
<1>8. Base'
  <2>1. /\ DOMAIN task' = DOMAIN task /\ task'[p] = t
        /\ \A q \in DOMAIN task : q # p => task'[q] = task[q]
    BY <1>2 DEF Upd
  <2>2. SeenOK'
    BY <1>6, <2>1 DEF IInv, Base, SeenOK
  <2>3. ASSUME NEW q \in DOMAIN task' PROVE q \in Path /\ TaskOK(q, task[q])'
    <3>1. CASE q = p
      <4>1. Fit(p, t)
        BY <1>2, <1>3, <1>4, <1>5 DEF TaskOK, Fit, Over
      <4>2. OutOK(p, t)' /\ WaitOK(t)' /\ OwnOK(p, t)'
        BY <1>3, <1>4, <1>5, <1>6, <2>1 DEF TaskOK, OutOK, WaitOK, OwnOK
      <4>3. TaskOK(p, t)'
        BY <1>5, <4>1, <4>2 DEF TaskOK
      <4> QED BY <1>3, <2>1, <3>1, <4>3
              DEF TaskOK, OutOK, WaitOK, OwnOK
    <3>2. CASE q # p
      <4>1. q \in Path /\ TaskOK(q, task[q]) /\ task'[q] = task[q]
        BY <2>1, <2>3, <3>2, FieldFacts DEF IInv
      <4> QED BY <1>6, <2>1, <4>1 DEF TaskOK, OutOK, WaitOK, OwnOK
    <3> QED BY <3>1, <3>2
  <2> QED BY <1>7, <2>2, <2>3 DEF Base, Keeps
<1>9. TgtChecksCtx => FullOK(t)'
  <2>1. TgtChecksCtx => FullOK(t)
    BY <1>2, <1>4, <1>5 DEF IInv, Full, FullOK, MatchOK, InHand, DoneOK, Over
  <2> QED BY <1>7, <2>1, FullFrame
<1>10. Plain => TagOK(p, t)' /\ t.out = {}
  BY <1>2, <1>4, <1>5, NoneOut DEF IInv, TagOK, Over
<1> QED BY <1>2, <1>4, <1>5, <1>7, <1>8, <1>9, <1>10, MoveIInv

\* ManifestHead found out whether the target has the reference.
LEMMA MatchIInv ==
    ASSUME IInv, Keeps, UNCHANGED <<seen, tgt>>,
           NEW p \in DOMAIN task, task[p].pc = "head", NEW m \in BOOLEAN,
           NEW pc \in {"early", "get", "seen", "tagget"}, pc = "early" => m,
           m => IF task[p].tag = NoTag THEN task[p].dig \in tgt.man
                ELSE <<task[p].tag, task[p].dig>> \in tgt.tag,
           Upd(p, [task[p] EXCEPT !.match = m, !.pc = pc])
    PROVE  IInv'
<1>1. PICK t : t = [task[p] EXCEPT !.match = m, !.pc = pc]
  OBVIOUS
<1>2. Upd(p, t)
  BY <1>1
<1>3. task[p] \in Rec /\ TaskOK(p, task[p]) /\ p \in Path
  BY FieldFacts DEF IInv
<1>4. pc \in PC
  BY DEF PC
<1>5. /\ t \in Rec /\ t.pc = pc /\ (t.match <=> m)
      /\ t.kind = task[p].kind /\ t.tag = task[p].tag /\ t.dig = task[p].dig
      /\ t.own = task[p].own /\ t.entry = task[p].entry /\ t.on = task[p].on
      /\ t.out = task[p].out /\ t.cancel = task[p].cancel /\ t.err = task[p].err
  BY <1>1, <1>3, <1>4 DEF Rec
<1>6. TaskOK(p, t)
  <2>1. Fit(p, t)
    BY <1>3, <1>5 DEF TaskOK, Fit, Over
  <2>2. OutOK(p, t) /\ WaitOK(t) /\ OwnOK(p, t)
    BY <1>3, <1>5 DEF TaskOK, OutOK, WaitOK, OwnOK
  <2> QED BY <1>5, <2>1, <2>2 DEF TaskOK
<1>7. Base'
  BY <1>2, <1>6, MoveBase DEF IInv, Keeps
<1>8. ASSUME TgtChecksCtx PROVE FullOK(t)'
  <2>1. /\ FullOK(task[p]) /\ TargetClosed /\ \A k \in tgt.tag : k[2] \in tgt.man
    BY <1>8 DEF IInv, Full, TargetOK
  <2>2. m => t.dig \in tgt.man
    BY <1>5, <2>1
  <2>3. MatchOK(t) /\ DoneOK(t)
    BY <1>5, <2>1, <2>2 DEF FullOK, MatchOK, DoneOK, Over
  <2>4. m => \A d \in Content(t.dig) : Stored(d)
    BY <2>1, <2>2 DEF Content, Stored, TargetClosed
  <2>5. InHand(t)
    BY <1>5, <2>4 DEF InHand
  <2> QED BY <2>3, <2>5, FullFrame DEF FullOK
<1>9. ASSUME Plain PROVE TagOK(p, t)' /\ t.out = {} /\ task[p].pc # "dead"
  <2>1. p = RootPath => task[p].tag = RootTag /\ task[p].dig = Root
    BY <1>3 DEF TaskOK, Fit, RootPath, Ref, Last
  <2> QED BY <1>5, <1>9, <2>1, NoneOut DEF TagOK, Over
<1> QED BY <1>2, <1>5, <1>7, <1>8, <1>9, MoveIInv

LEMMA RootFields ==
    ASSUME IInv, RootPath \in DOMAIN task
    PROVE  task[RootPath].tag = RootTag /\ task[RootPath].dig = Root
           /\ task[RootPath].kind = "root"
BY FieldFacts DEF IInv, TaskOK, Fit, RootPath, Ref, Last

LEMMA HeadDigestIInv ==
    ASSUME IInv, main.result = "busy", NEW p \in DOMAIN task, HeadDigest(p)
    PROVE  IInv'
<1> DEFINE there == InTarget(p) /\ ~(TgtChecksCtx /\ Canceled(p))
           pc == IF there /\ ~ForceRecursive /\ task[p].dig \notin Index THEN "early" ELSE "get"
<1>1. /\ task[p].pc = "head" /\ task[p].tag = NoTag
      /\ UNCHANGED <<seen, finalFn, main, tgt, fails>>
  BY DEF HeadDigest, At
<1>2. there \in BOOLEAN /\ (there => task[p].dig \in tgt.man)
  BY <1>1 DEF InTarget
<1>3. Keeps
  BY <1>1, OnlyTask
<1>4. CASE there /\ FastCheck /\ Ret(p, "ok")
  <2>1. "ok" \in Err /\ task[p].pc \notin Over /\ (Plain => task[p].out = {})
    BY <1>1, NoneOut DEF Err, Over
  <2>2. task[p].dig \in tgt'.man \cup tgt'.blob
    BY <1>1, <1>2, <1>4
  <2>3. ~(p = RootPath /\ RootTag # NoTag)
    BY <1>1, RootFields
  <2> QED BY <1>1, <1>3, <1>4, <2>1, <2>2, <2>3, RetIInv
<1>5. CASE Upd(p, [task[p] EXCEPT !.match = there, !.pc = pc])
  <2>1. pc \in {"early", "get", "seen"} /\ (pc = "early" => there)
    OBVIOUS
  <2> HIDE DEF there, pc
  <2> QED BY <1>1, <1>2, <1>3, <1>5, <2>1, MatchIInv
<1> QED BY <1>4, <1>5 DEF HeadDigest

LEMMA HeadTagIInv ==
    ASSUME IInv, main.result = "busy", NEW p \in DOMAIN task, HeadTag(p)
    PROVE  IInv'
<1>1. /\ task[p].pc = "head" /\ task[p].tag # NoTag
      /\ UNCHANGED <<seen, finalFn, main, tgt, fails>>
  BY DEF HeadTag, At
<1>2. InTarget(p) \in BOOLEAN /\ (InTarget(p) => <<task[p].tag, task[p].dig>> \in tgt.tag)
  BY <1>1 DEF InTarget
<1>3. Keeps
  BY <1>1, OnlyTask
<1>4. CASE Ret(p, "canceled")
  <2>1. "canceled" \in Err /\ task[p].pc \notin Over /\ (Plain => task[p].out = {})
    BY <1>1, NoneOut DEF Err, Over
  <2> QED BY <1>1, <1>3, <1>4, <2>1, RetIInv
<1>5. CASE \E pc \in {"seen", "tagget"} : Upd(p, [task[p] EXCEPT !.match = InTarget(p), !.pc = pc])
  <2>1. PICK pc \in {"seen", "tagget"} : Upd(p, [task[p] EXCEPT !.match = InTarget(p), !.pc = pc])
    BY <1>5
  <2> QED BY <1>1, <1>2, <1>3, <2>1, MatchIInv
<1> QED BY <1>4, <1>5 DEF HeadTag

LEMMA HeadRefusedIInv ==
    ASSUME IInv, main.result = "busy", NEW p \in DOMAIN task, HeadRefused(p)
    PROVE  IInv'
<1>1. task[p].pc = "head" /\ UNCHANGED <<seen, finalFn, main, tgt>>
  BY DEF HeadRefused, At
<1>2. fails' \in 0 .. MaxFails
  BY SourceAssumption DEF HeadRefused, IInv, Base, RestOK
<1>3. Keeps
  BY <1>1, <1>2, KeepsNothing
<1>4. PICK pc \in {"get", "tagget"} : Upd(p, [task[p] EXCEPT !.match = FALSE, !.pc = pc])
  BY DEF HeadRefused
<1> QED BY <1>1, <1>3, <1>4, MatchIInv

LEMMA TagGetIInv ==
    ASSUME IInv, main.result = "busy", NEW p \in DOMAIN task, TagGet(p)
    PROVE  IInv'
<1>1. task[p].pc = "tagget" /\ UNCHANGED <<seen, finalFn, main, tgt, fails>>
  BY DEF TagGet, At
<1>2. Keeps
  BY <1>1, OnlyTask
<1>3. CASE Ret(p, "canceled")
  <2>1. "canceled" \in Err /\ task[p].pc \notin Over /\ (Plain => task[p].out = {})
    BY <1>1, NoneOut DEF Err, Over
  <2> QED BY <1>1, <1>2, <1>3, <2>1, RetIInv
<1>4. CASE Upd(p, [task[p] EXCEPT !.read = TRUE, !.pc = "seen"])
  <2>1. PICK t : t = [task[p] EXCEPT !.read = TRUE, !.pc = "seen"]
    OBVIOUS
  <2>2. task[p] \in Rec /\ TaskOK(p, task[p]) /\ p \in Path /\ "seen" \in PC
    BY FieldFacts DEF IInv, PC
  <2>3. /\ t \in Rec /\ t.pc = "seen" /\ t.match = task[p].match
        /\ t.kind = task[p].kind /\ t.tag = task[p].tag /\ t.dig = task[p].dig
        /\ t.own = task[p].own /\ t.entry = task[p].entry /\ t.on = task[p].on
        /\ t.out = task[p].out /\ t.cancel = task[p].cancel /\ t.err = task[p].err
    BY <2>1, <2>2 DEF Rec
  <2>4. Fit(p, t)
    BY <1>1, <2>2, <2>3 DEF TaskOK, Fit, Over
  <2>5. TaskOK(p, t)
    BY <1>1, <2>2, <2>3, <2>4 DEF TaskOK, OutOK, WaitOK, OwnOK
  <2>6. Base'
    BY <1>1, <1>2, <1>4, <2>1, <2>5, MoveBase DEF IInv, Keeps
  <2>7. TgtChecksCtx => FullOK(t)
    BY <1>1, <2>3 DEF IInv, Full, FullOK, MatchOK, InHand, DoneOK, Over
  <2>8. TgtChecksCtx => FullOK(t)'
    BY <1>2, <2>7, FullFrame
  <2>9. Plain => TagOK(p, t)' /\ t.out = {}
    BY <1>1, <2>3, NoneOut DEF IInv, TagOK, Over
  <2> QED BY <1>1, <1>2, <1>4, <2>1, <2>3, <2>6, <2>8, <2>9, MoveIInv
<1> QED BY <1>3, <1>4 DEF TagGet
-----------------------------------------------------------------------------
Below(p, refs) == {Append(p, r) : r \in refs}

LEMMA BelowFacts ==
    ASSUME NEW p \in Path, NEW refs \in SUBSET Step
    PROVE  /\ \A x \in Below(p, refs) : /\ x \in Path /\ Len(x) = Len(p) + 1 /\ x # p
                                        /\ Last(x) \in refs /\ Front(x) = p
           /\ \A r \in refs : Append(p, r) \in Below(p, refs) /\ Last(Append(p, r)) = r
<1>1. ASSUME NEW r \in refs
      PROVE  /\ Append(p, r) \in Path /\ Len(Append(p, r)) = Len(p) + 1
             /\ Append(p, r) # p
             /\ Last(Append(p, r)) = r /\ Front(Append(p, r)) = p
  <2>1. Len(p) \in Nat
    BY PathFacts
  <2>2. Append(p, r) \in Path /\ Len(Append(p, r)) = Len(p) + 1
        /\ Last(Append(p, r)) = r /\ Front(Append(p, r)) = p
    BY <1>1, AppendFacts
  <2> QED BY <2>1, <2>2
<1> QED BY <1>1 DEF Below

\* The tasks after p has started a goroutine for each of refs.
LEMMA SpawnFacts ==
    ASSUME Base, NEW p \in DOMAIN task, NEW refs \in SUBSET Step, NEW pc \in PC,
           Spawn(p, refs, pc)
    PROVE  /\ DOMAIN task' = DOMAIN task \cup Below(p, refs)
           /\ task'[p] = [task[p] EXCEPT !.out = @ \cup Below(p, refs), !.pc = pc]
           /\ \A x \in Below(p, refs) :
                  task'[x] = NewTask(Last(x).kind, Last(x).tag, Last(x).dig)
           /\ \A x \in DOMAIN task : x # p /\ x \notin Below(p, refs) => task'[x] = task[x]
<1>1. p \notin Below(p, refs)
  BY BelowFacts, FieldFacts
<1>2. task' = [x \in DOMAIN task \cup Below(p, refs) |->
                 IF x \in Below(p, refs)
                 THEN NewTask(Last(x).kind, Last(x).tag, Last(x).dig)
                 ELSE IF x = p
                 THEN [task[p] EXCEPT !.out = @ \cup Below(p, refs), !.pc = pc]
                 ELSE task[x]]
  BY DEF Spawn, Below
<1> QED BY <1>1, <1>2

LEMMA SpawnIInv ==
    ASSUME IInv, Keeps, UNCHANGED <<seen, tgt>>,
           NEW p \in DOMAIN task, NEW refs \in SUBSET Step, NEW pc, Spawn(p, refs, pc),
           \A r \in refs : StepOK(r),
           <<task[p].pc, pc>> \in {<<"get", "early">>, <<"refs", "tags">>,
                                   <<"refs", "drain">>, <<"tags", "drain">>},
           task[p].pc = "get" =>
               \A d \in Content(task[p].dig) : \E r \in refs : r.dig = d /\ r.kind \notin {"ref", "tag"},
           Plain => /\ task[p].pc = "get"
                    /\ \A r \in refs : r.kind \in {"child", "blob"} /\ r.tag = NoTag
    PROVE  IInv'
<1> DEFINE new == Below(p, refs)
<1>1. PICK t : t = [task[p] EXCEPT !.out = @ \cup new, !.pc = pc]
  OBVIOUS
<1>2. task[p] \in Rec /\ TaskOK(p, task[p]) /\ p \in Path /\ pc \in PC
  BY FieldFacts DEF IInv, PC
<1>3. /\ \A x \in new : /\ x \in Path /\ Len(x) = Len(p) + 1 /\ x # p
                        /\ Last(x) \in refs /\ Front(x) = p
      /\ \A r \in refs : Append(p, r) \in new /\ Last(Append(p, r)) = r
  BY <1>2, BelowFacts
<1>4. /\ DOMAIN task' = DOMAIN task \cup new /\ task'[p] = t
      /\ \A x \in new : task'[x] = NewTask(Last(x).kind, Last(x).tag, Last(x).dig)
      /\ \A x \in DOMAIN task : x # p /\ x \notin new => task'[x] = task[x]
  <2>1. /\ DOMAIN task' = DOMAIN task \cup new
        /\ task'[p] = [task[p] EXCEPT !.out = @ \cup new, !.pc = pc]
        /\ \A x \in new : task'[x] = NewTask(Last(x).kind, Last(x).tag, Last(x).dig)
        /\ \A x \in DOMAIN task : x # p /\ x \notin new => task'[x] = task[x]
    BY <1>2, SpawnFacts DEF IInv
  <2> QED BY <1>1, <2>1
<1> HIDE DEF new
<1>5. /\ t \in Rec /\ t.pc = pc /\ t.out = task[p].out \cup new
      /\ t.kind = task[p].kind /\ t.tag = task[p].tag /\ t.dig = task[p].dig
      /\ t.own = task[p].own /\ t.entry = task[p].entry /\ t.on = task[p].on
      /\ t.match = task[p].match /\ t.cancel = task[p].cancel /\ t.err = task[p].err
  <2>1. new \in SUBSET Path
    BY <1>3
  <2> QED BY <1>1, <1>2, <2>1 DEF Rec
<1>6. ASSUME NEW x \in new
      PROVE  /\ task'[x] \in Rec /\ task'[x].pc \in {"seen", "head"}
             /\ ~task'[x].own /\ ~task'[x].match
             /\ task'[x].entry = "busy" /\ task'[x].out = {}
             /\ Fit(x, task'[x])
  <2>1. StepOK(Last(x)) /\ x \in Path
    BY <1>3, <1>6
  <2>2. task'[x] = NewTask(Last(x).kind, Last(x).tag, Last(x).dig)
    BY <1>4, <1>6
  <2>3. TaskOK(x, task'[x])
    BY <2>1, <2>2, FreshOK
  <2> QED BY <2>1, <2>2, <2>3, FreshFacts DEF TaskOK
<1>7. Base'
  <2>1. SeenOK'
    BY <1>4 DEF IInv, Base, SeenOK
  <2>2. ASSUME NEW x \in DOMAIN task' PROVE x \in Path /\ TaskOK(x, task[x])'
    <3>1. CASE x \in new
      BY <1>3, <1>6, <3>1 DEF TaskOK, OutOK, WaitOK, OwnOK
    <3>2. CASE x = p
      <4>1. Fit(p, t)
        BY <1>2, <1>5 DEF TaskOK, Fit, Over
      <4>2. OutOK(p, t)'
        BY <1>2, <1>3, <1>4, <1>5 DEF TaskOK, OutOK
      <4>3. WaitOK(t)' /\ OwnOK(p, t)'
        BY <1>2, <1>5 DEF TaskOK, WaitOK, OwnOK
      <4>4. TaskOK(p, t)'
        BY <1>5, <4>1, <4>2, <4>3 DEF TaskOK
      <4> QED BY <1>2, <1>4, <3>2, <4>4 DEF TaskOK, OutOK, WaitOK, OwnOK
    <3>3. CASE x \notin new /\ x # p
      <4>1. x \in DOMAIN task /\ task'[x] = task[x]
        BY <1>4, <2>2, <3>3
      <4>2. x \in Path /\ TaskOK(x, task[x])
        BY <4>1, FieldFacts DEF IInv
      <4> QED BY <1>4, <4>1, <4>2 DEF TaskOK, OutOK, WaitOK, OwnOK
    <3> QED BY <3>1, <3>2, <3>3
  <2> QED BY <2>1, <2>2 DEF Base, Keeps
<1>8. ASSUME TgtChecksCtx PROVE Full'
  <2>1. ASSUME NEW x \in DOMAIN task' PROVE FullOK(task[x])'
    <3>1. CASE x \in new
      BY <1>6, <3>1 DEF FullOK, MatchOK, InHand, DoneOK, Over
    <3>2. CASE x = p
      <4>1. FullOK(task[p])
        BY <1>8 DEF IInv, Full
      <4>2. MatchOK(t) /\ DoneOK(t)
        BY <1>5, <4>1 DEF FullOK, MatchOK, DoneOK, Over
      <4>3. InHand(t)
        <5>1. CASE task[p].pc = "get"
          BY <1>3, <1>5, <5>1 DEF InHand
        <5>2. CASE task[p].pc # "get"
          BY <1>5, <4>1, <5>2 DEF FullOK, InHand
        <5> QED BY <5>1, <5>2
      <4>4. FullOK(t)'
        BY <4>2, <4>3, FullFrame DEF FullOK
      <4> QED BY <1>4, <3>2, <4>4 DEF FullOK, MatchOK, InHand, DoneOK
    <3>3. CASE x \notin new /\ x # p
      <4>1. x \in DOMAIN task /\ task'[x] = task[x]
        BY <1>4, <2>1, <3>3
      <4>2. FullOK(task[x])
        BY <1>8, <4>1 DEF IInv, Full
      <4> QED BY <4>1, <4>2 DEF FullOK, MatchOK, InHand, DoneOK, Stored
    <3> QED BY <3>1, <3>2, <3>3
  <2> QED BY <1>8, <2>1 DEF Full, Keeps
<1>9. ASSUME Plain PROVE Tree'
  <2>1. task[p].pc = "get" /\ pc = "early" /\ task[p].out = {}
    BY <1>9, NoneOut
  <2>2. \A x \in DOMAIN task : PlaceOK(x) /\ HeardOK(x, task[x])
    BY <1>9 DEF IInv, Tree
  \* A task in the way of a new one has returned, and so has all below it.
  <2>3. ASSUME NEW x \in new, x \in DOMAIN task PROVE task[x].out = {}
    <3>1. Len(x) > 1
      BY <1>2, <1>3, <2>3, PathFacts
    <3>2. task[x].pc = "dead"
      BY <1>3, <2>1, <2>2, <2>3, <3>1 DEF HeardOK
    <3> QED BY <2>2, <2>3, <3>2 DEF HeardOK
  <2>4. \A x \in DOMAIN task : task[x].out \subseteq task'[x].out
    BY <1>4, <1>5, <2>3
  <2>5. ASSUME NEW x \in DOMAIN task' PROVE PlaceOK(x) /\ HeardOK(x, task[x])'
    <3>1. CASE x \in new
      <4>1. Len(x) > 1 /\ Len(x) # 1
        BY <1>2, <1>3, <3>1, PathFacts
      <4>2. Last(x).kind \in {"child", "blob"} /\ Last(x).tag = NoTag
        BY <1>3, <1>9, <3>1
      <4>3. PlaceOK(x)
        BY <4>1, <4>2 DEF PlaceOK
      <4>4. Front(x) \in DOMAIN task' /\ x \in task'[Front(x)].out
        BY <1>3, <1>4, <1>5, <3>1
      <4> QED BY <1>6, <3>1, <4>3, <4>4 DEF HeardOK
    <3>2. CASE x = p
      BY <1>4, <1>5, <2>1, <2>2, <2>4, <3>2 DEF HeardOK
    <3>3. CASE x \notin new /\ x # p
      <4>1. x \in DOMAIN task /\ task'[x] = task[x]
        BY <1>4, <2>5, <3>3
      <4> QED BY <1>4, <2>2, <2>4, <4>1 DEF HeardOK
    <3> QED BY <3>1, <3>2, <3>3
  <2> QED BY <1>4, <1>9, <2>5 DEF IInv, Tree, Keeps
<1>10. ASSUME Plain, NEW x \in DOMAIN task' PROVE TagOK(x, task[x])'
  <2>1. CASE x \in new
    BY <1>6, <2>1 DEF TagOK, Over
  <2>2. CASE x = p
    BY <1>4, <1>5, <1>10, <2>2 DEF IInv, TagOK, Over
  <2>3. CASE x \notin new /\ x # p
    BY <1>4, <1>10, <2>3 DEF IInv, TagOK
  <2> QED BY <2>1, <2>2, <2>3
<1> QED BY <1>7, <1>8, <1>9, <1>10 DEF IInv

LEMMA RefOK ==
    ASSUME NEW kind \in Kind, NEW tag \in TagName, NEW dig \in Digest,
           kind = "blob" <=> dig \in Blob
    PROVE  LET r == Ref(kind, tag, dig, 0)
           IN  /\ StepOK(r) /\ r \in Step
               /\ r.kind = kind /\ r.tag = tag /\ r.dig = dig
BY DEF Ref, StepOK, Step

\* The task gives up before or after a request of its own.
LEMMA CanceledIInv ==
    ASSUME IInv, main.result = "busy", UNCHANGED <<seen, finalFn, main, tgt, fails>>,
           NEW p \in DOMAIN task, task[p].pc \in {"get", "refs", "tags", "put", "copy"},
           Ret(p, "canceled")
    PROVE  IInv'
<1>1. "canceled" \in Err /\ task[p].pc \notin Over /\ (Plain => task[p].out = {})
  BY NoneOut DEF Err, Over
<1>2. Keeps
  BY OnlyTask
<1> QED BY <1>1, <1>2, RetIInv

LEMMA GetIInv ==
    ASSUME IInv, main.result = "busy", NEW p \in DOMAIN task, Get(p)
    PROVE  IInv'
<1> DEFINE t == task[p]
           skip == t.tag # NoTag /\ t.match /\ ~ForceRecursive
           kids == {Ref("child", NoTag, m, 0) : m \in Children[t.dig]}
           blobs == {Ref("blob", NoTag, b, 0) : b \in Layers[t.dig]}
           refs == kids \cup blobs
<1>1. t.pc = "get" /\ UNCHANGED <<seen, finalFn, main, tgt, fails>>
  BY DEF Get, At
<1>2. Keeps
  BY <1>1, OnlyTask
<1>3. t.kind # "blob" /\ t.dig \in Manifest
  BY <1>1, FieldFacts DEF IInv, TaskOK, Fit, Over
<1>4. CASE skip /\ Ret(p, "ok")
  <2>1. "ok" \in Err /\ t.pc \notin Over /\ (Plain => t.out = {})
    BY <1>1, NoneOut DEF Err, Over
  <2>2. TgtChecksCtx => t.dig \in tgt'.man \cup tgt'.blob
    BY <1>1, <1>4 DEF IInv, Full, FullOK, MatchOK
  <2>3. Plain /\ p = RootPath /\ RootTag # NoTag => <<RootTag, Root>> \in tgt'.tag
    BY <1>1, <1>4 DEF IInv, TagOK
  <2> QED BY <1>1, <1>2, <1>4, <2>1, <2>2, <2>3, RetIInv
<1>5. CASE skip /\ Go(p, "early")
  BY <1>1, <1>2, <1>5, GoIInv DEF PC
<1>6. CASE Ret(p, "canceled")
  BY <1>1, <1>6, CanceledIInv
<1>7. CASE Spawn(p, refs, "early")
  <2>1. Children[t.dig] \subseteq Manifest /\ Layers[t.dig] \subseteq Blob
        /\ Manifest \cap Blob = {}
    BY <1>3, SourceAssumption
  <2>2. ASSUME NEW m \in Children[t.dig]
        PROVE  LET r == Ref("child", NoTag, m, 0)
               IN  /\ StepOK(r) /\ r \in Step
                   /\ r.kind = "child" /\ r.tag = NoTag /\ r.dig = m
    BY <2>1, <2>2, RefOK DEF Kind, TagName, Digest
  <2>3. ASSUME NEW b \in Layers[t.dig]
        PROVE  LET r == Ref("blob", NoTag, b, 0)
               IN  /\ StepOK(r) /\ r \in Step
                   /\ r.kind = "blob" /\ r.tag = NoTag /\ r.dig = b
    BY <2>1, <2>3, RefOK DEF Kind, TagName, Digest
  <2>4. \A r \in refs : /\ StepOK(r) /\ r \in Step
                        /\ r.kind \in {"child", "blob"} /\ r.tag = NoTag
    <3>1. \A r \in kids : /\ StepOK(r) /\ r \in Step
                          /\ r.kind = "child" /\ r.tag = NoTag
      BY <2>2
    <3>2. \A r \in blobs : /\ StepOK(r) /\ r \in Step
                           /\ r.kind = "blob" /\ r.tag = NoTag
      BY <2>3
    <3> QED BY <3>1, <3>2
  <2>5. ASSUME NEW d \in Content(t.dig)
        PROVE  \E r \in refs : r.dig = d /\ r.kind \notin {"ref", "tag"}
    <3>1. CASE d \in Children[t.dig]
      <4>1. Ref("child", NoTag, d, 0) \in kids
        BY <3>1
      <4> QED BY <2>2, <3>1, <4>1
    <3>2. CASE d \in Layers[t.dig]
      <4>1. Ref("blob", NoTag, d, 0) \in blobs
        BY <3>2
      <4> QED BY <2>3, <3>2, <4>1
    <3> QED BY <2>5, <3>1, <3>2 DEF Content
  <2> HIDE DEF refs
  <2>6. refs \in SUBSET Step /\ "early" \in PC
    BY <2>4 DEF PC
  <2> QED BY <1>1, <1>2, <1>7, <2>4, <2>5, <2>6, SpawnIInv
<1> QED BY <1>4, <1>5, <1>6, <1>7 DEF Get

LEMMA RefsIInv ==
    ASSUME IInv, main.result = "busy", NEW p \in DOMAIN task, Refs(p)
    PROVE  IInv'
<1> DEFINE refs == {Ref("ref", NoTag, m, 0) : m \in Referrers[task[p].dig]}
           pc == IF WithDigestTags THEN "tags" ELSE "drain"
<1>1. task[p].pc = "refs" /\ UNCHANGED <<seen, finalFn, main, tgt, fails>>
  BY DEF Refs, At
<1>2. Keeps
  BY <1>1, OnlyTask
<1>3. task[p].dig \in Manifest /\ ~Plain
  BY <1>1, FieldFacts DEF IInv, TaskOK, Fit, Over, Tree, HeardOK
<1>4. CASE Ret(p, "canceled")
  BY <1>1, <1>4, CanceledIInv
<1>5. CASE Spawn(p, refs, pc)
  <2>1. pc \in PC /\ pc \in {"tags", "drain"}
    BY DEF PC
  <2>2. \A r \in refs : StepOK(r) /\ r \in Step
    <3>1. Referrers[task[p].dig] \subseteq Manifest /\ Manifest \cap Blob = {}
      BY <1>3, SourceAssumption
    <3>2. ASSUME NEW m \in Referrers[task[p].dig]
          PROVE  StepOK(Ref("ref", NoTag, m, 0)) /\ Ref("ref", NoTag, m, 0) \in Step
      BY <3>1, <3>2, RefOK DEF Kind, TagName, Digest
    <3> QED BY <3>2
  <2> HIDE DEF refs, pc
  <2> QED BY <1>1, <1>2, <1>3, <1>5, <2>1, <2>2, SpawnIInv
<1> QED BY <1>4, <1>5 DEF Refs

LEMMA TagsIInv ==
    ASSUME IInv, main.result = "busy", NEW p \in DOMAIN task, Tags(p)
    PROVE  IInv'
<1> DEFINE refs == {Ref("tag", k, TagDigest[k], 0) : k \in DigestTags[task[p].dig]}
<1>1. task[p].pc = "tags" /\ UNCHANGED <<seen, finalFn, main, tgt, fails>>
  BY DEF Tags, At
<1>2. Keeps
  BY <1>1, OnlyTask
<1>3. task[p].dig \in Manifest /\ ~Plain
  BY <1>1, FieldFacts DEF IInv, TaskOK, Fit, Over, Tree, HeardOK
<1>4. CASE Ret(p, "canceled")
  BY <1>1, <1>4, CanceledIInv
<1>5. CASE Spawn(p, refs, "drain")
  <2>1. "drain" \in PC
    BY DEF PC
  <2>2. \A r \in refs : StepOK(r) /\ r \in Step
    <3>1. /\ DigestTags[task[p].dig] \subseteq Tag /\ Manifest \cap Blob = {}
          /\ \A k \in Tag : TagDigest[k] \in Manifest
      BY <1>3, SourceAssumption
    <3>2. ASSUME NEW k \in DigestTags[task[p].dig]
          PROVE  StepOK(Ref("tag", k, TagDigest[k], 0)) /\ Ref("tag", k, TagDigest[k], 0) \in Step
      BY <3>1, <3>2, RefOK DEF Kind, TagName, Digest
    <3> QED BY <3>2
  <2> HIDE DEF refs
  <2> QED BY <1>1, <1>2, <1>3, <1>5, <2>1, <2>2, SpawnIInv
<1> QED BY <1>4, <1>5 DEF Tags

LEMMA EarlyEndIInv ==
    ASSUME IInv, main.result = "busy", NEW p \in DOMAIN task, EarlyEnd(p)
    PROVE  IInv'
<1>1. task[p].pc = "early" /\ UNCHANGED <<seen, finalFn, main, tgt, fails>>
  BY DEF EarlyEnd, At
<1>2. Keeps
  BY <1>1, OnlyTask
<1>3. CASE Go(p, AfterEarly)
  <2>1. AfterEarly \in PC /\ AfterEarly \in {"refs", "tags", "drain"}
        /\ (Plain => AfterEarly = "drain")
    BY DEF AfterEarly, PC, Plain
  <2> QED BY <1>1, <1>2, <1>3, <2>1, GoIInv
<1>4. CASE task[p].err # "ok" /\ task[p].out = {} /\ Ret(p, task[p].err)
  <2>1. task[p].err \in Err /\ task[p].pc \notin Over
    BY <1>1, FieldFacts DEF IInv, Over
  <2> QED BY <1>1, <1>2, <1>4, <2>1, RetIInv
<1> QED BY <1>3, <1>4 DEF EarlyEnd

LEMMA DrainedIInv ==
    ASSUME IInv, main.result = "busy", NEW p \in DOMAIN task, Drained(p)
    PROVE  IInv'
<1>1. /\ task[p].pc = "drain" /\ task[p].out = {}
      /\ UNCHANGED <<seen, finalFn, main, tgt, fails>>
  BY DEF Drained, At
<1>2. Keeps
  BY <1>1, OnlyTask
<1>3. CASE Go(p, "put")
  BY <1>1, <1>2, <1>3, GoIInv DEF PC
<1>4. CASE task[p].err # "ok" /\ Ret(p, task[p].err)
  <2>1. task[p].err \in Err /\ task[p].pc \notin Over
    BY <1>1, FieldFacts DEF IInv, Over
  <2> QED BY <1>1, <1>2, <1>4, <2>1, RetIInv
<1> QED BY <1>3, <1>4 DEF Drained
-----------------------------------------------------------------------------
LEMMA ReceiveFacts ==
    ASSUME Base, NEW p \in DOMAIN task, NEW c \in task[p].out, Receive(p, c)
    PROVE  LET old == task[p].err
               new == task[c].err
           IN  /\ c \in DOMAIN task /\ c # p /\ DOMAIN task' = DOMAIN task
               /\ \A q \in DOMAIN task \ {p, c} : task'[q] = task[q]
               /\ task'[c] = [task[c] EXCEPT !.pc = "dead"]
               /\ \E err \in Err, cancel \in BOOLEAN :
                    /\ task'[p] = [task[p] EXCEPT !.out = @ \ {c}, !.err = err, !.cancel = cancel]
                    /\ err = IF old \in {"ok", "canceled"} THEN new ELSE old
                    /\ cancel <=> task[p].cancel \/ (old = "ok" /\ new # "ok")
<1> DEFINE old == task[p].err
           new == task[c].err
           err == IF old \in {"ok", "canceled"} THEN new ELSE old
           cancel == task[p].cancel \/ (old = "ok" /\ new # "ok")
<1>1. c \in DOMAIN task /\ Len(c) = Len(p) + 1 /\ Len(p) \in Nat
  BY FieldFacts, PathFacts DEF TaskOK, OutOK
<1>2. c # p
  BY <1>1
<1>3. err \in Err
  BY <1>1, FieldFacts
<1>4. cancel \in BOOLEAN
  BY FieldFacts DEF Rec
<1>5. task' = [task EXCEPT ![p].out = @ \ {c}, ![p].err = err, ![p].cancel = cancel,
                           ![c].pc = "dead"]
  BY DEF Receive
<1> HIDE DEF err, cancel
<1>6. /\ DOMAIN task' = DOMAIN task
      /\ \A q \in DOMAIN task \ {p, c} : task'[q] = task[q]
      /\ task'[c] = [task[c] EXCEPT !.pc = "dead"]
      /\ task'[p] = [task[p] EXCEPT !.out = @ \ {c}, !.err = err, !.cancel = cancel]
  BY <1>1, <1>2, <1>5
<1> QED BY <1>1, <1>2, <1>3, <1>4, <1>6 DEF err, cancel

LEMMA ReceiveIInv ==
    ASSUME IInv, main.result = "busy", UNCHANGED <<seen, finalFn, main, tgt, fails>>,
           NEW p \in DOMAIN task, task[p].pc \in {"early", "drain"},
           NEW c \in task[p].out, task[c].pc = "send", Receive(p, c)
    PROVE  IInv'
<1>1. PICK u, v : u = task'[p] /\ v = task'[c]
  OBVIOUS
<1>2. /\ c \in DOMAIN task /\ c # p /\ DOMAIN task' = DOMAIN task
      /\ \A q \in DOMAIN task \ {p, c} : task'[q] = task[q]
      /\ v = [task[c] EXCEPT !.pc = "dead"]
  <2>1. Base
    BY DEF IInv
  <2> QED BY <1>1, <2>1, ReceiveFacts, ZenonT(60)
<1>3. PICK err \in Err, cancel \in BOOLEAN :
        /\ u = [task[p] EXCEPT !.out = @ \ {c}, !.err = err, !.cancel = cancel]
        /\ err = IF task[p].err \in {"ok", "canceled"} THEN task[c].err ELSE task[p].err
        /\ cancel <=> task[p].cancel \/ (task[p].err = "ok" /\ task[c].err # "ok")
  <2>1. PICK err \in Err, cancel \in BOOLEAN :
          /\ task'[p] = [task[p] EXCEPT !.out = @ \ {c}, !.err = err, !.cancel = cancel]
          /\ err = IF task[p].err \in {"ok", "canceled"} THEN task[c].err ELSE task[p].err
          /\ cancel <=> task[p].cancel \/ (task[p].err = "ok" /\ task[c].err # "ok")
    BY ReceiveFacts DEF IInv
  <2>2. u = [task[p] EXCEPT !.out = @ \ {c}, !.err = err, !.cancel = cancel]
    BY <1>1, <2>1
  <2> QED BY <2>1, <2>2
<1>4. /\ task[p] \in Rec /\ TaskOK(p, task[p]) /\ p \in Path
      /\ task[c] \in Rec /\ TaskOK(c, task[c]) /\ c \in Path
  BY <1>2, FieldFacts DEF IInv
<1>5. /\ u \in Rec /\ u.out = task[p].out \ {c} /\ u.err = err /\ (u.cancel <=> cancel)
      /\ u.kind = task[p].kind /\ u.tag = task[p].tag /\ u.dig = task[p].dig
      /\ u.pc = task[p].pc /\ u.own = task[p].own /\ u.entry = task[p].entry
      /\ u.on = task[p].on /\ u.match = task[p].match
  BY <1>3, <1>4 DEF Rec
<1>6. /\ v \in Rec /\ v.pc = "dead"
      /\ v.kind = task[c].kind /\ v.tag = task[c].tag /\ v.dig = task[c].dig
      /\ v.own = task[c].own /\ v.entry = task[c].entry /\ v.on = task[c].on
      /\ v.match = task[c].match /\ v.out = task[c].out /\ v.cancel = task[c].cancel
      /\ v.err = task[c].err
  BY <1>2, <1>4, GoRec DEF PC
<1>7. Keeps
  BY OnlyTask
<1>8. err # "ok" => cancel
  BY <1>3, <1>4 DEF TaskOK, Fit, Over
<1>9. Base'
  <2>1. SeenOK'
    BY <1>2 DEF IInv, Base, SeenOK
  <2>2. Fit(p, u) /\ OutOK(p, u) /\ WaitOK(u) /\ OwnOK(p, u)
    <3>1. Fit(p, u)
      BY <1>4, <1>5, <1>8 DEF TaskOK, Fit, Over
    <3> QED BY <1>4, <1>5, <3>1 DEF TaskOK, OutOK, WaitOK, OwnOK
  <2>3. Fit(c, v) /\ OutOK(c, v) /\ WaitOK(v) /\ OwnOK(c, v)
    <3>1. Fit(c, v)
      BY <1>4, <1>6 DEF TaskOK, Fit, Over
    <3> QED BY <1>4, <1>6, <3>1 DEF TaskOK, OutOK, WaitOK, OwnOK
  <2>4. ASSUME NEW q \in DOMAIN task' PROVE q \in Path /\ TaskOK(q, task[q])'
    <3>1. q \in Path /\ TaskOK(q, task'[q])
      <4>1. CASE q = p
        BY <1>1, <1>4, <1>5, <2>2, <4>1 DEF TaskOK
      <4>2. CASE q = c
        BY <1>1, <1>4, <1>6, <2>3, <4>2 DEF TaskOK
      <4>3. CASE q \notin {p, c}
        BY <1>2, <2>4, <4>3, FieldFacts DEF IInv
      <4> QED BY <4>1, <4>2, <4>3
    <3> QED BY <1>2, <3>1 DEF TaskOK, OutOK, WaitOK, OwnOK
  <2> QED BY <1>7, <2>1, <2>4 DEF Base, Keeps
<1>10. ASSUME TgtChecksCtx PROVE Full'
  <2>1. \A q \in DOMAIN task : FullOK(task[q])
    BY <1>10 DEF IInv, Full
  <2>2. FullOK(v)
    BY <1>2, <1>6, <2>1 DEF FullOK, MatchOK, InHand, DoneOK, Over
  <2>3. FullOK(u)
    <3>1. MatchOK(u) /\ DoneOK(u)
      BY <1>5, <2>1 DEF FullOK, MatchOK, DoneOK, Over
    <3>2. ASSUME ~u.cancel, NEW d \in Content(u.dig)
          PROVE  Stored(d) \/ \E x \in u.out : Last(x).dig = d /\ Last(x).kind \notin {"ref", "tag"}
      <4>1. task[c].err = "ok" /\ ~task[p].cancel
        BY <1>3, <1>4, <1>5, <3>2 DEF TaskOK, Fit, Over
      <4>2. \/ Stored(d)
            \/ \E x \in task[p].out : Last(x).dig = d /\ Last(x).kind \notin {"ref", "tag"}
        BY <1>5, <2>1, <3>2, <4>1 DEF FullOK, InHand
      <4>3. Last(c).kind \notin {"ref", "tag"} => Stored(Last(c).dig)
        BY <1>2, <1>4, <2>1, <4>1 DEF FullOK, DoneOK, Over, TaskOK, Fit
      <4> QED BY <1>5, <4>2, <4>3
    <3> QED BY <1>5, <3>1, <3>2 DEF FullOK, InHand
  <2>4. ASSUME NEW q \in DOMAIN task' PROVE FullOK(task[q])'
    <3>1. FullOK(task'[q])
      BY <1>1, <1>2, <2>1, <2>2, <2>3, <2>4
    <3> QED BY <3>1 DEF FullOK, MatchOK, InHand, DoneOK, Stored
  <2> QED BY <1>7, <1>10, <2>4 DEF Full, Keeps
<1>11. ASSUME Plain PROVE Tree'
  <2>1. \A q \in DOMAIN task : PlaceOK(q) /\ HeardOK(q, task[q])
    BY <1>11 DEF IInv, Tree
  <2>2. ASSUME NEW q \in DOMAIN task PROVE task[q].out \ {c} \subseteq task'[q].out
    <3>1. CASE q = p
      BY <1>1, <1>5, <3>1
    <3>2. CASE q # p
      <4>1. task'[q].out = task[q].out
        BY <1>1, <1>2, <1>6, <2>2, <3>2
      <4> QED BY <4>1
    <3> QED BY <3>1, <3>2
  <2>3. ASSUME NEW q \in DOMAIN task' PROVE PlaceOK(q) /\ HeardOK(q, task[q])'
    <3>1. CASE q = c
      <4>1. task'[c].pc = "dead" /\ task'[c].out = task[c].out
        BY <1>1, <1>6
      <4>2. PlaceOK(c) /\ HeardOK(c, task[c])
        BY <1>2, <2>1
      <4>3. task[c].out = {}
        BY <4>2 DEF HeardOK
      <4> QED BY <3>1, <4>1, <4>2, <4>3 DEF HeardOK
    <3>2. CASE q # c
      <4>1. task'[q].pc = task[q].pc /\ (task[q].out = {} => task'[q].out = {})
        BY <1>1, <1>2, <1>5, <2>3, <3>2
      <4> QED BY <1>2, <2>1, <2>2, <2>3, <3>2, <4>1 DEF HeardOK
    <3> QED BY <3>1, <3>2
  <2> QED BY <1>2, <1>11, <2>3 DEF IInv, Tree
<1>12. ASSUME Plain, NEW q \in DOMAIN task' PROVE TagOK(q, task[q])'
  <2>1. TagOK(q, task[q])
    BY <1>2, <1>12 DEF IInv
  <2>2. CASE q = p
    BY <1>1, <1>5, <2>1, <2>2 DEF TagOK, Over
  <2>3. CASE q = c
    BY <1>1, <1>6, <2>1, <2>3 DEF TagOK, Over
  <2>4. CASE q \notin {p, c}
    BY <1>2, <1>12, <2>1, <2>4 DEF TagOK
  <2> QED BY <2>2, <2>3, <2>4
<1> QED BY <1>9, <1>10, <1>11, <1>12 DEF IInv
-----------------------------------------------------------------------------
LEMMA OwnCancel ==
    ASSUME Base, NEW p \in DOMAIN task, task[p].cancel
    PROVE  Canceled(p)
<1>1. Len(p) \in 1 .. Len(p) /\ SubSeq(p, 1, Len(p)) = p
  BY FieldFacts, PathFacts
<1> QED BY <1>1 DEF Canceled

LEMMA PutIInv ==
    ASSUME IInv, main.result = "busy", NEW p \in DOMAIN task, Put(p)
    PROVE  IInv'
<1>1. task[p].pc = "put" /\ UNCHANGED <<seen, finalFn, main, fails>>
  BY DEF Put, At
<1>2. "ok" \in Err /\ task[p].pc \notin Over /\ (Plain => task[p].out = {})
  BY <1>1, NoneOut DEF Err, Over
<1>3. task[p].dig \in Manifest /\ task[p].tag \in TagName /\ KeyOf(p) = <<task[p].tag, task[p].dig>>
  BY <1>1, FieldFacts DEF IInv, TaskOK, Fit, Over
<1>4. CASE ~NeedsPut(p) /\ Ret(p, "ok") /\ UNCHANGED tgt
  <2>1. task[p].match
    BY <1>4 DEF NeedsPut
  <2>2. TgtChecksCtx => task[p].dig \in tgt'.man \cup tgt'.blob
    BY <1>4, <2>1 DEF IInv, Full, FullOK, MatchOK
  <2>3. Plain /\ p = RootPath /\ RootTag # NoTag => <<RootTag, Root>> \in tgt'.tag
    BY <1>4, <2>1 DEF IInv, TagOK
  <2>4. Keeps
    BY <1>1, <1>4, OnlyTask
  <2> QED BY <1>1, <1>2, <1>4, <2>2, <2>3, <2>4, RetIInv
<1>5. CASE Ret(p, "canceled") /\ UNCHANGED tgt
  BY <1>1, <1>5, CanceledIInv
<1>6. CASE /\ ~(TgtChecksCtx /\ Canceled(p)) /\ Ret(p, "ok")
           /\ tgt' = [tgt EXCEPT
                        !.man = @ \cup {task[p].dig},
                        !.tag = IF task[p].tag = NoTag THEN @
                                ELSE {x \in @ : x[1] # task[p].tag} \cup {KeyOf(p)}]
  <2> DEFINE tag == IF task[p].tag = NoTag THEN tgt.tag
                    ELSE {x \in tgt.tag : x[1] # task[p].tag} \cup {KeyOf(p)}
  <2>1. tgt \in Target /\ tgt' = [tgt EXCEPT !.man = @ \cup {task[p].dig}, !.tag = tag]
    BY <1>6 DEF IInv, Base, RestOK
  <2>2. tag \in SUBSET (TagName \X Manifest)
    BY <1>3, <2>1 DEF Target
  <2>3. \A k \in tag : k \in tgt.tag \/ k = <<task[p].tag, task[p].dig>>
    BY <1>3
  <2>4. ASSUME Plain, RootTag # NoTag
        PROVE  /\ <<RootTag, Root>> \in tgt.tag => <<RootTag, Root>> \in tag
               /\ p = RootPath => <<RootTag, Root>> \in tag
    <3>1. CASE p = RootPath
      BY <1>3, <2>4, <3>1, RootFields
    <3>2. CASE p # RootPath
      <4>1. task[p].tag = NoTag
        BY <2>4, <3>2, FieldFacts DEF IInv, Tree, PlaceOK, TaskOK, Fit
      <4> QED BY <3>2, <4>1
    <3> QED BY <3>1, <3>2
  <2> HIDE DEF tag
  <2>5. /\ tgt' \in Target /\ tgt'.man = tgt.man \cup {task[p].dig}
        /\ tgt'.blob = tgt.blob /\ tgt'.tag = tag
    BY <1>3, <2>1, <2>2 DEF Target
  <2>6. RestOK'
    BY <1>1, <2>5 DEF IInv, Base, RestOK
  <2>7. ASSUME TgtChecksCtx PROVE TargetOK'
    <3>1. ~task[p].cancel
      BY <1>6, <2>7, OwnCancel DEF IInv
    <3>2. TargetOK /\ FullOK(task[p])
      BY <2>7 DEF IInv, Full
    <3>3. \A d \in Content(task[p].dig) : Stored(d)
      BY <1>1, <3>1, <3>2 DEF FullOK, InHand
    <3>4. Children[task[p].dig] \subseteq tgt.man /\ Layers[task[p].dig] \subseteq tgt.blob
      <4>1. Children[task[p].dig] \subseteq Manifest /\ Layers[task[p].dig] \subseteq Blob
            /\ Manifest \cap Blob = {}
        BY <1>3, SourceAssumption
      <4>2. tgt.man \subseteq Manifest /\ tgt.blob \subseteq Blob
        BY <2>1 DEF Target
      <4> QED BY <3>3, <4>1, <4>2 DEF Content, Stored
    <3>5. TargetClosed'
      BY <2>5, <3>2, <3>4 DEF TargetOK, TargetClosed
    <3>6. \A k \in tgt'.tag : k[2] \in tgt'.man
      BY <2>3, <2>5, <3>2 DEF TargetOK
    <3> QED BY <3>5, <3>6 DEF TargetOK
  <2>8. Keeps
    BY <1>1, <2>4, <2>5, <2>6, <2>7 DEF Keeps
  <2> QED BY <1>1, <1>2, <1>6, <2>4, <2>5, <2>8, RetIInv
<1> QED BY <1>4, <1>5, <1>6 DEF Put

LEMMA CopyBlobIInv ==
    ASSUME IInv, main.result = "busy", NEW p \in DOMAIN task, CopyBlob(p)
    PROVE  IInv'
<1>1. task[p].pc = "copy" /\ UNCHANGED <<seen, finalFn, main, fails>>
  BY DEF CopyBlob, At
<1>2. "ok" \in Err /\ task[p].pc \notin Over /\ (Plain => task[p].out = {})
  BY <1>1, NoneOut DEF Err, Over
<1>3. task[p].dig \in Blob /\ task[p].kind = "blob"
  BY <1>1, FieldFacts DEF IInv, TaskOK, Fit
<1>4. CASE Ret(p, "canceled") /\ UNCHANGED tgt
  BY <1>1, <1>4, CanceledIInv
<1>5. CASE Ret(p, "ok") /\ tgt' = [tgt EXCEPT !.blob = @ \cup {task[p].dig}]
  <2>1. /\ tgt' \in Target /\ tgt'.man = tgt.man /\ tgt'.tag = tgt.tag
        /\ tgt'.blob = tgt.blob \cup {task[p].dig}
    BY <1>3, <1>5 DEF IInv, Base, RestOK, Target
  <2>2. RestOK'
    BY <1>1, <2>1 DEF IInv, Base, RestOK
  <2>3. TgtChecksCtx => TargetOK'
    BY <2>1 DEF IInv, Full, TargetOK, TargetClosed
  <2>4. Keeps
    BY <1>1, <2>1, <2>2, <2>3 DEF Keeps
  <2>5. p # RootPath
    BY <1>3, RootFields
  <2> QED BY <1>1, <1>2, <1>5, <2>1, <2>4, <2>5, RetIInv
<1> QED BY <1>4, <1>5 DEF CopyBlob

LEMMA SeenCBIInv ==
    ASSUME IInv, main.result = "busy", NEW p \in DOMAIN task, SeenCB(p)
    PROVE  IInv'
<1> DEFINE pc == IF task[p].err = "ok" THEN "post" ELSE "unsee"
<1>1. PICK t : t = [task[p] EXCEPT !.entry = task[p].err, !.pc = pc]
  OBVIOUS
<1>2. Upd(p, t) /\ task[p].pc = "ret" /\ UNCHANGED <<seen, finalFn, main, tgt, fails>>
  BY <1>1 DEF SeenCB, At
<1>3. task[p] \in Rec /\ TaskOK(p, task[p]) /\ p \in Path /\ task[p].err \in Err
  BY FieldFacts DEF IInv
<1>4. pc \in {"post", "unsee"} /\ pc \in PC /\ (pc = "post" <=> task[p].err = "ok")
  BY DEF PC
<1> HIDE DEF pc
<1>5. /\ t \in Rec /\ t.pc = pc /\ t.entry = task[p].err
      /\ t.kind = task[p].kind /\ t.tag = task[p].tag /\ t.dig = task[p].dig
      /\ t.own = task[p].own /\ t.on = task[p].on
      /\ t.match = task[p].match /\ t.out = task[p].out /\ t.cancel = task[p].cancel
      /\ t.err = task[p].err
  BY <1>1, <1>3, <1>4 DEF Rec
<1>6. TaskOK(p, t)
  <2>1. t.entry # "busy"
    BY <1>3, <1>5 DEF Err
  <2>2. Fit(p, t)
    BY <1>2, <1>3, <1>4, <1>5, <2>1 DEF TaskOK, Fit, Over
  <2>3. task[p].own /\ task[p].entry = "busy"
    BY <1>2, <1>3 DEF TaskOK, Fit, Over
  <2>4. OutOK(p, t) /\ WaitOK(t) /\ OwnOK(p, t)
    BY <1>3, <1>4, <1>5, <2>3 DEF TaskOK, OutOK, WaitOK, OwnOK
  <2> QED BY <1>5, <2>2, <2>4 DEF TaskOK
<1>7. Keeps
  BY <1>2, OnlyTask
<1>8. Base'
  BY <1>2, <1>6, <1>7, MoveBase DEF IInv, Keeps
<1>9. TgtChecksCtx => FullOK(t)'
  <2>1. TgtChecksCtx => FullOK(t)
    BY <1>2, <1>4, <1>5 DEF IInv, Full, FullOK, MatchOK, InHand, DoneOK, Over
  <2> QED BY <1>7, <2>1, FullFrame
<1>10. Plain => TagOK(p, t)' /\ t.out = {}
  BY <1>2, <1>4, <1>5, NoneOut DEF IInv, TagOK, Over
<1> QED BY <1>2, <1>4, <1>5, <1>7, <1>8, <1>9, <1>10, MoveIInv

LEMMA UnseeIInv ==
    ASSUME IInv, main.result = "busy", NEW p \in DOMAIN task, Unsee(p)
    PROVE  IInv'
<1>1. PICK t : t = [task[p] EXCEPT !.pc = "post"]
  OBVIOUS
<1>2. /\ Upd(p, t) /\ task[p].pc = "unsee"
      /\ seen' = [k \in DOMAIN seen \ {KeyOf(p)} |-> seen[k]]
      /\ UNCHANGED <<finalFn, main, tgt, fails>>
  BY <1>1 DEF Unsee, At, Go
<1>3. task[p] \in Rec /\ TaskOK(p, task[p]) /\ p \in Path /\ KeyOf(p) = NameOf(p)
  BY FieldFacts DEF IInv
<1>4. /\ t \in Rec /\ t.pc = "post"
      /\ t.kind = task[p].kind /\ t.tag = task[p].tag /\ t.dig = task[p].dig
      /\ t.own = task[p].own /\ t.entry = task[p].entry /\ t.on = task[p].on
      /\ t.match = task[p].match /\ t.out = task[p].out /\ t.cancel = task[p].cancel
      /\ t.err = task[p].err
  BY <1>1, <1>3, GoRec DEF PC
<1>5. /\ DOMAIN seen' = DOMAIN seen \ {NameOf(p)}
      /\ \A k \in DOMAIN seen' : seen'[k] = seen[k]
      /\ seen[NameOf(p)] = p
  BY <1>2, <1>3 DEF TaskOK, Fit, OwnOK
<1>6. Keeps
  BY <1>2, KeepsNothing DEF IInv, Base, RestOK
<1>7. Base'
  <2>1. /\ DOMAIN task' = DOMAIN task /\ task'[p] = t
        /\ \A q \in DOMAIN task : q # p => task'[q] = task[q]
    BY <1>2 DEF Upd
  <2>2. SeenOK'
    BY <1>5, <2>1 DEF IInv, Base, SeenOK
  <2>3. ASSUME NEW q \in DOMAIN task' PROVE q \in Path /\ TaskOK(q, task[q])'
    <3>1. CASE q = p
      <4>1. Fit(p, t) /\ t.entry # "busy"
        BY <1>2, <1>3, <1>4 DEF TaskOK, Fit, Over
      <4>2. OutOK(p, t)' /\ WaitOK(t)' /\ OwnOK(p, t)'
        BY <1>3, <1>4, <2>1, <4>1 DEF TaskOK, OutOK, WaitOK, OwnOK
      <4>3. TaskOK(p, t)'
        BY <1>4, <4>1, <4>2 DEF TaskOK
      <4> QED BY <1>3, <2>1, <3>1, <4>3 DEF TaskOK, OutOK, WaitOK, OwnOK
    <3>2. CASE q # p
      <4>1. q \in Path /\ TaskOK(q, task[q]) /\ task'[q] = task[q]
        BY <2>1, <2>3, <3>2, FieldFacts DEF IInv
      <4> QED BY <1>5, <2>1, <3>2, <4>1 DEF TaskOK, OutOK, WaitOK, OwnOK
    <3> QED BY <3>1, <3>2
  <2> QED BY <1>6, <2>2, <2>3 DEF Base, Keeps
<1>8. TgtChecksCtx => FullOK(t)'
  <2>1. TgtChecksCtx => FullOK(t)
    BY <1>2, <1>4 DEF IInv, Full, FullOK, MatchOK, InHand, DoneOK, Over
  <2> QED BY <1>6, <2>1, FullFrame
<1>9. Plain => TagOK(p, t)' /\ t.out = {}
  BY <1>2, <1>4, NoneOut DEF IInv, TagOK, Over
<1> QED BY <1>2, <1>4, <1>6, <1>7, <1>8, <1>9, MoveIInv

LEMMA PostIInv ==
    ASSUME IInv, main.result = "busy", NEW p \in DOMAIN task, Post(p)
    PROVE  IInv'
<1>1. /\ task[p].pc = "post" /\ UNCHANGED <<seen, main, tgt, fails>>
      /\ task[p].kind \notin {"root", "final"}
  BY DEF Post, At
<1>2. /\ task[p] \in Rec /\ TaskOK(p, task[p]) /\ p \in Path /\ KeyOf(p) = <<task[p].tag, task[p].dig>>
      /\ task[p].kind \in Kind /\ task[p].tag \in TagName /\ task[p].err \in Err
      /\ (task[p].kind # "blob" => task[p].dig \in Manifest)
  BY FieldFacts DEF IInv
<1>3. PICK t, err : /\ t = [task[p] EXCEPT !.pc = "send", !.err = err]
                    /\ err \in Err /\ Upd(p, t)
                    /\ (err = task[p].err \/ task[p].kind \in {"ref", "tag"})
  <2>1. CASE task[p].kind \in {"ref", "tag"} /\ task[p].err = "loop"
    BY <2>1 DEF Post, Err
  <2>2. CASE ~(task[p].kind \in {"ref", "tag"} /\ task[p].err = "loop")
    <3>1. Upd(p, [task[p] EXCEPT !.pc = "send"])
      BY <2>2 DEF Post, Go
    <3>2. [task[p] EXCEPT !.pc = "send"] = [task[p] EXCEPT !.pc = "send", !.err = task[p].err]
      BY <1>2 DEF Rec
    <3> QED BY <1>2, <3>1, <3>2
  <2> QED BY <2>1, <2>2
<1>4. /\ t \in Rec /\ t.pc = "send" /\ t.err = err
      /\ t.kind = task[p].kind /\ t.tag = task[p].tag /\ t.dig = task[p].dig
      /\ t.own = task[p].own /\ t.entry = task[p].entry /\ t.on = task[p].on
      /\ t.match = task[p].match /\ t.out = task[p].out /\ t.cancel = task[p].cancel
  BY <1>2, <1>3 DEF Rec, PC
<1>5. TaskOK(p, t)
  <2>1. Fit(p, t)
    BY <1>1, <1>2, <1>4 DEF TaskOK, Fit, Over
  <2>2. OutOK(p, t) /\ WaitOK(t) /\ OwnOK(p, t)
    BY <1>1, <1>2, <1>4 DEF TaskOK, OutOK, WaitOK, OwnOK
  <2> QED BY <1>4, <2>1, <2>2 DEF TaskOK
<1>6. Plain => task[p].kind \notin {"ref", "tag"}
  <2>1. p = RootPath => task[p].kind = "root"
    BY RootFields
  <2> QED BY <1>1, <1>2, <2>1 DEF IInv, Tree, PlaceOK, TaskOK, Fit
<1>7. Keeps
  <2>1. \/ UNCHANGED finalFn
        \/ /\ task[p].kind \in {"ref", "tag"} /\ finalFn' = Append(finalFn, KeyOf(p))
    BY DEF Post
  <2>2. finalFn \in Seq(TagName \X Manifest) /\ main.n <= Len(finalFn) /\ main.n \in Nat
    BY DEF IInv, Base, RestOK, MainRec
  <2>3. finalFn' \in Seq(TagName \X Manifest) /\ main.n <= Len(finalFn')
    <3>1. CASE UNCHANGED finalFn
      BY <2>2, <3>1
    <3>2. CASE task[p].kind \in {"ref", "tag"} /\ finalFn' = Append(finalFn, KeyOf(p))
      <4>1. KeyOf(p) \in TagName \X Manifest
        BY <1>2, <3>2
      <4> QED BY <2>2, <3>2, <4>1
    <3> QED BY <2>1, <3>1, <3>2
  <2>4. RestOK'
    BY <1>1, <2>3 DEF IInv, Base, RestOK
  <2>5. TgtChecksCtx => TargetOK'
    BY <1>1 DEF IInv, Full, TargetOK, TargetClosed
  <2> QED BY <1>1, <1>6, <2>1, <2>4, <2>5 DEF Keeps
<1>8. Base'
  BY <1>1, <1>3, <1>5, <1>7, MoveBase DEF IInv, Keeps
<1>9. TgtChecksCtx => FullOK(t)'
  <2>1. TgtChecksCtx => FullOK(t)
    BY <1>1, <1>3, <1>4 DEF IInv, Full, FullOK, MatchOK, InHand, DoneOK, Over
  <2> QED BY <1>7, <2>1, FullFrame
<1>10. Plain => TagOK(p, t)' /\ t.out = {}
  BY <1>1, <1>3, <1>4, <1>6, NoneOut DEF IInv, TagOK, Over
<1> QED BY <1>1, <1>3, <1>4, <1>7, <1>8, <1>9, <1>10, MoveIInv
-----------------------------------------------------------------------------
Dead(t) == [t EXCEPT !.pc = "dead"]

\* The next put-off copy, f, takes over from p.
HandsOver(p, f) ==
    task' = With([task EXCEPT ![p] = Dead(task[p])], <<f>>, NewTask(f.kind, f.tag, f.dig))

LEMMA ReturnFacts ==
    ASSUME IInv, NEW p \in DOMAIN task, Return(p)
    PROVE  /\ task[p].pc = "post" /\ task[p].kind \in {"root", "final"}
           /\ UNCHANGED <<seen, finalFn, tgt, fails>>
           /\ \/ /\ main' = [main EXCEPT !.result = task[p].err]
                 /\ Upd(p, Dead(task[p]))
              \/ /\ ~Plain
                 /\ \E i \in Nat, n \in Nat, f \in Step :
                      /\ main' = [main EXCEPT !.i = i, !.n = n] /\ n <= Len(finalFn)
                      /\ StepOK(f) /\ HandsOver(p, f)
<1> DEFINE n == IF task[p].kind = "root" THEN Len(finalFn) ELSE main.n
           i == main.i + 1
           f == Ref("final", finalFn[i][1], finalFn[i][2], i)
           u == Dead(task[p])
<1>1. /\ task[p].pc = "post" /\ task[p].kind \in {"root", "final"}
      /\ UNCHANGED <<seen, finalFn, tgt, fails>>
  BY DEF Return, At
<1>2. [task EXCEPT ![p].pc = "dead"] = [task EXCEPT ![p] = u]
  BY DEF Dead
<1>3. /\ finalFn \in Seq(TagName \X Manifest) /\ main.n <= Len(finalFn) /\ main.n \in Nat
      /\ main.i \in Nat
  BY DEF IInv, Base, RestOK, MainRec
<1>4. n \in Nat /\ n <= Len(finalFn) /\ i \in Nat \ {0}
  BY <1>3
<1>5. CASE task[p].err # "ok" \/ i > n
  <2>1. main' = [main EXCEPT !.result = task[p].err] /\ Upd(p, u)
    BY <1>2, <1>5 DEF Return, Upd
  <2> QED BY <1>1, <2>1
<1>6. CASE ~(task[p].err # "ok" \/ i > n)
  <2>1. /\ main' = [main EXCEPT !.i = i, !.n = n]
        /\ task' = With([task EXCEPT ![p] = u], <<f>>, NewTask("final", f.tag, f.dig))
    BY <1>2, <1>6 DEF Return
  <2>2. i \in 1 .. Len(finalFn)
    BY <1>4, <1>6
  <2>3. finalFn[i] \in TagName \X Manifest
    BY <1>3, <2>2
  <2>4. finalFn[i][1] \in TagName /\ finalFn[i][2] \in Manifest
    BY <2>3
  <2>5. StepOK(f) /\ f \in Step /\ f.kind = "final"
    <3> HIDE DEF i
    <3>1. f.kind = "final" /\ f.tag = finalFn[i][1] /\ f.dig = finalFn[i][2] /\ f \in Step
      BY <1>4, <2>4 DEF Ref, Step, Kind, Digest
    <3> QED BY <2>4, <3>1, SourceAssumption DEF StepOK
  <2>6. ~Plain
    BY <2>2 DEF IInv, Tree
  <2>7. HandsOver(p, f)
    BY <2>1, <2>5 DEF HandsOver
  <2> HIDE DEF f, i, n
  <2> QED BY <1>1, <1>4, <2>1, <2>5, <2>6, <2>7
<1> QED BY <1>5, <1>6

LEMMA DeadOK ==
    ASSUME IInv, NEW p \in DOMAIN task, task[p].pc = "post", task[p].kind \in {"root", "final"},
           NEW t, t = Dead(task[p])
    PROVE  /\ TaskOK(p, t) /\ t.pc = "dead" /\ t.err = task[p].err /\ t.out = task[p].out
           /\ TgtChecksCtx => FullOK(t)
           /\ Plain => TagOK(p, t) /\ p = RootPath /\ t.out = {}
<1>1. task[p] \in Rec /\ TaskOK(p, task[p]) /\ p \in Path
  BY FieldFacts DEF IInv
<1>2. /\ t \in Rec /\ t.pc = "dead"
      /\ t.kind = task[p].kind /\ t.tag = task[p].tag /\ t.dig = task[p].dig
      /\ t.own = task[p].own /\ t.entry = task[p].entry /\ t.on = task[p].on
      /\ t.match = task[p].match /\ t.out = task[p].out /\ t.cancel = task[p].cancel
      /\ t.err = task[p].err
  BY <1>1, GoRec DEF Dead, PC
<1>3. TaskOK(p, t)
  <2>1. Fit(p, t)
    BY <1>1, <1>2 DEF TaskOK, Fit, Over
  <2>2. OutOK(p, t) /\ WaitOK(t) /\ OwnOK(p, t)
    BY <1>1, <1>2 DEF TaskOK, OutOK, WaitOK, OwnOK
  <2> QED BY <1>2, <2>1, <2>2 DEF TaskOK
<1>4. TgtChecksCtx => FullOK(t)
  BY <1>2 DEF IInv, Full, FullOK, MatchOK, InHand, DoneOK, Over
<1>5. Plain => TagOK(p, t)
  BY <1>2 DEF IInv, TagOK, Over
<1>6. Plain => p = RootPath
  BY <1>1 DEF IInv, Tree, PlaceOK, TaskOK, Fit
<1>7. Plain => t.out = {}
  BY <1>2, NoneOut
<1> QED BY <1>2, <1>3, <1>4, <1>5, <1>6, <1>7

LEMMA ReturnIInv ==
    ASSUME IInv, main.result = "busy", NEW p \in DOMAIN task, Return(p)
    PROVE  IInv'
<1>1. PICK t : t = Dead(task[p])
  OBVIOUS
<1>2. /\ task[p].pc = "post" /\ task[p].kind \in {"root", "final"}
      /\ UNCHANGED <<seen, finalFn, tgt, fails>>
  BY ReturnFacts
<1>3. /\ TaskOK(p, t) /\ t.pc = "dead" /\ t.err = task[p].err /\ t.out = task[p].out
      /\ TgtChecksCtx => FullOK(t)
      /\ Plain => TagOK(p, t) /\ p = RootPath /\ t.out = {}
  BY <1>1, <1>2, DeadOK
<1>4. TgtChecksCtx => TargetOK' /\ \A q \in DOMAIN task : FullOK(task[q])
  BY <1>2 DEF IInv, Full, TargetOK, TargetClosed
<1>5. main \in MainRec /\ main.n <= Len(finalFn) /\ task[p].err \in Err
  BY FieldFacts DEF IInv, Base, RestOK
<1>6. CASE main' = [main EXCEPT !.result = task[p].err] /\ Upd(p, Dead(task[p]))
  <2>1. /\ Upd(p, t) /\ DOMAIN task' = DOMAIN task /\ task'[p] = t
        /\ \A q \in DOMAIN task : q # p => task'[q] = task[q]
    BY <1>1, <1>6 DEF Upd
  <2>2. main' \in MainRec /\ main'.n = main.n /\ main'.result = task[p].err
    BY <1>5, <1>6 DEF MainRec
  <2>3. RestOK'
    BY <1>2, <1>5, <2>2 DEF IInv, Base, RestOK
  <2>4. Base'
    BY <1>2, <1>3, <2>1, <2>3, MoveBase DEF IInv
  <2>5. ASSUME TgtChecksCtx PROVE Full'
    <3>1. ASSUME NEW q \in DOMAIN task' PROVE FullOK(task[q])'
      <4>1. FullOK(task'[q])
        BY <1>3, <1>4, <2>1, <2>5, <3>1
      <4> QED BY <1>2, <4>1 DEF FullOK, MatchOK, InHand, DoneOK, Stored
    <3> QED BY <1>4, <2>5, <3>1 DEF Full
  <2>6. ASSUME Plain PROVE Tree' /\ \A q \in DOMAIN task' : TagOK(q, task[q])'
    <3>1. /\ p = RootPath /\ finalFn = <<>> /\ Len(RootPath) = 1
          /\ \A q \in DOMAIN task : PlaceOK(q) /\ HeardOK(q, task[q]) /\ TagOK(q, task[q])
      BY <1>3, <2>6 DEF IInv, Tree, RootPath
    <3>2. \A q \in DOMAIN task : task'[q].out = task[q].out
      BY <1>3, <2>1
    <3>3. ASSUME NEW q \in DOMAIN task' PROVE PlaceOK(q) /\ HeardOK(q, task[q])'
      <4>1. CASE q = p
        BY <1>3, <2>1, <2>6, <3>1, <4>1 DEF HeardOK
      <4>2. CASE q # p
        BY <2>1, <3>1, <3>2, <3>3, <4>2 DEF HeardOK
      <4> QED BY <4>1, <4>2
    <3>4. ASSUME NEW q \in DOMAIN task' PROVE TagOK(q, task[q])'
      BY <1>2, <1>3, <2>1, <2>6, <3>1, <3>4 DEF TagOK
    <3> QED BY <1>2, <1>3, <2>1, <2>2, <3>1, <3>3, <3>4 DEF Tree
  <2> QED BY <2>4, <2>5, <2>6 DEF IInv
<1>7. CASE /\ ~Plain
           /\ \E i \in Nat, n \in Nat, f \in Step :
                /\ main' = [main EXCEPT !.i = i, !.n = n] /\ n <= Len(finalFn)
                /\ StepOK(f) /\ HandsOver(p, f)
  <2>1. PICK i \in Nat, n \in Nat, f \in Step :
                /\ main' = [main EXCEPT !.i = i, !.n = n] /\ n <= Len(finalFn)
                /\ StepOK(f) /\ HandsOver(p, f)
    BY <1>7
  <2>2. PICK x, u : x = <<f>> /\ u = NewTask(f.kind, f.tag, f.dig)
    OBVIOUS
  <2>3. x \in Path /\ Last(x) = f
    BY <2>2 DEF Path, Last
  <2>4. /\ DOMAIN task' = DOMAIN task \cup {x} /\ task'[x] = u
        /\ \A q \in DOMAIN task : q # x => task'[q] = IF q = p THEN t ELSE task[q]
    BY <1>1, <2>1, <2>2 DEF HandsOver, With
  <2>5. /\ u \in Rec /\ Fit(x, u) /\ u.pc \in {"seen", "head"} /\ ~u.own /\ ~u.match
        /\ u.entry = "busy" /\ u.out = {}
    BY <2>1, <2>2, <2>3, FreshOK, FreshFacts DEF TaskOK
  <2>6. main' \in MainRec /\ main'.n = n
    BY <1>5, <2>1 DEF MainRec
  <2>7. RestOK'
    BY <1>2, <2>1, <2>6 DEF IInv, Base, RestOK
  <2>8. SeenOK'
    BY <1>2, <2>4 DEF IInv, Base, SeenOK
  <2>9. ASSUME NEW q \in DOMAIN task' PROVE q \in Path /\ TaskOK(q, task[q])'
    <3>1. CASE q = x
      BY <2>3, <2>4, <2>5, <3>1 DEF TaskOK, OutOK, WaitOK, OwnOK
    <3>2. CASE q # x
      <4>1. q \in Path /\ TaskOK(q, task'[q])
        BY <1>3, <2>4, <2>9, <3>2, FieldFacts DEF IInv
      <4> QED BY <1>2, <2>4, <4>1 DEF TaskOK, OutOK, WaitOK, OwnOK
    <3> QED BY <3>1, <3>2
  <2>10. ASSUME TgtChecksCtx PROVE Full'
    <3>1. ASSUME NEW q \in DOMAIN task' PROVE FullOK(task[q])'
      <4>1. FullOK(u)
        BY <2>5 DEF FullOK, MatchOK, InHand, DoneOK, Over
      <4>2. FullOK(task'[q])
        BY <1>3, <1>4, <2>4, <2>10, <3>1, <4>1
      <4> QED BY <1>2, <4>2 DEF FullOK, MatchOK, InHand, DoneOK, Stored
    <3> QED BY <1>4, <2>10, <3>1 DEF Full
  <2> QED BY <1>7, <2>7, <2>8, <2>9, <2>10 DEF IInv, Base
<1> QED BY <1>6, <1>7, ReturnFacts

LEMMA CallerCancelsIInv ==
    ASSUME IInv, CallerCancels
    PROVE  IInv'
<1>1. main' \in MainRec /\ main'.n = main.n /\ main'.result = main.result
  BY DEF IInv, Base, RestOK, CallerCancels, MainRec
<1>2. UNCHANGED <<task, seen, finalFn, tgt, fails>>
  BY DEF CallerCancels
<1>3. Base'
  BY <1>1, <1>2 DEF IInv, Base, RestOK, SeenOK, TaskOK, OutOK, WaitOK, OwnOK
<1>4. TgtChecksCtx => Full'
  BY <1>2 DEF IInv, Full, TargetOK, TargetClosed, FullOK, MatchOK, InHand, DoneOK, Stored
<1>5. Plain => Tree' /\ \A p \in DOMAIN task' : TagOK(p, task[p])'
  BY <1>1, <1>2 DEF IInv, Tree, HeardOK, TagOK
<1> QED BY <1>3, <1>4, <1>5 DEF IInv

\* A call of ImageCopy begins.
Begins ==
    /\ task = Start.task /\ seen = Start.seen /\ finalFn = Start.finalFn
    /\ main \in MainRec /\ main.result = "busy" /\ main.n = 0
    /\ tgt \in Target /\ (TgtChecksCtx => TargetOK) /\ fails \in 0 .. MaxFails

LEMMA BeginsIInv == Begins => IInv
<1> SUFFICES ASSUME Begins PROVE IInv
  OBVIOUS
<1>1. /\ task = [p \in {RootPath} |-> NewTask("root", RootTag, Root)]
      /\ seen = <<>> /\ finalFn = <<>>
  BY DEF Begins, Start
<1> DEFINE r == Ref("root", RootTag, Root, 0)
<1>2. StepOK(r) /\ r \in Step /\ r.kind = "root" /\ r.tag = RootTag /\ r.dig = Root
  <2>1. Root \in Digest /\ Root \notin Blob /\ RootTag \in TagName /\ "root" \in Kind
    BY SourceAssumption DEF Digest, TagName, Kind
  <2> QED BY <2>1, RefOK
<1>3. RootPath \in Path /\ Last(RootPath) = r /\ Len(RootPath) = 1
  <2> HIDE DEF r
  <2>1. RootPath = <<r>>
    BY DEF RootPath, r
  <2> QED BY <1>2, <2>1 DEF Path, Last
<1> HIDE DEF r
<1>4. PICK t : t = NewTask("root", RootTag, Root)
  OBVIOUS
<1>5. /\ DOMAIN task = {RootPath} /\ task[RootPath] = t
  BY <1>1, <1>4
<1>6. /\ t \in Rec /\ t.pc \in {"seen", "head"} /\ ~t.own /\ ~t.match
      /\ t.entry = "busy" /\ t.out = {} /\ TaskOK(RootPath, t)
  BY <1>2, <1>3, <1>4, FreshFacts, FreshOK
<1>7. Base
  <2>1. DOMAIN seen = {}
    BY <1>1
  <2>2. finalFn \in Seq(TagName \X Manifest) /\ Len(finalFn) = 0
    BY <1>1
  <2>3. RestOK /\ SeenOK
    BY <2>1, <2>2 DEF Begins, RestOK, SeenOK
  <2> QED BY <1>3, <1>5, <1>6, <2>3 DEF Base
<1>8. TgtChecksCtx => Full
  BY <1>5, <1>6 DEF Begins, Full, FullOK, MatchOK, InHand, DoneOK, Over
<1>9. Tree
  <2>1. PlaceOK(RootPath)
    BY <1>3 DEF PlaceOK
  <2>2. HeardOK(RootPath, t)
    BY <1>3, <1>6 DEF HeardOK
  <2> QED BY <1>1, <1>5, <2>1, <2>2 DEF Begins, Tree
<1>10. TagOK(RootPath, t)
  BY <1>6 DEF TagOK, Over
<1> QED BY <1>5, <1>7, <1>8, <1>9, <1>10 DEF IInv

LEMMA InitIInv == Init => IInv
<1> SUFFICES ASSUME Init PROVE Begins
  BY BeginsIInv
<1>1. main \in MainRec /\ main.result = "busy" /\ main.n = 0
  BY DEF Init, MainRec
<1>2. tgt \in Target
  BY TargetAssumption DEF Init, Target, TagName
<1>3. TargetOK
  BY TargetAssumption DEF Init, TargetOK, TargetClosed
<1>4. fails \in 0 .. MaxFails
  BY SourceAssumption DEF Init
<1> QED BY <1>1, <1>2, <1>3, <1>4 DEF Init, Begins

LEMMA CallAgainIInv ==
    ASSUME IInv, CallAgain
    PROVE  IInv'
<1>1. main.attempt \in Nat
  BY DEF IInv, Base, RestOK, MainRec
<1>2. main' \in MainRec /\ main'.result = "busy" /\ main'.n = 0
  BY <1>1 DEF CallAgain, MainRec
<1>3. tgt' \in Target /\ (TgtChecksCtx => TargetOK') /\ fails' \in 0 .. MaxFails
  BY DEF CallAgain, IInv, Base, RestOK, Full, TargetOK, TargetClosed
<1>4. Begins'
  BY <1>2, <1>3 DEF CallAgain, Begins, Start, RootPath, Ref, NewTask
<1> QED BY <1>4, BeginsIInv, PTL

LEMMA StutterIInv ==
    ASSUME IInv, UNCHANGED vars
    PROVE  IInv'
<1>1. UNCHANGED <<task, seen, finalFn, main, tgt, fails>>
  BY DEF vars
<1>2. Base'
  BY <1>1 DEF IInv, Base, RestOK, SeenOK, TaskOK, OutOK, WaitOK, OwnOK
<1>3. TgtChecksCtx => Full'
  BY <1>1 DEF IInv, Full, TargetOK, TargetClosed, FullOK, MatchOK, InHand, DoneOK, Stored
<1>4. Plain => Tree' /\ \A p \in DOMAIN task' : TagOK(p, task[p])'
  BY <1>1 DEF IInv, Tree, HeardOK, TagOK
<1> QED BY <1>2, <1>3, <1>4 DEF IInv

LEMMA WorkIInv ==
    ASSUME IInv, main.result = "busy", NEW p \in DOMAIN task, Work(p)
    PROVE  IInv'
<1>1. CASE SeenNew(p)
  BY <1>1, SeenNewIInv
<1>2. CASE SeenOld(p)
  BY <1>2, SeenOldIInv
<1>3. CASE SeenWait(p)
  BY <1>3, SeenWaitIInv
<1>4. CASE HeadDigest(p)
  BY <1>4, HeadDigestIInv
<1>5. CASE HeadTag(p)
  BY <1>5, HeadTagIInv
<1>6. CASE Get(p)
  BY <1>6, GetIInv
<1>19. CASE TagGet(p)
  BY <1>19, TagGetIInv
<1>7. CASE EarlyReceive(p)
  <2>1. PICK c \in task[p].out : At(c, "send") /\ Receive(p, c)
    BY <1>7 DEF EarlyReceive
  <2>2. task[p].pc = "early" /\ UNCHANGED <<seen, finalFn, main, tgt, fails>>
    BY <1>7 DEF EarlyReceive, At
  <2> QED BY <2>1, <2>2, ReceiveIInv DEF At
<1>8. CASE EarlyEnd(p)
  BY <1>8, EarlyEndIInv
<1>9. CASE Refs(p)
  BY <1>9, RefsIInv
<1>10. CASE Tags(p)
  BY <1>10, TagsIInv
<1>11. CASE Drain(p)
  <2>1. PICK c \in task[p].out : At(c, "send") /\ Receive(p, c)
    BY <1>11 DEF Drain
  <2>2. task[p].pc = "drain" /\ UNCHANGED <<seen, finalFn, main, tgt, fails>>
    BY <1>11 DEF Drain, At
  <2> QED BY <2>1, <2>2, ReceiveIInv DEF At
<1>12. CASE Drained(p)
  BY <1>12, DrainedIInv
<1>13. CASE Put(p)
  BY <1>13, PutIInv
<1>14. CASE CopyBlob(p)
  BY <1>14, CopyBlobIInv
<1>15. CASE SeenCB(p)
  BY <1>15, SeenCBIInv
<1>16. CASE Unsee(p)
  BY <1>16, UnseeIInv
<1>17. CASE Post(p)
  BY <1>17, PostIInv
<1>18. CASE Return(p)
  BY <1>18, ReturnIInv
<1> QED BY <1>1, <1>2, <1>3, <1>4, <1>5, <1>6, <1>7, <1>8, <1>9, <1>10, <1>11, <1>12,
           <1>13, <1>14, <1>15, <1>16, <1>17, <1>18, <1>19 DEF Work

LEMMA FailureIInv ==
    ASSUME IInv, main.result = "busy", NEW p \in DOMAIN task, Failure(p)
    PROVE  IInv'
<1>1. CASE HeadRefused(p)
  BY <1>1, HeadRefusedIInv
<1>2. CASE task[p].pc \in {"head", "tagget", "get", "refs", "tags", "put", "copy"} /\ RequestFails(p)
  BY <1>2, RequestFailsIInv
<1> QED BY <1>1, <1>2
        DEF Failure, HeadFails, TagGetFails, GetFails, RefsFails, TagsFails, PutFails, CopyBlobFails, At

LEMMA NextIInv == IInv /\ [Next]_vars => IInv'
<1> SUFFICES ASSUME IInv, [Next]_vars PROVE IInv'
  OBVIOUS
<1>1. CASE main.result = "busy" /\ \E p \in DOMAIN task : Work(p) \/ Failure(p)
  BY <1>1, WorkIInv, FailureIInv
<1>2. CASE CallerCancels
  BY <1>2, CallerCancelsIInv
<1>3. CASE CallAgain
  BY <1>3, CallAgainIInv
<1>4. CASE Returned \/ UNCHANGED vars
  BY <1>4, StutterIInv DEF Returned
<1> QED BY <1>1, <1>2, <1>3, <1>4 DEF Next

\* The inductive invariant IInv holds in every reachable state of a copy, for
\* every source, every option of ImageCopy and every number of failing requests
\* and calls.
THEOREM Invariance == Spec => []IInv
<1>1. Init => IInv
  BY InitIInv
<1>2. IInv /\ [Next]_vars => IInv'
  BY NextIInv
<1> QED BY <1>1, <1>2, PTL DEF Spec
-----------------------------------------------------------------------------
LEMMA BaseFacts ==
    ASSUME IInv
    PROVE  TypeOK /\ OneCopyPerKey
<1>1. ASSUME NEW p \in DOMAIN task
      PROVE  /\ task[p].pc \in PC /\ task[p].err \in Err /\ task[p].entry \in Err \cup {"busy"}
             /\ task[p].out \subseteq DOMAIN task
  BY FieldFacts DEF IInv, TaskOK, OutOK
<1>2. \A k \in DOMAIN seen : seen[k] \in DOMAIN task
  BY DEF IInv, Base, SeenOK
<1>3. main.result \in Err \cup {"busy"} /\ fails \in 0 .. MaxFails
  BY DEF IInv, Base, RestOK, MainRec
<1>4. OneCopyPerKey
  BY FieldFacts DEF IInv, OneCopyPerKey, TaskOK, OwnOK
<1> QED BY <1>1, <1>2, <1>3, <1>4 DEF TypeOK

\* imageSeenOrWait, with referrers, digest tags and loops as well: whoever has
\* registered in opt.seen is the only one to copy its key until it reports, and
\* the delete after a failure never removes the entry of a later task.
THEOREM CopiedOnce == Spec => [](TypeOK /\ OneCopyPerKey)
<1>1. IInv => TypeOK /\ OneCopyPerKey
  BY BaseFacts
<1> QED BY <1>1, Invariance, PTL

\* The order of the pushes in imageCopyOpt: a registry, which refuses requests of
\* a cancelled context, never holds a manifest without the manifests and blobs it
\* names, whatever fails or is cancelled and in every interleaving of the tasks.
THEOREM TargetKept ==
    ASSUME TgtChecksCtx
    PROVE  Spec => []TargetClosed
<1>1. IInv => TargetClosed
  BY DEF IInv, Full, TargetOK
<1> QED BY <1>1, Invariance, PTL

\* A set of paths that is not empty has a shortest one.
LEMMA Shortest ==
    ASSUME NEW P \in SUBSET Path, P # {}
    PROVE  \E p \in P : \A q \in P : Len(p) <= Len(q)
<1> DEFINE R == OpToRel(<, Nat)
           T == {Len(p) : p \in P}
<1>1. IsWellFoundedOn(R, Nat)
  BY NatLessThanWellFounded
<1>2. \A x, y \in Nat : <<y, x>> \in R <=> y < x
  BY DEF OpToRel
<1>3. T \subseteq Nat /\ T # {}
  <2>1. \A p \in P : Len(p) \in Nat
    BY PathFacts
  <2>2. \E p \in P : Len(p) \in T
    OBVIOUS
  <2> QED BY <2>1, <2>2
<1> HIDE DEF R
<1>4. PICK x \in T : \A y \in T : ~(<<y, x>> \in R)
  <2> HIDE DEF T
  <2> QED BY <1>1, <1>3, WFMin
<1>5. PICK p \in P : x = Len(p)
  BY <1>4
<1>6. ASSUME NEW q \in P PROVE Len(p) <= Len(q)
  <2>1. ~(<<Len(q), Len(p)>> \in R) /\ Len(p) \in Nat /\ Len(q) \in Nat
    BY <1>4, <1>5, PathFacts
  <2> QED BY <1>2, <2>1
<1> QED BY <1>6

\* Were a task alive after the first one has ended, the shortest of them would
\* have a parent that waits for it, and that parent would be alive.
LEMMA NobodyLeft ==
    ASSUME IInv, Plain
    PROVE  NothingLeftBehind
<1> DEFINE P == {p \in DOMAIN task : task[p].pc # "dead"}
<1> SUFFICES ASSUME main.result # "busy", P # {} PROVE FALSE
  BY DEF NothingLeftBehind
<1>1. P \in SUBSET Path
  BY DEF IInv, Base
<1>2. PICK p \in P : \A q \in P : Len(p) <= Len(q)
  <2> HIDE DEF P
  <2> QED BY <1>1, Shortest
<1>3. p \in DOMAIN task /\ task[p].pc # "dead" /\ PlaceOK(p) /\ HeardOK(p, task[p])
  BY <1>2 DEF IInv, Tree
<1>4. p \in Path /\ Len(p) \in Nat \ {0}
  BY <1>1, <1>2, PathFacts
<1>5. p # RootPath
  BY <1>3 DEF IInv, Tree
<1>6. Len(p) > 1
  <2>1. Len(p) # 1
    BY <1>3, <1>5 DEF PlaceOK
  <2>2. PICK n \in Nat \ {0} : n = Len(p)
    BY <1>4
  <2>3. n > 1
    BY <2>1, <2>2
  <2> QED BY <2>2, <2>3
<1>7. Front(p) \in DOMAIN task /\ p \in task[Front(p)].out
  BY <1>3, <1>6 DEF HeardOK
<1>8. task[Front(p)].pc \in {"early", "drain"}
  BY <1>7 DEF IInv, Tree, HeardOK
<1>9. Len(p) = Len(Front(p)) + 1 /\ Front(p) \in Path
  BY <1>7, FieldFacts DEF IInv, TaskOK, OutOK
<1>10. Front(p) \in P
  BY <1>7, <1>8
<1>11. Len(Front(p)) \in Nat /\ Len(p) <= Len(Front(p))
  BY <1>2, <1>9, <1>10, PathFacts
<1> QED BY <1>4, <1>9, <1>11

\* The receive loops of imageCopyOpt: a copy without referrers and digest tags
\* returns only when every goroutine it started has handed over its error, also
\* after an error and after the context was cancelled.
THEOREM TasksKept ==
    ASSUME ~WithReferrers, ~WithDigestTags
    PROVE  Spec => []TasksSound
<1>1. IInv => TasksSound
  BY BaseFacts, NobodyLeft DEF TasksSound, Plain
<1> QED BY <1>1, Invariance, PTL

LEMMA CompleteFacts ==
    ASSUME IInv, TgtChecksCtx, ~WithReferrers, ~WithDigestTags
    PROVE  SuccessIsComplete
<1> SUFFICES ASSUME main.result = "ok"
             PROVE  /\ Wanted \subseteq tgt.man
                    /\ \A m \in Wanted : Layers[m] \subseteq tgt.blob
                    /\ RootTag # NoTag => <<RootTag, Root>> \in tgt.tag
  BY DEF SuccessIsComplete
<1>1. /\ Full /\ Tree /\ \A p \in DOMAIN task : TagOK(p, task[p])
      /\ tgt \in Target
  BY DEF IInv, Plain, Base, RestOK
<1>2. /\ RootPath \in DOMAIN task /\ task[RootPath].pc = "dead" /\ task[RootPath].err = "ok"
  BY <1>1 DEF Tree
<1>3. task[RootPath].kind = "root" /\ task[RootPath].dig = Root
  BY <1>2, RootFields
<1>4. Root \in tgt.man
  <2>1. Stored(Root)
    BY <1>1, <1>2, <1>3 DEF Full, FullOK, DoneOK, Over
  <2>2. Root \in Manifest /\ Root \notin Blob
    BY SourceAssumption
  <2> QED BY <1>1, <2>1, <2>2 DEF Stored, Target
<1>5. Nested(tgt.man) \subseteq tgt.man
  BY <1>1 DEF Nested, Full, TargetOK, TargetClosed
<1>6. Wanted \subseteq tgt.man
  BY <1>1, <1>4, <1>5 DEF Wanted, Target
<1>7. \A m \in Wanted : Layers[m] \subseteq tgt.blob
  BY <1>1, <1>6 DEF Full, TargetOK, TargetClosed
<1>8. RootTag # NoTag => <<RootTag, Root>> \in tgt.tag
  BY <1>1, <1>2 DEF TagOK, Over
<1> QED BY <1>6, <1>7, <1>8

\* A copy to a registry, without referrers and digest tags, that returns no error
\* has left the tag, the manifest and all that it leads to in the target.
THEOREM SuccessComplete ==
    ASSUME TgtChecksCtx, ~WithReferrers, ~WithDigestTags
    PROVE  Spec => []SuccessIsComplete
<1>1. IInv => SuccessIsComplete
  BY CompleteFacts
<1> QED BY <1>1, Invariance, PTL
=============================================================================

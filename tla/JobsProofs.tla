----------------------------- MODULE JobsProofs -----------------------------
(***************************************************************************)
(* Proofs about regsync and regbot, for any number of steps, tags, slots   *)
(* and failing requests: every slot of the throttle is given back, errors  *)
(* reach the exit code, and what is overwritten was backed up.             *)
(***************************************************************************)
EXTENDS Jobs, FiniteSetTheorems, TLAPS

First(s) == <<s, "first">>
Cron(s) == <<s, "cron">>

\* The records of main, of a job at its step and of a script.
MainRecord == main = [pc |-> main.pc, i |-> main.i]

IsWork(w) ==
    w = [pc |-> w.pc, todo |-> w.todo, sSeen |-> w.sSeen, tSeen |-> w.tSeen, pin |-> w.pin,
         err |-> w.err, blind |-> w.blind, unsaved |-> w.unsaved]

IsScript(x) ==
    /\ x = [pc |-> x.pc, fn |-> x.fn, calls |-> x.calls, late |-> x.late]
    /\ "wait" \in x.fn \/ x.pc = "wait" => "slot" \notin x.fn
    /\ x.pc = "queue" => "slot" \in x.fn

ShapeOK ==
    /\ MainRecord
    /\ DOMAIN work = Job /\ \A j \in Job : IsWork(work[j]) /\ work[j].err \in BOOLEAN
    /\ DOMAIN script = Job /\ \A j \in Job : IsScript(script[j])
    /\ DOMAIN tgt = Steps /\ \A s \in Steps : DOMAIN tgt[s] = Tags
    /\ DOMAIN backup = Steps /\ \A s \in Steps : DOMAIN backup[s] = Tags

\* The steps whose first run main has not started.
Ahead == {k \in DOMAIN setup.steps : k > main.i \/ (k = main.i /\ main.pc = "loop")}

\* A first run starts once; the runs of cron come after the first runs.
OrderOK ==
    /\ main.pc = "inline" => main.i \in DOMAIN setup.steps
    /\ main.pc \in {"serve", "stop"} => setup.mode = "server"
    /\ main.pc = "returned" => Counted = {}
    /\ main.pc \in {"loop", "inline"} =>
         /\ \A k \in Ahead : At(First(setup.steps[k]), "off")
         /\ \A s \in Steps : At(Cron(s), "off")
    /\ \A s \in Steps :
         /\ ~At(First(s), "spawned")
         /\ main.pc \notin {"loop", "inline"} => First(s) \notin Counted
         /\ setup.mode # "server" => At(Cron(s), "off")

\* An error is in mainErr or with a job that will look at mainErr.
ErrorOK ==
    /\ \A j \in Job : job[j].err => failed /\ job[j].pc \in {"end", "write"}
    /\ mainErr => failed
    /\ setup.mode # "server" =>
         /\ failed => mainErr \/ \E j \in Job : job[j].err
         /\ \A j \in Job : At(j, "write") => job[j].err

\* A slot is held exactly between Acquire and the release that ends its path.
Holding(j) ==
    /\ At(j, "body")
    /\ IF setup.program = "regsync" THEN work[j].pc \in {"rate", "ctx", "backup", "copy"}
       ELSE script[j].pc = "run" /\ "slot" \in script[j].fn

HeldOK ==
    /\ \A j \in Job : held[j] = IF Holding(j) THEN 1 ELSE 0
    /\ \A j \in Job : ~At(j, "body") =>
         IF setup.program = "regsync" THEN work[j] = NewWork ELSE script[j] = NewScript
    /\ InUse <= Concurrent

\* After the lookup of the target.
Past == {"plat", "platget", "acquire", "rate", "sleep", "ctx", "backup", "copy"}

\* The target is still as the job has seen it: no other run has the same one.
Seen(j, w, targets) ==
    w.pc \in Past /\ ~w.blind =>
        /\ w.tSeen = targets[S(j)][w.todo[1]]
        /\ Action(j) = "missing" => w.tSeen = 0

\* A copy that overwrites what it has seen comes after the backup.
Saved(j, w, backups) ==
    /\ w.pc = "copy" /\ S(j) \in HasBackup /\ w.todo[1] \in Tags
    /\ ~w.blind /\ ~w.unsaved /\ w.tSeen # 0 /\ w.tSeen \notin {w.sSeen, w.pin}
    => backups[S(j)][w.todo[1]] = w.tSeen

SyncOK ==
    setup.program = "regsync" =>
    \A j \in Job : At(j, "body") => Seen(j, work[j], tgt) /\ Saved(j, work[j], backup)

IInv == TypeOK /\ ShapeOK /\ OrderOK /\ ErrorOK /\ HeldOK /\ SyncOK
-----------------------------------------------------------------------------
(* Jobs and the slots they hold.                                            *)

LEMMA JobFacts ==
    /\ \A s \in Steps : First(s) \in Job /\ Cron(s) \in Job
    /\ \A j \in Job : /\ S(j) \in Steps
                      /\ \/ j[2] = "first" /\ j = First(S(j))
                         \/ j[2] = "cron" /\ j = Cron(S(j))
    /\ \A s, t \in Steps : First(s) # Cron(t) /\ (First(s) = First(t) => s = t)
BY DEF Job, First, Cron, S

\* No two runs of a step are in process at once.
LEMMA OneRun ==
    ASSUME IInv, NEW j \in Job, NEW k \in Job, At(j, "body"), At(k, "body"), S(j) = S(k)
    PROVE  j = k
<1>1. \A s \in Steps : ~(At(First(s), "body") /\ At(Cron(s), "body"))
  <2> SUFFICES ASSUME NEW s \in Steps, At(First(s), "body"), At(Cron(s), "body")
               PROVE  FALSE
    OBVIOUS
  <2>1. First(s) \in Counted
    BY JobFacts DEF Counted, At
  <2>2. main.pc \in {"loop", "inline"}
    BY <2>1 DEF IInv, OrderOK
  <2>3. At(Cron(s), "off")
    BY <2>2 DEF IInv, OrderOK
  <2> QED BY <2>3 DEF At
<1>2. (j = First(S(j)) \/ j = Cron(S(j))) /\ (k = First(S(k)) \/ k = Cron(S(k))) /\ S(j) \in Steps
  BY JobFacts
<1> QED BY <1>1, <1>2

LEMMA JobFinite == IsFiniteSet(Job)
<1>1. IsFiniteSet({"first", "cron"})
  <2>1. IsFiniteSet({"first"}) /\ {"first", "cron"} = {"first"} \cup {"cron"}
    BY FS_Singleton
  <2> QED BY <2>1, FS_AddElement
<1>2. IsFiniteSet(Steps)
  BY JobServerAssumption
<1> QED BY <1>1, <1>2, FS_Product DEF Job

\* The slots of the jobs, when each holds at most one.
Out(h) == UNION {{j} \X (1 .. h[j]) : j \in Job}

LEMMA OutFacts ==
    ASSUME NEW h, \A j \in Job : h[j] \in 0 .. 1
    PROVE  /\ Out(h) = {j \in Job : h[j] = 1} \X {1}
           /\ IsFiniteSet(Out(h)) /\ Cardinality(Out(h)) \in Nat
<1>1. Out(h) = {j \in Job : h[j] = 1} \X {1}
  <2>1. ASSUME NEW x \in Out(h)
        PROVE  x \in {j \in Job : h[j] = 1} \X {1}
    <3>1. PICK j \in Job : x \in {j} \X (1 .. h[j])
      BY DEF Out
    <3>2. h[j] = 1 /\ 1 .. h[j] = {1}
      BY <3>1
    <3> QED BY <3>1, <3>2
  <2>2. ASSUME NEW x \in {j \in Job : h[j] = 1} \X {1}
        PROVE  x \in Out(h)
    <3>1. PICK j \in Job : h[j] = 1 /\ x = <<j, 1>>
      BY <2>2
    <3>2. x \in {j} \X (1 .. h[j])
      BY <3>1
    <3> QED BY <3>2 DEF Out
  <2> QED BY <2>1, <2>2
<1>2. IsFiniteSet({j \in Job : h[j] = 1}) /\ IsFiniteSet({1})
  BY JobFinite, FS_Subset, FS_Singleton
<1>3. IsFiniteSet(Out(h))
  BY <1>1, <1>2, FS_Product
<1> QED BY <1>1, <1>3, FS_CardinalityType

\* What a job may do with its slot in one step, and where it is before and after.
SlotStep(j, before, after) ==
    \/ UNCHANGED held /\ (before <=> after)
    \/ Acquire(j) /\ ~before /\ after
    \/ Release(j) /\ before /\ ~after

\* Slots are taken within the limit and given back by the job that has one.
LEMMA SlotStepFacts ==
    ASSUME TypeOK, HeldOK, NEW j \in Job, NEW after \in BOOLEAN,
           SlotStep(j, Holding(j), after)
    PROVE  /\ held' \in [Job -> Nat]
           /\ held'[j] = IF after THEN 1 ELSE 0
           /\ \A k \in Job : k # j => held'[k] = held[k]
           /\ InUse' <= Concurrent
<1>0. /\ held \in [Job -> Nat] /\ \A k \in Job : held[k] \in 0 .. 1
      /\ held[j] = IF Holding(j) THEN 1 ELSE 0
  BY DEF TypeOK, HeldOK
<1>1. /\ held' \in [Job -> Nat]
      /\ held'[j] = IF after THEN 1 ELSE 0
      /\ \A k \in Job : k # j => held'[k] = held[k]
  BY <1>0 DEF SlotStep, Acquire, Release
<1>2. /\ Taken = {k \in Job : held[k] = 1} \X {1}
      /\ IsFiniteSet(Taken) /\ Cardinality(Taken) \in Nat
  BY <1>0, OutFacts DEF Taken, Out
<1>3. Taken' = {k \in Job : held'[k] = 1} \X {1}
  <2>1. \A k \in Job : held'[k] \in 0 .. 1
    BY <1>0, <1>1
  <2> QED BY <2>1, OutFacts DEF Taken, Out
<1>4. Concurrent \in Nat /\ InUse <= Concurrent /\ InUse = Cardinality(Taken)
  BY JobServerAssumption DEF HeldOK, InUse
<1>5. CASE UNCHANGED held
  BY <1>1, <1>4, <1>5 DEF InUse, Taken
<1>6. CASE Acquire(j) /\ ~Holding(j) /\ after
  <2>1. Taken' = Taken \cup {<<j, 1>>} /\ <<j, 1>> \notin Taken
    BY <1>0, <1>1, <1>2, <1>3, <1>6
  <2>2. Cardinality(Taken') = Cardinality(Taken) + 1
    BY <1>2, <2>1, FS_AddElement
  <2>3. InUse < Concurrent
    BY <1>6 DEF Acquire
  <2> QED BY <1>1, <1>2, <1>4, <2>2, <2>3 DEF InUse
<1>7. CASE Release(j) /\ ~after
  <2>1. Taken' \in SUBSET Taken
    BY <1>1, <1>2, <1>3, <1>7
  <2>2. IsFiniteSet(Taken') /\ Cardinality(Taken') <= Cardinality(Taken)
    BY <1>2, <2>1, FS_Subset
  <2>3. Cardinality(Taken') \in Nat
    BY <2>2, FS_CardinalityType
  <2> QED BY <1>1, <1>2, <1>4, <2>2, <2>3 DEF InUse
<1> QED BY <1>1, <1>5, <1>6, <1>7 DEF SlotStep

-----------------------------------------------------------------------------
(* regsync.                                                                 *)

HoldPC == {"rate", "ctx", "backup", "copy"}

LEMMA ServerKept ==
    ASSUME OrderOK, ErrorOK, ServerSame
    PROVE  OrderOK' /\ ErrorOK'
<1>1. /\ UNCHANGED setup /\ UNCHANGED main /\ UNCHANGED job /\ UNCHANGED mainErr
      /\ UNCHANGED failed
  BY DEF ServerSame
<1>2. Counted' = Counted /\ Ahead' = Ahead
  BY <1>1 DEF Counted, Ahead
<1>3. OrderOK'
  BY <1>1, <1>2, Zenon DEF OrderOK, At
<1>4. ErrorOK'
  BY <1>1, Zenon DEF ErrorOK, At
<1> QED BY <1>3, <1>4

\* A step of a job changes only the target and the backups of its own step.
OwnTarget(j) ==
    /\ DOMAIN tgt' = Steps /\ \A s \in Steps : DOMAIN tgt'[s] = Tags
    /\ \A s \in Steps : s # S(j) => tgt'[s] = tgt[s]
    /\ DOMAIN backup' = Steps /\ \A s \in Steps : DOMAIN backup'[s] = Tags
    /\ \A s \in Steps : s # S(j) => backup'[s] = backup[s]

LEMMA SameTarget ==
    ASSUME ShapeOK, UNCHANGED <<tgt, backup>>, NEW j
    PROVE  OwnTarget(j)
BY DEF ShapeOK, OwnTarget

\* A step of regsync within process keeps the invariant when the new record fits.
LEMMA SyncMove ==
    ASSUME IInv, NEW j \in Job, At(j, "body"), setup.program = "regsync",
           ServerSame, UNCHANGED script, NEW w, IsWork(w), w.err \in BOOLEAN, Goto(j, w),
           SlotStep(j, Holding(j), w.pc \in HoldPC), OwnTarget(j),
           Seen(j, w, tgt'), Saved(j, w, backup')
    PROVE  IInv'
<1>0. TypeOK /\ ShapeOK /\ OrderOK /\ ErrorOK /\ HeldOK /\ SyncOK
  BY DEF IInv
<1>1. OrderOK' /\ ErrorOK'
  BY <1>0, ServerKept
<1>2. UNCHANGED setup /\ UNCHANGED main /\ UNCHANGED job
  BY DEF ServerSame
<1>3. DOMAIN work' = Job /\ work'[j] = w /\ \A k \in Job : k # j => work'[k] = work[k]
  BY <1>0 DEF Goto, ShapeOK
<1>4. /\ held' \in [Job -> Nat]
      /\ held'[j] = IF w.pc \in HoldPC THEN 1 ELSE 0
      /\ \A k \in Job : k # j => held'[k] = held[k]
      /\ InUse' <= Concurrent
  <2>1. PICK after \in BOOLEAN : after <=> w.pc \in HoldPC
    OBVIOUS
  <2>2. SlotStep(j, Holding(j), after)
    BY <2>1 DEF SlotStep
  <2> QED BY <1>0, <2>1, <2>2, SlotStepFacts
<1>5. TypeOK'
  BY <1>0, <1>4 DEF TypeOK, ServerSame
<1>6. ShapeOK'
  BY <1>0, <1>2, <1>3 DEF ShapeOK, OwnTarget, MainRecord
<1>7. HeldOK'
  <2>1. ASSUME NEW k \in Job
        PROVE  /\ held'[k] = IF Holding(k)' THEN 1 ELSE 0
               /\ ~At(k, "body")' => work'[k] = NewWork
    <3>1. CASE k = j
      BY <1>2, <1>3, <1>4, <3>1 DEF Holding, HoldPC, At
    <3>2. CASE k # j
      <4>1. Holding(k)' <=> Holding(k)
        BY <1>2, <1>3, <3>2 DEF Holding, At
      <4>2. held[k] = (IF Holding(k) THEN 1 ELSE 0) /\ (~At(k, "body") => work[k] = NewWork)
        BY <1>0 DEF HeldOK
      <4> QED BY <1>2, <1>3, <1>4, <3>2, <4>1, <4>2 DEF At
    <3> QED BY <3>1, <3>2
  <2>2. setup'.program = "regsync"
    BY <1>2
  <2> QED BY <1>4, <2>1, <2>2 DEF HeldOK, NewWork
<1>8. SyncOK'
  <2> SUFFICES ASSUME NEW k \in Job, At(k, "body")'
               PROVE  (Seen(k, work[k], tgt) /\ Saved(k, work[k], backup))'
    BY DEF SyncOK
  <2>1. At(k, "body")
    BY <1>2 DEF At
  <2>2. CASE k = j
    BY <1>2, <1>3, <2>2 DEF Seen, Saved, Action
  <2>3. CASE k # j
    <3>1. S(k) # S(j) /\ S(k) \in Steps
      BY <2>1, <2>3, OneRun, JobFacts
    <3>2. tgt'[S(k)] = tgt[S(k)] /\ backup'[S(k)] = backup[S(k)]
      BY <3>1 DEF OwnTarget
    <3>3. Seen(k, work[k], tgt) /\ Saved(k, work[k], backup)
      BY <1>0, <2>1 DEF SyncOK
    <3> QED BY <1>2, <1>3, <2>3, <3>2, <3>3 DEF Seen, Saved, Action
  <2> QED BY <2>2, <2>3
<1> QED BY <1>1, <1>5, <1>6, <1>7, <1>8 DEF IInv

\* Where a job is that works for a step.
LEMMA WorkingFacts ==
    ASSUME IInv, setup.program = "regsync", NEW j \in Job, NEW p, Working(j, p)
    PROVE  /\ At(j, "body") /\ work[j].pc = p /\ IsWork(work[j]) /\ work[j].err \in BOOLEAN
           /\ Holding(j) <=> p \in HoldPC
           /\ Seen(j, work[j], tgt) /\ Saved(j, work[j], backup)
           /\ ShapeOK /\ S(j) \in Steps
BY JobFacts DEF IInv, Working, ShapeOK, SyncOK, Holding, HoldPC

\* processRef returns on a path that has given back its slot.
LEMMA FinishIInv ==
    ASSUME IInv, setup.program = "regsync", UNCHANGED script, NEW j \in Job, NEW p,
           Working(j, p), ServerSame, NEW e \in BOOLEAN, Finish(j, e),
           SlotStep(j, p \in HoldPC, FALSE), OwnTarget(j)
    PROVE  IInv'
<1>0. /\ At(j, "body") /\ IsWork(work[j]) /\ work[j].err \in BOOLEAN
      /\ Holding(j) <=> p \in HoldPC
  BY WorkingFacts
<1>1. PICK w : w = [work[j] EXCEPT !.pc = "close", !.err = @ \/ e]
  OBVIOUS
<1>2. IsWork(w) /\ w.err \in BOOLEAN /\ w.pc = "close"
  BY <1>0, <1>1 DEF IsWork
<1>3. Goto(j, w)
  BY <1>1 DEF Finish
<1>4. SlotStep(j, Holding(j), w.pc \in HoldPC)
  BY <1>0, <1>2 DEF SlotStep, HoldPC
<1>5. Seen(j, w, tgt') /\ Saved(j, w, backup')
  BY <1>2 DEF Seen, Saved, Past
<1> QED BY <1>0, <1>2, <1>3, <1>4, <1>5, SyncMove

\* The steps before the lookup of the target.
LEMMA ListIInv ==
    ASSUME IInv, setup.program = "regsync", UNCHANGED script, NEW j \in Job, List(j)
    PROVE  IInv'
<1>0. /\ At(j, "body") /\ IsWork(work[j]) /\ work[j].err \in BOOLEAN /\ ~Holding(j)
      /\ ServerSame /\ UNCHANGED held /\ OwnTarget(j)
  BY WorkingFacts, SameTarget DEF List, WorldSame, HoldPC
<1>1. PICK w : Goto(j, w) /\ IsWork(w) /\ w.err \in BOOLEAN /\ w.pc = "next"
  <2>1. PICK list : \/ Goto(j, [work[j] EXCEPT !.pc = "next", !.todo = list])
                    \/ Goto(j, [work[j] EXCEPT !.pc = "next", !.err = TRUE])
    BY Zenon DEF List
  <2>2. PICK w1 : w1 = [work[j] EXCEPT !.pc = "next", !.todo = list]
    OBVIOUS
  <2>3. PICK w2 : w2 = [work[j] EXCEPT !.pc = "next", !.err = TRUE]
    OBVIOUS
  <2>4. IsWork(w1) /\ w1.err \in BOOLEAN /\ w1.pc = "next"
    BY <1>0, <2>2 DEF IsWork
  <2>5. IsWork(w2) /\ w2.err \in BOOLEAN /\ w2.pc = "next"
    BY <1>0, <2>3 DEF IsWork
  <2> QED BY <2>1, <2>2, <2>3, <2>4, <2>5
<1>2. SlotStep(j, Holding(j), w.pc \in HoldPC) /\ Seen(j, w, tgt') /\ Saved(j, w, backup')
  BY <1>0, <1>1 DEF SlotStep, HoldPC, Seen, Saved, Past
<1> QED BY <1>0, <1>1, <1>2, SyncMove

LEMMA CloseIInv ==
    ASSUME IInv, setup.program = "regsync", UNCHANGED script, NEW j \in Job, Close(j)
    PROVE  IInv'
<1>0. /\ At(j, "body") /\ IsWork(work[j]) /\ work[j].err \in BOOLEAN /\ ~Holding(j)
      /\ ServerSame /\ UNCHANGED held /\ OwnTarget(j)
  BY WorkingFacts, SameTarget DEF Close, WorldSame, HoldPC
<1>1. PICK w : w = [NewWork EXCEPT !.pc = "next", !.todo = Tail(work[j].todo), !.err = work[j].err]
  OBVIOUS
<1>2. Goto(j, w) /\ IsWork(w) /\ w.err \in BOOLEAN /\ w.pc = "next"
  BY <1>0, <1>1 DEF Close, IsWork, NewWork
<1>3. SlotStep(j, Holding(j), w.pc \in HoldPC) /\ Seen(j, w, tgt') /\ Saved(j, w, backup')
  BY <1>0, <1>2 DEF SlotStep, HoldPC, Seen, Saved, Past
<1> QED BY <1>0, <1>2, <1>3, SyncMove

LEMMA HeadSourceIInv ==
    ASSUME IInv, setup.program = "regsync", UNCHANGED script, NEW j \in Job, HeadSource(j)
    PROVE  IInv'
<1>0. /\ At(j, "body") /\ IsWork(work[j]) /\ work[j].err \in BOOLEAN /\ ~Holding(j)
      /\ ServerSame /\ UNCHANGED held /\ OwnTarget(j) /\ Working(j, "headsrc")
  BY WorkingFacts, SameTarget DEF HeadSource, WorldSame, HoldPC
<1>1. CASE Finish(j, TRUE)
  <2>1. SlotStep(j, "headsrc" \in HoldPC, FALSE)
    BY <1>0 DEF SlotStep, HoldPC
  <2> QED BY <1>0, <1>1, <2>1, FinishIInv
<1>2. CASE Goto(j, [work[j] EXCEPT !.pc = "headtgt", !.sSeen = src[Cur(j)]])
  <2>1. PICK w : w = [work[j] EXCEPT !.pc = "headtgt", !.sSeen = src[Cur(j)]]
    OBVIOUS
  <2>2. Goto(j, w) /\ IsWork(w) /\ w.err \in BOOLEAN /\ w.pc = "headtgt"
    BY <1>0, <1>2, <2>1 DEF IsWork
  <2>3. SlotStep(j, Holding(j), w.pc \in HoldPC) /\ Seen(j, w, tgt') /\ Saved(j, w, backup')
    BY <1>0, <2>2 DEF SlotStep, HoldPC, Seen, Saved, Past
  <2> QED BY <1>0, <2>2, <2>3, SyncMove
<1> QED BY <1>1, <1>2 DEF HeadSource

LEMMA NoCompare ==
    ASSUME NEW j, NEW d
    PROVE  /\ AfterCompare(j, d) \in {"close", "plat", "acquire"}
           /\ AfterCompare(j, d) # "close" => d = 0 \/ Action(j) # "missing"
BY DEF AfterCompare

\* The lookup of the target: what it finds stays as it is while the job goes on.
LEMMA HeadTargetIInv ==
    ASSUME IInv, setup.program = "regsync", UNCHANGED script, NEW j \in Job, HeadTarget(j)
    PROVE  IInv'
<1>0. /\ At(j, "body") /\ IsWork(work[j]) /\ work[j].err \in BOOLEAN /\ ~Holding(j)
      /\ ServerSame /\ UNCHANGED held /\ OwnTarget(j) /\ UNCHANGED tgt
  BY WorkingFacts, SameTarget DEF HeadTarget, WorldSame, HoldPC
<1>1. PICK d, b :
        /\ Goto(j, [work[j] EXCEPT !.pc = AfterCompare(j, d), !.tSeen = d, !.blind = b])
        /\ \/ d = tgt[S(j)][Cur(j)]
           \/ d = 0 /\ (b <=> tgt[S(j)][Cur(j)] # 0)
  <2>1. CASE Goto(j, [work[j] EXCEPT !.pc = AfterCompare(j, tgt[S(j)][Cur(j)]),
                                     !.tSeen = tgt[S(j)][Cur(j)]])
    <3>1. PICK d : d = tgt[S(j)][Cur(j)]
      OBVIOUS
    <3>2. PICK l : l = AfterCompare(j, d)
      OBVIOUS
    <3>3. [work[j] EXCEPT !.pc = l, !.tSeen = d]
            = [work[j] EXCEPT !.pc = l, !.tSeen = d, !.blind = work[j].blind]
      BY <1>0 DEF IsWork
    <3> QED BY <2>1, <3>1, <3>2, <3>3
  <2>2. CASE Goto(j, [work[j] EXCEPT !.pc = AfterCompare(j, 0), !.tSeen = 0,
                                     !.blind = tgt[S(j)][Cur(j)] # 0])
    BY <2>2
  <2> QED BY <2>1, <2>2 DEF HeadTarget
<1>2. PICK l : l = AfterCompare(j, d)
  OBVIOUS
<1>3. l \in {"close", "plat", "acquire"} /\ (l # "close" => d = 0 \/ Action(j) # "missing")
  BY <1>2, NoCompare
<1>4. PICK w : w = [work[j] EXCEPT !.pc = l, !.tSeen = d, !.blind = b]
  OBVIOUS
<1>5. /\ Goto(j, w) /\ IsWork(w) /\ w.err \in BOOLEAN /\ w.pc = l /\ w.tSeen = d
      /\ w.blind = b /\ w.todo = work[j].todo
  BY <1>0, <1>1, <1>2, <1>4 DEF IsWork
<1>6. SlotStep(j, Holding(j), w.pc \in HoldPC)
  BY <1>0, <1>3, <1>5 DEF SlotStep, HoldPC
<1>7. Seen(j, w, tgt') /\ Saved(j, w, backup')
  BY <1>0, <1>1, <1>3, <1>5 DEF Seen, Saved, Past, Cur
<1> QED BY <1>0, <1>5, <1>6, <1>7, SyncMove

\* A step that leaves what was seen alone, and stays in the same part of processRef.
LEMMA OnIInv ==
    ASSUME IInv, setup.program = "regsync", UNCHANGED script, NEW j \in Job, NEW p,
           Working(j, p), p \in Past, ServerSame, UNCHANGED tgt, UNCHANGED backup,
           NEW l \in Past \ {"copy"}, NEW x,
           Goto(j, [work[j] EXCEPT !.pc = l, !.pin = x]),
           SlotStep(j, p \in HoldPC, l \in HoldPC)
    PROVE  IInv'
<1>0. /\ At(j, "body") /\ IsWork(work[j]) /\ work[j].err \in BOOLEAN /\ OwnTarget(j)
      /\ Holding(j) <=> p \in HoldPC
      /\ Seen(j, work[j], tgt) /\ work[j].pc = p
  BY WorkingFacts, SameTarget
<1>1. PICK w : w = [work[j] EXCEPT !.pc = l, !.pin = x]
  OBVIOUS
<1>2. /\ Goto(j, w) /\ IsWork(w) /\ w.err \in BOOLEAN /\ w.pc = l /\ w.tSeen = work[j].tSeen
      /\ w.blind = work[j].blind /\ w.todo = work[j].todo
  BY <1>0, <1>1 DEF IsWork
<1>3. SlotStep(j, Holding(j), w.pc \in HoldPC)
  BY <1>0, <1>2 DEF SlotStep
<1>4. Seen(j, w, tgt') /\ Saved(j, w, backup')
  BY <1>0, <1>2 DEF Seen, Saved
<1> QED BY <1>0, <1>2, <1>3, <1>4, SyncMove

LEMMA PinSame ==
    ASSUME NEW w, IsWork(w), NEW l
    PROVE  [w EXCEPT !.pc = l] = [w EXCEPT !.pc = l, !.pin = w.pin]
BY DEF IsWork

\* The digest of the platform is known: processRef goes on or returns.
LEMMA PlatformIInv ==
    ASSUME IInv, setup.program = "regsync", UNCHANGED script, NEW j \in Job,
           NEW p \in {"plat", "platget"}, Working(j, p), ServerSame,
           UNCHANGED tgt, UNCHANGED backup, UNCHANGED held, NEW v, Goto(j, AfterPlatform(j, v))
    PROVE  IInv'
<1>0. /\ At(j, "body") /\ IsWork(work[j]) /\ work[j].err \in BOOLEAN /\ ~Holding(j)
      /\ OwnTarget(j)
  BY WorkingFacts, SameTarget DEF HoldPC
<1>1. PICK l \in {"close", "acquire"} : Goto(j, [work[j] EXCEPT !.pin = v, !.pc = l])
  <2>1. CASE AfterPlatform(j, v) = [work[j] EXCEPT !.pin = v, !.pc = "close"]
    BY <2>1
  <2>2. CASE AfterPlatform(j, v) = [work[j] EXCEPT !.pin = v, !.pc = "acquire"]
    BY <2>2
  <2> QED BY <2>1, <2>2, Zenon DEF AfterPlatform
<1>2. PICK w : w = [work[j] EXCEPT !.pin = v, !.pc = l]
  OBVIOUS
<1>3. w = [work[j] EXCEPT !.pc = l, !.pin = v] /\ IsWork(w) /\ w.err \in BOOLEAN /\ w.pc = l
  BY <1>0, <1>2 DEF IsWork
<1>4. CASE l = "acquire"
  <2>1. SlotStep(j, p \in HoldPC, l \in HoldPC)
    BY <1>4 DEF SlotStep, HoldPC
  <2>2. p \in Past /\ l \in Past \ {"copy"}
    BY <1>4 DEF Past
  <2> QED BY <1>1, <1>2, <1>3, <2>1, <2>2, OnIInv
<1>5. CASE l = "close"
  <2>1. SlotStep(j, Holding(j), w.pc \in HoldPC) /\ Seen(j, w, tgt') /\ Saved(j, w, backup')
    BY <1>0, <1>3, <1>5 DEF SlotStep, HoldPC, Seen, Saved, Past
  <2> QED BY <1>0, <1>1, <1>2, <1>3, <2>1, SyncMove
<1> QED BY <1>4, <1>5

LEMMA CacheIInv ==
    ASSUME IInv, setup.program = "regsync", UNCHANGED script, NEW j \in Job,
           CacheLookup(j) \/ CacheFill(j)
    PROVE  IInv'
<1>0. /\ ServerSame /\ UNCHANGED tgt /\ UNCHANGED backup /\ UNCHANGED held
  BY DEF CacheLookup, CacheFill
<1>1. ASSUME NEW p \in {"plat", "platget"}, NEW v, Working(j, p), Goto(j, AfterPlatform(j, v))
      PROVE  IInv'
  BY <1>0, <1>1, PlatformIInv
<1>2. CASE Working(j, "plat") /\ Goto(j, [work[j] EXCEPT !.pc = "platget"])
  <2>1. Goto(j, [work[j] EXCEPT !.pc = "platget", !.pin = work[j].pin])
    BY <1>2, WorkingFacts, PinSame
  <2>2. SlotStep(j, "plat" \in HoldPC, "platget" \in HoldPC)
    BY <1>0 DEF SlotStep, HoldPC
  <2> QED BY <1>0, <1>2, <2>1, <2>2, OnIInv DEF Past
<1>3. ASSUME NEW p \in {"plat", "platget"}, Working(j, p), Finish(j, TRUE)
      PROVE  IInv'
  <2>1. SlotStep(j, p \in HoldPC, FALSE) /\ OwnTarget(j)
    BY <1>0, <1>3, WorkingFacts, SameTarget DEF SlotStep, HoldPC
  <2> QED BY <1>0, <1>3, <2>1, FinishIInv
<1>4. CASE CacheLookup(j)
  BY <1>1, <1>2, <1>3, <1>4 DEF CacheLookup
<1>5. CASE CacheFill(j)
  BY <1>1, <1>3, <1>5 DEF CacheFill
<1> QED BY <1>4, <1>5

\* The throttle and the rate limit.
LEMMA ThrottleIInv ==
    ASSUME IInv, setup.program = "regsync", UNCHANGED script, NEW j \in Job,
           AcquireSlot(j) \/ RateHead(j) \/ Sleep(j)
    PROVE  IInv'
<1>0. ServerSame /\ UNCHANGED tgt /\ UNCHANGED backup
  BY DEF AcquireSlot, RateHead, Sleep, WorldSame
<1>1. PICK p \in {"acquire", "rate", "sleep"} : Working(j, p)
  BY DEF AcquireSlot, RateHead, Sleep
<1>2. p \in Past /\ IsWork(work[j]) /\ OwnTarget(j) /\ work[j].pc = p
  BY <1>0, <1>1, WorkingFacts, SameTarget DEF Past
<1>3. ASSUME NEW l \in Past \ {"copy"}, Goto(j, [work[j] EXCEPT !.pc = l]),
             SlotStep(j, p \in HoldPC, l \in HoldPC)
      PROVE  IInv'
  <2>1. Goto(j, [work[j] EXCEPT !.pc = l, !.pin = work[j].pin])
    BY <1>2, <1>3, PinSame
  <2> QED BY <1>0, <1>1, <1>2, <1>3, <2>1, OnIInv
<1>4. ASSUME Finish(j, TRUE), SlotStep(j, p \in HoldPC, FALSE)
      PROVE  IInv'
  BY <1>0, <1>1, <1>2, <1>4, FinishIInv
<1>5. CASE AcquireSlot(j)
  <2>1. p = "acquire"
    BY <1>2, <1>5 DEF AcquireSlot, Working
  <2>2. CASE Acquire(j) /\ Goto(j, [work[j] EXCEPT !.pc = IF S(j) \in HasRateLimit THEN "rate" ELSE "ctx"])
    <3>1. PICK l \in {"rate", "ctx"} : Goto(j, [work[j] EXCEPT !.pc = l])
      BY <2>2
    <3>2. l \in Past \ {"copy"} /\ SlotStep(j, p \in HoldPC, l \in HoldPC)
      BY <2>1, <2>2 DEF Past, HoldPC, SlotStep
    <3> QED BY <1>3, <3>1, <3>2
  <2>3. CASE UNCHANGED held /\ Finish(j, TRUE)
    BY <1>4, <2>1, <2>3 DEF SlotStep, HoldPC
  <2> QED BY <1>5, <2>2, <2>3 DEF AcquireSlot
<1>6. CASE RateHead(j)
  <2>1. p = "rate"
    BY <1>2, <1>6 DEF RateHead, Working
  <2>2. CASE UNCHANGED held /\ Goto(j, [work[j] EXCEPT !.pc = "ctx"])
    BY <1>3, <2>1, <2>2 DEF Past, HoldPC, SlotStep
  <2>3. CASE Release(j) /\ Goto(j, [work[j] EXCEPT !.pc = "sleep"])
    BY <1>3, <2>1, <2>3 DEF Past, HoldPC, SlotStep
  <2>4. CASE Release(j) /\ Finish(j, TRUE)
    BY <1>4, <2>1, <2>4 DEF SlotStep, HoldPC
  <2> QED BY <1>6, <2>2, <2>3, <2>4 DEF RateHead
<1>7. CASE Sleep(j)
  <2>1. p = "sleep" /\ UNCHANGED held
    BY <1>2, <1>7 DEF Sleep, Working
  <2>2. CASE Goto(j, [work[j] EXCEPT !.pc = "acquire"])
    BY <1>3, <2>1, <2>2 DEF Past, HoldPC, SlotStep
  <2>3. CASE Finish(j, TRUE)
    BY <1>4, <2>1, <2>3 DEF SlotStep, HoldPC
  <2> QED BY <1>7, <2>2, <2>3 DEF Sleep
<1> QED BY <1>5, <1>6, <1>7

\* Without a backup the copy overwrites nothing, what it agrees with, or what
\* nobody asked to back up.
LEMMA CheckContextIInv ==
    ASSUME IInv, setup.program = "regsync", UNCHANGED script, NEW j \in Job, CheckContext(j)
    PROVE  IInv'
<1>0. ServerSame /\ UNCHANGED tgt /\ UNCHANGED backup /\ Working(j, "ctx")
  BY DEF CheckContext, WorldSame
<1>1. /\ At(j, "body") /\ IsWork(work[j]) /\ work[j].err \in BOOLEAN /\ Holding(j)
      /\ Seen(j, work[j], tgt) /\ OwnTarget(j) /\ work[j].pc = "ctx"
  BY <1>0, WorkingFacts, SameTarget DEF HoldPC
<1>2. CASE Finish(j, TRUE) /\ Release(j)
  <2>1. SlotStep(j, "ctx" \in HoldPC, FALSE)
    BY <1>2 DEF SlotStep, HoldPC
  <2> QED BY <1>0, <1>1, <1>2, <2>1, FinishIInv
<1>3. CASE /\ Goto(j, [work[j] EXCEPT !.pc =
                   IF /\ work[j].tSeen # 0 /\ S(j) \in HasBackup
                      /\ ~(work[j].tSeen # 0 /\ work[j].tSeen \in {work[j].sSeen, work[j].pin})
                   THEN "backup" ELSE "copy"])
           /\ UNCHANGED held
  <2>1. PICK l \in {"backup", "copy"} :
          /\ Goto(j, [work[j] EXCEPT !.pc = l])
          /\ l = "copy" => \/ work[j].tSeen = 0 \/ S(j) \notin HasBackup
                           \/ work[j].tSeen \in {work[j].sSeen, work[j].pin}
    BY <1>3
  <2>2. PICK w : w = [work[j] EXCEPT !.pc = l]
    OBVIOUS
  <2>3. /\ Goto(j, w) /\ IsWork(w) /\ w.err \in BOOLEAN /\ w.pc = l
        /\ w.tSeen = work[j].tSeen /\ w.sSeen = work[j].sSeen /\ w.pin = work[j].pin
        /\ w.blind = work[j].blind /\ w.todo = work[j].todo
    BY <1>1, <2>1, <2>2 DEF IsWork
  <2>4. SlotStep(j, Holding(j), w.pc \in HoldPC)
    BY <1>1, <1>3, <2>3 DEF SlotStep, HoldPC
  <2>5. Seen(j, w, tgt') /\ Saved(j, w, backup')
    BY <1>0, <1>1, <2>1, <2>3 DEF Seen, Saved, Past
  <2> QED BY <1>0, <1>1, <2>3, <2>4, <2>5, SyncMove
<1> QED BY <1>2, <1>3 DEF CheckContext

LEMMA BackupCopyIInv ==
    ASSUME IInv, setup.program = "regsync", UNCHANGED script, NEW j \in Job, BackupCopy(j)
    PROVE  IInv'
<1>0. ServerSame /\ UNCHANGED tgt /\ Working(j, "backup")
  BY DEF BackupCopy
<1>1. /\ At(j, "body") /\ IsWork(work[j]) /\ work[j].err \in BOOLEAN /\ Holding(j)
      /\ Seen(j, work[j], tgt) /\ work[j].pc = "backup" /\ ShapeOK /\ S(j) \in Steps
  BY <1>0, WorkingFacts DEF HoldPC
<1>2. CASE Finish(j, TRUE) /\ Release(j) /\ UNCHANGED backup
  <2>1. SlotStep(j, "backup" \in HoldPC, FALSE) /\ OwnTarget(j)
    BY <1>0, <1>1, <1>2, SameTarget DEF SlotStep, HoldPC
  <2> QED BY <1>0, <1>1, <1>2, <2>1, FinishIInv
<1>3. CASE /\ backup' = [backup EXCEPT ![S(j)][Cur(j)] = tgt[S(j)][Cur(j)]]
           /\ Goto(j, [work[j] EXCEPT !.pc = "copy"]) /\ UNCHANGED held
  <2>1. PICK w : w = [work[j] EXCEPT !.pc = "copy"]
    OBVIOUS
  <2>2. /\ Goto(j, w) /\ IsWork(w) /\ w.err \in BOOLEAN /\ w.pc = "copy"
        /\ w.tSeen = work[j].tSeen /\ w.blind = work[j].blind /\ w.todo = work[j].todo
    BY <1>1, <1>3, <2>1 DEF IsWork
  <2>3. SlotStep(j, Holding(j), w.pc \in HoldPC)
    BY <1>1, <1>3, <2>2 DEF SlotStep, HoldPC
  <2>4. OwnTarget(j) /\ (Cur(j) \in Tags => backup'[S(j)][Cur(j)] = tgt[S(j)][Cur(j)])
    BY <1>0, <1>1, <1>3 DEF OwnTarget, ShapeOK
  <2>5. Seen(j, w, tgt') /\ Saved(j, w, backup')
    BY <1>0, <1>1, <2>2, <2>4 DEF Seen, Saved, Past, Cur
  <2> QED BY <1>0, <1>1, <2>2, <2>3, <2>4, <2>5, SyncMove
<1>4. CASE /\ Goto(j, [work[j] EXCEPT !.pc = "copy", !.unsaved = TRUE])
           /\ UNCHANGED backup /\ UNCHANGED held
  <2>1. PICK w : w = [work[j] EXCEPT !.pc = "copy", !.unsaved = TRUE]
    OBVIOUS
  <2>2. /\ Goto(j, w) /\ IsWork(w) /\ w.err \in BOOLEAN /\ w.pc = "copy" /\ w.unsaved
        /\ w.tSeen = work[j].tSeen /\ w.blind = work[j].blind /\ w.todo = work[j].todo
    BY <1>1, <1>4, <2>1 DEF IsWork
  <2>3. SlotStep(j, Holding(j), w.pc \in HoldPC) /\ OwnTarget(j)
    BY <1>0, <1>1, <1>4, <2>2, SameTarget DEF SlotStep, HoldPC
  <2>4. Seen(j, w, tgt') /\ Saved(j, w, backup')
    BY <1>0, <1>1, <2>2 DEF Seen, Saved, Past
  <2> QED BY <1>0, <1>1, <2>2, <2>3, <2>4, SyncMove
<1> QED BY <1>2, <1>3, <1>4 DEF BackupCopy

LEMMA CopyIInv ==
    ASSUME IInv, setup.program = "regsync", UNCHANGED script, NEW j \in Job, Copy(j)
    PROVE  IInv'
<1>0. ServerSame /\ UNCHANGED backup /\ Working(j, "copy") /\ Release(j)
  BY DEF Copy
<1>1. ShapeOK /\ S(j) \in Steps
  BY <1>0, WorkingFacts
<1>2. SlotStep(j, "copy" \in HoldPC, FALSE)
  BY <1>0 DEF SlotStep, HoldPC
<1>3. OwnTarget(j) /\ \E e \in BOOLEAN : Finish(j, e)
  <2>1. CASE UNCHANGED tgt /\ Finish(j, TRUE)
    BY <1>0, <1>1, <2>1, SameTarget
  <2>2. CASE Finish(j, FALSE) /\ \E v : tgt' = [tgt EXCEPT ![S(j)][Cur(j)] = v]
    BY <1>0, <1>1, <2>2 DEF OwnTarget, ShapeOK
  <2> QED BY <2>1, <2>2, Zenon DEF Copy
<1> QED BY <1>0, <1>2, <1>3, FinishIInv

LEMMA PublishIInv ==
    ASSUME IInv, setup.program = "regsync", UNCHANGED script, NEW t, Publish(t)
    PROVE  IInv'
<1>1. /\ ServerSame /\ UNCHANGED work /\ UNCHANGED tgt /\ UNCHANGED backup /\ UNCHANGED held
      /\ UNCHANGED setup /\ UNCHANGED job /\ UNCHANGED main
  BY DEF Publish, ServerSame
<1>2. OrderOK' /\ ErrorOK'
  BY <1>1, ServerKept DEF IInv
<1>3. TypeOK'
  BY <1>1 DEF IInv, TypeOK, ServerSame
<1>4. ShapeOK'
  BY <1>1 DEF IInv, ShapeOK, MainRecord
<1>5. HeldOK'
  BY <1>1, Zenon DEF IInv, HeldOK, Holding, At, InUse, Taken
<1>6. SyncOK'
  BY <1>1, Zenon DEF IInv, SyncOK, Seen, Saved, At, Action
<1> QED BY <1>2, <1>3, <1>4, <1>5, <1>6 DEF IInv
-----------------------------------------------------------------------------
(* process returns.                                                         *)

LEMMA EndKept ==
    ASSUME TypeOK, OrderOK, ErrorOK, NEW j \in Job, At(j, "body"), NEW e \in BOOLEAN,
           Ended(j, e), UNCHANGED setup, UNCHANGED main, UNCHANGED mainErr, UNCHANGED canceled,
           held' \in [Job -> Nat]
    PROVE  TypeOK' /\ OrderOK' /\ ErrorOK'
<1>0. /\ job \in [Job -> [pc : {"off", "spawned", "body", "end", "write", "over"}, err : BOOLEAN]]
      /\ job' = [job EXCEPT ![j] = [pc |-> "end", err |-> e]] /\ failed' = (failed \/ e)
      /\ failed \in BOOLEAN
  BY DEF TypeOK, Ended
<1>1. TypeOK'
  BY <1>0 DEF TypeOK
<1>2. /\ job'[j] = [pc |-> "end", err |-> e] /\ job[j].pc = "body"
      /\ \A k \in Job : k # j => job'[k] = job[k]
  BY <1>0 DEF At
<1>3. Counted' = Counted /\ Ahead' = Ahead
  BY <1>2 DEF Counted, Ahead
<1>4. \A k \in Job : /\ At(k, "off")' <=> At(k, "off")
                     /\ At(k, "spawned")' <=> At(k, "spawned")
                     /\ At(k, "write")' <=> At(k, "write")
  BY <1>2 DEF At
<1>5. \A s \in Steps : First(s) \in Job /\ Cron(s) \in Job
  BY JobFacts
<1>6. \A k \in Ahead : setup.steps[k] \in Steps
  BY JobServerAssumption DEF TypeOK, Ahead
<1>7. OrderOK'
  BY <1>3, <1>4, <1>5, <1>6 DEF OrderOK
<1>8. ErrorOK'
  <2>1. \A k \in Job : job'[k].err => failed' /\ job'[k].pc \in {"end", "write"}
    BY <1>0, <1>2 DEF ErrorOK
  <2>2. mainErr' => failed'
    BY <1>0 DEF ErrorOK
  <2>3. ASSUME setup.mode # "server", failed'
        PROVE  mainErr' \/ \E k \in Job : job'[k].err
    <3>1. CASE e
      BY <1>2, <3>1
    <3>2. CASE failed
      <4>1. CASE mainErr
        BY <4>1
      <4>2. CASE ~mainErr
        <5>1. PICK k \in Job : job[k].err
          BY <2>3, <3>2, <4>2 DEF ErrorOK
        <5>2. k # j
          BY <1>2, <5>1 DEF ErrorOK
        <5> QED BY <1>2, <5>1, <5>2
      <4> QED BY <4>1, <4>2
    <3> QED BY <1>0, <2>3, <3>1, <3>2
  <2>4. ASSUME setup.mode # "server", NEW k \in Job, At(k, "write")'
        PROVE  job'[k].err
    BY <1>2, <2>4 DEF ErrorOK, At
  <2> QED BY <2>1, <2>2, <2>3, <2>4 DEF ErrorOK
<1> QED BY <1>1, <1>7, <1>8

\* A job that leaves process has given back its slot and forgets where it was.
LEMMA EndIInv ==
    ASSUME IInv, NEW j \in Job, At(j, "body"), NEW e \in BOOLEAN, Ended(j, e),
           UNCHANGED setup, UNCHANGED main, UNCHANGED mainErr, UNCHANGED canceled,
           SlotStep(j, Holding(j), FALSE), UNCHANGED tgt, UNCHANGED backup,
           \/ /\ setup.program = "regsync"
              /\ Goto(j, NewWork) /\ UNCHANGED script
           \/ /\ setup.program # "regsync"
              /\ script' = [script EXCEPT ![j] = NewScript] /\ UNCHANGED work
    PROVE  IInv'
<1>0. TypeOK /\ ShapeOK /\ OrderOK /\ ErrorOK /\ HeldOK /\ SyncOK
  BY DEF IInv
<1>1. /\ held' \in [Job -> Nat] /\ held'[j] = 0 /\ InUse' <= Concurrent
      /\ \A k \in Job : k # j => held'[k] = held[k]
  BY <1>0, SlotStepFacts
<1>2. TypeOK' /\ OrderOK' /\ ErrorOK'
  BY <1>0, <1>1, EndKept
<1>3. ~At(j, "body")' /\ \A k \in Job : k # j => job'[k] = job[k]
  BY <1>0 DEF TypeOK, Ended, At
<1>4. /\ DOMAIN work' = Job /\ \A k \in Job : k # j => work'[k] = work[k]
      /\ DOMAIN script' = Job /\ \A k \in Job : k # j => script'[k] = script[k]
      /\ work'[j] \in {work[j], NewWork} /\ script'[j] \in {script[j], NewScript}
      /\ setup.program = "regsync" => work'[j] = NewWork
      /\ setup.program # "regsync" => script'[j] = NewScript
  BY <1>0 DEF Goto, ShapeOK
<1>5. IsWork(NewWork) /\ NewWork.err \in BOOLEAN /\ IsScript(NewScript)
  BY DEF IsWork, NewWork, IsScript, NewScript
<1>6. ShapeOK'
  <2>1. \A k \in Job : IsWork(work'[k]) /\ work'[k].err \in BOOLEAN /\ IsScript(script'[k])
    BY <1>0, <1>4, <1>5 DEF ShapeOK
  <2> QED BY <1>0, <1>4, <2>1 DEF ShapeOK, MainRecord
<1>7. HeldOK'
  <2>1. ASSUME NEW k \in Job
        PROVE  /\ held'[k] = IF Holding(k)' THEN 1 ELSE 0
               /\ ~At(k, "body")' =>
                    IF setup.program = "regsync" THEN work'[k] = NewWork ELSE script'[k] = NewScript
    <3>1. CASE k = j
      BY <1>1, <1>3, <1>4, <3>1 DEF Holding
    <3>2. CASE k # j
      BY <1>0, <1>1, <1>3, <1>4, <3>2 DEF Holding, HeldOK, At
    <3> QED BY <3>1, <3>2
  <2> QED BY <1>1, <2>1 DEF HeldOK
<1>8. SyncOK'
  <2> SUFFICES ASSUME setup.program = "regsync", NEW k \in Job, At(k, "body")'
               PROVE  (Seen(k, work[k], tgt) /\ Saved(k, work[k], backup))'
    BY DEF SyncOK
  <2>1. k # j /\ At(k, "body")
    BY <1>3 DEF At
  <2> QED BY <1>0, <1>4, <2>1 DEF SyncOK, Seen, Saved, Action
<1> QED BY <1>2, <1>6, <1>7, <1>8 DEF IInv

LEMMA NextTagIInv ==
    ASSUME IInv, setup.program = "regsync", UNCHANGED script, NEW j \in Job, NextTag(j)
    PROVE  IInv'
<1>0. /\ At(j, "body") /\ IsWork(work[j]) /\ work[j].err \in BOOLEAN /\ ~Holding(j)
      /\ UNCHANGED held /\ OwnTarget(j) /\ UNCHANGED tgt /\ UNCHANGED backup
  BY WorkingFacts, SameTarget DEF NextTag, WorldSame, HoldPC
<1>1. CASE work[j].todo = <<>>
  <2>1. SlotStep(j, Holding(j), FALSE)
    BY <1>0 DEF SlotStep
  <2>2. /\ Ended(j, work[j].err) /\ Goto(j, NewWork)
        /\ UNCHANGED setup /\ UNCHANGED main /\ UNCHANGED mainErr /\ UNCHANGED canceled
    BY <1>1 DEF NextTag
  <2> QED BY <1>0, <2>1, <2>2, EndIInv
<1>2. CASE work[j].todo # <<>>
  <2>1. PICK w : w = [work[j] EXCEPT !.pc = "headsrc"]
    OBVIOUS
  <2>2. Goto(j, w) /\ IsWork(w) /\ w.err \in BOOLEAN /\ w.pc = "headsrc" /\ ServerSame
    BY <1>0, <1>2, <2>1 DEF NextTag, IsWork
  <2>3. SlotStep(j, Holding(j), w.pc \in HoldPC) /\ Seen(j, w, tgt') /\ Saved(j, w, backup')
    BY <1>0, <2>2 DEF SlotStep, HoldPC, Seen, Saved, Past
  <2> QED BY <1>0, <2>2, <2>3, SyncMove
<1> QED BY <1>1, <1>2

LEMMA SyncJobIInv ==
    ASSUME IInv, setup.program = "regsync", UNCHANGED script, NEW j \in Job, SyncJob(j)
    PROVE  IInv'
BY ListIInv, NextTagIInv, CloseIInv, HeadSourceIInv, HeadTargetIInv, CacheIInv, ThrottleIInv,
   CheckContextIInv, BackupCopyIInv, CopyIInv DEF SyncJob
-----------------------------------------------------------------------------
(* regbot.                                                                  *)

\* A step of a script keeps the invariant when its new record fits.
LEMMA BotMove ==
    ASSUME IInv, NEW j \in Job, At(j, "body"), setup.program = "regbot",
           ServerSame, UNCHANGED syncVars, NEW x, IsScript(x),
           script' = [script EXCEPT ![j] = x],
           SlotStep(j, Holding(j), x.pc = "run" /\ "slot" \in x.fn)
    PROVE  IInv'
<1>0. TypeOK /\ ShapeOK /\ OrderOK /\ ErrorOK /\ HeldOK /\ SyncOK
  BY DEF IInv
<1>1. OrderOK' /\ ErrorOK'
  BY <1>0, ServerKept
<1>2. /\ UNCHANGED setup /\ UNCHANGED main /\ UNCHANGED job
      /\ UNCHANGED work /\ UNCHANGED tgt /\ UNCHANGED backup
  BY DEF ServerSame, syncVars
<1>3. DOMAIN script' = Job /\ script'[j] = x /\ \A k \in Job : k # j => script'[k] = script[k]
  BY <1>0 DEF ShapeOK
<1>4. /\ held' \in [Job -> Nat]
      /\ held'[j] = IF x.pc = "run" /\ "slot" \in x.fn THEN 1 ELSE 0
      /\ \A k \in Job : k # j => held'[k] = held[k]
      /\ InUse' <= Concurrent
  <2>1. PICK after \in BOOLEAN : after <=> x.pc = "run" /\ "slot" \in x.fn
    OBVIOUS
  <2>2. SlotStep(j, Holding(j), after)
    BY <2>1 DEF SlotStep
  <2> QED BY <1>0, <2>1, <2>2, SlotStepFacts
<1>5. TypeOK'
  BY <1>0, <1>4 DEF TypeOK, ServerSame
<1>6. ShapeOK'
  BY <1>0, <1>2, <1>3 DEF ShapeOK, MainRecord
<1>7. HeldOK'
  <2>1. ASSUME NEW k \in Job
        PROVE  /\ held'[k] = IF Holding(k)' THEN 1 ELSE 0
               /\ ~At(k, "body")' => script'[k] = NewScript
    <3>1. CASE k = j
      BY <1>2, <1>3, <1>4, <3>1 DEF Holding, At
    <3>2. CASE k # j
      BY <1>0, <1>2, <1>3, <1>4, <3>2 DEF Holding, HeldOK, At
    <3> QED BY <3>1, <3>2
  <2> QED BY <1>2, <1>4, <2>1 DEF HeldOK
<1>8. SyncOK'
  BY <1>2 DEF SyncOK
<1> QED BY <1>1, <1>5, <1>6, <1>7, <1>8 DEF IInv

LEMMA RunningFacts ==
    ASSUME IInv, setup.program = "regbot", NEW j \in Job, NEW p, Running(j, p)
    PROVE  /\ At(j, "body") /\ script[j].pc = p /\ IsScript(script[j])
           /\ Holding(j) <=> p = "run" /\ "slot" \in script[j].fn
BY DEF IInv, Running, ShapeOK, Holding

\* The script ends on a path that has given back its slot.
LEMMA ScriptEndsIInv ==
    ASSUME IInv, setup.program = "regbot", UNCHANGED syncVars, NEW j \in Job, NEW e \in BOOLEAN,
           At(j, "body"), ScriptEnds(j, e), RestSame, SlotStep(j, Holding(j), FALSE)
    PROVE  IInv'
<1>1. /\ UNCHANGED work /\ UNCHANGED tgt /\ UNCHANGED backup /\ UNCHANGED setup
      /\ UNCHANGED main /\ UNCHANGED mainErr /\ UNCHANGED canceled
      /\ Ended(j, e) /\ script' = [script EXCEPT ![j] = NewScript]
  BY DEF syncVars, RestSame, ScriptEnds
<1> QED BY <1>1, EndIInv

LEMMA RestServer ==
    ASSUME RestSame, UNCHANGED <<job, failed>>
    PROVE  ServerSame
BY DEF RestSame, ServerSame

LEMMA CallIInv ==
    ASSUME IInv, setup.program = "regbot", UNCHANGED syncVars, NEW j \in Job,
           NEW fn \in Function, Call(j, fn)
    PROVE  IInv'
<1>0. /\ At(j, "body") /\ script[j].pc = "lua" /\ IsScript(script[j]) /\ ~Holding(j)
      /\ UNCHANGED held /\ RestSame
  BY RunningFacts DEF Call
<1>1. CASE ScriptEnds(j, TRUE)
  BY <1>0, <1>1, ScriptEndsIInv DEF SlotStep
<1>2. CASE /\ script' = [script EXCEPT ![j].fn = fn, ![j].calls = @ + 1,
                                      ![j].pc = IF "slot" \in fn THEN "queue" ELSE "run"]
           /\ UNCHANGED <<job, failed>>
  <2>1. PICK x : x = [script[j] EXCEPT !.fn = fn, !.calls = @ + 1,
                                       !.pc = IF "slot" \in fn THEN "queue" ELSE "run"]
    OBVIOUS
  <2>2. script' = [script EXCEPT ![j] = x]
    BY <1>2, <2>1 DEF IInv, ShapeOK
  <2>3. "wait" \in fn => "slot" \notin fn
    BY DEF Function, ConfigGet, ImageCopy, ImageExport, ImageImport, RateLimit, RateLimitWait,
           ManifestDelete, ManifestGet, ManifestHead, ManifestPut,
           BlobGet, BlobHead, BlobPut, TagDelete, TagLs, RepoLs, CloseReference
  <2>4. x.fn = fn /\ x.pc = (IF "slot" \in fn THEN "queue" ELSE "run") /\ IsScript(x)
    BY <1>0, <2>1, <2>3 DEF IsScript
  <2>5. SlotStep(j, Holding(j), x.pc = "run" /\ "slot" \in x.fn)
    BY <1>0, <2>4 DEF SlotStep
  <2> QED BY <1>0, <1>2, <2>2, <2>4, <2>5, RestServer, BotMove
<1> QED BY <1>1, <1>2 DEF Call

LEMMA QueueIInv ==
    ASSUME IInv, setup.program = "regbot", UNCHANGED syncVars, NEW j \in Job, QueueForSlot(j)
    PROVE  IInv'
<1>0. /\ At(j, "body") /\ script[j].pc = "queue" /\ IsScript(script[j]) /\ ~Holding(j)
      /\ RestSame
  BY RunningFacts DEF QueueForSlot
<1>1. CASE ScriptEnds(j, TRUE) /\ UNCHANGED held
  BY <1>0, <1>1, ScriptEndsIInv DEF SlotStep
<1>2. CASE /\ Acquire(j) /\ script' = [script EXCEPT ![j].pc = "run"]
           /\ UNCHANGED <<job, failed>>
  <2>1. PICK x : x = [script[j] EXCEPT !.pc = "run"]
    OBVIOUS
  <2>2. script' = [script EXCEPT ![j] = x]
    BY <1>2, <2>1 DEF IInv, ShapeOK
  <2>3. x.fn = script[j].fn /\ x.pc = "run" /\ "slot" \in x.fn /\ IsScript(x)
    BY <1>0, <2>1 DEF IsScript
  <2>4. SlotStep(j, Holding(j), x.pc = "run" /\ "slot" \in x.fn)
    BY <1>0, <1>2, <2>3 DEF SlotStep
  <2> QED BY <1>0, <1>2, <2>2, <2>3, <2>4, RestServer, BotMove
<1> QED BY <1>1, <1>2 DEF QueueForSlot

LEMMA BackToLuaIInv ==
    ASSUME IInv, setup.program = "regbot", UNCHANGED syncVars, NEW j \in Job, At(j, "body"),
           BackToLua(j), RestSame, SlotStep(j, Holding(j), FALSE)
    PROVE  IInv'
<1>1. PICK x : x = [script[j] EXCEPT !.pc = "lua", !.fn = {}]
  OBVIOUS
<1>2. script' = [script EXCEPT ![j] = x] /\ IsScript(script[j])
  BY <1>1 DEF BackToLua, IInv, ShapeOK
<1>3. x.pc = "lua" /\ x.fn = {} /\ IsScript(x)
  BY <1>1, <1>2 DEF IsScript
<1>4. SlotStep(j, Holding(j), x.pc = "run" /\ "slot" \in x.fn)
  BY <1>3 DEF SlotStep
<1>5. ServerSame
  BY RestServer DEF BackToLua
<1> QED BY <1>2, <1>3, <1>4, <1>5, BotMove

\* The deferred done of a call.
LEMMA LeaveSlotFacts ==
    ASSUME IInv, setup.program = "regbot", NEW j \in Job, Running(j, "run"), LeaveSlot(j)
    PROVE  SlotStep(j, Holding(j), FALSE)
BY RunningFacts DEF LeaveSlot, SlotStep

LEMMA RateWaitIInv ==
    ASSUME IInv, setup.program = "regbot", UNCHANGED syncVars, NEW j \in Job, RateWait(j)
    PROVE  IInv'
<1>0. PICK p \in {"run", "wait"} : Running(j, p) /\ (p = "run" => "wait" \in script[j].fn)
  BY DEF RateWait
<1>1. /\ At(j, "body") /\ IsScript(script[j]) /\ ~Holding(j) /\ "slot" \notin script[j].fn
      /\ RestSame /\ UNCHANGED held
  <2>1. At(j, "body") /\ IsScript(script[j]) /\ script[j].pc = p
    BY <1>0, RunningFacts
  <2>2. "slot" \notin script[j].fn
    BY <1>0, <2>1 DEF IsScript
  <2> QED BY <1>0, <2>1, <2>2, RunningFacts DEF RateWait
<1>2. CASE BackToLua(j)
  BY <1>1, <1>2, BackToLuaIInv DEF SlotStep
<1>3. CASE UNCHANGED <<job, failed>> /\ \E q : script' = [script EXCEPT ![j].pc = q] /\ q \in {"run", "wait"}
  <2>1. PICK q : script' = [script EXCEPT ![j].pc = q] /\ q \in {"run", "wait"}
    BY <1>3
  <2>2. PICK x : x = [script[j] EXCEPT !.pc = q]
    OBVIOUS
  <2>3. script' = [script EXCEPT ![j] = x]
    BY <2>1, <2>2 DEF IInv, ShapeOK
  <2>4. x.fn = script[j].fn /\ IsScript(x)
    BY <1>1, <2>1, <2>2 DEF IsScript
  <2>5. SlotStep(j, Holding(j), x.pc = "run" /\ "slot" \in x.fn)
    BY <1>1, <2>4 DEF SlotStep
  <2> QED BY <1>1, <1>3, <2>3, <2>4, <2>5, RestServer, BotMove
<1> QED BY <1>2, <1>3 DEF RateWait

LEMMA TimeoutIInv ==
    ASSUME IInv, setup.program = "regbot", UNCHANGED syncVars, NEW j \in Job, Timeout(j)
    PROVE  IInv'
<1>0. /\ At(j, "body") /\ RestSame /\ UNCHANGED held /\ UNCHANGED <<job, failed>>
      /\ IsScript(script[j])
  BY DEF Timeout, IInv, ShapeOK
<1>1. PICK x : x = [script[j] EXCEPT !.late = TRUE]
  OBVIOUS
<1>2. script' = [script EXCEPT ![j] = x]
  BY <1>1 DEF Timeout, IInv, ShapeOK
<1>3. x.fn = script[j].fn /\ x.pc = script[j].pc /\ IsScript(x)
  BY <1>0, <1>1 DEF IsScript
<1>4. Holding(j) <=> x.pc = "run" /\ "slot" \in x.fn
  BY <1>0, <1>3 DEF Holding
<1>5. SlotStep(j, Holding(j), x.pc = "run" /\ "slot" \in x.fn)
  BY <1>0, <1>4 DEF SlotStep
<1> QED BY <1>0, <1>2, <1>3, <1>5, RestServer, BotMove

LEMMA BotJobIInv ==
    ASSUME IInv, setup.program = "regbot", UNCHANGED syncVars, NEW j \in Job, BotJob(j)
    PROVE  IInv'
<1>1. CASE LuaDone(j)
  <2>0. Running(j, "lua") /\ RestSame /\ ScriptEnds(j, FALSE) /\ UNCHANGED held
    BY <1>1 DEF LuaDone
  <2>1. At(j, "body") /\ ~Holding(j)
    BY <2>0, RunningFacts
  <2>2. SlotStep(j, Holding(j), FALSE)
    BY <2>0, <2>1 DEF SlotStep
  <2> QED BY <2>0, <2>1, <2>2, ScriptEndsIInv
<1>2. CASE CallReturns(j)
  <2>1. Running(j, "run") /\ At(j, "body") /\ RestSame /\ BackToLua(j) /\ LeaveSlot(j)
    BY <1>2 DEF CallReturns, Running
  <2> QED BY <2>1, LeaveSlotFacts, BackToLuaIInv
<1>3. CASE CallRaises(j)
  <2>1. Running(j, "run") /\ At(j, "body") /\ RestSame /\ ScriptEnds(j, TRUE) /\ LeaveSlot(j)
    BY <1>3 DEF CallRaises, Running
  <2> QED BY <2>1, LeaveSlotFacts, ScriptEndsIInv
<1> QED BY <1>1, <1>2, <1>3, CallIInv, QueueIInv, RateWaitIInv DEF BotJob
-----------------------------------------------------------------------------
(* The program around the jobs.                                             *)

\* A job that comes to process starts afresh and without a slot; main and the
\* ends of jobs leave the others alone.
LEMMA ServerMove ==
    ASSUME IInv, UNCHANGED setup, UNCHANGED held, UNCHANGED syncVars, UNCHANGED botVars,
           \A k \in Job : At(k, "body") => At(k, "body")',
           TypeOK', MainRecord', OrderOK', ErrorOK'
    PROVE  IInv'
<1>0. TypeOK /\ ShapeOK /\ OrderOK /\ ErrorOK /\ HeldOK /\ SyncOK
  BY DEF IInv
<1>1. UNCHANGED work /\ UNCHANGED tgt /\ UNCHANGED backup /\ UNCHANGED script
  BY DEF syncVars, botVars
<1>2. ShapeOK'
  BY <1>0, <1>1 DEF ShapeOK
<1>3. HeldOK'
  <2>1. \A k \in Job : Holding(k)' <=> Holding(k)
    <3> SUFFICES ASSUME NEW k \in Job
                 PROVE  Holding(k)' <=> Holding(k)
      OBVIOUS
    <3>1. CASE At(k, "body")
      BY <1>1, <3>1 DEF Holding
    <3>2. CASE ~At(k, "body")
      BY <1>0, <1>1, <3>2 DEF HeldOK, Holding, NewWork, NewScript
    <3> QED BY <3>1, <3>2
  <2>2. InUse' = InUse
    BY DEF InUse, Taken
  <2> QED BY <1>0, <1>1, <2>1, <2>2 DEF HeldOK
<1>4. SyncOK'
  <2> SUFFICES ASSUME setup.program = "regsync", NEW k \in Job
               PROVE  (Seen(k, work[k], tgt) /\ Saved(k, work[k], backup))'
    BY DEF SyncOK
  <2>1. Seen(k, work[k], tgt) /\ Saved(k, work[k], backup)
    <3>1. CASE At(k, "body")
      BY <1>0, <3>1 DEF SyncOK
    <3>2. CASE ~At(k, "body")
      BY <1>0, <3>2 DEF HeldOK, NewWork, Seen, Saved, Past
    <3> QED BY <3>1, <3>2
  <2> QED BY <1>1, <2>1 DEF Seen, Saved, Action
<1> QED BY <1>2, <1>3, <1>4 DEF IInv

\* What the steps of main and of the ends of jobs have in common.
LEMMA ServerFacts ==
    ASSUME IInv
    PROVE  /\ setup.steps \in Seq(Steps) /\ Len(setup.steps) \in Nat
           /\ DOMAIN setup.steps = 1 .. Len(setup.steps)
           /\ \A k, l \in DOMAIN setup.steps : setup.steps[k] = setup.steps[l] => k = l
           /\ \A k \in DOMAIN setup.steps : setup.steps[k] \in Steps
           /\ setup.mode \in {"once", "missing", "check", "server"}
           /\ main.i \in Nat /\ main.i >= 1 /\ main.i <= Len(setup.steps) + 1
           /\ main = [pc |-> main.pc, i |-> main.i]
<1>1. setup \in Setups
  BY DEF IInv, TypeOK
<1>2. /\ setup.steps \in Seq(Steps) /\ IsInjective(setup.steps)
      /\ setup.mode \in {"once", "missing", "check", "server"}
  BY <1>1, JobServerAssumption
<1>3. main.i \in 1 .. Len(setup.steps) + 1
  BY DEF IInv, TypeOK
<1>4. main = [pc |-> main.pc, i |-> main.i]
  BY DEF IInv, ShapeOK, MainRecord
<1> QED BY <1>2, <1>3, <1>4 DEF IsInjective

\* The steps of main that start no job.
LEMMA MainIInv ==
    ASSUME IInv, UNCHANGED syncVars, UNCHANGED botVars,
           InlineDone \/ WaitDone \/ Stop \/ Return \/ Signal
    PROVE  IInv'
<1>0. TypeOK /\ OrderOK /\ ErrorOK
  BY DEF IInv
<1>1. /\ UNCHANGED setup /\ UNCHANGED held /\ UNCHANGED job /\ UNCHANGED mainErr
      /\ UNCHANGED failed
  BY DEF InlineDone, WaitDone, Stop, Return, Signal
<1>2. ErrorOK'
  BY <1>0, <1>1, Zenon DEF ErrorOK, At
<1>3. \A k \in Job : At(k, "body") => At(k, "body")'
  BY <1>1 DEF At
<1>4. Counted' = Counted
  BY <1>1 DEF Counted
<1>5. /\ \/ main' = main
         \/ InlineDone /\ main' = [pc |-> "loop", i |-> main.i + 1] /\ main.i + 1 <= Len(setup.steps) + 1
         \/ /\ Counted = {}
            /\ \/ main' = [pc |-> "serve", i |-> main.i] /\ setup.mode = "server"
               \/ main' = [pc |-> "returned", i |-> main.i]
         \/ main.pc = "serve" /\ main' = [pc |-> "stop", i |-> main.i]
      /\ canceled' \in BOOLEAN
  <2>1. CASE InlineDone
    BY <1>0, <2>1, ServerFacts DEF InlineDone, OrderOK, TypeOK
  <2>2. CASE WaitDone
    BY <1>0, <2>2, ServerFacts DEF WaitDone, TypeOK
  <2>3. CASE Stop
    BY <1>0, <2>3, ServerFacts DEF Stop, TypeOK
  <2>4. CASE Return
    BY <1>0, <2>4, ServerFacts DEF Return, TypeOK
  <2>5. CASE Signal
    BY <2>5 DEF Signal
  <2> QED BY <2>1, <2>2, <2>3, <2>4, <2>5
<1>6. TypeOK' /\ MainRecord'
  <2>1. /\ main'.pc \in {"loop", "inline", "serve", "stop", "returned"}
        /\ main'.i \in 1 .. Len(setup.steps) + 1 /\ MainRecord'
    BY <1>0, <1>5, ServerFacts DEF TypeOK, MainRecord
  <2> QED BY <1>0, <1>1, <1>5, <2>1 DEF TypeOK
<1>7. OrderOK'
  <2>1. CASE main' = main
    <3>1. Ahead' = Ahead
      BY <1>1, <2>1 DEF Ahead
    <3> QED BY <1>0, <1>1, <1>4, <2>1, <3>1 DEF OrderOK, At
  <2>2. CASE InlineDone /\ main' = [pc |-> "loop", i |-> main.i + 1]
    <3>1. main.pc = "inline"
      BY <2>2 DEF InlineDone
    <3>2. Ahead' = Ahead
      BY <1>1, <2>2, <3>1, ServerFacts DEF Ahead
    <3> QED BY <1>0, <1>1, <1>4, <2>2, <3>1, <3>2 DEF OrderOK, At
  <2>3. CASE /\ Counted = {}
             /\ \/ main' = [pc |-> "serve", i |-> main.i] /\ setup.mode = "server"
                \/ main' = [pc |-> "returned", i |-> main.i]
    BY <1>0, <1>1, <1>4, <2>3 DEF OrderOK, At
  <2>4. CASE main.pc = "serve" /\ main' = [pc |-> "stop", i |-> main.i]
    BY <1>0, <1>1, <1>4, <2>4 DEF OrderOK, At
  <2> QED BY <1>5, <2>1, <2>2, <2>3, <2>4
<1> QED BY <1>1, <1>2, <1>3, <1>6, <1>7, ServerMove

\* The turn of the loop starts the first run of a step that has not run yet.
LEMMA LoopStepIInv ==
    ASSUME IInv, UNCHANGED syncVars, UNCHANGED botVars, LoopStep
    PROVE  IInv'
<1>0. TypeOK /\ OrderOK /\ ErrorOK
  BY DEF IInv
<1>1. /\ UNCHANGED setup /\ UNCHANGED held /\ UNCHANGED mainErr /\ UNCHANGED failed
      /\ UNCHANGED canceled /\ main.pc = "loop" /\ main.i <= Len(setup.steps)
  BY DEF LoopStep
<1>2. PICK s : s = setup.steps[main.i] /\ s \in Steps /\ main.i \in DOMAIN setup.steps
  BY <1>1, ServerFacts
<1>3. /\ main.i \in Ahead /\ At(First(s), "off") /\ First(s) \in Job
      /\ \A k \in Ahead : k # main.i => First(setup.steps[k]) # First(s)
  <2>1. main.i \in Ahead
    BY <1>1, <1>2 DEF Ahead
  <2>2. \A k \in Ahead : k \in DOMAIN setup.steps /\ setup.steps[k] \in Steps
    BY ServerFacts DEF Ahead
  <2>3. \A k \in Ahead : k # main.i => setup.steps[k] # s
    BY <1>2, <2>2, ServerFacts
  <2> QED BY <1>0, <1>1, <1>2, <2>1, <2>2, <2>3, JobFacts DEF OrderOK
<1>4. /\ job \in [Job -> [pc : {"off", "spawned", "body", "end", "write", "over"}, err : BOOLEAN]]
      /\ main = [pc |-> "loop", i |-> main.i] /\ main.i \in Nat
  BY <1>0, <1>1, ServerFacts DEF TypeOK
<1>5. CASE UNCHANGED job /\ main' = [main EXCEPT !.i = @ + 1]
  <2>1. main' = [pc |-> "loop", i |-> main.i + 1]
    BY <1>4, <1>5
  <2>2. TypeOK' /\ MainRecord'
    BY <1>0, <1>1, <1>5, <2>1, ServerFacts DEF TypeOK, MainRecord
  <2>3. Counted' = Counted /\ Ahead' \subseteq Ahead
    BY <1>1, <1>4, <1>5, <2>1, ServerFacts DEF Counted, Ahead
  <2>4. OrderOK'
    BY <1>0, <1>1, <1>5, <2>1, <2>3 DEF OrderOK, At
  <2>5. ErrorOK'
    BY <1>0, <1>1, <1>5, Zenon DEF ErrorOK, At
  <2>6. \A k \in Job : At(k, "body") => At(k, "body")'
    BY <1>5 DEF At
  <2> QED BY <1>1, <2>2, <2>4, <2>5, <2>6, ServerMove
<1>6. CASE /\ job' = [job EXCEPT ![First(s)].pc = "body"]
           /\ main' = IF setup.parallel THEN [main EXCEPT !.i = @ + 1]
                      ELSE [main EXCEPT !.pc = "inline"]
  <2>1. \/ main' = [pc |-> "loop", i |-> main.i + 1]
        \/ main' = [pc |-> "inline", i |-> main.i]
    BY <1>4, <1>6
  <2>2. /\ job'[First(s)] = [pc |-> "body", err |-> job[First(s)].err]
        /\ \A k \in Job : k # First(s) => job'[k] = job[k]
        /\ job' \in [Job -> [pc : {"off", "spawned", "body", "end", "write", "over"}, err : BOOLEAN]]
    BY <1>3, <1>4, <1>6
  <2>3. TypeOK' /\ MainRecord'
    BY <1>0, <1>1, <1>2, <2>1, <2>2, ServerFacts DEF TypeOK, MainRecord
  <2>4. Ahead' = Ahead \ {main.i}
    BY <1>1, <1>4, <2>1, ServerFacts DEF Ahead
  <2>5. /\ \A t \in Steps : Cron(t) # First(s) /\ Cron(t) \in Job /\ First(t) \in Job
        /\ \A k \in Ahead : First(setup.steps[k]) \in Job
    BY <1>2, JobFacts, ServerFacts DEF Ahead
  <2>6. OrderOK'
    <3>1. \A k \in Ahead' : At(First(setup.steps[k]), "off")'
      BY <1>0, <1>1, <1>3, <2>2, <2>4, <2>5 DEF OrderOK, At
    <3>2. \A t \in Steps : At(Cron(t), "off")'
      BY <1>0, <1>1, <2>2, <2>5 DEF OrderOK, At
    <3>3. \A t \in Steps : ~At(First(t), "spawned")'
      BY <1>0, <2>2, <2>5 DEF OrderOK, At
    <3>4. main'.pc \in {"loop", "inline"} /\ (main'.pc = "inline" => main'.i \in DOMAIN setup.steps)
      BY <1>2, <2>1
    <3> QED BY <1>1, <3>1, <3>2, <3>3, <3>4 DEF OrderOK
  <2>7. ErrorOK'
    <3>1. job[First(s)].pc = "off" /\ ~job[First(s)].err
      BY <1>0, <1>3 DEF ErrorOK, At
    <3>2. \A k \in Job : job'[k].err <=> job[k].err
      BY <1>3, <2>2
    <3>3. \A k \in Job : job'[k].err => job'[k].pc = job[k].pc
      BY <1>3, <2>2, <3>1
    <3>4. \A k \in Job : At(k, "write")' => At(k, "write")
      BY <2>2 DEF At
    <3> QED BY <1>0, <1>1, <3>2, <3>3, <3>4 DEF ErrorOK
  <2>8. \A k \in Job : At(k, "body") => At(k, "body")'
    BY <2>2 DEF At
  <2> QED BY <1>1, <2>3, <2>6, <2>7, <2>8, ServerMove
<1> QED BY <1>2, <1>5, <1>6 DEF LoopStep, First

\* A job takes a step outside of process: its new record fits the order of runs.
LEMMA JobMove ==
    ASSUME IInv, UNCHANGED syncVars, UNCHANGED botVars, UNCHANGED setup, UNCHANGED main,
           UNCHANGED held, UNCHANGED failed, UNCHANGED canceled,
           NEW j \in Job, ~At(j, "body"), ~At(j, "off") \/ main.pc = "serve",
           NEW r \in [pc : {"off", "spawned", "body", "end", "write", "over"}, err : BOOLEAN],
           job' = [job EXCEPT ![j] = r], mainErr' \in BOOLEAN, ErrorOK',
           r.pc \in {"body", "end", "write"} => main.pc # "returned",
           j[2] = "first" => r.pc \in {"write", "over"} /\ (r.pc = "write" => j \in Counted),
           j[2] = "cron" => r.pc = "off" \/ setup.mode = "server"
    PROVE  IInv'
<1>0. /\ TypeOK /\ OrderOK
      /\ job \in [Job -> [pc : {"off", "spawned", "body", "end", "write", "over"}, err : BOOLEAN]]
  BY DEF IInv, TypeOK
<1>1. job'[j] = r /\ \A k \in Job : k # j => job'[k] = job[k]
  BY <1>0
<1>2. TypeOK' /\ MainRecord'
  <2>1. job' \in [Job -> [pc : {"off", "spawned", "body", "end", "write", "over"}, err : BOOLEAN]]
    BY <1>0
  <2> QED BY <1>0, <2>1 DEF TypeOK, IInv, ShapeOK, MainRecord
<1>3. \A k \in Job : At(k, "body") => At(k, "body")'
  BY <1>1 DEF At
<1>4. Ahead' = Ahead /\ \A k \in Ahead : setup.steps[k] \in Steps
  BY ServerFacts DEF Ahead
<1>5. \A s \in Steps : /\ First(s) \in Job /\ Cron(s) \in Job
                       /\ j = First(s) => j[2] = "first"
                       /\ j = Cron(s) => j[2] = "cron"
  BY JobFacts DEF First, Cron
<1>6. OrderOK'
  <2>1. ASSUME main.pc = "returned"
        PROVE  Counted' = {}
    <3>1. Counted = {}
      BY <1>0, <2>1 DEF OrderOK
    <3>2. r.pc \notin {"body", "end", "write"}
      BY <2>1
    <3> QED BY <1>1, <3>1, <3>2 DEF Counted
  <2>2. ASSUME main.pc \in {"loop", "inline"}
        PROVE  /\ \A k \in Ahead : At(First(setup.steps[k]), "off")'
               /\ \A s \in Steps : At(Cron(s), "off")'
    <3>1. ~At(j, "off")
      BY <2>2
    <3> QED BY <1>0, <1>1, <1>4, <1>5, <2>2, <3>1 DEF OrderOK, At
  <2>3. ASSUME NEW s \in Steps
        PROVE  /\ ~At(First(s), "spawned")'
               /\ main.pc \notin {"loop", "inline"} => First(s) \notin Counted'
               /\ setup.mode # "server" => At(Cron(s), "off")'
    <3>1. ~At(First(s), "spawned")'
      BY <1>0, <1>1, <1>5 DEF OrderOK, At
    <3>2. main.pc \notin {"loop", "inline"} => First(s) \notin Counted'
      BY <1>0, <1>1, <1>5 DEF OrderOK, Counted
    <3>3. setup.mode # "server" => At(Cron(s), "off")'
      BY <1>0, <1>1, <1>5 DEF OrderOK, At
    <3> QED BY <3>1, <3>2, <3>3
  <2> QED BY <1>0, <1>4, <2>1, <2>2, <2>3 DEF OrderOK
<1> QED BY <1>2, <1>3, <1>6, ServerMove

LEMMA JobRecord ==
    ASSUME IInv, NEW j \in Job
    PROVE  /\ job[j] \in [pc : {"off", "spawned", "body", "end", "write", "over"}, err : BOOLEAN]
           /\ job[j] = [pc |-> job[j].pc, err |-> job[j].err]
           /\ j[2] \in {"first", "cron"}
           /\ Idle(j) = [pc |-> IF j[2] = "first" THEN "over" ELSE "off", err |-> FALSE]
           /\ j[2] = "cron" /\ ~At(j, "off") => setup.mode = "server"
           /\ j[2] = "first" => ~At(j, "spawned")
<1>1. job[j] \in [pc : {"off", "spawned", "body", "end", "write", "over"}, err : BOOLEAN]
  BY DEF IInv, TypeOK
<1>2. /\ S(j) \in Steps
      /\ \/ j[2] = "first" /\ j = First(S(j))
         \/ j[2] = "cron" /\ j = Cron(S(j))
  BY JobFacts
<1>3. Idle(j) = [pc |-> IF j[2] = "first" THEN "over" ELSE "off", err |-> FALSE]
  <2>1. PICK p : p = IF j[2] = "first" THEN "over" ELSE "off"
    OBVIOUS
  <2>2. PICK e : e = FALSE
    OBVIOUS
  <2>3. [[pc |-> "off", err |-> e] EXCEPT !.pc = p] = [pc |-> p, err |-> e]
    OBVIOUS
  <2> QED BY <2>1, <2>2, <2>3 DEF Idle, NewJob
<1>4. j[2] = "cron" /\ ~At(j, "off") => setup.mode = "server"
  BY <1>2 DEF IInv, OrderOK
<1>5. j[2] = "first" => ~At(j, "spawned")
  BY <1>2 DEF IInv, OrderOK
<1> QED BY <1>1, <1>2, <1>3, <1>4, <1>5

\* A change of one job that neither has nor gets an error.
LEMMA ErrorKept ==
    ASSUME IInv, NEW j \in Job, NEW p \in {"spawned", "body"}, ~job[j].err,
           job' = [job EXCEPT ![j].pc = p],
           UNCHANGED setup, UNCHANGED mainErr, UNCHANGED failed
    PROVE  ErrorOK'
<1>1. ErrorOK /\ job \in [Job -> [pc : {"off", "spawned", "body", "end", "write", "over"}, err : BOOLEAN]]
  BY DEF IInv, TypeOK
<1>2. job'[j].pc = p /\ job'[j].err = job[j].err /\ \A k \in Job : k # j => job'[k] = job[k]
  BY <1>1
<1>3. \A k \in Job : job'[k].err = job[k].err /\ (job[k].err => job'[k].pc = job[k].pc)
  BY <1>2
<1>4. \A k \in Job : At(k, "write")' => At(k, "write")
  BY <1>2 DEF At
<1> QED BY <1>1, <1>3, <1>4 DEF ErrorOK

LEMMA FireIInv ==
    ASSUME IInv, UNCHANGED syncVars, UNCHANGED botVars, NEW s \in Steps, Fire(s)
    PROVE  IInv'
<1>1. PICK j : j = <<s, "cron">> /\ j \in Job /\ j[2] = "cron"
  <2>1. <<s, "cron">> \in Job /\ <<s, "cron">>[2] = "cron"
    BY DEF Job
  <2> QED BY <2>1
<1>2. /\ main.pc = "serve" /\ At(j, "off") /\ job' = [job EXCEPT ![j].pc = "spawned"]
      /\ UNCHANGED setup /\ UNCHANGED main /\ UNCHANGED mainErr /\ UNCHANGED failed
      /\ UNCHANGED held /\ UNCHANGED canceled
  BY <1>1 DEF Fire
<1>3. PICK r : r = [job[j] EXCEPT !.pc = "spawned"]
  OBVIOUS
<1>4. /\ r \in [pc : {"off", "spawned", "body", "end", "write", "over"}, err : BOOLEAN]
      /\ r.pc = "spawned" /\ job' = [job EXCEPT ![j] = r]
  BY <1>1, <1>2, <1>3, JobRecord DEF IInv, TypeOK
<1>5. ~job[j].err
  BY <1>1, <1>2 DEF IInv, ErrorOK, At
<1>6. ErrorOK'
  BY <1>1, <1>2, <1>5, ErrorKept
<1>7. setup.mode = "server" /\ mainErr \in BOOLEAN /\ ~At(j, "body")
  BY <1>2 DEF IInv, OrderOK, TypeOK, At
<1> QED BY <1>1, <1>2, <1>4, <1>6, <1>7, JobMove

LEMMA AddToGroupIInv ==
    ASSUME IInv, UNCHANGED syncVars, UNCHANGED botVars, NEW j \in Job, main.pc # "returned",
           AddToGroup(j)
    PROVE  IInv'
<1>1. /\ At(j, "spawned") /\ job' = [job EXCEPT ![j].pc = "body"]
      /\ UNCHANGED setup /\ UNCHANGED main /\ UNCHANGED mainErr /\ UNCHANGED failed
      /\ UNCHANGED held /\ UNCHANGED canceled
  BY DEF AddToGroup
<1>2. PICK r : r = [job[j] EXCEPT !.pc = "body"]
  OBVIOUS
<1>3. /\ r \in [pc : {"off", "spawned", "body", "end", "write", "over"}, err : BOOLEAN]
      /\ r.pc = "body" /\ job' = [job EXCEPT ![j] = r]
  BY <1>1, <1>2, JobRecord DEF IInv, TypeOK
<1>4. ~At(j, "body") /\ ~At(j, "off") /\ ~job[j].err
  BY <1>1 DEF IInv, ErrorOK, At
<1>5. j[2] = "cron" /\ setup.mode = "server"
  BY <1>1, <1>4, JobRecord
<1>6. ErrorOK'
  BY <1>1, <1>4, ErrorKept
<1>7. mainErr' \in BOOLEAN
  BY <1>1 DEF IInv, TypeOK
<1> QED BY <1>1, <1>3, <1>4, <1>5, <1>6, <1>7, JobMove

\* Without a lock: an error is given up only for one that mainErr has already.
LEMMA ReadErrIInv ==
    ASSUME IInv, UNCHANGED syncVars, UNCHANGED botVars, NEW j \in Job, main.pc # "returned",
           ReadErr(j)
    PROVE  IInv'
<1>0. /\ ErrorOK /\ mainErr' \in BOOLEAN
      /\ job \in [Job -> [pc : {"off", "spawned", "body", "end", "write", "over"}, err : BOOLEAN]]
  BY DEF IInv, TypeOK, ReadErr
<1>1. /\ job[j].pc = "end"
      /\ UNCHANGED setup /\ UNCHANGED main /\ UNCHANGED mainErr /\ UNCHANGED failed
      /\ UNCHANGED held /\ UNCHANGED canceled
  BY DEF ReadErr, At
<1>2. /\ job[j] = [pc |-> "end", err |-> job[j].err] /\ job[j].err \in BOOLEAN
      /\ j[2] \in {"first", "cron"} /\ (j[2] = "cron" => setup.mode = "server")
      /\ Idle(j) = [pc |-> IF j[2] = "first" THEN "over" ELSE "off", err |-> FALSE]
      /\ ~At(j, "body") /\ ~At(j, "off") /\ j \in Counted
  BY <1>1, JobRecord DEF At, Counted
<1>3. CASE (job[j].err \/ j[2] = "cron") /\ ~mainErr
  <2>1. PICK r : r = [job[j] EXCEPT !.pc = "write"]
    OBVIOUS
  <2>2. /\ r = [pc |-> "write", err |-> job[j].err] /\ job' = [job EXCEPT ![j] = r]
        /\ r \in [pc : {"off", "spawned", "body", "end", "write", "over"}, err : BOOLEAN]
    BY <1>0, <1>2, <1>3, <2>1 DEF ReadErr
  <2>3. job'[j] = r /\ \A k \in Job : k # j => job'[k] = job[k]
    BY <1>0, <2>2
  <2>4. ErrorOK'
    <3>1. \A k \in Job : job'[k].err = job[k].err
      BY <2>2, <2>3
    <3>2. \A k \in Job : job'[k].err => failed /\ job'[k].pc \in {"end", "write"}
      BY <1>0, <2>2, <2>3, <3>1 DEF ErrorOK
    <3>3. setup.mode # "server" => \A k \in Job : At(k, "write")' => job'[k].err
      BY <1>0, <1>2, <1>3, <2>2, <2>3 DEF ErrorOK, At
    <3> QED BY <1>0, <1>1, <3>1, <3>2, <3>3 DEF ErrorOK
  <2> QED BY <1>0, <1>1, <1>2, <2>2, <2>4, JobMove
<1>4. CASE ~((job[j].err \/ j[2] = "cron") /\ ~mainErr)
  <2>1. PICK r : r = Idle(j)
    OBVIOUS
  <2>2. /\ r.pc = (IF j[2] = "first" THEN "over" ELSE "off") /\ ~r.err
        /\ job' = [job EXCEPT ![j] = r]
        /\ r \in [pc : {"off", "spawned", "body", "end", "write", "over"}, err : BOOLEAN]
    <3>1. job' = [job EXCEPT ![j] = Idle(j)]
      BY <1>4 DEF ReadErr
    <3>2. /\ r.pc = (IF j[2] = "first" THEN "over" ELSE "off") /\ ~r.err
          /\ r \in [pc : {"off", "spawned", "body", "end", "write", "over"}, err : BOOLEAN]
      BY <1>2, <2>1
    <3> QED BY <2>1, <3>1, <3>2
  <2>3. job'[j] = r /\ \A k \in Job : k # j => job'[k] = job[k]
    BY <1>0, <2>2
  <2>4. ErrorOK'
    <3>1. \A k \in Job : job'[k].err => failed /\ job'[k].pc \in {"end", "write"}
      BY <1>0, <2>2, <2>3 DEF ErrorOK
    <3>2. setup.mode # "server" => \A k \in Job : At(k, "write")' => job'[k].err
      BY <1>0, <1>2, <2>2, <2>3 DEF ErrorOK, At
    <3>3. setup.mode # "server" /\ failed => mainErr \/ \E k \in Job : job'[k].err
      BY <1>0, <1>4, <2>3 DEF ErrorOK
    <3> QED BY <1>0, <1>1, <3>1, <3>2, <3>3 DEF ErrorOK
  <2> QED BY <1>0, <1>1, <1>2, <2>2, <2>4, JobMove
<1> QED BY <1>3, <1>4

LEMMA WriteErrIInv ==
    ASSUME IInv, UNCHANGED syncVars, UNCHANGED botVars, NEW j \in Job, main.pc # "returned",
           WriteErr(j)
    PROVE  IInv'
<1>0. /\ ErrorOK /\ failed \in BOOLEAN
      /\ job \in [Job -> [pc : {"off", "spawned", "body", "end", "write", "over"}, err : BOOLEAN]]
  BY DEF IInv, TypeOK
<1>1. /\ job[j].pc = "write" /\ mainErr' = job[j].err
      /\ UNCHANGED setup /\ UNCHANGED main /\ UNCHANGED failed
      /\ UNCHANGED held /\ UNCHANGED canceled
  BY DEF WriteErr, At
<1>2. /\ job[j].err \in BOOLEAN /\ (setup.mode # "server" => job[j].err)
      /\ j[2] \in {"first", "cron"} /\ (j[2] = "cron" => setup.mode = "server")
      /\ Idle(j) = [pc |-> IF j[2] = "first" THEN "over" ELSE "off", err |-> FALSE]
      /\ ~At(j, "body") /\ ~At(j, "off")
  BY <1>0, <1>1, JobRecord DEF At, ErrorOK
<1>3. PICK r : r = Idle(j)
  OBVIOUS
<1>4. /\ r.pc = (IF j[2] = "first" THEN "over" ELSE "off") /\ ~r.err
      /\ job' = [job EXCEPT ![j] = r]
      /\ r \in [pc : {"off", "spawned", "body", "end", "write", "over"}, err : BOOLEAN]
  BY <1>2, <1>3 DEF WriteErr
<1>5. job'[j] = r /\ \A k \in Job : k # j => job'[k] = job[k]
  BY <1>0, <1>4
<1>6. ErrorOK'
  <2>1. \A k \in Job : job'[k].err => failed /\ job'[k].pc \in {"end", "write"}
    BY <1>0, <1>4, <1>5 DEF ErrorOK
  <2>2. setup.mode # "server" => \A k \in Job : At(k, "write")' => job'[k].err
    BY <1>0, <1>4, <1>5 DEF ErrorOK, At
  <2>3. (mainErr' => failed) /\ (setup.mode # "server" => mainErr')
    BY <1>0, <1>1, <1>2 DEF ErrorOK
  <2> QED BY <1>1, <2>1, <2>2, <2>3 DEF ErrorOK
<1> QED BY <1>1, <1>2, <1>4, <1>6, JobMove
-----------------------------------------------------------------------------
(* The theorems.                                                            *)

LEMMA InitIInv ==
    ASSUME Init
    PROVE  IInv
<1>0. ServerInit /\ SyncInit /\ BotInit
  BY DEF Init
<1>1. /\ setup \in Setups /\ main = [pc |-> "loop", i |-> 1]
      /\ DOMAIN job = Job /\ \A j \in Job : job[j].pc = "off" /\ ~job[j].err
      /\ job \in [Job -> [pc : {"off", "spawned", "body", "end", "write", "over"}, err : BOOLEAN]]
      /\ ~mainErr /\ ~failed /\ {mainErr, failed, canceled} \subseteq BOOLEAN
      /\ held \in [Job -> Nat] /\ \A j \in Job : held[j] = 0
  BY <1>0 DEF ServerInit, NewJob
<1>2. setup.steps \in Seq(Steps) /\ \A k \in DOMAIN setup.steps : setup.steps[k] \in Steps
  BY <1>1, JobServerAssumption
<1>3. TypeOK
  BY <1>1, <1>2 DEF TypeOK
<1>4. ShapeOK
  <2>1. IsWork(NewWork) /\ NewWork.err \in BOOLEAN /\ IsScript(NewScript)
    BY DEF IsWork, NewWork, IsScript, NewScript
  <2>2. /\ DOMAIN work = Job /\ \A j \in Job : work[j] = NewWork
        /\ DOMAIN script = Job /\ \A j \in Job : script[j] = NewScript
    BY <1>0 DEF SyncInit, BotInit
  <2>3. /\ DOMAIN tgt = Steps /\ \A s \in Steps : DOMAIN tgt[s] = Tags
        /\ DOMAIN backup = Steps /\ \A s \in Steps : DOMAIN backup[s] = Tags
    BY <1>0, SyncAssumption DEF SyncInit
  <2> QED BY <1>1, <2>1, <2>2, <2>3 DEF ShapeOK, MainRecord
<1>5. OrderOK
  BY <1>1, <1>2, JobFacts DEF OrderOK, At, Ahead, Counted
<1>6. ErrorOK
  BY <1>1 DEF ErrorOK, At
<1>7. HeldOK
  <2>1. \A j \in Job : work[j] = NewWork /\ script[j] = NewScript /\ ~At(j, "body")
    BY <1>0, <1>1 DEF SyncInit, BotInit, At
  <2>2. Taken = {}
    BY <1>1 DEF Taken
  <2>3. InUse = 0
    BY <2>2, FS_EmptySet DEF InUse
  <2> QED BY <1>1, <2>1, <2>3, JobServerAssumption DEF HeldOK, Holding
<1>8. SyncOK
  BY <1>1 DEF SyncOK, At
<1> QED BY <1>3, <1>4, <1>5, <1>6, <1>7, <1>8 DEF IInv

LEMMA NextIInv ==
    ASSUME IInv, [Next]_jobVars
    PROVE  IInv'
<1>1. CASE ServerNext /\ UNCHANGED <<syncVars, botVars>>
  <2>1. UNCHANGED syncVars /\ UNCHANGED botVars
    BY <1>1
  <2>2. CASE LoopStep
    BY <2>1, <2>2, LoopStepIInv
  <2>3. CASE InlineDone \/ WaitDone \/ Stop \/ Return \/ Signal
    BY <2>1, <2>3, MainIInv
  <2>4. CASE \E s \in Steps : Fire(s)
    BY <2>1, <2>4, FireIInv
  <2>5. CASE \E j \in Job : JobStep(j)
    BY <2>1, <2>5, AddToGroupIInv, ReadErrIInv, WriteErrIInv DEF JobStep
  <2> QED BY <1>1, <2>2, <2>3, <2>4, <2>5 DEF ServerNext, MainStep
<1>2. CASE /\ setup.program = "regsync" /\ UNCHANGED botVars
           /\ (\E j \in Job : SyncJob(j)) \/ (\E t \in Tags : Publish(t))
  <2>1. UNCHANGED script
    BY <1>2 DEF botVars
  <2> QED BY <1>2, <2>1, SyncJobIInv, PublishIInv
<1>3. CASE /\ setup.program = "regbot" /\ UNCHANGED syncVars
           /\ \E j \in Job : BotJob(j) \/ Timeout(j)
  BY <1>3, BotJobIInv, TimeoutIInv
<1>4. CASE UNCHANGED jobVars
  <2>1. /\ UNCHANGED setup /\ UNCHANGED main /\ UNCHANGED job /\ UNCHANGED mainErr
        /\ UNCHANGED failed /\ UNCHANGED held /\ UNCHANGED canceled
        /\ UNCHANGED syncVars /\ UNCHANGED botVars /\ ServerSame
    BY <1>4 DEF jobVars, serverVars, ServerSame
  <2>2. TypeOK' /\ MainRecord'
    BY <2>1 DEF IInv, TypeOK, ShapeOK, MainRecord
  <2>3. OrderOK' /\ ErrorOK'
    BY <2>1, ServerKept DEF IInv
  <2>4. \A k \in Job : At(k, "body") => At(k, "body")'
    BY <2>1 DEF At
  <2> QED BY <2>1, <2>2, <2>3, <2>4, ServerMove
<1> QED BY <1>1, <1>2, <1>3, <1>4 DEF Next

(* The inductive invariant holds in every reachable state of regsync and   *)
(* of regbot, for any steps, tags, setups and bounds.                      *)
THEOREM Invariance == Spec => []IInv
<1>1. Init => IInv
  BY InitIInv
<1>2. IInv /\ [Next]_jobVars => IInv'
  BY NextIInv
<1> QED BY <1>1, <1>2, PTL DEF Spec

(* However many jobs share the throttle and mainErr, and wherever their    *)
(* requests fail: no more slots than there are go out, each comes back     *)
(* once, and runOnce and runCheck fail exactly when a step has failed.     *)
THEOREM JobsAreSound == Spec => []JobsSound
<1>1. IInv => JobsSound
  <2> SUFFICES ASSUME IInv
               PROVE  JobsSound
    OBVIOUS
  <2>0. TypeOK /\ OrderOK /\ ErrorOK /\ HeldOK
    BY DEF IInv
  <2>1. ErrorsReported
    <3> SUFFICES ASSUME main.pc = "returned", setup.mode # "server"
                 PROVE  mainErr <=> failed
      BY DEF ErrorsReported
    <3>1. \A j \in Job : ~job[j].err
      BY <2>0 DEF OrderOK, ErrorOK, Counted
    <3>2. mainErr => failed
      BY <2>0 DEF ErrorOK
    <3>3. failed => mainErr
      BY <2>0, <3>1 DEF ErrorOK
    <3> QED BY <3>2, <3>3
  <2>2. SlotsReturned
    <3>1. \A j \in Job : held[j] \in 0 .. 1 /\ (held[j] = 1 => At(j, "body"))
      BY <2>0 DEF HeldOK, Holding
    <3>2. ASSUME main.pc = "returned"
          PROVE  InUse = 0
      <4>1. \A j \in Job : held[j] = 0
        BY <2>0, <3>1, <3>2 DEF OrderOK, Counted, At
      <4>2. Taken = {}
        BY <4>1 DEF Taken
      <4> QED BY <4>2, FS_EmptySet DEF InUse
    <3> QED BY <2>0, <3>1, <3>2 DEF SlotsReturned, HeldOK
  <2> QED BY <2>0, <2>1, <2>2 DEF JobsSound
<1> QED BY <1>1, Invariance, PTL

\* Only a run of regsync moves a job on from its copy.
LEMMA CopyIsSync ==
    ASSUME [Next]_jobVars, NEW j \in Job, Working(j, "copy"), work'[j].pc = "close"
    PROVE  setup.program = "regsync" /\ \E k \in Job : SyncJob(k)
<1>1. work' # work
  BY DEF Working
<1>2. ~UNCHANGED syncVars /\ ~UNCHANGED jobVars /\ \A t : ~Publish(t)
  BY <1>1 DEF syncVars, jobVars, Publish
<1> QED BY <1>2 DEF Next

(* A first run of a server and a run with --missing never replace an image *)
(* at the target: between the lookup that found the tag missing and the    *)
(* copy no other run writes to this target.                                *)
THEOREM MissingAdds == Spec => MissingOnlyAdds
<1>1. IInv /\ [Next]_jobVars =>
        [ \A j \in Job :
            /\ Working(j, "copy") /\ work'[j].pc = "close"
            /\ Action(j) = "missing" /\ ~work[j].blind
            => tgt[S(j)][Cur(j)] \in {0, tgt'[S(j)][Cur(j)]} ]_syncVars
  <2> SUFFICES ASSUME IInv, [Next]_jobVars, NEW j \in Job, Working(j, "copy"),
                      work'[j].pc = "close", Action(j) = "missing", ~work[j].blind
               PROVE  tgt[S(j)][Cur(j)] = 0
    OBVIOUS
  <2>1. setup.program = "regsync"
    BY CopyIsSync
  <2>2. Seen(j, work[j], tgt) /\ work[j].pc = "copy"
    BY <2>1, WorkingFacts
  <2> QED BY <2>2 DEF Seen, Past, Cur
<1> QED BY <1>1, Invariance, PTL DEF MissingOnlyAdds, Spec

\* The job that leaves "copy" is the one that takes the step.
LEMMA CopyIsOwn ==
    ASSUME IInv, [Next]_jobVars, NEW j \in Job, Working(j, "copy"), work'[j].pc = "close"
    PROVE  Copy(j)
<1>1. PICK k \in Job : SyncJob(k)
  BY CopyIsSync
<1>2. \E w : Goto(k, w)
  BY <1>1, Zenon DEF SyncJob, List, NextTag, Close, HeadSource, HeadTarget, CacheLookup, CacheFill,
     AcquireSlot, RateHead, Sleep, CheckContext, BackupCopy, Copy, Finish
<1>3. k = j
  BY <1>2 DEF Goto, Working, IInv, ShapeOK
<1> QED BY <1>1, <1>3 DEF SyncJob, Working, List, NextTag, Close, HeadSource, HeadTarget, CacheLookup,
     CacheFill, AcquireSlot, RateHead, Sleep, CheckContext, BackupCopy

(* What a copy of a step with backup replaces is in the backup, unless the *)
(* backup or the lookup of the target failed, or source and target agreed  *)
(* when they were compared.                                                *)
THEOREM OverwritesAreSaved == Spec => OverwritesSaved
<1>1. IInv /\ [Next]_jobVars =>
        [ \A j \in Job :
            LET w == work[j]
                old == tgt[S(j)][Cur(j)]
                new == tgt'[S(j)][Cur(j)]
            IN  /\ Working(j, "copy") /\ work'[j].pc = "close"
                /\ S(j) \in HasBackup /\ old # 0 /\ new # old
                => \/ backup[S(j)][Cur(j)] = old
                   \/ w.blind \/ w.unsaved
                   \/ w.tSeen \in {w.sSeen, w.pin} ]_syncVars
  <2> SUFFICES ASSUME IInv, [Next]_jobVars, NEW j \in Job, Working(j, "copy"),
                      work'[j].pc = "close", S(j) \in HasBackup, tgt[S(j)][Cur(j)] # 0,
                      tgt'[S(j)][Cur(j)] # tgt[S(j)][Cur(j)],
                      ~work[j].blind, ~work[j].unsaved,
                      work[j].tSeen \notin {work[j].sSeen, work[j].pin}
               PROVE  backup[S(j)][Cur(j)] = tgt[S(j)][Cur(j)]
    OBVIOUS
  <2>1. setup.program = "regsync" /\ Copy(j)
    BY CopyIsSync, CopyIsOwn
  <2>2. /\ Seen(j, work[j], tgt) /\ Saved(j, work[j], backup) /\ work[j].pc = "copy"
        /\ S(j) \in Steps /\ DOMAIN tgt = Steps /\ DOMAIN tgt[S(j)] = Tags
    BY <2>1, WorkingFacts DEF ShapeOK
  <2>3. Cur(j) \in Tags
    <3>1. PICK v : tgt' = [tgt EXCEPT ![S(j)][Cur(j)] = v]
      BY <2>1, Zenon DEF Copy
    <3> QED BY <2>2, <3>1
  <2>4. work[j].tSeen = tgt[S(j)][Cur(j)]
    BY <2>2 DEF Seen, Past, Cur
  <2> QED BY <2>2, <2>3, <2>4 DEF Saved, Cur
<1> QED BY <1>1, Invariance, PTL DEF OverwritesSaved, Spec
=============================================================================

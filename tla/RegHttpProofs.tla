---------------------------- MODULE RegHttpProofs ----------------------------
(***************************************************************************)
(* Proofs about internal/reghttp: for every set of hosts, requests and     *)
(* cancelled contexts, every limit and every body length, the connections  *)
(* to a host stay within its throttle, a body is read in order over any    *)
(* number of resumptions, and a request only gives up for lack of hosts    *)
(* after it tried every one of them.                                       *)
(***************************************************************************)
EXTENDS RegHttp, FiniteSetTheorems, SequenceTheorems, TLAPS

P == INSTANCE PQueueOpsProofs
       WITH Entry <- Call, MaxActive <- ReqConcurrent, NextEntry <- OldestFirst

InLoop == {"top", "waiting", "missing", "closure", "sleep", "send", "failed",
           "yield"}
AtHost == InLoop \ {"top"}
Owning == AtHost \ {"waiting", "missing"}

\* The loop is at one of the hosts that are left.
CursorOK(r) ==
    /\ req[r].cur >= 1
    /\ req[r].pc \in AtHost => req[r].cur <= Len(req[r].hosts)

\* The slot of the response is an older call's slot while the next one is sent.
HeldOK(r) ==
    /\ req[r].held[1] # NoHost =>
         /\ <<r, req[r].held[2]>> \in q[req[r].held[1]].active
         /\ req[r].held[2] <= req[r].n
         /\ req[r].pc \in InLoop => req[r].held[2] # req[r].n
    /\ req[r].pc \in {"open", "broken"} => req[r].held[1] # NoHost
    /\ req[r].pc \in InLoop /\ req[r].op # "do" => req[r].held[1] # NoHost
    /\ req[r].pc = "idle" => req[r].held[1] = NoHost /\ req[r].op = "do"

\* The entries of a request: queued only while it waits and where it waits, none
\* of a call still to come, and the running call has its own only where it is.
EntriesOK(r) ==
    /\ \A h \in Host, k \in 0 .. MaxResume :
         <<r, k>> \in Q!QueuedSet(q[h]) =>
            req[r].pc = "waiting" /\ k = req[r].n /\ h = Cur(r)
    /\ req[r].pc # "closed" =>
         \A h \in Host, k \in 0 .. MaxResume :
            k > req[r].n => <<r, k>> \notin q[h].active
    /\ req[r].pc \in InLoop \cup {"idle"} =>
         \A h \in Host :
            Me(r) \in q[h].active => req[r].pc \in AtHost /\ h = Cur(r)
    /\ req[r].pc \in Owning => Me(r) \in q[Cur(r)].active

\* A host is still on the list or had its turn, and the one at hand had it.
TriedOK(r) ==
    /\ req[r].tried \subseteq Hosts(r)
    /\ \A i \in DOMAIN req[r].hosts : req[r].hosts[i] \in Hosts(r)
    /\ req[r].pc \in InLoop =>
         \A h \in Hosts(r) :
            h \in req[r].tried \/ \E i \in DOMAIN req[r].hosts : req[r].hosts[i] = h
    /\ req[r].pc \in AtHost => Cur(r) \in req[r].tried

\* What the caller reads next is the byte at readCur.
OrderOK(r) ==
    req[r].pc = "open" /\ ~req[r].done => req[r].pos = req[r].readCur

ReqOK(r) == CursorOK(r) /\ HeldOK(r) /\ EntriesOK(r) /\ TriedOK(r) /\ OrderOK(r)

\* The invariant: the throttle's bound needs every queue to be sound, that needs
\* no request to enter a queue twice, and that the account of its entries.
IInv ==
    /\ TypeOK
    /\ \A h \in Host : Q!Sound(q[h])
    /\ \A r \in Request : ReqOK(r)
-----------------------------------------------------------------------------
(* The lemmas on queues, for the queues of the hosts.                       *)

\* The two instances of the queue module define the same operations.
LEMMA SameQueue ==
    /\ P!Queue = Q!Queue
    /\ \A x : P!Sound(x) = Q!Sound(x)
    /\ \A x : P!HasRoom(x) = Q!HasRoom(x)
    /\ \A x : P!QueuedSet(x) = Q!QueuedSet(x)
    /\ \A x, e : P!Enter(x, e) = Q!Enter(x, e)
    /\ \A x, e : P!Enqueue(x, e) = Q!Enqueue(x, e)
    /\ \A x, e : P!DropQueued(x, e) = Q!DropQueued(x, e)
    /\ \A x, e : P!Release(x, e) = Q!Release(x, e)
<1>1. P!Queue = Q!Queue
  BY DEF P!Queue, Q!Queue
<1>2. \A x : P!Sound(x) = Q!Sound(x)
  BY DEF P!Sound, Q!Sound, P!Bounded, Q!Bounded, P!Conserving, Q!Conserving,
         P!Distinct, Q!Distinct, P!Cardinality, Q!Cardinality
<1>3. \A x : P!HasRoom(x) = Q!HasRoom(x)
  BY DEF P!HasRoom, Q!HasRoom, P!Cardinality, Q!Cardinality
<1>4. \A x : P!QueuedSet(x) = Q!QueuedSet(x)
  BY DEF P!QueuedSet, Q!QueuedSet
<1>5. \A x, e : P!Enter(x, e) = Q!Enter(x, e)
  BY DEF P!Enter, Q!Enter
<1>6. \A x, e : P!Enqueue(x, e) = Q!Enqueue(x, e)
  BY DEF P!Enqueue, Q!Enqueue
<1>7. \A x, e : P!DropQueued(x, e) = Q!DropQueued(x, e)
  BY DEF P!DropQueued, Q!DropQueued
<1>8. \A x, e : P!Release(x, e) = Q!Release(x, e)
  BY DEF P!Release, Q!Release, P!Chosen, Q!Chosen, P!Clamp, Q!Clamp,
         P!RemoveAt, Q!RemoveAt, P!Cardinality, Q!Cardinality
<1> QED BY <1>1, <1>2, <1>3, <1>4, <1>5, <1>6, <1>7, <1>8

LEMMA QueueAssumptions ==
    ReqConcurrent \in Nat \ {0} /\ P!IsFiniteSet(Call)
<1>1. IsFiniteSet(0 .. MaxResume)
  BY RegHttpAssumption, FS_Interval
<1>2. IsFiniteSet(Call)
  BY <1>1, RegHttpAssumption, FS_Product DEF Call
<1> QED BY <1>2, RegHttpAssumption DEF IsFiniteSet, P!IsFiniteSet

\* What every operation of entry e on the queue of h leaves alone.
QStep(h, e) ==
    /\ q' \in [Host -> Q!Queue]
    /\ \A g \in Host : Q!Sound(q'[g])
    /\ \A g \in Host : g # h => q'[g] = q[g]
    /\ q[h].active \ {e} \subseteq q'[h].active
    /\ q'[h].active \subseteq q[h].active \cup Q!QueuedSet(q[h]) \cup {e}
    /\ Q!QueuedSet(q'[h]) \subseteq Q!QueuedSet(q[h]) \cup {e}

QueuesOK == q \in [Host -> Q!Queue] /\ \A h \in Host : Q!Sound(q[h])

LEMMA EnterStep ==
    ASSUME QueuesOK, NEW h \in Host, NEW e \in Call, e \notin q[h].active,
           Q!HasRoom(q[h]), q' = [q EXCEPT ![h] = Q!Enter(@, e)]
    PROVE  /\ QStep(h, e)
           /\ e \in q'[h].active
           /\ Q!QueuedSet(q'[h]) = {}
<1>1. q[h] \in P!Queue /\ P!Sound(q[h]) /\ P!HasRoom(q[h])
  BY SameQueue DEF QueuesOK
<1>2. /\ P!Enter(q[h], e) \in P!Queue
      /\ P!Sound(P!Enter(q[h], e))
      /\ P!Enter(q[h], e).queued = <<>>
  BY <1>1, QueueAssumptions, P!EnterSound
<1>3. q'[h] = Q!Enter(q[h], e) /\ \A g \in Host : g # h => q'[g] = q[g]
  BY DEF QueuesOK
<1>4. q'[h] \in Q!Queue /\ Q!Sound(q'[h]) /\ q'[h].queued = <<>>
  BY <1>2, <1>3, SameQueue
<1>5. q'[h].active = q[h].active \cup {e}
  BY <1>3 DEF Q!Enter, Q!Queue, QueuesOK
<1>6. Q!QueuedSet(q'[h]) = {}
  BY <1>4 DEF Q!QueuedSet
<1>7. q' \in [Host -> Q!Queue] /\ \A g \in Host : Q!Sound(q'[g])
  BY <1>3, <1>4 DEF QueuesOK
<1> QED BY <1>3, <1>5, <1>6, <1>7 DEF QStep

LEMMA EnqueueStep ==
    ASSUME QueuesOK, NEW h \in Host, NEW e \in Call, e \notin q[h].active,
           e \notin Q!QueuedSet(q[h]), ~Q!HasRoom(q[h]),
           q' = [q EXCEPT ![h] = Q!Enqueue(@, e)]
    PROVE  QStep(h, e) /\ q'[h].active = q[h].active
<1>1. /\ q[h] \in P!Queue /\ P!Sound(q[h]) /\ ~P!HasRoom(q[h])
      /\ e \notin P!QueuedSet(q[h])
  BY SameQueue DEF QueuesOK
<1>2. /\ P!Enqueue(q[h], e) \in P!Queue
      /\ P!Sound(P!Enqueue(q[h], e))
      /\ P!Enqueue(q[h], e).active = q[h].active
      /\ P!QueuedSet(P!Enqueue(q[h], e)) = P!QueuedSet(q[h]) \cup {e}
  BY <1>1, QueueAssumptions, P!EnqueueSound
<1>3. q'[h] = Q!Enqueue(q[h], e) /\ \A g \in Host : g # h => q'[g] = q[g]
  BY DEF QueuesOK
<1>4. /\ q'[h] \in Q!Queue /\ Q!Sound(q'[h]) /\ q'[h].active = q[h].active
      /\ Q!QueuedSet(q'[h]) = Q!QueuedSet(q[h]) \cup {e}
  BY <1>2, <1>3, SameQueue
<1>5. q' \in [Host -> Q!Queue] /\ \A g \in Host : Q!Sound(q'[g])
  BY <1>3, <1>4 DEF QueuesOK
<1> QED BY <1>3, <1>4, <1>5 DEF QStep

LEMMA DropStep ==
    ASSUME QueuesOK, NEW h \in Host, NEW e \in Call, e \in Q!QueuedSet(q[h]),
           q' = [q EXCEPT ![h] = Q!DropQueued(@, e)]
    PROVE  /\ QStep(h, e)
           /\ q'[h].active = q[h].active
           /\ e \notin Q!QueuedSet(q'[h])
<1>1. q[h] \in P!Queue /\ P!Sound(q[h]) /\ e \in P!QueuedSet(q[h])
  BY SameQueue DEF QueuesOK
<1>2. /\ P!DropQueued(q[h], e) \in P!Queue
      /\ P!Sound(P!DropQueued(q[h], e))
      /\ P!DropQueued(q[h], e).active = q[h].active
      /\ P!QueuedSet(P!DropQueued(q[h], e)) \subseteq P!QueuedSet(q[h]) \ {e}
  BY <1>1, QueueAssumptions, P!DropQueuedSound
<1>3. q'[h] = Q!DropQueued(q[h], e) /\ \A g \in Host : g # h => q'[g] = q[g]
  BY DEF QueuesOK
<1>4. /\ q'[h] \in Q!Queue /\ Q!Sound(q'[h]) /\ q'[h].active = q[h].active
      /\ Q!QueuedSet(q'[h]) \subseteq Q!QueuedSet(q[h]) \ {e}
  BY <1>2, <1>3, SameQueue
<1>5. q' \in [Host -> Q!Queue] /\ \A g \in Host : Q!Sound(q'[g])
  BY <1>3, <1>4 DEF QueuesOK
<1> QED BY <1>3, <1>4, <1>5 DEF QStep

LEMMA ReleaseStep ==
    ASSUME QueuesOK, NEW h \in Host, NEW e \in Call, e \notin Q!QueuedSet(q[h]),
           q' = [q EXCEPT ![h] = Q!Release(@, e)]
    PROVE  /\ QStep(h, e)
           /\ e \notin q'[h].active
           /\ Q!QueuedSet(q'[h]) \subseteq Q!QueuedSet(q[h])
<1>1. q[h] \in P!Queue /\ P!Sound(q[h]) /\ e \notin P!QueuedSet(q[h])
  BY SameQueue DEF QueuesOK
<1>2. /\ P!Release(q[h], e) \in P!Queue
      /\ P!Sound(P!Release(q[h], e))
      /\ e \notin P!Release(q[h], e).active
      /\ q[h].active \ {e} \subseteq P!Release(q[h], e).active
      /\ P!Release(q[h], e).active \subseteq q[h].active \cup P!QueuedSet(q[h])
      /\ P!QueuedSet(P!Release(q[h], e)) = P!QueuedSet(q[h]) \ P!Release(q[h], e).active
  BY <1>1, QueueAssumptions, P!ReleaseSound
<1>3. q'[h] = Q!Release(q[h], e) /\ \A g \in Host : g # h => q'[g] = q[g]
  BY DEF QueuesOK
<1>4. /\ q'[h] \in Q!Queue /\ Q!Sound(q'[h]) /\ e \notin q'[h].active
      /\ q[h].active \ {e} \subseteq q'[h].active
      /\ q'[h].active \subseteq q[h].active \cup Q!QueuedSet(q[h])
      /\ Q!QueuedSet(q'[h]) \subseteq Q!QueuedSet(q[h])
  BY <1>2, <1>3, SameQueue
<1>5. q' \in [Host -> Q!Queue] /\ \A g \in Host : Q!Sound(q'[g])
  BY <1>3, <1>4 DEF QueuesOK
<1> QED BY <1>3, <1>4, <1>5 DEF QStep

\* A request that does not act keeps its account of entries whatever another
\* one does to the queue of a host.
LEMMA OthersKeep ==
    ASSUME TypeOK, NEW r \in Request, NEW s \in Request, s # r,
           NEW h \in Host, NEW k, QStep(h, <<r, k>>),
           req'[s] = req[s], ReqOK(s)
    PROVE  ReqOK(s)'
<1>1. req[s] \in Req /\ \A n : <<s, n>> # <<r, k>>
  BY DEF TypeOK
<1>2. \A g \in Host : \A n :
        /\ <<s, n>> \in q[g].active => <<s, n>> \in q'[g].active
        /\ <<s, n>> \in q'[g].active =>
             <<s, n>> \in q[g].active \/ <<s, n>> \in Q!QueuedSet(q[g])
        /\ <<s, n>> \in Q!QueuedSet(q'[g]) => <<s, n>> \in Q!QueuedSet(q[g])
  BY <1>1 DEF QStep
<1>3. CursorOK(s)' /\ OrderOK(s)' /\ TriedOK(s)'
  BY DEF ReqOK, CursorOK, OrderOK, TriedOK, Cur, Hosts
<1>4. HeldOK(s)'
  BY <1>1, <1>2 DEF ReqOK, HeldOK, Req
<1>5. EntriesOK(s)'
  <2> DEFINE rec == req[s]
             c == rec.hosts[rec.cur]
  <2>1. rec = req'[s] /\ rec.n \in 0 .. MaxResume
    BY <1>1 DEF Req
  <2> HIDE DEF rec
  <2>2. /\ \A g \in Host, j \in 0 .. MaxResume :
             <<s, j>> \in Q!QueuedSet(q[g]) =>
                rec.pc = "waiting" /\ j = rec.n /\ g = c
        /\ rec.pc # "closed" =>
             \A g \in Host, j \in 0 .. MaxResume :
                j > rec.n => <<s, j>> \notin q[g].active
        /\ rec.pc \in InLoop \cup {"idle"} =>
             \A g \in Host :
                <<s, rec.n>> \in q[g].active => rec.pc \in AtHost /\ g = c
        /\ rec.pc \in Owning => <<s, rec.n>> \in q[c].active
    BY DEF ReqOK, EntriesOK, Cur, Me, rec
  <2>3. rec.pc \in AtHost => c \in Host
    BY <1>1 DEF rec, ReqOK, CursorOK, Req
  <2> QED BY <1>2, <2>1, <2>2, <2>3 DEF EntriesOK, Cur, Me, AtHost, InLoop, Owning
<1> QED BY <1>3, <1>4, <1>5 DEF ReqOK
-----------------------------------------------------------------------------
(* The steps of one request.                                                *)

RestOK ==
    /\ backoff \in [Host -> [cur : Nat, reset : 0 .. ResetCount]]
    /\ ahead \in [Host -> BOOLEAN]
    /\ fails \in 0 .. MaxFails

\* A step of r keeps the invariant if it keeps what concerns r.
LEMMA StepOfOne ==
    ASSUME IInv, NEW r \in Request, NEW rec \in Req, Upd(r, rec),
           q' = q \/ \E h \in Host, k \in 0 .. MaxResume : QStep(h, <<r, k>>),
           RestOK', ReqOK(r)'
    PROVE  IInv'
<1>1. req' \in [Request -> Req] /\ \A s \in Request : s # r => req'[s] = req[s]
  BY DEF Upd, IInv, TypeOK
<1>2. PICK h \in Host, k \in 0 .. MaxResume : QStep(h, <<r, k>>)
  <2>1. CASE q' = q
    <3>1. QStep(Upstream, <<r, 0>>)
      BY <2>1, RegHttpAssumption DEF QStep, IInv, TypeOK
    <3>2. Upstream \in Host /\ 0 \in 0 .. MaxResume
      BY RegHttpAssumption
    <3> QED BY <3>1, <3>2
  <2> QED BY <2>1
<1>3. \A s \in Request : ReqOK(s)'
  <2> TAKE s \in Request
  <2>1. CASE s = r
    BY <2>1
  <2>2. CASE s # r
    BY <1>1, <1>2, <2>2, OthersKeep DEF IInv
  <2> QED BY <2>1, <2>2
<1>4. TypeOK'
  BY <1>1, <1>2 DEF QStep, RestOK, TypeOK
<1> QED BY <1>2, <1>3, <1>4 DEF IInv, QStep

\* The record of the acting request after the step.
LEMMA Updated ==
    ASSUME TypeOK, NEW r \in Request, NEW rec, Upd(r, rec)
    PROVE  req'[r] = rec
BY DEF Upd, TypeOK

\* The facts about one request that its steps start from.
LEMMA Facts ==
    ASSUME IInv, NEW r \in Request
    PROVE  /\ TypeOK /\ RestOK /\ QueuesOK
           /\ req[r] \in Req /\ ReqOK(r)
           /\ Me(r) \in Call
           /\ req[r].pc \in AtHost => Cur(r) \in Host
           /\ req[r].n \in 0 .. MaxResume /\ req[r].held[2] \in 0 .. MaxResume
           /\ req[r].held[1] # NoHost => req[r].held[1] \in Host
<1>1. TypeOK /\ RestOK /\ QueuesOK /\ req[r] \in Req /\ ReqOK(r)
  BY DEF IInv, TypeOK, RestOK, QueuesOK
<1>2. Me(r) \in Call
  BY <1>1 DEF Me, Call, Req
<1>3. req[r].pc \in AtHost => Cur(r) \in Host
  BY <1>1 DEF ReqOK, CursorOK, Req, Cur
<1>4. req[r].n \in 0 .. MaxResume
  BY <1>1 DEF Req
<1>5. /\ req[r].held[2] \in 0 .. MaxResume
      /\ req[r].held[1] # NoHost => req[r].held[1] \in Host
  <2>1. \/ req[r].held \in Host \X (0 .. MaxResume)
        \/ req[r].held = <<NoHost, 0>>
    BY <1>1 DEF Req
  <2> QED BY <2>1, RegHttpAssumption
<1> QED BY <1>1, <1>2, <1>3, <1>4, <1>5

\* A step that leaves the queues alone and stays at the same host.
LEMMA StayStep ==
    ASSUME IInv, NEW r \in Request, NEW rec \in Req, Upd(r, rec), q' = q, RestOK',
           rec.hosts = req[r].hosts, rec.cur = req[r].cur, rec.n = req[r].n,
           rec.held = req[r].held, rec.tried = req[r].tried, rec.op = req[r].op,
           \/ /\ rec.pc = req[r].pc
              /\ rec.pc = "open" /\ ~rec.done => rec.pos = rec.readCur
           \/ /\ req[r].pc \in AtHost /\ rec.pc \in AtHost
              /\ Me(r) \notin Q!QueuedSet(q[Cur(r)])
              /\ rec.pc \in Owning => Me(r) \in q[Cur(r)].active
    PROVE  IInv'
<1>1. req'[r] = rec /\ req[r] \in Req /\ ReqOK(r)
  BY Updated, Facts
<1>2. /\ Cur(r)' = Cur(r) /\ Me(r)' = Me(r)
      /\ Cur(r) = rec.hosts[rec.cur] /\ Me(r) = <<r, rec.n>>
  BY <1>1 DEF Cur, Me
<1>3. CursorOK(r)' /\ HeldOK(r)' /\ TriedOK(r)' /\ OrderOK(r)'
  BY <1>1, <1>2 DEF ReqOK, CursorOK, HeldOK, TriedOK, OrderOK, Hosts, AtHost,
                    InLoop
<1>4. EntriesOK(r)'
  BY <1>1, <1>2 DEF ReqOK, EntriesOK, AtHost, InLoop, Owning, Me
<1> QED BY <1>1, <1>3, <1>4, StepOfOne DEF ReqOK

\* Only the program counter moves, at the same host.
LEMMA MoveStep ==
    ASSUME IInv, NEW r \in Request, NEW p \in AtHost, req[r].pc \in AtHost,
           Upd(r, [req[r] EXCEPT !.pc = p]), q' = q, RestOK',
           Me(r) \notin Q!QueuedSet(q[Cur(r)]),
           p \in Owning => Me(r) \in q[Cur(r)].active
    PROVE  IInv'
<1> DEFINE rec == [req[r] EXCEPT !.pc = p]
<1>1. req[r] \in Req /\ p \in PC
  BY Facts DEF AtHost, InLoop, PC
<1>2. /\ rec \in Req /\ rec.hosts = req[r].hosts /\ rec.cur = req[r].cur
      /\ rec.n = req[r].n /\ rec.held = req[r].held /\ rec.tried = req[r].tried
      /\ rec.op = req[r].op /\ rec.pc = p
  BY <1>1 DEF Req
<1> HIDE DEF rec
<1> QED BY <1>2, StayStep DEF rec

\* The attempt goes on with its slot, or fails: what it stores then concerns
\* neither the hosts nor the slots.
LEMMA OwnerStep ==
    ASSUME IInv, NEW r \in Request, req[r].pc \in Owning,
           NEW rec \in Req, Upd(r, rec), q' = q, RestOK', rec.pc \in Owning,
           rec.hosts = req[r].hosts, rec.cur = req[r].cur, rec.n = req[r].n,
           rec.held = req[r].held, rec.tried = req[r].tried, rec.op = req[r].op
    PROVE  IInv'
<1>1. ReqOK(r) /\ Owning \subseteq AtHost /\ req[r].pc # "waiting"
      /\ req[r].n \in 0 .. MaxResume /\ Cur(r) \in Host
  BY Facts DEF Owning, AtHost, InLoop
<1>2. Me(r) \in q[Cur(r)].active /\ Me(r) \notin Q!QueuedSet(q[Cur(r)])
  BY <1>1 DEF ReqOK, EntriesOK, Me
<1> QED BY <1>1, <1>2, StayStep

\* next gives up: the slot of the response, if there is one, is still held.
LEMMA GiveUpStep ==
    ASSUME IInv, NEW r \in Request, NEW rec \in Req, GiveUp(r, rec), RestOK',
           req[r].pc \in InLoop, rec.n = req[r].n, rec.held = req[r].held,
           rec.op = req[r].op, rec.cur >= 1, rec.tried \subseteq Hosts(r),
           \A i \in DOMAIN rec.hosts : rec.hosts[i] \in Hosts(r),
           q' = q \/ \E h \in Host : QStep(h, Me(r)),
           \A h \in Host : Me(r) \notin Q!QueuedSet(q'[h])
    PROVE  IInv'
<1> DEFINE new == IF rec.op = "do" THEN Closed
                  ELSE [rec EXCEPT !.pc = "broken",
                                   !.done = IF rec.op = "read" THEN TRUE ELSE @]
<1>1. req[r] \in Req /\ ReqOK(r) /\ TypeOK
  BY Facts
<1>2. NewResp \in Req
  BY RegHttpAssumption DEF NewResp, Req, PC, NotHeld, Plain, Flags
<1>3. new \in Req
  <2>1. Closed \in Req
    BY <1>2 DEF Closed, Req, PC
  <2>2. [rec EXCEPT !.pc = "broken",
                    !.done = IF rec.op = "read" THEN TRUE ELSE @] \in Req
    BY ZenonT(60) DEF Req, PC
  <2> QED BY <2>1, <2>2
<1>4. /\ Upd(r, new) /\ req'[r] = new
      /\ new.pc = IF rec.op = "do" THEN "closed" ELSE "broken"
      /\ rec.op = "do" => /\ new.held = NotHeld /\ new.hosts = <<>>
                          /\ new.tried = {} /\ new.cur = 1
      /\ rec.op # "do" => /\ new.held = req[r].held /\ new.n = req[r].n
                          /\ new.hosts = rec.hosts /\ new.tried = rec.tried
                          /\ new.cur = rec.cur
  <2>1. Upd(r, new)
    BY DEF GiveUp
  <2> QED BY <1>1, <2>1, Updated DEF Closed, NewResp, Req
<1> HIDE DEF new
<1>5. \A h \in Host, k \in 0 .. MaxResume :
         /\ <<r, k>> \notin Q!QueuedSet(q'[h])
         /\ k > req[r].n => <<r, k>> \notin q'[h].active
         /\ k # req[r].n /\ <<r, k>> \in q[h].active => <<r, k>> \in q'[h].active
  BY <1>1 DEF QStep, ReqOK, EntriesOK, Me, InLoop
<1>6. EntriesOK(r)'
  BY <1>1, <1>4, <1>5 DEF EntriesOK, InLoop, Owning, AtHost
<1>7. HeldOK(r)'
  <2>1. CASE rec.op = "do"
    BY <2>1, <1>4 DEF HeldOK, InLoop, NotHeld
  <2>2. CASE rec.op # "do"
    <3>1. /\ req[r].held[1] \in Host /\ req[r].held[2] \in 0 .. MaxResume
          /\ req[r].n \in 0 .. MaxResume
      BY <1>1, <2>2 DEF ReqOK, HeldOK, Req
    <3>2. <<r, req[r].held[2]>> \in q'[req[r].held[1]].active
      BY <1>1, <1>5, <2>2, <3>1 DEF ReqOK, HeldOK
    <3> QED BY <1>1, <1>4, <2>2, <3>1, <3>2 DEF ReqOK, HeldOK, InLoop
  <2> QED BY <2>1, <2>2
<1>8. CursorOK(r)' /\ TriedOK(r)' /\ OrderOK(r)'
  BY <1>4 DEF CursorOK, TriedOK, OrderOK, InLoop, AtHost, Hosts
<1>9. q' = q \/ \E h \in Host, k \in 0 .. MaxResume : QStep(h, <<r, k>>)
  BY <1>1 DEF Me, Req
<1> QED BY <1>3, <1>4, <1>6, <1>7, <1>8, <1>9, StepOfOne DEF ReqOK

\* Every order the sort can leave the hosts in holds each of them.
LEMMA HostOrdersFacts ==
    ASSUME NEW r \in Request, NEW s \in HostOrders(r)
    PROVE  /\ s \in Seq(Host)
           /\ \A i \in DOMAIN s : s[i] \in Hosts(r)
           /\ \A h \in Hosts(r) : \E i \in DOMAIN s : s[i] = h
<1> DEFINE S == Hosts(r)
           n == Cardinality(S)
<1>1. S \subseteq Host /\ IsFiniteSet(S) /\ n \in Nat
  <2>1. S \subseteq Host
    BY RegHttpAssumption DEF Hosts
  <2> QED BY <2>1, RegHttpAssumption, FS_Subset, FS_CardinalityType
<1>2. s \in [1 .. n -> S] /\ \A i, j \in 1 .. n : i # j => s[i] # s[j]
  BY DEF HostOrders, SetToSeqs
<1> HIDE DEF S, n
<1>3. s \in Injection(1 .. n, S)
  BY <1>2 DEF Injection, IsInjective
<1>4. IsFiniteSet(1 .. n) /\ Cardinality(1 .. n) = n
  BY <1>1, FS_Interval
<1>5. s \in Surjection(1 .. n, S)
  BY <1>1, <1>3, <1>4, FS_Injection DEF n
<1>6. \A h \in S : \E i \in 1 .. n : s[i] = h
  BY <1>5 DEF Surjection
<1>7. s \in Seq(Host) /\ DOMAIN s = 1 .. n
  BY <1>1, <1>2
<1> QED BY <1>2, <1>6, <1>7 DEF S

\* next starts over: the entry it will use is not in any queue.
LEMMA RestartStep ==
    ASSUME IInv, NEW r \in Request, NEW rec \in Req, Next_(r, rec), q' = q, RestOK',
           rec.held = req[r].held,
           \/ req[r].pc = "idle" /\ rec.op = "do" /\ rec.n = req[r].n
           \/ req[r].pc = "open" /\ rec.op # "do" /\ rec.n = req[r].n + 1
    PROVE  IInv'
<1>1. req[r] \in Req /\ ReqOK(r) /\ TypeOK
  BY Facts
<1>2. PICK s \in HostOrders(r) :
        Upd(r, [rec EXCEPT !.pc = "top", !.hosts = s, !.cur = 1, !.tried = {},
                           !.err = FALSE])
  BY DEF Next_
<1> DEFINE new == [rec EXCEPT !.pc = "top", !.hosts = s, !.cur = 1, !.tried = {},
                              !.err = FALSE]
<1>3. /\ s \in Seq(Host)
      /\ \A i \in DOMAIN s : s[i] \in Hosts(r)
      /\ \A h \in Hosts(r) : \E i \in DOMAIN s : s[i] = h
  BY HostOrdersFacts
<1>4. /\ new \in Req /\ new.pc = "top" /\ new.hosts = s /\ new.cur = 1
      /\ new.tried = {} /\ new.n = rec.n /\ new.held = rec.held /\ new.op = rec.op
  BY <1>3 DEF Req, PC
<1>5. Upd(r, new) /\ req'[r] = new
  BY <1>1, <1>2, Updated
<1> HIDE DEF new
<1>6. CursorOK(r)' /\ TriedOK(r)' /\ OrderOK(r)'
  BY <1>3, <1>4, <1>5 DEF CursorOK, TriedOK, OrderOK, AtHost, InLoop, Hosts
<1>7. HeldOK(r)'
  <2>1. /\ rec.n = req[r].n \/ rec.n = req[r].n + 1
        /\ req[r].n \in 0 .. MaxResume /\ req[r].held[2] \in 0 .. MaxResume
    BY Facts
  <2> QED BY <1>1, <1>4, <1>5, <2>1 DEF ReqOK, HeldOK, InLoop
<1>8. EntriesOK(r)'
  <2>1. req[r].n \in 0 .. MaxResume /\ rec.n \in 0 .. MaxResume
    BY <1>1 DEF Req
  <2>2. \A h \in Host, k \in 0 .. MaxResume :
          /\ <<r, k>> \notin Q!QueuedSet(q[h])
          /\ k > req[r].n => <<r, k>> \notin q[h].active
    BY <1>1 DEF ReqOK, EntriesOK
  <2>3. \A h \in Host : <<r, rec.n>> \notin q[h].active
    <3>1. CASE req[r].pc = "idle"
      BY <3>1, <1>1 DEF ReqOK, EntriesOK, Me, AtHost, InLoop
    <3>2. CASE req[r].pc = "open"
      BY <3>2, <2>1, <2>2
    <3> QED BY <3>1, <3>2
  <2>4. \A h \in Host, k \in 0 .. MaxResume :
          k > rec.n => <<r, k>> \notin q[h].active
    BY <2>1, <2>2
  <2> QED
    BY <1>4, <1>5, <2>2, <2>3, <2>4 DEF EntriesOK, Me, AtHost, InLoop, Owning
<1> QED BY <1>4, <1>5, <1>6, <1>7, <1>8, StepOfOne DEF ReqOK

\* The record of a turn of the loop: at a host that is on the list.
LEMMA TurnFacts ==
    ASSUME IInv, NEW r \in Request, req[r].pc = "top", req[r].hosts # <<>>
    PROVE  /\ Turn(r) \in Req
           /\ Turn(r).cur \in 1 .. Len(req[r].hosts)
           /\ Turn(r).mirror = req[r].hosts[Turn(r).cur]
           /\ Turn(r).tried = req[r].tried \cup {Turn(r).mirror}
           /\ Turn(r).mirror \in Hosts(r) /\ Turn(r).mirror \in Host
           /\ Turn(r).hosts = req[r].hosts /\ Turn(r).n = req[r].n
           /\ Turn(r).held = req[r].held /\ Turn(r).op = req[r].op
           /\ Turn(r).pc = "top"
<1> DEFINE i == IF req[r].cur > Len(req[r].hosts) THEN 1 ELSE req[r].cur
<1>1. req[r] \in Req /\ ReqOK(r)
  BY Facts
<1>2. req[r].hosts \in Seq(Host) /\ Len(req[r].hosts) \in Nat \ {0}
  BY <1>1, EmptySeq DEF Req
<1>3. i \in 1 .. Len(req[r].hosts)
  BY <1>1, <1>2 DEF ReqOK, CursorOK, Req
<1>4. req[r].hosts[i] \in Host /\ req[r].hosts[i] \in Hosts(r)
  BY <1>1, <1>2, <1>3 DEF ReqOK, TriedOK
<1>5. Turn(r) = [req[r] EXCEPT !.cur = i, !.mirror = req[r].hosts[i],
                               !.retry = @ + 1, !.tried = @ \cup {req[r].hosts[i]}]
  BY DEF Turn
<1> HIDE DEF i
<1>6. /\ Turn(r).cur = i /\ Turn(r).mirror = req[r].hosts[i]
      /\ Turn(r).tried = req[r].tried \cup {req[r].hosts[i]}
      /\ Turn(r).hosts = req[r].hosts /\ Turn(r).n = req[r].n
      /\ Turn(r).held = req[r].held /\ Turn(r).op = req[r].op
      /\ Turn(r).pc = req[r].pc
  BY <1>1, <1>5 DEF Req
<1>7. Turn(r) \in Req
  <2> DEFINE h == req[r].hosts[i]
             t == req[r].tried \cup {h}
             m == req[r].retry + 1
  <2>1. i \in Nat /\ h \in Host /\ t \in SUBSET Host /\ m \in Int
    BY <1>1, <1>2, <1>3, <1>4 DEF Req
  <2>2. Turn(r) = [req[r] EXCEPT !.cur = i, !.mirror = h, !.retry = m, !.tried = t]
    BY <1>5
  <2> HIDE DEF h, t, m
  <2> QED BY ZenonT(60), <1>1, <2>1, <2>2 DEF Req
<1> QED BY <1>3, <1>4, <1>6, <1>7

\* Acquire of a throttle: the entry goes to the queue of the host whose turn it
\* is and to no other.
LEMMA EnterOrWait ==
    ASSUME IInv, NEW r \in Request, req[r].pc = "top", req[r].hosts # <<>>,
           NEW p \in {"closure", "waiting"}, RestOK',
           Upd(r, [Turn(r) EXCEPT !.pc = p]), QStep(Turn(r).mirror, Me(r)),
           p = "closure" => /\ Me(r) \in q'[Turn(r).mirror].active
                            /\ Q!QueuedSet(q'[Turn(r).mirror]) = {}
    PROVE  IInv'
<1> DEFINE new == [Turn(r) EXCEPT !.pc = p]
           h == Turn(r).mirror
<1>1. /\ req[r] \in Req /\ ReqOK(r) /\ TypeOK /\ req[r].n \in 0 .. MaxResume
      /\ req[r].held[2] \in 0 .. MaxResume
      /\ req[r].held[1] # NoHost => req[r].held[1] \in Host
  BY Facts
<1>2. /\ new \in Req /\ new.pc = p /\ new.cur \in 1 .. Len(req[r].hosts)
      /\ new.hosts = req[r].hosts /\ new.hosts[new.cur] = h
      /\ new.tried = req[r].tried \cup {h} /\ h \in Hosts(r) /\ h \in Host
      /\ new.n = req[r].n /\ new.held = req[r].held /\ new.op = req[r].op
  BY SMTT(30), TurnFacts DEF Req, PC
<1>3. Upd(r, new) /\ req'[r] = new
  BY <1>1, Updated
<1> HIDE DEF new, h
<1>4. Cur(r)' = h /\ Me(r)' = Me(r) /\ Me(r) = <<r, req[r].n>>
  BY <1>2, <1>3 DEF Cur, Me
<1>5. \A g \in Host, k \in 0 .. MaxResume :
        /\ <<r, k>> \notin Q!QueuedSet(q[g])
        /\ k >= req[r].n => <<r, k>> \notin q[g].active
  BY <1>1 DEF ReqOK, EntriesOK, InLoop, AtHost, Me
<1>6. \A g \in Host, k \in 0 .. MaxResume :
        /\ <<r, k>> \in Q!QueuedSet(q'[g]) => p = "waiting" /\ k = req[r].n /\ g = h
        /\ <<r, k>> \in q'[g].active =>
             <<r, k>> \in q[g].active \/ (k = req[r].n /\ g = h)
        /\ k # req[r].n /\ <<r, k>> \in q[g].active => <<r, k>> \in q'[g].active
  <2> TAKE g \in Host, k \in 0 .. MaxResume
  <2>1. /\ g # h => q'[g] = q[g]
        /\ q[h].active \ {Me(r)} \subseteq q'[h].active
        /\ q'[h].active \subseteq q[h].active \cup Q!QueuedSet(q[h]) \cup {Me(r)}
        /\ Q!QueuedSet(q'[h]) \subseteq Q!QueuedSet(q[h]) \cup {Me(r)}
    BY DEF QStep, h
  <2>2. <<r, k>> = Me(r) <=> k = req[r].n
    BY <1>4
  <2>3. CASE g = h
    BY <1>2, <1>5, <2>1, <2>2, <2>3 DEF h
  <2>4. CASE g # h
    BY <1>5, <2>1, <2>4
  <2> QED BY <2>3, <2>4
<1>7. CursorOK(r)' /\ TriedOK(r)' /\ OrderOK(r)'
  BY <1>1, <1>2, <1>3, <1>4 DEF ReqOK, CursorOK, TriedOK, OrderOK, AtHost, InLoop,
                                Hosts
<1>8. HeldOK(r)'
  BY <1>1, <1>2, <1>3, <1>6 DEF ReqOK, HeldOK, InLoop
<1>9. EntriesOK(r)'
  <2>1. p \in Owning => p = "closure"
    BY DEF Owning, AtHost, InLoop
  <2> QED
    BY <1>1, <1>2, <1>3, <1>4, <1>5, <1>6, <2>1 DEF EntriesOK, AtHost, InLoop, h
<1>10. \E g \in Host, k \in 0 .. MaxResume : QStep(g, <<r, k>>)
  BY <1>1, <1>2, <1>4 DEF h
<1> QED BY <1>2, <1>3, <1>7, <1>8, <1>9, <1>10, StepOfOne DEF ReqOK

\* throttleDone of an attempt that failed, and on to the next turn: only the host
\* that was just tried may have left the list.
LEMMA NextTurn ==
    ASSUME IInv, NEW r \in Request, req[r].pc = "yield", RestOK',
           q' = [q EXCEPT ![Cur(r)] = Q!Release(@, Me(r))],
           NEW rec \in Req, Upd(r, rec), rec.pc = "top", rec.cur >= 1,
           rec.n = req[r].n, rec.held = req[r].held, rec.op = req[r].op,
           rec.tried = req[r].tried,
           \A i \in DOMAIN rec.hosts : rec.hosts[i] \in Hosts(r),
           \A i \in DOMAIN req[r].hosts :
              i # req[r].cur => \E j \in DOMAIN rec.hosts : rec.hosts[j] = req[r].hosts[i]
    PROVE  IInv'
<1>1. /\ req[r] \in Req /\ ReqOK(r) /\ TypeOK /\ req[r].n \in 0 .. MaxResume
      /\ req[r].held[2] \in 0 .. MaxResume /\ Me(r) \in Call
      /\ req[r].held[1] # NoHost => req[r].held[1] \in Host
      /\ QueuesOK /\ Cur(r) \in Host
  BY Facts DEF AtHost, InLoop
<1>2. \A g \in Host, k \in 0 .. MaxResume :
        /\ <<r, k>> \notin Q!QueuedSet(q[g])
        /\ k > req[r].n => <<r, k>> \notin q[g].active
        /\ k = req[r].n /\ <<r, k>> \in q[g].active => g = Cur(r)
  BY <1>1 DEF ReqOK, EntriesOK, InLoop, AtHost, Me
<1>3. Me(r) = <<r, req[r].n>>
  BY DEF Me
<1>4. /\ QStep(Cur(r), Me(r))
      /\ Me(r) \notin q'[Cur(r)].active
      /\ Q!QueuedSet(q'[Cur(r)]) \subseteq Q!QueuedSet(q[Cur(r)])
  <2>1. Me(r) \notin Q!QueuedSet(q[Cur(r)])
    BY <1>1, <1>2, <1>3
  <2> QED BY <1>1, <2>1, ReleaseStep
<1>5. req'[r] = rec
  BY <1>1, Updated
<1>6. \A g \in Host, k \in 0 .. MaxResume :
        /\ <<r, k>> \notin Q!QueuedSet(q'[g])
        /\ k >= req[r].n => <<r, k>> \notin q'[g].active
        /\ k # req[r].n /\ <<r, k>> \in q[g].active => <<r, k>> \in q'[g].active
  BY <1>1, <1>2, <1>3, <1>4 DEF QStep
<1>7. CursorOK(r)' /\ OrderOK(r)'
  BY <1>5 DEF CursorOK, OrderOK, AtHost, InLoop
<1>8. TriedOK(r)'
  BY <1>1, <1>5 DEF ReqOK, TriedOK, AtHost, InLoop, Hosts, Cur
<1>9. HeldOK(r)'
  BY <1>1, <1>5, <1>6 DEF ReqOK, HeldOK, InLoop
<1>10. EntriesOK(r)'
  BY <1>1, <1>5, <1>6 DEF EntriesOK, AtHost, InLoop, Owning, Me
<1>11. \E g \in Host, k \in 0 .. MaxResume : QStep(g, <<r, k>>)
  BY <1>1, <1>3, <1>4
<1> QED BY <1>5, <1>7, <1>8, <1>9, <1>10, <1>11, StepOfOne DEF ReqOK
-----------------------------------------------------------------------------
(* The actions.                                                             *)

LEMMA InitIInv == Init => IInv
<1> SUFFICES ASSUME Init PROVE IInv
  OBVIOUS
<1>1. NewResp \in Req
  BY RegHttpAssumption DEF NewResp, Req, PC, NotHeld, Plain, Flags
<1>2. \A h \in Host : q[h] = Q!EmptyQueue
  BY DEF Init
<1>3. /\ Q!EmptyQueue \in Q!Queue /\ Q!QueuedSet(Q!EmptyQueue) = {}
      /\ Q!EmptyQueue.active = {} /\ Q!EmptyQueue.queued = <<>>
  BY DEF Q!EmptyQueue, Q!Queue, Q!QueuedSet
<1>4. Q!Cardinality({}) = 0
  BY FS_EmptySet DEF Q!Cardinality, Cardinality
<1>5. Q!Sound(Q!EmptyQueue)
  <2>1. DOMAIN Q!EmptyQueue.queued = {}
    BY <1>3
  <2>2. Q!Bounded(Q!EmptyQueue) /\ Q!Conserving(Q!EmptyQueue)
    BY <1>3, <1>4, QueueAssumptions DEF Q!Bounded, Q!Conserving
  <2> QED BY <2>1, <2>2 DEF Q!Sound, Q!Distinct
<1>6. TypeOK
  BY <1>1, <1>2, <1>3, RegHttpAssumption DEF Init, TypeOK
<1>7. \A r \in Request : ReqOK(r)
  <2> TAKE r \in Request
  <2>1. req[r] = NewResp
    BY DEF Init
  <2> QED
    BY <1>2, <1>3, <2>1 DEF ReqOK, CursorOK, HeldOK, EntriesOK, TriedOK, OrderOK,
       NewResp, NotHeld, InLoop, AtHost, Owning, Me
<1> QED BY <1>2, <1>5, <1>6, <1>7 DEF IInv

LEMMA FlagsOK ==
    {Plain, Dropped, Overload, Limited, Broken, Again, Final} \subseteq Flags
<1>1. Plain \in Flags /\ Dropped \in Flags /\ Overload \in Flags /\ Again \in Flags
  BY DEF Plain, Dropped, Overload, Again, Flags
<1>2. Limited \in Flags /\ Broken \in Flags /\ Final \in Flags
  BY <1>1 DEF Limited, Broken, Final, Flags
<1> QED BY <1>1, <1>2

LEMMA DoStep == ASSUME IInv, NEW r \in Request, Do(r) PROVE IInv'
<1>1. req[r] \in Req /\ ReqOK(r) /\ RestOK
  BY Facts
<1> QED BY <1>1, RestartStep DEF Do, At, RestOK, ReqOK, HeldOK

LEMMA LoopStep == ASSUME IInv, NEW r \in Request, Loop(r) PROVE IInv'
<1>1. /\ TypeOK /\ RestOK /\ QueuesOK
      /\ req[r] \in Req /\ ReqOK(r)
      /\ Me(r) \in Call
      /\ req[r].pc \in AtHost => Cur(r) \in Host
      /\ req[r].n \in 0 .. MaxResume /\ req[r].held[2] \in 0 .. MaxResume
      /\ req[r].held[1] # NoHost => req[r].held[1] \in Host
  BY Facts
<1>2. /\ req[r].cur >= 1 /\ req[r].tried \subseteq Hosts(r)
      /\ \A i \in DOMAIN req[r].hosts : req[r].hosts[i] \in Hosts(r)
  BY <1>1 DEF ReqOK, CursorOK, TriedOK
<1>3. req[r].pc # "waiting" => \A h \in Host : Me(r) \notin Q!QueuedSet(q[h])
  BY <1>1 DEF ReqOK, EntriesOK, Me
<1>4. CASE Exhausted(r)
  BY <1>1, <1>2, <1>3, <1>4, GiveUpStep DEF Exhausted, At, RestOK, InLoop
<1>5. CASE RetryLimitExceeded(r)
  <2> DEFINE rec == [Turn(r) EXCEPT !.retry = @ - 1]
  <2>1. req[r].pc = "top" /\ req[r].hosts # <<>>
    BY <1>5 DEF RetryLimitExceeded, At
  <2>2. /\ Turn(r) \in Req /\ Turn(r).cur >= 1 /\ Turn(r).tried \subseteq Hosts(r)
        /\ Turn(r).hosts = req[r].hosts /\ Turn(r).n = req[r].n
        /\ Turn(r).held = req[r].held /\ Turn(r).op = req[r].op
    BY <1>2, <2>1, TurnFacts
  <2>3. Turn(r).retry - 1 \in Int
    BY <2>2 DEF Req
  <2>4. /\ rec \in Req /\ rec.n = req[r].n /\ rec.held = req[r].held
        /\ rec.op = req[r].op /\ rec.cur >= 1 /\ rec.tried \subseteq Hosts(r)
        /\ rec.hosts = req[r].hosts
    BY <2>2, <2>3 DEF Req
  <2> HIDE DEF rec
  <2> QED
    BY <1>1, <1>2, <1>3, <1>5, <2>1, <2>4, GiveUpStep
       DEF RetryLimitExceeded, At, RestOK, InLoop, rec
<1>6. CASE ContextDone(r)
  BY <1>1, <1>2, <1>3, <1>6, TurnFacts, GiveUpStep DEF ContextDone, At, RestOK, InLoop
<1>7. CASE Acquire(r)
  <2> DEFINE h == Turn(r).mirror
  <2>1. /\ req[r].pc = "top" /\ req[r].hosts # <<>> /\ h \in Host /\ RestOK'
        /\ Me(r) \notin q[h].active /\ Me(r) \notin Q!QueuedSet(q[h])
    BY <1>1, <1>3, <1>7, TurnFacts
       DEF Acquire, At, RestOK, ReqOK, EntriesOK, InLoop, AtHost
  <2>2. CASE /\ Q!HasRoom(q[h])
             /\ q' = [q EXCEPT ![h] = Q!Enter(@, Me(r))]
             /\ Upd(r, [Turn(r) EXCEPT !.pc = "closure"])
    BY <1>1, <2>1, <2>2, EnterStep, EnterOrWait
  <2>3. CASE /\ ~Q!HasRoom(q[h])
             /\ q' = [q EXCEPT ![h] = Q!Enqueue(@, Me(r))]
             /\ Upd(r, [Turn(r) EXCEPT !.pc = "waiting"])
    BY <1>1, <2>1, <2>3, EnqueueStep, EnterOrWait
  <2> QED BY <1>7, <2>2, <2>3 DEF Acquire
<1>8. CASE Granted(r)
  <2>1. /\ req[r].pc = "waiting" /\ Cur(r) \in Host /\ q' = q /\ RestOK'
        /\ Me(r) \in q[Cur(r)].active /\ Upd(r, [req[r] EXCEPT !.pc = "closure"])
    BY <1>1, <1>8 DEF Granted, At, RestOK, AtHost, InLoop
  <2>2. Me(r) \notin Q!QueuedSet(q[Cur(r)])
    BY <1>1, <2>1 DEF QueuesOK, Q!Sound, Q!Distinct, Q!QueuedSet
  <2> QED BY <2>1, <2>2, MoveStep DEF AtHost, InLoop
<1>9. CASE AbortQueued(r)
  <2>1. /\ QStep(Cur(r), Me(r)) /\ Cur(r) \in Host
        /\ Me(r) \notin Q!QueuedSet(q'[Cur(r)])
    BY <1>1, <1>9, DropStep DEF AbortQueued, At, AtHost, InLoop
  <2>2. \A h \in Host : Me(r) \notin Q!QueuedSet(q'[h])
    BY <1>1, <2>1 DEF QStep, ReqOK, EntriesOK, Me
  <2> QED
    BY <1>1, <1>2, <1>9, <2>1, <2>2, GiveUpStep DEF AbortQueued, At, RestOK, InLoop
<1>10. CASE AbortMissing(r)
  BY <1>1, <1>10, MoveStep DEF AbortMissing, At, RestOK, AtHost, InLoop, Owning
<1>11. CASE ReleaseMissing(r)
  <2>1. /\ QStep(Cur(r), Me(r)) /\ Cur(r) \in Host
        /\ Q!QueuedSet(q'[Cur(r)]) \subseteq Q!QueuedSet(q[Cur(r)])
    BY <1>1, <1>3, <1>11, ReleaseStep DEF ReleaseMissing, At, AtHost, InLoop
  <2>2. \A h \in Host : Me(r) \notin Q!QueuedSet(q'[h])
    BY <1>3, <1>11, <2>1 DEF QStep, ReleaseMissing, At
  <2> QED
    BY <1>1, <1>2, <1>11, <2>1, <2>2, GiveUpStep
       DEF ReleaseMissing, At, RestOK, InLoop
<1>12. CASE BackoffGet(r)
  <2>1. req[r].pc = "closure" /\ RestOK' /\ q' = q
    BY <1>1, <1>12 DEF BackoffGet, At, RestOK
  <2>2. PICK p \in {"sleep", "send"} : Upd(r, [req[r] EXCEPT !.pc = p])
    BY <1>12 DEF BackoffGet
  <2>3. [req[r] EXCEPT !.pc = p] \in Req
    BY <1>1 DEF Req, PC
  <2> QED BY <1>1, <2>1, <2>2, <2>3, OwnerStep DEF AtHost, InLoop, Owning, Req
<1>13. CASE Wake(r)
  <2>1. [req[r] EXCEPT !.pc = "send"] \in Req
    BY <1>1 DEF Req, PC
  <2> QED
    BY <1>1, <1>13, <2>1, OwnerStep DEF Wake, At, RestOK, AtHost, InLoop, Owning, Req
<1>14. CASE SleepCanceled(r)
  <2>1. [req[r] EXCEPT !.pc = "failed", !.flags = Plain] \in Req
    BY <1>1, FlagsOK DEF Req, PC
  <2> QED
    BY <1>1, <1>14, <2>1, OwnerStep
       DEF SleepCanceled, At, RestOK, AtHost, InLoop, Owning, Req
<1>15. CASE Settle(r)
  <2> DEFINE keep == [req[r] EXCEPT !.pc = "yield"]
             drop == [req[r] EXCEPT !.pc = "yield", !.flags.drop = TRUE]
  <2>1. keep \in Req /\ drop \in Req
    BY ZenonT(60), <1>1 DEF Req, PC, Flags
  <2>2. \A rec \in {keep, drop} :
          /\ rec.pc = "yield" /\ rec.hosts = req[r].hosts /\ rec.cur = req[r].cur
          /\ rec.n = req[r].n /\ rec.held = req[r].held
          /\ rec.tried = req[r].tried /\ rec.op = req[r].op
    BY ZenonT(60), <1>1 DEF Req
  <2>3. Upd(r, keep) \/ Upd(r, drop)
    BY <1>15 DEF Settle
  <2>4. req[r].pc \in Owning /\ "yield" \in Owning /\ q' = q
    BY <1>15 DEF Settle, At, Owning, AtHost, InLoop
  <2>5. RestOK'
    <3>1. Cur(r) \in Host
      BY <1>1, <2>4 DEF Owning
    <3>2. BackoffSet(Cur(r)) \in [Host -> [cur : Nat, reset : 0 .. ResetCount]]
      BY <1>1, <3>1 DEF BackoffSet, RestOK
    <3>3. /\ backoff' = backoff \/ backoff' = BackoffSet(Cur(r))
          /\ ahead' = ahead \/ ahead' = [ahead EXCEPT ![Cur(r)] = TRUE]
          /\ fails' = fails
      BY <1>15 DEF Settle
    <3> QED BY <1>1, <3>1, <3>2, <3>3 DEF RestOK
  <2> HIDE DEF keep, drop
  <2> QED BY <2>1, <2>2, <2>3, <2>4, <2>5, OwnerStep
<1>16. CASE Yield(r)
  <2> DEFINE rec == [req[r] EXCEPT !.pc = "top", !.err = TRUE, !.flags = Plain]
             i == req[r].cur
  <2>1. /\ req[r].pc = "yield" /\ RestOK' /\ Cur(r) \in Host
        /\ q' = [q EXCEPT ![Cur(r)] = Q!Release(@, Me(r))]
        /\ req[r].hosts \in Seq(Host) /\ i \in 1 .. Len(req[r].hosts)
    <3>1. req[r].pc = "yield" /\ UNCHANGED <<backoff, ahead, fails>>
          /\ q' = [q EXCEPT ![Cur(r)] = Q!Release(@, Me(r))]
      BY <1>16 DEF Yield, At
    <3>2. RestOK' /\ Cur(r) \in Host
      BY <1>1, <3>1 DEF RestOK, AtHost, InLoop
    <3>3. req[r].hosts \in Seq(Host) /\ i \in 1 .. Len(req[r].hosts)
      BY <1>1, <3>1 DEF AtHost, InLoop, ReqOK, CursorOK, Req
    <3> QED BY <3>1, <3>2, <3>3
  <2>2. /\ rec \in Req /\ rec.n = req[r].n /\ rec.held = req[r].held
        /\ rec.op = req[r].op /\ rec.cur = i /\ rec.tried = req[r].tried
        /\ rec.hosts = req[r].hosts /\ rec.pc = "top"
    BY <1>1, FlagsOK DEF Req, PC
  <2> HIDE DEF rec
  <2>3. CASE GiveUp(r, rec)
    <3>1. /\ QStep(Cur(r), Me(r))
          /\ Q!QueuedSet(q'[Cur(r)]) \subseteq Q!QueuedSet(q[Cur(r)])
      BY <1>1, <1>3, <2>1, ReleaseStep
    <3>2. \A h \in Host : Me(r) \notin Q!QueuedSet(q'[h])
      BY <1>3, <2>1, <3>1 DEF QStep
    <3> QED BY <1>1, <1>2, <2>1, <2>2, <2>3, <3>1, <3>2, GiveUpStep DEF InLoop
  <2>4. CASE Upd(r, [rec EXCEPT !.hosts = RemoveAt(@, i)])
    <3> DEFINE new == [rec EXCEPT !.hosts = RemoveAt(@, i)]
               s == req[r].hosts
               t == RemoveAt(s, i)
    <3>1. /\ t \in Seq(Host) /\ Len(t) = Len(s) - 1
          /\ \A j \in 1 .. (Len(s) - 1) : t[j] = IF j < i THEN s[j] ELSE s[j + 1]
      <4>1. t = P!RemoveAt(s, i)
        BY DEF RemoveAt, P!RemoveAt
      <4> QED BY ZenonT(60), <2>1, <4>1, QueueAssumptions, P!RemoveAtFacts
    <3> HIDE DEF t
    <3>2. new \in Req /\ new.hosts = t
      BY <2>2, <3>1 DEF Req, t
    <3>3. /\ new.n = req[r].n /\ new.held = req[r].held /\ new.op = req[r].op
          /\ new.cur = i /\ new.tried = req[r].tried /\ new.pc = "top"
      BY <2>2 DEF Req
    <3>4. \A j \in DOMAIN t : t[j] \in Hosts(r)
      <4> SUFFICES ASSUME NEW j \in DOMAIN t PROVE t[j] \in Hosts(r)
        OBVIOUS
      <4>1. j \in 1 .. (Len(s) - 1) /\ DOMAIN s = 1 .. Len(s) /\ Len(s) \in Nat
        BY <2>1, <3>1
      <4>2. j \in DOMAIN s /\ j + 1 \in DOMAIN s
        BY <4>1
      <4> QED BY <1>2, <3>1, <4>1, <4>2
    <3>5. \A j \in DOMAIN s : j # i => \E k \in DOMAIN t : t[k] = s[j]
      <4> SUFFICES ASSUME NEW j \in DOMAIN s, j # i
                   PROVE  \E k \in DOMAIN t : t[k] = s[j]
        OBVIOUS
      <4>1. CASE j < i
        <5>1. j \in 1 .. (Len(s) - 1)
          BY <2>1, <4>1
        <5> QED BY <3>1, <4>1, <5>1
      <4>2. CASE j > i
        <5>1. j - 1 \in 1 .. (Len(s) - 1) /\ ~(j - 1 < i) /\ (j - 1) + 1 = j
          BY <2>1, <4>2
        <5> QED BY <3>1, <5>1
      <4> QED BY <2>1, <4>1, <4>2
    <3> HIDE DEF new
    <3> QED BY <1>2, <2>1, <2>4, <3>2, <3>3, <3>4, <3>5, NextTurn DEF new
  <2>5. CASE Upd(r, [rec EXCEPT !.cur = IF req[r].flags.again THEN @ ELSE @ + 1])
    <3> DEFINE new == [rec EXCEPT !.cur = IF req[r].flags.again THEN @ ELSE @ + 1]
    <3>1. /\ new \in Req /\ new.cur >= 1
          /\ new.n = req[r].n /\ new.held = req[r].held /\ new.op = req[r].op
          /\ new.hosts = req[r].hosts /\ new.tried = req[r].tried
          /\ new.pc = "top"
      <4> DEFINE c == IF req[r].flags.again THEN i ELSE i + 1
      <4>1. c \in Nat /\ c >= 1
        BY <2>1
      <4>2. new = [rec EXCEPT !.cur = c]
        BY <2>2
      <4> HIDE DEF c, new
      <4> QED BY <2>2, <4>1, <4>2 DEF Req
    <3> HIDE DEF new
    <3> QED BY <1>2, <2>1, <2>2, <2>5, <3>1, NextTurn DEF new
  <2> QED BY <1>16, <2>3, <2>4, <2>5 DEF Yield, rec
<1> QED
  BY <1>4, <1>5, <1>6, <1>7, <1>8, <1>9, <1>10, <1>11, <1>12, <1>13, <1>14,
     <1>15, <1>16 DEF Loop

\* An attempt that fails, with whatever it leaves in the response.
LEMMA FailStep ==
    ASSUME IInv, NEW r \in Request, req[r].pc \in Owning, NEW f \in Flags,
           NEW rsp \in BOOLEAN, q' = q, RestOK',
           \/ Upd(r, [req[r] EXCEPT !.pc = "failed", !.flags = f, !.resp = rsp])
           \/ Upd(r, [req[r] EXCEPT !.pc = "failed", !.flags = f, !.resp = rsp,
                                    !.done = FALSE, !.pos = 0])
    PROVE  IInv'
<1> DEFINE a == [req[r] EXCEPT !.pc = "failed", !.flags = f, !.resp = rsp]
           b == [req[r] EXCEPT !.pc = "failed", !.flags = f, !.resp = rsp,
                               !.done = FALSE, !.pos = 0]
<1>1. req[r] \in Req /\ 0 \in 0 .. Size
  BY Facts, RegHttpAssumption
<1>2. a \in Req /\ b \in Req
  BY ZenonT(60), <1>1 DEF Req, PC
<1>3. \A rec \in {a, b} :
        /\ rec.pc = "failed" /\ rec.hosts = req[r].hosts /\ rec.cur = req[r].cur
        /\ rec.n = req[r].n /\ rec.held = req[r].held
        /\ rec.tried = req[r].tried /\ rec.op = req[r].op
  BY ZenonT(60), <1>1 DEF Req
<1>4. "failed" \in Owning
  BY DEF Owning, AtHost, InLoop
<1> HIDE DEF a, b
<1> QED BY <1>2, <1>3, <1>4, OwnerStep DEF a, b

\* The closure returns nil: the slot of the attempt becomes that of the response.
LEMMA AnswerStep == ASSUME IInv, NEW r \in Request, Answer(r) PROVE IInv'
<1> DEFINE rec == [req[r] EXCEPT !.pc = "open", !.held = <<Cur(r), req[r].n>>,
                                 !.resp = TRUE, !.done = FALSE, !.pos = req[r].readCur]
<1>1. /\ req[r].pc = "send" /\ q' = q /\ Upd(r, rec)
      /\ UNCHANGED <<backoff, ahead, fails>>
  BY DEF Answer, At, Success
<1>2. /\ req[r] \in Req /\ ReqOK(r) /\ TypeOK /\ RestOK
      /\ Cur(r) \in Host /\ req[r].n \in 0 .. MaxResume
  BY <1>1, Facts DEF AtHost, InLoop
<1>3. /\ rec \in Req /\ rec.hosts = req[r].hosts /\ rec.cur = req[r].cur
      /\ rec.n = req[r].n /\ rec.held = <<Cur(r), req[r].n>> /\ rec.pc = "open"
      /\ rec.tried = req[r].tried /\ rec.op = req[r].op
      /\ rec.pos = rec.readCur
  BY <1>2 DEF Req, PC
<1>4. req'[r] = rec
  BY <1>1, <1>2, Updated
<1> HIDE DEF rec
<1>5. /\ Me(r) \in q[Cur(r)].active /\ Me(r) = <<r, req[r].n>>
      /\ \A h \in Host, k \in 0 .. MaxResume :
           /\ <<r, k>> \notin Q!QueuedSet(q[h])
           /\ k > req[r].n => <<r, k>> \notin q[h].active
  BY <1>1, <1>2 DEF ReqOK, EntriesOK, Owning, AtHost, InLoop, Me
<1>6. HeldOK(r)'
  BY <1>1, <1>2, <1>3, <1>4, <1>5, RegHttpAssumption DEF HeldOK, InLoop
<1>7. EntriesOK(r)'
  BY <1>1, <1>3, <1>4, <1>5 DEF EntriesOK, InLoop, AtHost, Owning
<1>8. CursorOK(r)' /\ TriedOK(r)' /\ OrderOK(r)'
  BY <1>2, <1>3, <1>4 DEF ReqOK, CursorOK, TriedOK, OrderOK, InLoop, AtHost, Hosts
<1>9. RestOK'
  BY <1>1, <1>2 DEF RestOK
<1> QED BY <1>1, <1>3, <1>6, <1>7, <1>8, <1>9, StepOfOne DEF ReqOK

LEMMA ServerStep == ASSUME IInv, NEW r \in Request, Server(r) PROVE IInv'
<1>1. req[r] \in Req /\ RestOK /\ req[r].resp \in BOOLEAN
  BY Facts DEF Req
<1>2. "closure" \in Owning /\ "send" \in Owning
  BY DEF Owning, AtHost, InLoop
<1>3. ASSUME NEW f \in Flags, NEW rsp \in BOOLEAN, Fail(r, f, rsp),
             req[r].pc \in {"closure", "send"}
      PROVE  IInv'
  <2>1. RestOK'
    BY <1>1, <1>3, RegHttpAssumption DEF Fail, RestOK
  <2> QED BY <1>2, <1>3, <2>1, FailStep DEF Fail
<1>4. CASE HeadDisabled(r)
  BY <1>1, <1>3, <1>4, FlagsOK DEF HeadDisabled, At
<1>5. CASE Refused(r)
  BY <1>1, <1>3, <1>5, FlagsOK DEF Refused, At
<1>6. CASE NotSatisfiable(r)
  BY <1>1, <1>2, <1>6, FailStep, FlagsOK DEF NotSatisfiable, At, RestOK
<1>7. CASE NotRetryable(r)
  BY <1>1, <1>3, <1>7, FlagsOK DEF NotRetryable, At
<1>8. CASE AuthFails(r)
  BY <1>1, <1>3, <1>8, FlagsOK DEF AuthFails, At
<1>9. CASE Unauthorized(r)
  BY <1>1, <1>3, <1>9, FlagsOK DEF Unauthorized, At
<1>10. CASE Status(r)
  BY <1>1, <1>3, <1>10, FlagsOK DEF Status, At
<1>11. CASE NoAnswer(r)
  BY <1>1, <1>3, <1>11, FlagsOK DEF NoAnswer, At
<1>12. CASE WrongLength(r) \/ RangeIgnored(r)
  <2>1. RestOK'
    BY <1>1, <1>12, RegHttpAssumption DEF WrongLength, RangeIgnored, RestOK
  <2>2. CASE WrongLength(r)
    BY <1>2, <2>1, <2>2, FailStep, FlagsOK DEF WrongLength, At
  <2>3. CASE RangeIgnored(r)
    BY <1>2, <2>1, <2>3, FailStep, FlagsOK DEF RangeIgnored, At
  <2> QED BY <1>12, <2>2, <2>3
<1> QED
  BY <1>4, <1>5, <1>6, <1>7, <1>8, <1>9, <1>10, <1>11, <1>12, AnswerStep DEF Server

LEMMA BackoffOK ==
    ASSUME RestOK, NEW h \in Host
    PROVE  /\ BackoffSet(h) \in [Host -> [cur : Nat, reset : 0 .. ResetCount]]
           /\ BackoffReset(h) /\ fails' = fails => RestOK'
<1>1. /\ backoff \in [Host -> [cur : Nat, reset : 0 .. ResetCount]]
      /\ ahead \in [Host -> BOOLEAN] /\ ResetCount \in Nat
  BY RegHttpAssumption DEF RestOK
<1>2. BackoffSet(h) \in [Host -> [cur : Nat, reset : 0 .. ResetCount]]
  BY <1>1 DEF BackoffSet
<1>3. ASSUME BackoffReset(h), fails' = fails PROVE RestOK'
  <2>1. CASE backoff[h].cur = 0
    BY <1>3, <2>1 DEF BackoffReset, RestOK
  <2>2. CASE /\ backoff' = [backoff EXCEPT ![h] = [cur |-> @.cur - 1, reset |-> 0]]
             /\ ahead' = [ahead EXCEPT ![h] = @ /\ backoff[h].cur > 1]
             /\ backoff[h].cur # 0
    <3>1. backoff[h].cur - 1 \in Nat /\ 0 \in 0 .. ResetCount
      BY <1>1, <2>2
    <3>2. backoff' \in [Host -> [cur : Nat, reset : 0 .. ResetCount]]
      BY <1>1, <2>2, <3>1
    <3> QED BY <1>1, <1>3, <2>2, <3>2 DEF RestOK
  <2>3. CASE /\ backoff' = [backoff EXCEPT ![h].reset = @ + 1] /\ ahead' = ahead
             /\ ~(backoff[h].reset + 1 > ResetCount)
    <3>1. backoff[h].reset + 1 \in 0 .. ResetCount
      BY <1>1, <2>3
    <3> QED BY <1>1, <1>3, <2>3, <3>1 DEF RestOK
  <2> QED BY <1>3, <2>1, <2>2, <2>3 DEF BackoffReset
<1> QED BY <1>2, <1>3

LEMMA CallerStep == ASSUME IInv, NEW r \in Request, Caller(r) PROVE IInv'
<1>1. /\ req[r] \in Req /\ ReqOK(r) /\ RestOK /\ TypeOK /\ req[r].mirror \in Host
      /\ req[r].n \in 0 .. MaxResume /\ req[r].retry \in Int
      /\ req[r].readCur \in 0 .. Size /\ Size \in Nat /\ MaxResume \in Nat
  BY Facts, RegHttpAssumption DEF Req
<1>2. CASE ReadSome(r)
  <2> DEFINE rec == [req[r] EXCEPT !.readCur = @ + 1, !.pos = @ + 1]
  <2>1. /\ req[r].pc = "open" /\ Upd(r, rec) /\ q' = q /\ RestOK'
        /\ ~req[r].done /\ req[r].readCur + 1 \in 0 .. Size
        /\ req[r].pos = req[r].readCur
    BY <1>1, <1>2 DEF ReadSome, At, RestOK, ReqOK, OrderOK
  <2>2. /\ rec \in Req /\ rec.hosts = req[r].hosts /\ rec.cur = req[r].cur
        /\ rec.n = req[r].n /\ rec.held = req[r].held /\ rec.tried = req[r].tried
        /\ rec.op = req[r].op /\ rec.pc = "open" /\ rec.pos = rec.readCur
    BY <1>1, <2>1 DEF Req
  <2> HIDE DEF rec
  <2> QED BY <2>1, <2>2, StayStep
<1>3. CASE ReadEOF(r)
  <2> DEFINE rec == [req[r] EXCEPT !.done = TRUE]
  <2>1. req[r].pc = "open" /\ Upd(r, rec) /\ q' = q /\ RestOK'
    BY <1>1, <1>3, BackoffOK DEF ReadEOF, At
  <2>2. /\ rec \in Req /\ rec.hosts = req[r].hosts /\ rec.cur = req[r].cur
        /\ rec.n = req[r].n /\ rec.held = req[r].held /\ rec.tried = req[r].tried
        /\ rec.op = req[r].op /\ rec.pc = "open" /\ rec.done
    BY <1>1, <2>1 DEF Req
  <2> HIDE DEF rec
  <2> QED BY <2>1, <2>2, StayStep
<1>4. CASE ReadShort(r)
  <2>1. /\ req[r].pc = "open" /\ q' = q /\ RestOK' /\ req[r].n + 1 \in 0 .. MaxResume
    BY <1>1, <1>4, BackoffOK DEF ReadShort, At, RestOK
  <2>2. CASE Upd(r, [req[r] EXCEPT !.pc = "broken", !.done = TRUE])
    <3> DEFINE rec == [req[r] EXCEPT !.pc = "broken", !.done = TRUE]
    <3>1. /\ rec \in Req /\ rec.hosts = req[r].hosts /\ rec.cur = req[r].cur
          /\ rec.n = req[r].n /\ rec.held = req[r].held /\ rec.tried = req[r].tried
          /\ rec.op = req[r].op /\ rec.pc = "broken"
      BY <1>1 DEF Req, PC
    <3>2. Upd(r, rec) /\ req'[r] = rec
      BY <1>1, <2>2, Updated
    <3> HIDE DEF rec
    <3>3. CursorOK(r)' /\ HeldOK(r)' /\ TriedOK(r)' /\ OrderOK(r)'
      BY <1>1, <2>1, <3>1, <3>2
         DEF ReqOK, CursorOK, HeldOK, TriedOK, OrderOK, Hosts, AtHost, InLoop
    <3>4. EntriesOK(r)'
      BY <1>1, <2>1, <3>1, <3>2 DEF ReqOK, EntriesOK, AtHost, InLoop, Owning
    <3> QED BY <2>1, <3>1, <3>2, <3>3, <3>4, StepOfOne DEF ReqOK
  <2>3. CASE Next_(r, [req[r] EXCEPT !.op = "read", !.n = @ + 1])
    <3> DEFINE rec == [req[r] EXCEPT !.op = "read", !.n = @ + 1]
    <3>1. /\ rec \in Req /\ rec.held = req[r].held /\ rec.op = "read"
          /\ rec.n = req[r].n + 1
      BY <1>1, <2>1 DEF Req
    <3> HIDE DEF rec
    <3> QED BY <2>1, <2>3, <3>1, RestartStep DEF rec
  <2> QED BY <1>4, <2>2, <2>3 DEF ReadShort
<1>5. ASSUME NEW offset \in 0 .. Size, Seek(r, offset) PROVE IInv'
  <2> DEFINE rec == [req[r] EXCEPT !.op = "seek", !.n = @ + 1, !.readCur = offset,
                                   !.retry = @ - 1]
  <2>1. /\ req[r].pc = "open" /\ q' = q /\ RestOK' /\ req[r].n + 1 \in 0 .. MaxResume
        /\ Next_(r, rec) /\ req[r].retry - 1 \in Int
    BY <1>1, <1>5 DEF Seek, At, RestOK
  <2>2. /\ rec \in Req /\ rec.held = req[r].held /\ rec.op = "seek"
        /\ rec.n = req[r].n + 1
    BY <1>1, <2>1 DEF Req
  <2> HIDE DEF rec
  <2> QED BY <2>1, <2>2, RestartStep
<1> QED BY <1>2, <1>3, <1>4, <1>5 DEF Caller

LEMMA CloseStep == ASSUME IInv, NEW r \in Request, Close(r) PROVE IInv'
<1> DEFINE h == req[r].held[1]
           k == req[r].held[2]
<1>1. /\ req[r] \in Req /\ ReqOK(r) /\ RestOK /\ TypeOK /\ QueuesOK
      /\ req[r].mirror \in Host /\ req[r].pc \in {"open", "broken"}
      /\ Upd(r, Closed)
      /\ q' = [q EXCEPT ![h] = Q!Release(@, <<r, k>>)]
  BY Facts DEF Close, Req
<1>2. h \in Host /\ k \in 0 .. MaxResume /\ <<r, k>> \in Call
  <2>1. h \in Host /\ k \in 0 .. MaxResume
    BY <1>1, Facts DEF ReqOK, HeldOK
  <2> QED BY <2>1 DEF Call
<1>3. \A g \in Host, j \in 0 .. MaxResume : <<r, j>> \notin Q!QueuedSet(q[g])
  BY <1>1 DEF ReqOK, EntriesOK
<1> HIDE DEF h, k
<1>4. /\ QStep(h, <<r, k>>)
      /\ Q!QueuedSet(q'[h]) \subseteq Q!QueuedSet(q[h])
  BY <1>1, <1>2, <1>3, ReleaseStep
<1>5. \A g \in Host, j \in 0 .. MaxResume : <<r, j>> \notin Q!QueuedSet(q'[g])
  BY <1>3, <1>4 DEF QStep
<1>6. /\ Closed \in Req /\ Closed.pc = "closed" /\ Closed.held[1] = NoHost
      /\ Closed.cur = 1 /\ Closed.tried = {} /\ Closed.hosts = <<>>
  <2>1. NewResp \in Req
    BY RegHttpAssumption DEF NewResp, Req, PC, NotHeld, Plain, Flags
  <2>2. Closed \in Req
    BY <2>1 DEF Closed, Req, PC
  <2> QED BY <2>2 DEF Closed, NewResp, NotHeld
<1>7. req'[r] = Closed
  BY <1>1, Updated
<1>8. ReqOK(r)'
  BY <1>5, <1>6, <1>7 DEF ReqOK, CursorOK, HeldOK, EntriesOK, TriedOK, OrderOK,
     InLoop, AtHost, Owning
<1>9. RestOK'
  BY <1>1, BackoffOK DEF Close, RestOK
<1> QED BY <1>1, <1>2, <1>4, <1>6, <1>8, <1>9, StepOfOne

LEMMA CancelStep == ASSUME IInv, NEW r \in Request, CancelContext(r) PROVE IInv'
<1> DEFINE rec == [req[r] EXCEPT !.ctx = TRUE]
<1>1. req[r] \in Req /\ ReqOK(r) /\ RestOK' /\ Upd(r, rec) /\ q' = q
  BY Facts DEF CancelContext, RestOK
<1>2. /\ rec \in Req /\ rec.hosts = req[r].hosts /\ rec.cur = req[r].cur
      /\ rec.n = req[r].n /\ rec.held = req[r].held /\ rec.tried = req[r].tried
      /\ rec.op = req[r].op /\ rec.pc = req[r].pc /\ rec.done = req[r].done
      /\ rec.pos = req[r].pos /\ rec.readCur = req[r].readCur
  BY <1>1 DEF Req
<1> HIDE DEF rec
<1> QED BY <1>1, <1>2, StayStep DEF ReqOK, OrderOK

LEMMA NextIInv == IInv /\ [Next]_vars => IInv'
<1> SUFFICES ASSUME IInv, [Next]_vars PROVE IInv'
  OBVIOUS
<1>1. ASSUME q' = q, req' = req, TypeOK' PROVE IInv'
  <2>1. \A r \in Request : ReqOK(r)'
    <3> TAKE r \in Request
    <3>1. ReqOK(r)
      BY DEF IInv
    <3>2. CursorOK(r)' /\ TriedOK(r)' /\ OrderOK(r)'
      BY <1>1, <3>1 DEF ReqOK, CursorOK, TriedOK, OrderOK, Cur, Hosts
    <3>3. HeldOK(r)' /\ EntriesOK(r)'
      BY <1>1, <3>1 DEF ReqOK, HeldOK, EntriesOK, Cur, Me
    <3> QED BY <3>2, <3>3 DEF ReqOK
  <2> QED BY <1>1, <2>1 DEF IInv
<1>2. ASSUME NEW r \in Request,
             Do(r) \/ Loop(r) \/ Server(r) \/ Caller(r) \/ Close(r) \/ CancelContext(r)
      PROVE  IInv'
  BY <1>2, DoStep, LoopStep, ServerStep, CallerStep, CloseStep, CancelStep
<1>3. ASSUME NEW h \in Host, TimePasses(h) PROVE IInv'
  BY <1>1, <1>3 DEF TimePasses, IInv, TypeOK
<1>4. CASE UNCHANGED vars
  BY <1>1, <1>4 DEF vars, IInv, TypeOK
<1> QED BY <1>2, <1>3, <1>4 DEF Next

\* The loop of Client.Do, Resp.next and the calls of a response's reader keep to
\* IInv: where each request is in its list of hosts, what it holds of their
\* throttles and how far its body has been read.
THEOREM Invariance == Spec => []IInv
BY InitIInv, NextIInv, PTL DEF Spec

\* However requests are retried, resumed, cancelled and closed, the connections
\* to a host are within its limit, and each of them has a slot of its throttle.
THEOREM ThrottleKept == Spec => []ThrottleSound
<1>1. IInv => ThrottleSound
  <2> SUFFICES ASSUME IInv PROVE ThrottleSound
    OBVIOUS
  <2>1. \A h \in Host : Connections(h) \subseteq q[h].active
    <3> SUFFICES ASSUME NEW h \in Host, NEW r \in Request,
                        \/ req[r].pc \in Owning /\ Cur(r) = h
                        \/ req[r].held[1] = h
                 PROVE  /\ req[r].pc \in Owning /\ Cur(r) = h =>
                             <<r, req[r].n>> \in q[h].active
                        /\ req[r].held[1] = h =>
                             <<r, req[r].held[2]>> \in q[h].active
      BY DEF Connections, Owning, AtHost, InLoop
    <3>1. ReqOK(r)
      BY DEF IInv
    <3> QED BY <3>1, RegHttpAssumption DEF ReqOK, EntriesOK, HeldOK, Me
  <2>2. ASSUME NEW h \in Host
        PROVE  Cardinality(Connections(h)) <= ReqConcurrent
    <3>1. /\ q[h].active \subseteq Call /\ ReqConcurrent \in Nat
          /\ Cardinality(q[h].active) <= ReqConcurrent
      BY QueueAssumptions
         DEF IInv, TypeOK, Q!Queue, Q!Sound, Q!Bounded, Q!Cardinality, Cardinality
    <3>2. IsFiniteSet(Call)
      BY QueueAssumptions DEF P!IsFiniteSet, IsFiniteSet
    <3>3. IsFiniteSet(q[h].active) /\ Cardinality(q[h].active) \in Nat
      BY <3>1, <3>2, FS_Subset, FS_CardinalityType
    <3>4. /\ Cardinality(Connections(h)) <= Cardinality(q[h].active)
          /\ Cardinality(Connections(h)) \in Nat
      BY <2>1, <3>3, FS_Subset, FS_CardinalityType
    <3> QED BY <3>1, <3>3, <3>4
  <2> QED BY <2>1, <2>2 DEF ThrottleSound, Throttled, IInv
<1> QED BY Invariance, <1>1, PTL

\* The next byte a caller reads is the one after the last, whichever host the
\* rest of the body comes from after a short read or a Seek.
THEOREM BodyInOrder == Spec => []ReadsInOrder
<1>1. IInv => ReadsInOrder
  BY DEF IInv, ReqOK, OrderOK, ReadsInOrder, At
<1> QED BY Invariance, <1>1, PTL

\* A request only runs out of hosts after each of them had its turn.
THEOREM HostsTried == Spec => EveryHostTried
<1>1. IInv => \A r \in Request : Exhausted(r) => req[r].tried = Hosts(r)
  <2> SUFFICES ASSUME IInv, NEW r \in Request, Exhausted(r)
               PROVE  req[r].tried = Hosts(r)
    OBVIOUS
  <2>1. ReqOK(r) /\ req[r].pc = "top" /\ req[r].hosts = <<>>
    BY DEF IInv, Exhausted, At
  <2>2. DOMAIN req[r].hosts = {}
    BY <2>1
  <2>3. req[r].tried \subseteq Hosts(r) /\ \A h \in Hosts(r) : h \in req[r].tried
    BY <2>1, <2>2 DEF ReqOK, TriedOK, InLoop
  <2> QED BY <2>3
<1> QED BY Invariance, <1>1, PTL DEF EveryHostTried
=============================================================================

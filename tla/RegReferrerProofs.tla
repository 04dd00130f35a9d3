-------------------------- MODULE RegReferrerProofs --------------------------
(***************************************************************************)
(* What the list of referrers keeps, proved for any number of goroutines,  *)
(* referrers, subjects, operations and failing requests.                   *)
(*                                                                         *)
(* The invariant behind it: muRefTag makes the pull, the change and the    *)
(* push of a list by ManifestPut one unit against every other push; a      *)
(* delete has no such protection, so what it carries in its hands is only  *)
(* related to the list through the history of the deletes and pushes that  *)
(* were under way with it.                                                 *)
(***************************************************************************)
EXTENDS RegReferrer, TLAPS

Op == [pc : PC, subj : Subjects \cup {None}, m : Referrer \cup {None}, rl : List,
       known : BOOLEAN, overlap : BOOLEAN, sees : List]

\* TypeOK says nothing of the fields the properties do not read.
Typed ==
    /\ server \in [api : BOOLEAN, tagDelete : BOOLEAN]
    /\ man \in List /\ kept \in List /\ quiet \in List
    /\ tag \in [Subjects -> List \cup {None, Dummy}]
    /\ cacheRL \in [Subjects -> List \cup {None}]
    /\ feature \in {"unknown", "yes", "no"}
    /\ muRefTag \in Client \cup {None}
    /\ degraded \in BOOLEAN
    /\ op \in [Client -> Op]

OwnKept(s) == {m \in kept : Subject[m] = s}
OwnQuiet(s) == {m \in quiet : Subject[m] = s}

InMutex == {"pull", "push", "pushack"}
Emptying == {"deltag", "dummy", "deldummy"}
Fallback == {"lock"} \cup InMutex \cup Emptying \cup {"delpush"}

\* An operation works on the subject of its manifest.
ShapeOK(c) ==
    /\ op[c].pc \in Putting \cup Deleting =>
         op[c].m \in Referrer /\ op[c].subj = Subject[op[c].m]
    /\ op[c].pc \in PC \ {"idle"} => op[c].subj \in Subjects

\* Who changes a list by a push has the mutex, and only where there is no API.
MutexOK(c) ==
    /\ op[c].pc \in InMutex <=> muRefTag = c
    /\ op[c].pc \in Fallback => ~server.api

\* A delete and another operation that changes the list know of each other.
OverlapOK(c, d) ==
    c # d /\ op[c].pc \in Deleting /\ op[d].pc \in Putting \cup Deleting
          /\ op[c].subj = op[d].subj => op[c].overlap /\ op[d].overlap

\* What a push has in hand.
PutOK(c) ==
    /\ op[c].pc \in Putting \ {"put"} /\ ~op[c].overlap => op[c].m \in man
    /\ op[c].pc \in {"push", "pushack"} =>
         op[c].m \in op[c].rl /\ OwnKept(op[c].subj) \subseteq op[c].rl
    /\ op[c].pc = "pushack" /\ ~op[c].overlap =>
         tag[op[c].subj] \in List /\ op[c].m \in tag[op[c].subj]

\* What a delete has in hand.
DeleteOK(c) ==
    /\ op[c].pc \in Deleting => op[c].m \notin kept
    /\ op[c].pc \in Emptying \cup {"delpush"} =>
         op[c].m \notin op[c].rl /\ OwnKept(op[c].subj) \subseteq op[c].rl
    /\ op[c].pc \in Emptying => op[c].rl = {}
    /\ op[c].pc = "deldummy" /\ ~op[c].overlap => tag[op[c].subj] = Dummy
    /\ op[c].pc = "delman" /\ ~op[c].overlap /\ tag[op[c].subj] \in List =>
         op[c].m \notin tag[op[c].subj]

\* What a listing has to show, and what it has in hand.
ListOK(c) ==
    /\ op[c].pc \in Listing =>
         OwnQuiet(op[c].subj) \subseteq op[c].sees /\ op[c].sees \subseteq OwnKept(op[c].subj)
    /\ op[c].pc = "set" /\ ~degraded => op[c].sees \subseteq op[c].rl
    /\ op[c].pc = "tag" /\ server.api => degraded

OpOK(c) ==
    ShapeOK(c) /\ MutexOK(c) /\ PutOK(c) /\ DeleteOK(c) /\ ListOK(c)

\* The registry, and what is remembered of it.
StoreOK ==
    /\ quiet \subseteq kept /\ kept \subseteq man
    /\ ~server.api => \A m \in kept : tag[Subject[m]] \in List /\ m \in tag[Subject[m]]
    /\ server.api => \A s \in Subjects : tag[s] = None
    /\ feature = "yes" => server.api
    /\ feature = "no" /\ server.api => degraded
    /\ ~degraded =>
         \A m \in quiet : cacheRL[Subject[m]] # None => m \in cacheRL[Subject[m]]

IInv ==
    /\ Typed
    /\ StoreOK
    /\ \A c \in Client : OpOK(c)
    /\ \A c, d \in Client : OverlapOK(c, d)
-----------------------------------------------------------------------------
LEMMA ListIsSubset ==
    List = SUBSET Referrer /\ \A m \in Referrer : Subject[m] \in Subjects
BY DEF List, Subjects

LEMMA Fields ==
    ASSUME IInv
    PROVE  \A c \in Client : /\ op[c].pc \in PC
                             /\ op[c].rl \in SUBSET Referrer
                             /\ op[c].sees \in SUBSET Referrer
                             /\ op[c].overlap \in BOOLEAN
BY DEF IInv, Typed, Op, List

\* The fields an operation of c has after it only moved on.
LEMMA GotoFacts ==
    ASSUME op \in [Client -> Op], NEW c \in Client, NEW pc \in PC, Goto(c, pc)
    PROVE  /\ op' \in [Client -> Op]
           /\ op'[c].pc = pc /\ op'[c].subj = op[c].subj /\ op'[c].m = op[c].m
           /\ op'[c].rl = op[c].rl /\ op'[c].known = op[c].known
           /\ op'[c].overlap = op[c].overlap /\ op'[c].sees = op[c].sees
           /\ \A d \in Client \ {c} : op'[d] = op[d]
BY DEF Goto, Upd, Op

LEMMA UpdFacts ==
    ASSUME op \in [Client -> Op], NEW c \in Client, NEW rec \in Op, Upd(c, rec)
    PROVE  /\ op' \in [Client -> Op]
           /\ op'[c] = rec
           /\ \A d \in Client \ {c} : op'[d] = op[d]
BY DEF Upd

LEMMA IdleFacts == Idle \in Op /\ Idle.pc = "idle"
BY DEF Idle, Op, PC, List

\* The operation of c goes on, or returns; no other one changes.
Continues(c) ==
    /\ op' \in [Client -> Op]
    /\ \/ op'[c].pc = "idle"
       \/ /\ \E S \in {Putting, Deleting, Listing} : op[c].pc \in S /\ op'[c].pc \in S
          /\ op'[c].subj = op[c].subj /\ op'[c].m = op[c].m
          /\ op'[c].overlap = op[c].overlap /\ op'[c].sees = op[c].sees
    /\ \A d \in Client \ {c} : op'[d] = op[d]

LEMMA ContinuesShape ==
    ASSUME IInv, NEW c \in Client, Continues(c)
    PROVE  /\ \A d \in Client : ShapeOK(d)'
           /\ \A d, e \in Client : OverlapOK(d, e)'
<1>1. ASSUME NEW d \in Client PROVE ShapeOK(d)'
  BY <1>1 DEF IInv, Typed, Op, PC, OpOK, ShapeOK, Continues, Putting, Deleting, Listing
<1>2. ASSUME NEW d \in Client, NEW e \in Client PROVE OverlapOK(d, e)'
  BY <1>2 DEF IInv, OverlapOK, Continues, Putting, Deleting, Listing
<1> QED BY <1>1, <1>2

\* An operation does not notice what does not touch the store it relies on.
LEMMA OthersOpOK ==
    ASSUME IInv, NEW d \in Client, op'[d] = op[d],
           UNCHANGED <<server, man, tag, muRefTag, kept, quiet, degraded>>
    PROVE  OpOK(d)'
BY DEF IInv, OpOK, ShapeOK, MutexOK, PutOK, DeleteOK, ListOK, OwnKept, OwnQuiet

\* A delete that changes the list of its subject: whoever else changes that list
\* knows that it is not alone.
LEMMA DeleteOthers ==
    ASSUME IInv, NEW c \in Client, NEW d \in Client \ {c}, op[c].pc \in Deleting, op'[d] = op[d],
           UNCHANGED <<server, man, muRefTag, kept, quiet, degraded>>,
           \A s \in Subjects \ {op[c].subj} : tag'[s] = tag[s]
    PROVE  OpOK(d)'
<1>1. OpOK(d) /\ OverlapOK(c, d)
  BY DEF IInv
<1>2. op[d].pc \in Putting \cup Deleting /\ ~op[d].overlap => tag'[op[d].subj] = tag[op[d].subj]
  <2>1. op[d].pc \in Putting \cup Deleting => op[d].subj \in Subjects
    BY <1>1 DEF OpOK, ShapeOK, PC, Putting, Deleting
  <2> QED BY <1>1, <2>1 DEF OverlapOK
<1>3. ShapeOK(d)' /\ MutexOK(d)' /\ ListOK(d)'
  BY <1>1 DEF OpOK, ShapeOK, MutexOK, ListOK, OwnKept, OwnQuiet
<1>4. PutOK(d)'
  BY <1>1, <1>2 DEF OpOK, PutOK, OwnKept, Putting
<1>5. DeleteOK(d)'
  BY <1>1, <1>2 DEF OpOK, DeleteOK, OwnKept, Deleting
<1> QED BY <1>3, <1>4, <1>5 DEF OpOK

LEMMA PutIInv ==
    ASSUME IInv, NEW c \in Client, Put(c)
    PROVE  IInv'
<1>1. /\ op' \in [Client -> Op]
      /\ op'[c].pc = "putack" /\ op'[c].subj = op[c].subj /\ op'[c].m = op[c].m
      /\ op'[c].rl = op[c].rl /\ op'[c].known = op[c].known
      /\ op'[c].overlap = op[c].overlap /\ op'[c].sees = op[c].sees
      /\ \A d \in Client \ {c} : op'[d] = op[d]
  BY GotoFacts DEF IInv, Typed, Put, PC
<1>2. Continues(c)
  BY <1>1 DEF Continues, Put, At, Putting
<1>3. Typed'
  BY <1>1, ListIsSubset DEF IInv, Typed, Put, At, OpOK, ShapeOK, Putting, hist
<1>4. StoreOK'
  BY DEF IInv, StoreOK, Put, hist
<1>5. OpOK(c)'
  BY <1>1, <1>2, ContinuesShape DEF IInv, OpOK, MutexOK, PutOK, DeleteOK, ListOK, Put, At, Putting, Deleting, Listing, InMutex, Emptying, Fallback, hist
<1>6. ASSUME NEW d \in Client \ {c} PROVE OpOK(d)'
  BY <1>1, <1>2, <1>6, ContinuesShape DEF IInv, OpOK, MutexOK, PutOK, DeleteOK, ListOK, OwnKept, OwnQuiet, Put, hist
<1> QED BY <1>2, <1>3, <1>4, <1>5, <1>6, ContinuesShape DEF IInv
LEMMA PutFailsIInv ==
    ASSUME IInv, NEW c \in Client, PutFails(c)
    PROVE  IInv'
<1>1. op' \in [Client -> Op] /\ op'[c] = Idle /\ \A d \in Client \ {c} : op'[d] = op[d]
  BY UpdFacts, IdleFacts DEF IInv, Typed, PutFails
<1>2. Continues(c)
  BY <1>1, IdleFacts DEF Continues, PutFails, At, Putting
<1>3. Typed'
  BY <1>1, Fields, ListIsSubset DEF IInv, Typed, PutFails, At, OpOK, ShapeOK, PC, Putting, hist
<1>4. StoreOK'
  BY <1>1, Fields, ListIsSubset DEF IInv, Typed, StoreOK, PutFails, At, OpOK, ShapeOK, MutexOK, PutOK, DeleteOK, ListOK,
     OwnKept, OwnQuiet, PC, Putting, Deleting, Listing, InMutex, Emptying, Fallback, hist
<1>5. OpOK(c)'
  BY <1>1, <1>2, ContinuesShape, Fields, ListIsSubset, IdleFacts, ReferrerAssumption
  DEF IInv, Typed, StoreOK, OpOK, ShapeOK, MutexOK, PutOK, DeleteOK, ListOK, OwnKept, OwnQuiet,
      PutFails, At, PC, Putting, Deleting, Listing, InMutex, Emptying, Fallback, hist
<1>6. ASSUME NEW d \in Client \ {c} PROVE OpOK(d)'
  BY <1>1, <1>2, <1>6, ContinuesShape, Fields, ListIsSubset, ReferrerAssumption
  DEF IInv, Typed, StoreOK, OpOK, ShapeOK, OverlapOK, MutexOK, PutOK, DeleteOK, ListOK, OwnKept, OwnQuiet,
      PutFails, At, PC, Putting, Deleting, Listing, InMutex, Emptying, Fallback, hist
<1> QED BY <1>2, <1>3, <1>4, <1>5, <1>6, ContinuesShape DEF IInv

LEMMA PutAckIInv ==
    ASSUME IInv, NEW c \in Client, PutAck(c)
    PROVE  IInv'
<1>1. /\ op' \in [Client -> Op]
      /\ op'[c].pc = "lock" \/ op'[c] = Idle
      /\ op'[c].pc = "lock" => /\ op'[c].subj = op[c].subj /\ op'[c].m = op[c].m /\ op'[c].rl = op[c].rl
                              /\ op'[c].overlap = op[c].overlap /\ op'[c].sees = op[c].sees
      /\ \A d \in Client \ {c} : op'[d] = op[d]
      /\ op'[c].pc = "lock" <=> ~server.api
  BY GotoFacts, UpdFacts, IdleFacts DEF IInv, Typed, PutAck, PC
<1>2. Continues(c)
  BY <1>1, IdleFacts DEF Continues, PutAck, At, Putting, Kept, Busy
<1>3. Typed'
  BY <1>1, Fields, ListIsSubset DEF IInv, Typed, PutAck, At, OpOK, ShapeOK, PC, Putting, hist, Kept, Busy
<1>4. StoreOK'
  BY <1>1, Fields, ListIsSubset DEF IInv, Typed, StoreOK, PutAck, At, OpOK, ShapeOK, MutexOK, PutOK, DeleteOK, ListOK,
     OwnKept, OwnQuiet, PC, Putting, Deleting, Listing, InMutex, Emptying, Fallback, hist, Kept, Busy
<1>5. OpOK(c)'
  BY <1>1, <1>2, ContinuesShape, Fields, ListIsSubset, IdleFacts, ReferrerAssumption
  DEF IInv, Typed, StoreOK, OpOK, ShapeOK, MutexOK, PutOK, DeleteOK, ListOK, OwnKept, OwnQuiet,
      PutAck, At, PC, Putting, Deleting, Listing, InMutex, Emptying, Fallback, hist, Kept, Busy
<1>6. ASSUME NEW d \in Client \ {c} PROVE OpOK(d)'
  BY <1>1, <1>2, <1>6, ContinuesShape, Fields, ListIsSubset, ReferrerAssumption
  DEF IInv, Typed, StoreOK, OpOK, ShapeOK, OverlapOK, MutexOK, PutOK, DeleteOK, ListOK, OwnKept, OwnQuiet,
      PutAck, At, PC, Putting, Deleting, Listing, InMutex, Emptying, Fallback, hist, Kept, Busy
<1> QED BY <1>2, <1>3, <1>4, <1>5, <1>6, ContinuesShape DEF IInv

LEMMA LockIInv ==
    ASSUME IInv, NEW c \in Client, Lock(c)
    PROVE  IInv'
<1>1. /\ op' \in [Client -> Op]
      /\ op'[c].pc = "pull" /\ op'[c].subj = op[c].subj /\ op'[c].m = op[c].m
      /\ op'[c].rl = op[c].rl /\ op'[c].known = op[c].known
      /\ op'[c].overlap = op[c].overlap /\ op'[c].sees = op[c].sees
      /\ \A d \in Client \ {c} : op'[d] = op[d]
  BY GotoFacts DEF IInv, Typed, Lock, PC
<1>2. Continues(c)
  BY <1>1 DEF Continues, Lock, At, Putting
<1>3. Typed'
  BY <1>1, Fields, ListIsSubset DEF IInv, Typed, Lock, At, OpOK, ShapeOK, PC, Putting, hist
<1>4. StoreOK'
  BY <1>1, Fields, ListIsSubset DEF IInv, Typed, StoreOK, Lock, At, OpOK, ShapeOK, MutexOK, PutOK, DeleteOK, ListOK,
     OwnKept, OwnQuiet, PC, Putting, Deleting, Listing, InMutex, Emptying, Fallback, hist
<1>5. OpOK(c)'
  BY <1>1, <1>2, ContinuesShape, Fields, ListIsSubset, ReferrerAssumption
  DEF IInv, Typed, StoreOK, OpOK, ShapeOK, MutexOK, PutOK, DeleteOK, ListOK, OwnKept, OwnQuiet,
      Lock, At, PC, Putting, Deleting, Listing, InMutex, Emptying, Fallback, hist
<1>6. ASSUME NEW d \in Client \ {c} PROVE OpOK(d)'
  <2>1. MutexOK(d)'
    BY <1>1, <1>6, ReferrerAssumption
    DEF IInv, OpOK, MutexOK, Lock, At, InMutex
  <2>2. PutOK(d)'
    BY <1>1, <1>6, ListIsSubset
    DEF IInv, Typed, OpOK, ShapeOK, OverlapOK, MutexOK, PutOK, OwnKept,
        Lock, At, Putting, Deleting, InMutex, hist
  <2>3. DeleteOK(d)'
    BY <1>1, <1>6, ListIsSubset
    DEF IInv, Typed, OpOK, ShapeOK, OverlapOK, DeleteOK, OwnKept,
        Lock, At, Putting, Deleting, Emptying, hist
  <2>4. ListOK(d)'
    BY <1>1, <1>6, ListIsSubset
    DEF IInv, Typed, OpOK, ShapeOK, ListOK, OwnKept, OwnQuiet, Lock, At, Listing, hist
  <2> QED BY <1>2, <1>6, <2>1, <2>2, <2>3, <2>4, ContinuesShape DEF OpOK
<1> QED BY <1>2, <1>3, <1>4, <1>5, <1>6, ContinuesShape DEF IInv

LEMMA PullIInv ==
    ASSUME IInv, NEW c \in Client, Pull(c)
    PROVE  IInv'
<1>1. /\ op' \in [Client -> Op]
      /\ op'[c] = Idle \/ /\ op'[c].pc = "push" /\ op'[c].subj = op[c].subj /\ op'[c].m = op[c].m
                          /\ op'[c].rl = Pulled(op[c].subj) \cup {op[c].m} /\ op'[c].rl \in List
                          /\ op'[c].overlap = op[c].overlap /\ op'[c].sees = op[c].sees
                          /\ tag[op[c].subj] # Dummy /\ UNCHANGED muRefTag
      /\ op'[c] = Idle => muRefTag' = None
      /\ \A d \in Client \ {c} : op'[d] = op[d]
  <2> DEFINE rec == [op[c] EXCEPT !.pc = "push", !.rl = Pulled(op[c].subj) \cup {op[c].m}]
  <2>1. Pulled(op[c].subj) \cup {op[c].m} \in List \/ tag[op[c].subj] = Dummy
    BY ListIsSubset, ReferrerAssumption DEF IInv, Typed, OpOK, ShapeOK, Pull, At, Putting, Pulled, Subjects
  <2>2. tag[op[c].subj] # Dummy => rec \in Op /\ rec.pc = "push" /\ rec.rl = Pulled(op[c].subj) \cup {op[c].m}
          /\ rec.subj = op[c].subj /\ rec.m = op[c].m /\ rec.overlap = op[c].overlap /\ rec.sees = op[c].sees
    BY ZenonT(60), <2>1 DEF IInv, Typed, Op, PC
  <2> HIDE DEF rec
  <2>3. CASE tag[op[c].subj] = Dummy
    BY <2>3, UpdFacts, IdleFacts DEF IInv, Typed, Pull, PutAbort
  <2>4. CASE tag[op[c].subj] # Dummy
    <3>1. Upd(c, rec) /\ UNCHANGED muRefTag
      BY <2>4 DEF Pull, rec
    <3>2. op' \in [Client -> Op] /\ op'[c] = rec /\ \A d \in Client \ {c} : op'[d] = op[d]
      BY <3>1, <2>2, <2>4, UpdFacts DEF IInv, Typed
    <3> QED BY <3>1, <3>2, <2>1, <2>2, <2>4, IdleFacts
  <2> QED BY <2>3, <2>4
<1>2. Continues(c)
  BY <1>1, IdleFacts DEF Continues, Pull, At, Putting, Pulled, Subjects
<1>3. Typed'
  BY <1>1, Fields, ListIsSubset DEF IInv, Typed, Pull, At, OpOK, ShapeOK, PC, Putting, hist, Pulled, Subjects
<1>4. StoreOK'
  BY <1>1, Fields, ListIsSubset DEF IInv, Typed, StoreOK, Pull, At, OpOK, ShapeOK, MutexOK, PutOK, DeleteOK, ListOK,
     OwnKept, OwnQuiet, PC, Putting, Deleting, Listing, InMutex, Emptying, Fallback, hist, Pulled, Subjects
<1>5. OpOK(c)'
  <2>1. MutexOK(c)'
    BY <1>1, IdleFacts, ReferrerAssumption
    DEF IInv, Typed, OpOK, MutexOK, Pull, At, PC, InMutex, Fallback, hist,
        Pulled, Subjects
  <2>2. PutOK(c)'
    <3>1. CASE op'[c] = Idle
      BY <3>1, IdleFacts DEF PutOK, Putting
    <3>2. CASE op'[c] # Idle
      <4>1. op[c].pc = "pull" /\ UNCHANGED <<server, man, tag, hist>>
        BY DEF Pull, At
      <4>2. op[c].subj \in Subjects /\ ~server.api
        BY <4>1 DEF IInv, OpOK, ShapeOK, MutexOK, PC, Fallback, InMutex
      <4>3. OwnKept(op[c].subj) \subseteq Pulled(op[c].subj)
        <5> SUFFICES ASSUME NEW m \in kept, Subject[m] = op[c].subj
                     PROVE  m \in Pulled(op[c].subj)
          BY DEF OwnKept
        <5>1. tag[op[c].subj] \in List /\ m \in tag[op[c].subj]
          BY <4>2 DEF IInv, StoreOK
        <5> QED BY <5>1, ReferrerAssumption DEF Pulled
      <4>4. op[c].pc \in Putting \ {"put"} /\ ~op[c].overlap => op[c].m \in man
        BY DEF IInv, OpOK, PutOK
      <4> QED BY <1>1, <3>2, <4>1, <4>3, <4>4 DEF PutOK, OwnKept, Putting, hist
    <3> QED BY <3>1, <3>2
  <2>3. DeleteOK(c)'
    BY <1>1, <1>2, ContinuesShape, Fields, ListIsSubset, IdleFacts, ReferrerAssumption
    DEF IInv, Typed, StoreOK, OpOK, ShapeOK, MutexOK, PutOK, DeleteOK, ListOK, OwnKept, OwnQuiet,
        Pull, At, PC, Putting, Deleting, Listing, InMutex, Emptying, Fallback, hist, Pulled, Subjects
  <2>4. ListOK(c)'
    BY <1>1, <1>2, ContinuesShape, Fields, ListIsSubset, IdleFacts, ReferrerAssumption
    DEF IInv, Typed, StoreOK, OpOK, ShapeOK, MutexOK, PutOK, DeleteOK, ListOK, OwnKept, OwnQuiet,
        Pull, At, PC, Putting, Deleting, Listing, InMutex, Emptying, Fallback, hist, Pulled, Subjects
  <2> QED BY <1>2, <2>1, <2>2, <2>3, <2>4, ContinuesShape DEF OpOK
<1>6. ASSUME NEW d \in Client \ {c} PROVE OpOK(d)'
  <2>1. MutexOK(d)'
    BY <1>1, <1>6, ReferrerAssumption
    DEF IInv, Typed, OpOK, MutexOK, Pull, At, PC, InMutex, Fallback, hist,
        Pulled, Subjects
  <2>2. PutOK(d)'
    BY <1>1, <1>6, ListIsSubset
    DEF IInv, Typed, StoreOK, OpOK, ShapeOK, OverlapOK, MutexOK, PutOK,
        OwnKept, Pull, At, Putting, Deleting, InMutex, hist, Pulled, Subjects
  <2>3. DeleteOK(d)'
    BY <1>1, <1>6, Fields, ListIsSubset
    DEF IInv, Typed, StoreOK, OpOK, ShapeOK, OverlapOK, DeleteOK, OwnKept,
        Pull, At, Putting, Deleting, Emptying, hist, Pulled, Subjects
  <2>4. ListOK(d)'
    BY <1>1, <1>6, Fields, ListIsSubset
    DEF IInv, Typed, StoreOK, OpOK, ShapeOK, ListOK, OwnKept, OwnQuiet, Pull,
        At, Listing, hist, Pulled, Subjects
  <2> QED BY <1>2, <1>6, <2>1, <2>2, <2>3, <2>4, ContinuesShape DEF OpOK
<1> QED BY <1>2, <1>3, <1>4, <1>5, <1>6, ContinuesShape DEF IInv

LEMMA PushIInv ==
    ASSUME IInv, NEW c \in Client, Push(c)
    PROVE  IInv'
<1>1. /\ op' \in [Client -> Op]
      /\ op'[c].pc = "pushack" /\ op'[c].subj = op[c].subj /\ op'[c].m = op[c].m
      /\ op'[c].rl = op[c].rl /\ op'[c].known = op[c].known
      /\ op'[c].overlap = op[c].overlap /\ op'[c].sees = op[c].sees
      /\ \A d \in Client \ {c} : op'[d] = op[d]
  BY GotoFacts DEF IInv, Typed, Push, PC
<1>2. Continues(c)
  BY <1>1 DEF Continues, Push, At, Putting
<1>3. Typed'
  BY <1>1, Fields, ListIsSubset DEF IInv, Typed, Push, At, OpOK, ShapeOK, PC, Putting, hist
<1>4. StoreOK'
  BY <1>1, Fields, ListIsSubset DEF IInv, Typed, StoreOK, Push, At, OpOK, ShapeOK, MutexOK, PutOK, DeleteOK, ListOK,
     OwnKept, OwnQuiet, PC, Putting, Deleting, Listing, InMutex, Emptying, Fallback, hist
<1>5. OpOK(c)'
  BY <1>1, <1>2, ContinuesShape, Fields, ListIsSubset, ReferrerAssumption
  DEF IInv, Typed, StoreOK, OpOK, ShapeOK, MutexOK, PutOK, DeleteOK, ListOK, OwnKept, OwnQuiet,
      Push, At, PC, Putting, Deleting, Listing, InMutex, Emptying, Fallback, hist
<1>6. ASSUME NEW d \in Client \ {c} PROVE OpOK(d)'
  <2>1. MutexOK(d)'
    BY <1>1, <1>6, ReferrerAssumption
    DEF IInv, OpOK, MutexOK, Push, At, InMutex
  <2>2. PutOK(d)'
    BY <1>1, <1>6, ListIsSubset
    DEF IInv, Typed, OpOK, ShapeOK, OverlapOK, MutexOK, PutOK, OwnKept,
        Push, At, Putting, Deleting, InMutex, hist
  <2>3. DeleteOK(d)'
    BY <1>1, <1>6, ListIsSubset
    DEF IInv, Typed, OpOK, ShapeOK, OverlapOK, DeleteOK, OwnKept,
        Push, At, Putting, Deleting, Emptying, hist
  <2>4. ListOK(d)'
    BY <1>1, <1>6, ListIsSubset
    DEF IInv, Typed, OpOK, ShapeOK, ListOK, OwnKept, OwnQuiet, Push, At, Listing, hist
  <2> QED BY <1>2, <1>6, <2>1, <2>2, <2>3, <2>4, ContinuesShape DEF OpOK
<1> QED BY <1>2, <1>3, <1>4, <1>5, <1>6, ContinuesShape DEF IInv

LEMMA PushFailsIInv ==
    ASSUME IInv, NEW c \in Client, PushFails(c)
    PROVE  IInv'
<1>1. op' \in [Client -> Op] /\ op'[c] = Idle /\ \A d \in Client \ {c} : op'[d] = op[d]
  BY UpdFacts, IdleFacts DEF IInv, Typed, PushFails, PutAbort
<1>2. Continues(c)
  BY <1>1, IdleFacts DEF Continues, PushFails, At, Putting, PutAbort
<1>3. Typed'
  BY <1>1, Fields, ListIsSubset DEF IInv, Typed, PushFails, At, OpOK, ShapeOK, PC, Putting, hist, PutAbort
<1>4. StoreOK'
  BY <1>1, Fields, ListIsSubset DEF IInv, Typed, StoreOK, PushFails, At, OpOK, ShapeOK, MutexOK, PutOK, DeleteOK, ListOK,
     OwnKept, OwnQuiet, PC, Putting, Deleting, Listing, InMutex, Emptying, Fallback, hist, PutAbort
<1>5. OpOK(c)'
  BY <1>1, <1>2, ContinuesShape, Fields, ListIsSubset, IdleFacts, ReferrerAssumption
  DEF IInv, Typed, StoreOK, OpOK, ShapeOK, MutexOK, PutOK, DeleteOK, ListOK, OwnKept, OwnQuiet,
      PushFails, At, PC, Putting, Deleting, Listing, InMutex, Emptying, Fallback, hist, PutAbort
<1>6. ASSUME NEW d \in Client \ {c} PROVE OpOK(d)'
  <2>1. MutexOK(d)'
    BY <1>1, <1>6, ReferrerAssumption
    DEF IInv, OpOK, MutexOK, PushFails, PutAbort, At, InMutex
  <2>2. PutOK(d)'
    BY <1>1, <1>6, ListIsSubset
    DEF IInv, Typed, OpOK, ShapeOK, OverlapOK, MutexOK, PutOK, OwnKept,
        PushFails, PutAbort, At, Putting, Deleting, InMutex, hist
  <2>3. DeleteOK(d)'
    BY <1>1, <1>6, ListIsSubset
    DEF IInv, Typed, OpOK, ShapeOK, OverlapOK, DeleteOK, OwnKept,
        PushFails, PutAbort, At, Putting, Deleting, Emptying, hist
  <2>4. ListOK(d)'
    BY <1>1, <1>6, ListIsSubset
    DEF IInv, Typed, OpOK, ShapeOK, ListOK, OwnKept, OwnQuiet, PushFails, PutAbort, At, Listing, hist
  <2> QED BY <1>2, <1>6, <2>1, <2>2, <2>3, <2>4, ContinuesShape DEF OpOK
<1> QED BY <1>2, <1>3, <1>4, <1>5, <1>6, ContinuesShape DEF IInv

LEMMA PushAckIInv ==
    ASSUME IInv, NEW c \in Client, PushAck(c)
    PROVE  IInv'
<1>1. op' \in [Client -> Op] /\ op'[c] = Idle /\ \A d \in Client \ {c} : op'[d] = op[d]
  BY UpdFacts, IdleFacts DEF IInv, Typed, PushAck
<1>2. Continues(c)
  BY <1>1, IdleFacts DEF Continues, PushAck, At, Putting, Kept, Busy
<1>3. Typed'
  BY <1>1, Fields, ListIsSubset DEF IInv, Typed, PushAck, At, OpOK, ShapeOK, PC, Putting, hist, Kept, Busy
<1>4. StoreOK'
  BY <1>1, Fields, ListIsSubset DEF IInv, Typed, StoreOK, PushAck, At, OpOK, ShapeOK, MutexOK, PutOK, DeleteOK, ListOK,
     OwnKept, OwnQuiet, PC, Putting, Deleting, Listing, InMutex, Emptying, Fallback, hist, Kept, Busy
<1>5. OpOK(c)'
  BY <1>1, <1>2, ContinuesShape, Fields, ListIsSubset, IdleFacts, ReferrerAssumption
  DEF IInv, Typed, StoreOK, OpOK, ShapeOK, MutexOK, PutOK, DeleteOK, ListOK, OwnKept, OwnQuiet,
      PushAck, At, PC, Putting, Deleting, Listing, InMutex, Emptying, Fallback, hist, Kept, Busy
<1>6. ASSUME NEW d \in Client \ {c} PROVE OpOK(d)'
  <2>1. MutexOK(d)'
    BY <1>1, <1>6, ReferrerAssumption
    DEF IInv, OpOK, MutexOK, PushAck, Kept, At, InMutex
  <2>2. PutOK(d)'
    BY <1>1, <1>6, ListIsSubset
    DEF IInv, Typed, OpOK, ShapeOK, OverlapOK, MutexOK, PutOK, OwnKept,
        PushAck, Kept, At, Putting, Deleting, InMutex, hist
  <2>3. DeleteOK(d)'
    BY <1>1, <1>6, ListIsSubset
    DEF IInv, Typed, OpOK, ShapeOK, OverlapOK, DeleteOK, OwnKept,
        PushAck, Kept, At, Putting, Deleting, Emptying, hist
  <2>4. ListOK(d)'
    BY <1>1, <1>6, ListIsSubset
    DEF IInv, Typed, OpOK, ShapeOK, ListOK, OwnKept, OwnQuiet, PushAck, Kept, Busy, At,
        Putting, Listing, hist
  <2> QED BY <1>2, <1>6, <2>1, <2>2, <2>3, <2>4, ContinuesShape DEF OpOK
<1> QED BY <1>2, <1>3, <1>4, <1>5, <1>6, ContinuesShape DEF IInv

-----------------------------------------------------------------------------
LEMMA PingIInv ==
    ASSUME IInv, NEW c \in Client, Ping(c)
    PROVE  IInv'
<1>1. /\ op' \in [Client -> Op]
      /\ op'[c].pc = AfterPing(feature') /\ op'[c].subj = op[c].subj /\ op'[c].m = op[c].m
      /\ op'[c].rl = op[c].rl /\ op'[c].overlap = op[c].overlap /\ op'[c].sees = op[c].sees
      /\ \A d \in Client \ {c} : op'[d] = op[d]
  <2>1. AfterPing(feature') \in PC
    BY DEF AfterPing, PC
  <2> QED BY <2>1, GotoFacts DEF IInv, Typed, Ping, PingFails
<1>2. Continues(c)
  BY <1>1 DEF Continues, Ping, At, Deleting, AfterPing
<1>3. Typed'
  BY <1>1, Fields, ListIsSubset DEF IInv, Typed, Ping, At, OpOK, ShapeOK, PC, Deleting, hist, AfterPing
<1>4. StoreOK'
  BY <1>1, Fields, ListIsSubset DEF IInv, Typed, StoreOK, Ping, At, OpOK, ShapeOK, MutexOK, PutOK, DeleteOK, ListOK,
     OwnKept, OwnQuiet, PC, Putting, Deleting, Listing, InMutex, Emptying, Fallback, hist, AfterPing
<1>5. OpOK(c)'
  BY <1>1, <1>2, ContinuesShape, Fields, ListIsSubset, ReferrerAssumption
  DEF IInv, Typed, StoreOK, OpOK, ShapeOK, MutexOK, PutOK, DeleteOK, ListOK, OwnKept, OwnQuiet,
      Ping, At, PC, Putting, Deleting, Listing, InMutex, Emptying, Fallback, hist, AfterPing
<1>6. ASSUME NEW d \in Client \ {c} PROVE OpOK(d)'
  BY <1>1, <1>6, OthersOpOK DEF Ping, hist
<1> QED BY <1>2, <1>3, <1>4, <1>5, <1>6, ContinuesShape DEF IInv

LEMMA PingFailsIInv ==
    ASSUME IInv, NEW c \in Client, PingFails(c)
    PROVE  IInv'
<1>1. /\ op' \in [Client -> Op]
      /\ op'[c].pc = "delpull" /\ op'[c].subj = op[c].subj /\ op'[c].m = op[c].m
      /\ op'[c].rl = op[c].rl /\ op'[c].known = op[c].known
      /\ op'[c].overlap = op[c].overlap /\ op'[c].sees = op[c].sees
      /\ \A d \in Client \ {c} : op'[d] = op[d]
  BY GotoFacts DEF IInv, Typed, PingFails, PC, AfterPing
<1>2. Continues(c)
  BY <1>1 DEF Continues, PingFails, At, Deleting, AfterPing
<1>3. Typed'
  BY <1>1, Fields, ListIsSubset DEF IInv, Typed, PingFails, At, OpOK, ShapeOK, PC, Deleting, hist, AfterPing
<1>4. StoreOK'
  BY <1>1, Fields, ListIsSubset DEF IInv, Typed, StoreOK, PingFails, At, OpOK, ShapeOK, MutexOK, PutOK, DeleteOK, ListOK,
     OwnKept, OwnQuiet, PC, Putting, Deleting, Listing, InMutex, Emptying, Fallback, hist, AfterPing
<1>5. OpOK(c)'
  BY <1>1, <1>2, ContinuesShape, Fields, ListIsSubset, ReferrerAssumption
  DEF IInv, Typed, StoreOK, OpOK, ShapeOK, MutexOK, PutOK, DeleteOK, ListOK, OwnKept, OwnQuiet,
      PingFails, At, PC, Putting, Deleting, Listing, InMutex, Emptying, Fallback, hist, AfterPing
<1>6. ASSUME NEW d \in Client \ {c} PROVE OpOK(d)'
  <2>1. MutexOK(d)'
    BY <1>1, <1>6, ReferrerAssumption
    DEF IInv, OpOK, MutexOK, PingFails, At, InMutex
  <2>2. PutOK(d)'
    BY <1>1, <1>6, ListIsSubset
    DEF IInv, Typed, OpOK, ShapeOK, OverlapOK, MutexOK, PutOK, OwnKept,
        PingFails, At, Putting, Deleting, InMutex, hist
  <2>3. DeleteOK(d)'
    BY <1>1, <1>6, ListIsSubset
    DEF IInv, Typed, OpOK, ShapeOK, OverlapOK, DeleteOK, OwnKept,
        PingFails, At, Putting, Deleting, Emptying, hist
  <2>4. ListOK(d)'
    BY <1>1, <1>6, ListIsSubset
    DEF IInv, Typed, OpOK, ShapeOK, ListOK, OwnKept, OwnQuiet, PingFails, At, Listing, hist
  <2> QED BY <1>2, <1>6, <2>1, <2>2, <2>3, <2>4, ContinuesShape DEF OpOK
<1> QED BY <1>2, <1>3, <1>4, <1>5, <1>6, ContinuesShape DEF IInv

LEMMA DelPullIInv ==
    ASSUME IInv, NEW c \in Client, DelPull(c)
    PROVE  IInv'
<1> DEFINE rl == Pulled(op[c].subj)
           pc == IF rl = {op[c].m} THEN "deltag" ELSE "delpush"
<1>0. /\ rl \in (SUBSET Referrer) \cup {Dummy}
      /\ Dummy \notin SUBSET Referrer
      /\ rl \in SUBSET Referrer =>
           /\ rl = {} \/ rl = tag[op[c].subj]
           /\ tag[op[c].subj] \in SUBSET Referrer => rl = tag[op[c].subj]
  BY ListIsSubset, ReferrerAssumption DEF IInv, Typed, OpOK, ShapeOK, DelPull, At, PC, Pulled
<1> HIDE DEF rl
<1>1. /\ op' \in [Client -> Op]
      /\ \/ op'[c] = Idle
         \/ /\ rl \in SUBSET Referrer
            /\ op'[c].subj = op[c].subj /\ op'[c].m = op[c].m
            /\ op'[c].overlap = op[c].overlap /\ op'[c].sees = op[c].sees
            /\ \/ op[c].m \notin rl /\ op'[c].pc = "delman"
               \/ op[c].m \in rl /\ op'[c].rl = rl \ {op[c].m} /\ op'[c].pc = pc
      /\ \A d \in Client \ {c} : op'[d] = op[d]
  <2>0. pc \in {"deltag", "delpush"}
    OBVIOUS
  <2> DEFINE rec == [op[c] EXCEPT !.rl = (rl \ {op[c].m}), !.pc = pc]
  <2>1. rl \in SUBSET Referrer =>
          /\ rec \in Op /\ rec.rl = rl \ {op[c].m} /\ rec.pc = pc
          /\ rec.subj = op[c].subj /\ rec.m = op[c].m
          /\ rec.overlap = op[c].overlap /\ rec.sees = op[c].sees
    <3>1. op[c] \in Op
      BY DEF IInv, Typed
    <3>2. rl \in SUBSET Referrer => rl \ {op[c].m} \in List
      BY ListIsSubset
    <3> HIDE DEF pc
    <3> QED BY <2>0, <3>1, <3>2 DEF Op, PC
  <2> HIDE DEF rec
  <2>2. CASE rl = Dummy
    <3>1. Upd(c, Idle)
      BY <2>2 DEF DelPull, rl
    <3> QED BY <3>1, UpdFacts, IdleFacts DEF IInv, Typed
  <2>3. CASE rl # Dummy /\ op[c].m \notin rl
    <3>1. Upd(c, [op[c] EXCEPT !.pc = "delman"])
      BY <2>3 DEF DelPull, rl
    <3> QED BY <1>0, <3>1, <2>3, GotoFacts DEF IInv, Typed, PC, Goto
  <2>4. CASE rl # Dummy /\ op[c].m \in rl
    <3>1. Upd(c, rec)
      BY <2>4 DEF DelPull, rec, rl
    <3> QED BY <1>0, <3>1, <2>1, <2>4, UpdFacts DEF IInv, Typed
  <2> QED BY <2>2, <2>3, <2>4
<1>2. /\ Continues(c)
      /\ op[c].pc = "delpull"
      /\ UNCHANGED <<server, man, tag, cacheRL, feature, muRefTag, hist, ops, fails>>
  BY <1>1, IdleFacts DEF Continues, DelPull, At, Deleting
<1>7. rl \in SUBSET Referrer /\ op[c].m \in rl => ~server.api /\ rl = tag[op[c].subj]
  <2>1. op[c].subj \in Subjects
    BY <1>2 DEF IInv, OpOK, ShapeOK, PC
  <2>2. None \notin SUBSET Referrer
    BY ListIsSubset, ReferrerAssumption
  <2> QED BY <1>0, <2>1, <2>2 DEF IInv, StoreOK
<1>3. Typed'
  BY <1>1, Fields, ListIsSubset DEF IInv, Typed, DelPull, At, OpOK, ShapeOK, PC, Deleting, hist
<1>4. StoreOK'
  BY <1>1, Fields, ListIsSubset DEF IInv, Typed, StoreOK, DelPull, At, OpOK, ShapeOK, MutexOK, PutOK, DeleteOK, ListOK,
     OwnKept, OwnQuiet, PC, Putting, Deleting, Listing, InMutex, Emptying, Fallback, hist
<1>5. OpOK(c)'
  <2>1. MutexOK(c)'
    <3>1. \/ op'[c].pc \in {"idle", "delman"}
          \/ op'[c].pc \in {"deltag", "delpush"} /\ ~server.api
      BY <1>1, <1>7, IdleFacts
    <3>2. op'[c].pc \notin InMutex /\ muRefTag' # c
      BY <1>2, <3>1 DEF IInv, OpOK, MutexOK, InMutex
    <3> QED BY <1>2, <3>1, <3>2 DEF MutexOK, InMutex, Emptying, Fallback
  <2>2. PutOK(c)'
    BY <1>0, <1>1, <1>2, ContinuesShape, Fields, ListIsSubset, IdleFacts, ReferrerAssumption
    DEF IInv, Typed, StoreOK, OpOK, ShapeOK, MutexOK, PutOK, DeleteOK, ListOK, OwnKept, OwnQuiet,
        DelPull, At, PC, Putting, Deleting, Listing, InMutex, Emptying, Fallback, hist
  <2>3. DeleteOK(c)'
    <3>1. CASE op'[c] = Idle
      BY <3>1, IdleFacts DEF DeleteOK, Deleting, Emptying
    <3>2. CASE op[c].m \notin rl /\ op'[c].pc = "delman" /\ op'[c].m = op[c].m
               /\ op'[c].subj = op[c].subj
      BY <1>0, <1>1, <1>2, <3>2, IdleFacts, ListIsSubset
      DEF IInv, OpOK, DeleteOK, Deleting, Emptying, hist
    <3>3. CASE rl \in SUBSET Referrer /\ op[c].m \in rl /\ op'[c].rl = rl \ {op[c].m} /\ op'[c].pc = pc
               /\ op'[c].m = op[c].m /\ op'[c].subj = op[c].subj
      <4>1. OwnKept(op[c].subj) \subseteq rl \ {op[c].m}
        <5>1. ~server.api /\ rl = tag[op[c].subj] /\ op[c].m \notin kept
          BY <1>0, <1>2, <1>7, <3>3 DEF IInv, OpOK, DeleteOK, Deleting
        <5> QED BY <5>1 DEF IInv, StoreOK, OwnKept
      <4> QED BY <1>2, <3>3, <4>1
          DEF IInv, OpOK, DeleteOK, Deleting, Emptying, OwnKept, hist
    <3> QED BY <1>1, <3>1, <3>2, <3>3
  <2>4. ListOK(c)'
    BY <1>0, <1>1, <1>2, ContinuesShape, Fields, ListIsSubset, IdleFacts, ReferrerAssumption
    DEF IInv, Typed, StoreOK, OpOK, ShapeOK, MutexOK, PutOK, DeleteOK, ListOK, OwnKept, OwnQuiet,
        DelPull, At, PC, Putting, Deleting, Listing, InMutex, Emptying, Fallback, hist
  <2> QED BY <1>2, <2>1, <2>2, <2>3, <2>4, ContinuesShape DEF OpOK
<1>6. ASSUME NEW d \in Client \ {c} PROVE OpOK(d)'
  BY <1>1, <1>6, OthersOpOK DEF DelPull, hist
<1> QED BY <1>2, <1>3, <1>4, <1>5, <1>6, ContinuesShape DEF IInv

LEMMA DelTagIInv ==
    ASSUME IInv, NEW c \in Client, DelTag(c)
    PROVE  IInv'
<1>1. /\ op' \in [Client -> Op]
      /\ op'[c].pc \in {"delman", "dummy"} /\ op'[c].subj = op[c].subj /\ op'[c].m = op[c].m
      /\ op'[c].rl = op[c].rl /\ op'[c].overlap = op[c].overlap /\ op'[c].sees = op[c].sees
      /\ op'[c].pc = "delman" <=> server.tagDelete /\ tag[op[c].subj] # None
      /\ \A d \in Client \ {c} : op'[d] = op[d]
  BY GotoFacts DEF IInv, Typed, DelTag, PC, At
<1>2. Continues(c)
  BY <1>1 DEF Continues, DelTag, At, Deleting
<1>3. Typed'
  BY <1>1, Fields, ListIsSubset DEF IInv, Typed, DelTag, At, OpOK, ShapeOK, PC, Deleting, hist
<1>4. StoreOK'
  BY <1>1, Fields, ListIsSubset DEF IInv, Typed, StoreOK, DelTag, At, OpOK, ShapeOK, MutexOK, PutOK, DeleteOK, ListOK,
     OwnKept, OwnQuiet, PC, Putting, Deleting, Listing, InMutex, Emptying, Fallback, hist
<1>5. OpOK(c)'
  BY <1>1, <1>2, ContinuesShape, Fields, ListIsSubset, ReferrerAssumption
  DEF IInv, Typed, StoreOK, OpOK, ShapeOK, MutexOK, PutOK, DeleteOK, ListOK, OwnKept, OwnQuiet,
      DelTag, At, PC, Putting, Deleting, Listing, InMutex, Emptying, Fallback, hist
<1>6. ASSUME NEW d \in Client \ {c} PROVE OpOK(d)'
  <2>1. /\ op[c].pc \in Deleting /\ UNCHANGED <<server, man, muRefTag, kept, quiet, degraded>>
        /\ \A s \in Subjects \ {op[c].subj} : tag'[s] = tag[s]
    BY DEF IInv, Typed, DelTag, At, Deleting, hist
  <2> QED BY <1>1, <1>6, <2>1, DeleteOthers
<1> QED BY <1>2, <1>3, <1>4, <1>5, <1>6, ContinuesShape DEF IInv

LEMMA PushDummyIInv ==
    ASSUME IInv, NEW c \in Client, PushDummy(c)
    PROVE  IInv'
<1>1. /\ op' \in [Client -> Op]
      /\ op'[c].pc \in {"delpush", "deldummy"} /\ op'[c].subj = op[c].subj /\ op'[c].m = op[c].m
      /\ op'[c].rl = op[c].rl /\ op'[c].overlap = op[c].overlap /\ op'[c].sees = op[c].sees
      /\ op'[c].pc = "delpush" <=> tag[op[c].subj] = None
      /\ \A d \in Client \ {c} : op'[d] = op[d]
  BY GotoFacts DEF IInv, Typed, PushDummy, PC, At
<1>2. Continues(c)
  BY <1>1 DEF Continues, PushDummy, At, Deleting
<1>3. Typed'
  BY <1>1, Fields, ListIsSubset DEF IInv, Typed, PushDummy, At, OpOK, ShapeOK, PC, Deleting, hist
<1>4. StoreOK'
  BY <1>1, Fields, ListIsSubset DEF IInv, Typed, StoreOK, PushDummy, At, OpOK, ShapeOK, MutexOK, PutOK, DeleteOK, ListOK,
     OwnKept, OwnQuiet, PC, Putting, Deleting, Listing, InMutex, Emptying, Fallback, hist
<1>5. OpOK(c)'
  BY <1>1, <1>2, ContinuesShape, Fields, ListIsSubset, ReferrerAssumption
  DEF IInv, Typed, StoreOK, OpOK, ShapeOK, MutexOK, PutOK, DeleteOK, ListOK, OwnKept, OwnQuiet,
      PushDummy, At, PC, Putting, Deleting, Listing, InMutex, Emptying, Fallback, hist
<1>6. ASSUME NEW d \in Client \ {c} PROVE OpOK(d)'
  <2>1. /\ op[c].pc \in Deleting /\ UNCHANGED <<server, man, muRefTag, kept, quiet, degraded>>
        /\ \A s \in Subjects \ {op[c].subj} : tag'[s] = tag[s]
    BY DEF IInv, Typed, PushDummy, At, Deleting, hist
  <2> QED BY <1>1, <1>6, <2>1, DeleteOthers
<1> QED BY <1>2, <1>3, <1>4, <1>5, <1>6, ContinuesShape DEF IInv

LEMMA DelTagFailsIInv ==
    ASSUME IInv, NEW c \in Client, DelTagFails(c)
    PROVE  IInv'
<1>1. /\ op' \in [Client -> Op]
      /\ op'[c].pc \in {"dummy", "delpush"} /\ op'[c].subj = op[c].subj /\ op'[c].m = op[c].m
      /\ op'[c].rl = op[c].rl /\ op'[c].overlap = op[c].overlap /\ op'[c].sees = op[c].sees
      /\ op'[c].pc = "dummy" => At(c, "deltag")
      /\ \A d \in Client \ {c} : op'[d] = op[d]
  BY GotoFacts DEF IInv, Typed, DelTagFails, PC, At
<1>2. Continues(c)
  BY <1>1 DEF Continues, DelTagFails, At, Deleting
<1>3. Typed'
  BY <1>1, Fields, ListIsSubset DEF IInv, Typed, DelTagFails, At, OpOK, ShapeOK, PC, Deleting, hist
<1>4. StoreOK'
  BY <1>1, Fields, ListIsSubset DEF IInv, Typed, StoreOK, DelTagFails, At, OpOK, ShapeOK, MutexOK, PutOK, DeleteOK, ListOK,
     OwnKept, OwnQuiet, PC, Putting, Deleting, Listing, InMutex, Emptying, Fallback, hist
<1>5. OpOK(c)'
  <2>1. MutexOK(c)'
    BY <1>1, <1>2, ContinuesShape, Fields, ListIsSubset, ReferrerAssumption
    DEF IInv, Typed, StoreOK, OpOK, ShapeOK, MutexOK, PutOK, DeleteOK, ListOK, OwnKept, OwnQuiet,
        DelTagFails, At, PC, Putting, Deleting, Listing, InMutex, Emptying, Fallback, hist
  <2>2. PutOK(c)'
    BY <1>1, <1>2, ContinuesShape, Fields, ListIsSubset, ReferrerAssumption
    DEF IInv, Typed, StoreOK, OpOK, ShapeOK, MutexOK, PutOK, DeleteOK, ListOK, OwnKept, OwnQuiet,
        DelTagFails, At, PC, Putting, Deleting, Listing, InMutex, Emptying, Fallback, hist
  <2>3. DeleteOK(c)'
    BY <1>1, Fields, ListIsSubset
    DEF IInv, Typed, StoreOK, OpOK, ShapeOK, DeleteOK, OwnKept, DelTagFails,
        At, Putting, Deleting, Emptying, hist
  <2>4. ListOK(c)'
    BY <1>1, <1>2, ContinuesShape, Fields, ListIsSubset, ReferrerAssumption
    DEF IInv, Typed, StoreOK, OpOK, ShapeOK, MutexOK, PutOK, DeleteOK, ListOK, OwnKept, OwnQuiet,
        DelTagFails, At, PC, Putting, Deleting, Listing, InMutex, Emptying, Fallback, hist
  <2> QED BY <1>2, <2>1, <2>2, <2>3, <2>4, ContinuesShape DEF OpOK
<1>6. ASSUME NEW d \in Client \ {c} PROVE OpOK(d)'
  <2>1. /\ op[c].pc \in Deleting /\ UNCHANGED <<server, man, muRefTag, kept, quiet, degraded>>
        /\ \A s \in Subjects \ {op[c].subj} : tag'[s] = tag[s]
    BY DEF IInv, Typed, DelTagFails, At, Deleting, hist
  <2> QED BY <1>1, <1>6, <2>1, DeleteOthers
<1> QED BY <1>2, <1>3, <1>4, <1>5, <1>6, ContinuesShape DEF IInv

LEMMA DeleteDummyIInv ==
    ASSUME IInv, NEW c \in Client, DeleteDummy(c)
    PROVE  IInv'
<1>1. /\ op' \in [Client -> Op]
      /\ op'[c].pc = "delman" /\ op'[c].subj = op[c].subj /\ op'[c].m = op[c].m
      /\ op'[c].rl = op[c].rl /\ op'[c].known = op[c].known
      /\ op'[c].overlap = op[c].overlap /\ op'[c].sees = op[c].sees
      /\ \A d \in Client \ {c} : op'[d] = op[d]
  BY GotoFacts DEF IInv, Typed, DeleteDummy, PC
<1>2. Continues(c)
  BY <1>1 DEF Continues, DeleteDummy, At, Deleting
<1>3. Typed'
  BY <1>1, Fields, ListIsSubset DEF IInv, Typed, DeleteDummy, At, OpOK, ShapeOK, PC, Deleting, hist
<1>4. StoreOK'
  BY <1>1, Fields, ListIsSubset DEF IInv, Typed, StoreOK, DeleteDummy, At, OpOK, ShapeOK, MutexOK, PutOK, DeleteOK, ListOK,
     OwnKept, OwnQuiet, PC, Putting, Deleting, Listing, InMutex, Emptying, Fallback, hist
<1>5. OpOK(c)'
  BY <1>1, <1>2, ContinuesShape, Fields, ListIsSubset, ReferrerAssumption
  DEF IInv, Typed, StoreOK, OpOK, ShapeOK, MutexOK, PutOK, DeleteOK, ListOK, OwnKept, OwnQuiet,
      DeleteDummy, At, PC, Putting, Deleting, Listing, InMutex, Emptying, Fallback, hist
<1>6. ASSUME NEW d \in Client \ {c} PROVE OpOK(d)'
  BY <1>1, <1>6, DeleteOthers DEF DeleteDummy, At, Deleting, hist
<1> QED BY <1>2, <1>3, <1>4, <1>5, <1>6, ContinuesShape DEF IInv

LEMMA DelPushIInv ==
    ASSUME IInv, NEW c \in Client, DelPush(c)
    PROVE  IInv'
<1>1. /\ op' \in [Client -> Op]
      /\ op'[c].pc = "delman" /\ op'[c].subj = op[c].subj /\ op'[c].m = op[c].m
      /\ op'[c].rl = op[c].rl /\ op'[c].known = op[c].known
      /\ op'[c].overlap = op[c].overlap /\ op'[c].sees = op[c].sees
      /\ \A d \in Client \ {c} : op'[d] = op[d]
  BY GotoFacts DEF IInv, Typed, DelPush, PC
<1>2. Continues(c)
  BY <1>1 DEF Continues, DelPush, At, Deleting
<1>3. Typed'
  BY <1>1, Fields, ListIsSubset DEF IInv, Typed, DelPush, At, OpOK, ShapeOK, PC, Deleting, hist
<1>4. StoreOK'
  BY <1>1, Fields, ListIsSubset DEF IInv, Typed, StoreOK, DelPush, At, OpOK, ShapeOK, MutexOK, PutOK, DeleteOK, ListOK,
     OwnKept, OwnQuiet, PC, Putting, Deleting, Listing, InMutex, Emptying, Fallback, hist
<1>5. OpOK(c)'
  BY <1>1, <1>2, ContinuesShape, Fields, ListIsSubset, ReferrerAssumption
  DEF IInv, Typed, StoreOK, OpOK, ShapeOK, MutexOK, PutOK, DeleteOK, ListOK, OwnKept, OwnQuiet,
      DelPush, At, PC, Putting, Deleting, Listing, InMutex, Emptying, Fallback, hist
<1>6. ASSUME NEW d \in Client \ {c} PROVE OpOK(d)'
  BY <1>1, <1>6, DeleteOthers DEF DelPush, At, Deleting, hist
<1> QED BY <1>2, <1>3, <1>4, <1>5, <1>6, ContinuesShape DEF IInv

LEMMA DelManIInv ==
    ASSUME IInv, NEW c \in Client, DelMan(c)
    PROVE  IInv'
<1>1. op' \in [Client -> Op] /\ op'[c] = Idle /\ \A d \in Client \ {c} : op'[d] = op[d]
  BY UpdFacts, IdleFacts DEF IInv, Typed, DelMan
<1>2. Continues(c)
  BY <1>1, IdleFacts DEF Continues, DelMan, At, Deleting
<1>3. Typed'
  BY <1>1, Fields, ListIsSubset DEF IInv, Typed, DelMan, At, OpOK, ShapeOK, PC, Deleting, hist
<1>4. StoreOK'
  BY <1>1, Fields, ListIsSubset DEF IInv, Typed, StoreOK, DelMan, At, OpOK, ShapeOK, MutexOK, PutOK, DeleteOK, ListOK,
     OwnKept, OwnQuiet, PC, Putting, Deleting, Listing, InMutex, Emptying, Fallback, hist
<1>5. OpOK(c)'
  BY <1>1, <1>2, ContinuesShape, Fields, ListIsSubset, IdleFacts, ReferrerAssumption
  DEF IInv, Typed, StoreOK, OpOK, ShapeOK, MutexOK, PutOK, DeleteOK, ListOK, OwnKept, OwnQuiet,
      DelMan, At, PC, Putting, Deleting, Listing, InMutex, Emptying, Fallback, hist
<1>6. ASSUME NEW d \in Client \ {c} PROVE OpOK(d)'
  BY <1>1, <1>2, <1>6, ContinuesShape, Fields, ListIsSubset, ReferrerAssumption
  DEF IInv, Typed, StoreOK, OpOK, ShapeOK, OverlapOK, MutexOK, PutOK, DeleteOK, ListOK, OwnKept, OwnQuiet,
      DelMan, At, PC, Putting, Deleting, Listing, InMutex, Emptying, Fallback, hist
<1> QED BY <1>2, <1>3, <1>4, <1>5, <1>6, ContinuesShape DEF IInv

LEMMA DelPushNotFoundIInv ==
    ASSUME IInv, NEW c \in Client, DelPushNotFound(c)
    PROVE  IInv'
<1>1. /\ op' \in [Client -> Op]
      /\ op'[c].pc = "delmissed" /\ op'[c].subj = op[c].subj /\ op'[c].m = op[c].m
      /\ op'[c].overlap = op[c].overlap /\ op'[c].sees = op[c].sees
      /\ \A d \in Client \ {c} : op'[d] = op[d]
  BY GotoFacts DEF IInv, Typed, DelPushNotFound, PC
<1>2. Continues(c)
  BY <1>1 DEF Continues, DelPushNotFound, At, Deleting
<1>3. Typed' /\ StoreOK'
  BY <1>1 DEF IInv, Typed, StoreOK, DelPushNotFound, hist
<1>4. OpOK(c)'
  <2>1. MutexOK(c)'
    BY <1>1 DEF IInv, OpOK, MutexOK, DelPushNotFound, At, InMutex, Emptying, Fallback
  <2>2. PutOK(c)' /\ ListOK(c)'
    BY <1>1 DEF PutOK, ListOK, Putting, Listing
  <2>3. DeleteOK(c)'
    BY <1>1 DEF IInv, OpOK, DeleteOK, DelPushNotFound, At, Deleting, Emptying, hist
  <2> QED BY <1>2, <2>1, <2>2, <2>3, ContinuesShape DEF OpOK
<1>5. ASSUME NEW d \in Client \ {c} PROVE OpOK(d)'
  BY <1>1, <1>5, OthersOpOK DEF DelPushNotFound, hist
<1> QED BY <1>2, <1>3, <1>4, <1>5, ContinuesShape DEF IInv

LEMMA DeleteFailsIInv ==
    ASSUME IInv, NEW c \in Client, DeleteFails(c)
    PROVE  IInv'
<1>1. op' \in [Client -> Op] /\ op'[c] = Idle /\ \A d \in Client \ {c} : op'[d] = op[d]
  BY UpdFacts, IdleFacts DEF IInv, Typed, DeleteFails
<1>2. Continues(c)
  BY <1>1, IdleFacts DEF Continues, DeleteFails, At, Deleting
<1>3. Typed'
  BY <1>1, Fields, ListIsSubset DEF IInv, Typed, DeleteFails, At, OpOK, ShapeOK, PC, Deleting, hist
<1>4. StoreOK'
  BY <1>1, Fields, ListIsSubset DEF IInv, Typed, StoreOK, DeleteFails, At, OpOK, ShapeOK, MutexOK, PutOK, DeleteOK, ListOK,
     OwnKept, OwnQuiet, PC, Putting, Deleting, Listing, InMutex, Emptying, Fallback, hist
<1>5. OpOK(c)'
  BY <1>1, <1>2, ContinuesShape, Fields, ListIsSubset, IdleFacts, ReferrerAssumption
  DEF IInv, Typed, StoreOK, OpOK, ShapeOK, MutexOK, PutOK, DeleteOK, ListOK, OwnKept, OwnQuiet,
      DeleteFails, At, PC, Putting, Deleting, Listing, InMutex, Emptying, Fallback, hist
<1>6. ASSUME NEW d \in Client \ {c} PROVE OpOK(d)'
  <2>1. MutexOK(d)'
    BY <1>1, <1>6, ReferrerAssumption
    DEF IInv, OpOK, MutexOK, DeleteFails, At, InMutex
  <2>2. PutOK(d)'
    BY <1>1, <1>6, ListIsSubset
    DEF IInv, Typed, OpOK, ShapeOK, OverlapOK, MutexOK, PutOK, OwnKept,
        DeleteFails, At, Putting, Deleting, InMutex, hist
  <2>3. DeleteOK(d)'
    BY <1>1, <1>6, ListIsSubset
    DEF IInv, Typed, OpOK, ShapeOK, OverlapOK, DeleteOK, OwnKept,
        DeleteFails, At, Putting, Deleting, Emptying, hist
  <2>4. ListOK(d)'
    BY <1>1, <1>6, ListIsSubset
    DEF IInv, Typed, OpOK, ShapeOK, ListOK, OwnKept, OwnQuiet, DeleteFails, At, Listing, hist
  <2> QED BY <1>2, <1>6, <2>1, <2>2, <2>3, <2>4, ContinuesShape DEF OpOK
<1> QED BY <1>2, <1>3, <1>4, <1>5, <1>6, ContinuesShape DEF IInv

-----------------------------------------------------------------------------
LEMMA ListByAPIIInv ==
    ASSUME IInv, NEW c \in Client, ListByAPI(c)
    PROVE  IInv'
<1>1. /\ op' \in [Client -> Op]
      /\ op'[c].subj = op[c].subj /\ op'[c].m = op[c].m
      /\ op'[c].overlap = op[c].overlap /\ op'[c].sees = op[c].sees
      /\ \/ /\ server.api /\ op'[c].pc = "set"
            /\ op'[c].rl = {m \in man : Subject[m] = op[c].subj}
         \/ ~server.api /\ op'[c].pc = "tag"
      /\ \A d \in Client \ {c} : op'[d] = op[d]
  <2> DEFINE own == {m \in man : Subject[m] = op[c].subj}
             rec == [op[c] EXCEPT !.pc = "set", !.rl = own]
  <2>1. own \in List /\ op[c] \in Op
    BY ListIsSubset DEF IInv, Typed
  <2>2. /\ rec \in Op /\ rec.pc = "set" /\ rec.rl = own
        /\ rec.subj = op[c].subj /\ rec.m = op[c].m
        /\ rec.overlap = op[c].overlap /\ rec.sees = op[c].sees
    <3> HIDE DEF own
    <3> QED BY <2>1 DEF Op, PC
  <2>3. IF server.api THEN Upd(c, rec) ELSE Goto(c, "tag")
    BY DEF ListByAPI, Goto
  <2> HIDE DEF rec
  <2>4. CASE server.api
    BY <2>2, <2>3, <2>4, UpdFacts DEF IInv, Typed
  <2>5. CASE ~server.api
    BY <2>3, <2>5, GotoFacts DEF IInv, Typed, PC
  <2> QED BY <2>4, <2>5
<1>2. Continues(c)
  BY <1>1 DEF Continues, ListByAPI, At, Listing
<1>3. Typed'
  BY <1>1, Fields, ListIsSubset DEF IInv, Typed, ListByAPI, At, OpOK, ShapeOK, PC, Listing, hist
<1>4. StoreOK'
  BY <1>1, Fields, ListIsSubset DEF IInv, Typed, StoreOK, ListByAPI, At, OpOK, ShapeOK, MutexOK, PutOK, DeleteOK, ListOK,
     OwnKept, OwnQuiet, PC, Putting, Deleting, Listing, InMutex, Emptying, Fallback, hist
<1>5. OpOK(c)'
  <2>1. op'[c].pc \in {"tag", "set"} /\ op[c].pc = "api"
    BY <1>1 DEF ListByAPI, At
  <2>2. MutexOK(c)'
    BY <2>1 DEF IInv, OpOK, MutexOK, ListByAPI, InMutex, Emptying, Fallback
  <2>3. PutOK(c)' /\ DeleteOK(c)'
    BY <2>1 DEF PutOK, DeleteOK, Putting, Deleting, Emptying
  <2>4. ListOK(c)'
    BY <1>1, <2>1, Fields, ListIsSubset
    DEF IInv, Typed, StoreOK, OpOK, ListOK, OwnKept, OwnQuiet, ListByAPI, Listing, hist
  <2> QED BY <1>2, <2>2, <2>3, <2>4, ContinuesShape DEF OpOK
<1>6. ASSUME NEW d \in Client \ {c} PROVE OpOK(d)'
  BY <1>1, <1>6, OthersOpOK DEF ListByAPI, hist
<1> QED BY <1>2, <1>3, <1>4, <1>5, <1>6, ContinuesShape DEF IInv

LEMMA ListByAPIFailsIInv ==
    ASSUME IInv, NEW c \in Client, ListByAPIFails(c)
    PROVE  IInv'
<1>1. /\ op' \in [Client -> Op]
      /\ op'[c].pc = "tag" /\ op'[c].subj = op[c].subj /\ op'[c].m = op[c].m
      /\ op'[c].rl = op[c].rl /\ op'[c].known = op[c].known
      /\ op'[c].overlap = op[c].overlap /\ op'[c].sees = op[c].sees
      /\ \A d \in Client \ {c} : op'[d] = op[d]
  BY GotoFacts DEF IInv, Typed, ListByAPIFails, PC
<1>2. Continues(c)
  BY <1>1 DEF Continues, ListByAPIFails, At, Listing
<1>3. Typed'
  BY <1>1, Fields, ListIsSubset DEF IInv, Typed, ListByAPIFails, At, OpOK, ShapeOK, PC, Listing, hist
<1>4. StoreOK'
  BY <1>1, Fields, ListIsSubset DEF IInv, Typed, StoreOK, ListByAPIFails, At, OpOK, ShapeOK, MutexOK, PutOK, DeleteOK, ListOK,
     OwnKept, OwnQuiet, PC, Putting, Deleting, Listing, InMutex, Emptying, Fallback, hist
<1>5. OpOK(c)'
  <2>1. op'[c].pc \in {"tag"} /\ op[c].pc = "api"
    BY <1>1 DEF ListByAPIFails, At
  <2>2. MutexOK(c)'
    BY <2>1 DEF IInv, OpOK, MutexOK, ListByAPIFails, InMutex, Emptying, Fallback
  <2>3. PutOK(c)' /\ DeleteOK(c)'
    BY <2>1 DEF PutOK, DeleteOK, Putting, Deleting, Emptying
  <2>4. ListOK(c)'
    BY <1>1, <2>1, Fields, ListIsSubset
    DEF IInv, Typed, StoreOK, OpOK, ListOK, OwnKept, OwnQuiet, ListByAPIFails, Listing, hist
  <2> QED BY <1>2, <2>2, <2>3, <2>4, ContinuesShape DEF OpOK
<1>6. ASSUME NEW d \in Client \ {c} PROVE OpOK(d)'
  <2>1. MutexOK(d)'
    BY <1>1, <1>6, ReferrerAssumption
    DEF IInv, OpOK, MutexOK, ListByAPIFails, At, InMutex
  <2>2. PutOK(d)'
    BY <1>1, <1>6, ListIsSubset
    DEF IInv, Typed, OpOK, ShapeOK, OverlapOK, MutexOK, PutOK, OwnKept,
        ListByAPIFails, At, Putting, Deleting, InMutex, hist
  <2>3. DeleteOK(d)'
    BY <1>1, <1>6, ListIsSubset
    DEF IInv, Typed, OpOK, ShapeOK, OverlapOK, DeleteOK, OwnKept,
        ListByAPIFails, At, Putting, Deleting, Emptying, hist
  <2>4. ListOK(d)'
    BY <1>1, <1>6, ListIsSubset
    DEF IInv, Typed, OpOK, ShapeOK, ListOK, OwnKept, OwnQuiet, ListByAPIFails, At, Listing, hist
  <2> QED BY <1>2, <1>6, <2>1, <2>2, <2>3, <2>4, ContinuesShape DEF OpOK
<1> QED BY <1>2, <1>3, <1>4, <1>5, <1>6, ContinuesShape DEF IInv

LEMMA ListByTagIInv ==
    ASSUME IInv, NEW c \in Client, ListByTag(c)
    PROVE  IInv'
<1> DEFINE rl == Pulled(op[c].subj)
<1>0. /\ rl \in (SUBSET Referrer) \cup {Dummy}
      /\ Dummy \notin SUBSET Referrer
      /\ tag[op[c].subj] \in SUBSET Referrer => rl = tag[op[c].subj]
  BY ListIsSubset, ReferrerAssumption DEF IInv, Typed, OpOK, ShapeOK, ListByTag, At, PC, Pulled
<1> HIDE DEF rl
<1>1. /\ op' \in [Client -> Op]
      /\ \/ op'[c] = Idle
         \/ /\ op'[c].pc = "set" /\ op'[c].rl = rl
            /\ op'[c].subj = op[c].subj /\ op'[c].m = op[c].m
            /\ op'[c].overlap = op[c].overlap /\ op'[c].sees = op[c].sees
      /\ \A d \in Client \ {c} : op'[d] = op[d]
  <2> DEFINE rec == [op[c] EXCEPT !.pc = "set", !.rl = rl]
  <2>1. rl # Dummy => /\ rec \in Op /\ rec.pc = "set" /\ rec.rl = rl
                      /\ rec.subj = op[c].subj /\ rec.m = op[c].m
                      /\ rec.overlap = op[c].overlap /\ rec.sees = op[c].sees
    <3>1. op[c] \in Op /\ (rl # Dummy => rl \in List)
      BY <1>0, ListIsSubset DEF IInv, Typed
    <3> QED BY <3>1 DEF Op, PC
  <2>2. Upd(c, IF rl = Dummy THEN Idle ELSE rec)
    BY DEF ListByTag, rl
  <2> HIDE DEF rec
  <2>3. CASE rl = Dummy
    BY <2>2, <2>3, UpdFacts, IdleFacts DEF IInv, Typed
  <2>4. CASE rl # Dummy
    BY <2>1, <2>2, <2>4, UpdFacts DEF IInv, Typed
  <2> QED BY <2>3, <2>4
<1>2. Continues(c)
  BY <1>1, IdleFacts DEF Continues, ListByTag, At, Listing
<1>3. Typed'
  BY <1>1, Fields, ListIsSubset DEF IInv, Typed, ListByTag, At, OpOK, ShapeOK, PC, Listing, hist
<1>4. StoreOK'
  BY <1>1, Fields, ListIsSubset DEF IInv, Typed, StoreOK, ListByTag, At, OpOK, ShapeOK, MutexOK, PutOK, DeleteOK, ListOK,
     OwnKept, OwnQuiet, PC, Putting, Deleting, Listing, InMutex, Emptying, Fallback, hist
<1>5. OpOK(c)'
  <2>1. op'[c].pc \in {"idle", "set"} /\ op[c].pc = "tag"
    BY <1>1, IdleFacts DEF ListByTag, At
  <2>2. MutexOK(c)'
    BY <2>1 DEF IInv, OpOK, MutexOK, ListByTag, InMutex, Emptying, Fallback
  <2>3. PutOK(c)' /\ DeleteOK(c)'
    BY <2>1 DEF PutOK, DeleteOK, Putting, Deleting, Emptying
  <2>4. ListOK(c)'
    BY <1>0, <1>1, <2>1, Fields, ListIsSubset, IdleFacts
    DEF IInv, StoreOK, OpOK, ListOK, OwnKept, OwnQuiet, ListByTag, Listing, hist
  <2> QED BY <1>2, <2>2, <2>3, <2>4, ContinuesShape DEF OpOK
<1>6. ASSUME NEW d \in Client \ {c} PROVE OpOK(d)'
  BY <1>1, <1>6, OthersOpOK DEF ListByTag, hist
<1> QED BY <1>2, <1>3, <1>4, <1>5, <1>6, ContinuesShape DEF IInv

LEMMA ListFailsIInv ==
    ASSUME IInv, NEW c \in Client, ListFails(c)
    PROVE  IInv'
<1>1. op' \in [Client -> Op] /\ op'[c] = Idle /\ \A d \in Client \ {c} : op'[d] = op[d]
  BY UpdFacts, IdleFacts DEF IInv, Typed, ListFails
<1>2. Continues(c)
  BY <1>1, IdleFacts DEF Continues, ListFails, At, Listing
<1>3. Typed'
  BY <1>1, Fields, ListIsSubset DEF IInv, Typed, ListFails, At, OpOK, ShapeOK, PC, Listing, hist
<1>4. StoreOK'
  BY <1>1, Fields, ListIsSubset DEF IInv, Typed, StoreOK, ListFails, At, OpOK, ShapeOK, MutexOK, PutOK, DeleteOK, ListOK,
     OwnKept, OwnQuiet, PC, Putting, Deleting, Listing, InMutex, Emptying, Fallback, hist
<1>5. OpOK(c)'
  BY <1>1, <1>2, ContinuesShape, Fields, ListIsSubset, IdleFacts, ReferrerAssumption
  DEF IInv, Typed, StoreOK, OpOK, ShapeOK, MutexOK, PutOK, DeleteOK, ListOK, OwnKept, OwnQuiet,
      ListFails, At, PC, Putting, Deleting, Listing, InMutex, Emptying, Fallback, hist
<1>6. ASSUME NEW d \in Client \ {c} PROVE OpOK(d)'
  BY <1>1, <1>6, OthersOpOK DEF ListFails, hist
<1> QED BY <1>2, <1>3, <1>4, <1>5, <1>6, ContinuesShape DEF IInv

LEMMA ListEndIInv ==
    ASSUME IInv, NEW c \in Client, ListEnd(c)
    PROVE  IInv'
<1>1. op' \in [Client -> Op] /\ op'[c] = Idle /\ \A d \in Client \ {c} : op'[d] = op[d]
  BY UpdFacts, IdleFacts DEF IInv, Typed, ListEnd
<1>2. Continues(c)
  BY <1>1, IdleFacts DEF Continues, ListEnd, At, Listing
<1>3. Typed'
  BY <1>1, Fields, ListIsSubset DEF IInv, Typed, ListEnd, At, OpOK, ShapeOK, PC, Listing, hist
<1>4. StoreOK'
  BY <1>1, Fields, ListIsSubset DEF IInv, Typed, StoreOK, ListEnd, At, OpOK, ShapeOK, MutexOK, PutOK, DeleteOK, ListOK,
     OwnKept, OwnQuiet, PC, Putting, Deleting, Listing, InMutex, Emptying, Fallback, hist
<1>5. OpOK(c)'
  BY <1>1, <1>2, ContinuesShape, Fields, ListIsSubset, IdleFacts, ReferrerAssumption
  DEF IInv, Typed, StoreOK, OpOK, ShapeOK, MutexOK, PutOK, DeleteOK, ListOK, OwnKept, OwnQuiet,
      ListEnd, At, PC, Putting, Deleting, Listing, InMutex, Emptying, Fallback, hist
<1>6. ASSUME NEW d \in Client \ {c} PROVE OpOK(d)'
  BY <1>1, <1>6, OthersOpOK DEF ListEnd, hist
<1> QED BY <1>2, <1>3, <1>4, <1>5, <1>6, ContinuesShape DEF IInv

LEMMA ExpireIInv ==
    ASSUME IInv, Expire
    PROVE  IInv'
<1>1. Typed'
  BY DEF IInv, Typed, Expire, hist
<1>2. StoreOK'
  BY ListIsSubset, ReferrerAssumption DEF IInv, Typed, StoreOK, Expire, hist
<1>3. \A c \in Client : OpOK(c)'
  BY DEF IInv, OpOK, ShapeOK, MutexOK, PutOK, DeleteOK, ListOK, OwnKept, OwnQuiet, Expire, hist
<1>4. \A c, d \in Client : OverlapOK(c, d)'
  BY DEF IInv, OverlapOK, Expire
<1> QED BY <1>1, <1>2, <1>3, <1>4 DEF IInv

LEMMA StartListIInv ==
    ASSUME IInv, NEW c \in Client, NEW s \in Subjects, StartList(c, s)
    PROVE  IInv'
<1>1. /\ op' \in [Client -> Op]
      /\ op'[c].pc = (IF feature = "no" THEN "tag" ELSE "api")
      /\ op'[c].subj = s /\ op'[c].sees = OwnKept(s)
      /\ \A d \in Client \ {c} : op'[d] = op[d]
  <2> DEFINE pc == IF feature = "no" THEN "tag" ELSE "api"
             known == feature # "unknown"
             rec == [Idle EXCEPT !.pc = pc, !.known = known, !.subj = s, !.sees = OwnKept(s)]
  <2>1. pc \in PC /\ known \in BOOLEAN /\ OwnKept(s) \in List
    BY ListIsSubset DEF PC, OwnKept, IInv, Typed
  <2>2. Upd(c, rec)
    BY DEF StartList, OwnKept
  <2> HIDE DEF pc, known
  <2>3. rec \in Op /\ rec.pc = pc /\ rec.subj = s /\ rec.sees = OwnKept(s)
    BY <2>1, IdleFacts DEF Idle, Op
  <2> HIDE DEF rec
  <2>4. op' \in [Client -> Op] /\ op'[c] = rec /\ \A d \in Client \ {c} : op'[d] = op[d]
    BY <2>2, <2>3, UpdFacts DEF IInv, Typed
  <2> QED BY <2>3, <2>4 DEF pc
<1>2. Typed' /\ StoreOK'
  BY <1>1 DEF IInv, Typed, StoreOK, StartList, hist
<1>3. OpOK(c)'
  BY <1>1, ListIsSubset
  DEF IInv, Typed, StoreOK, OpOK, ShapeOK, MutexOK, PutOK, DeleteOK, ListOK, OwnKept, OwnQuiet,
      StartList, StartOp, At, PC, Putting, Deleting, Listing, InMutex, Emptying, Fallback, hist
<1>4. ASSUME NEW d \in Client \ {c} PROVE OpOK(d)'
  BY <1>1, <1>4
  DEF IInv, OpOK, ShapeOK, MutexOK, PutOK, DeleteOK, ListOK, OwnKept, OwnQuiet, StartList, hist
<1>5. ASSUME NEW d \in Client, NEW e \in Client PROVE OverlapOK(d, e)'
  BY <1>1, <1>5 DEF IInv, OverlapOK, Putting, Deleting
<1> QED BY <1>2, <1>3, <1>4, <1>5 DEF IInv

LEMMA StartPutIInv ==
    ASSUME IInv, NEW c \in Client, NEW m \in Referrer, StartPut(c, m)
    PROVE  IInv'
<1> DEFINE deletes == Busy(Deleting, Subject[m])
           over == deletes # {}
<1>1. /\ op' \in [Client -> Op]
      /\ op'[c].pc = "put" /\ op'[c].subj = Subject[m] /\ op'[c].m = m
      /\ op'[c].overlap <=> over
      /\ \A d \in Client \ {c} :
           /\ op'[d].pc = op[d].pc /\ op'[d].subj = op[d].subj /\ op'[d].m = op[d].m
           /\ op'[d].rl = op[d].rl /\ op'[d].sees = op[d].sees
           /\ op'[d].overlap <=> (op[d].overlap \/ d \in deletes)
  <2> DEFINE new == [Idle EXCEPT !.pc = "put", !.subj = Subject[m], !.m = m, !.overlap = over]
             old(d) == [op[d] EXCEPT !.overlap = @ \/ d \in deletes]
  <2>1. op' = [d \in Client |-> IF d = c THEN new ELSE old(d)]
    BY DEF StartPut
  <2>2. over \in BOOLEAN /\ \A d \in Client : (op[d].overlap \/ d \in deletes) \in BOOLEAN
    OBVIOUS
  <2> HIDE DEF deletes, over
  <2>3. new \in Op /\ new.pc = "put" /\ new.subj = Subject[m] /\ new.m = m /\ (new.overlap <=> over)
    BY <2>2, IdleFacts, ListIsSubset DEF Idle, Op, PC
  <2>4. ASSUME NEW d \in Client
        PROVE  /\ old(d) \in Op
               /\ old(d).pc = op[d].pc /\ old(d).subj = op[d].subj /\ old(d).m = op[d].m
               /\ old(d).rl = op[d].rl /\ old(d).sees = op[d].sees
               /\ old(d).overlap <=> (op[d].overlap \/ d \in deletes)
    <3> DEFINE b == op[d].overlap \/ d \in deletes
    <3>1. b \in BOOLEAN /\ op[d] \in Op
      BY <2>2 DEF IInv, Typed
    <3>2. old(d) = [op[d] EXCEPT !.overlap = b]
      OBVIOUS
    <3> HIDE DEF b, old
    <3>3. /\ old(d) \in Op /\ old(d).overlap = b
          /\ old(d).pc = op[d].pc /\ old(d).subj = op[d].subj /\ old(d).m = op[d].m
          /\ old(d).rl = op[d].rl /\ old(d).sees = op[d].sees
      BY <3>1, <3>2 DEF Op
    <3> QED BY <3>3 DEF b
  <2> HIDE DEF new, old
  <2>5. op' \in [Client -> Op]
    <3>1. new \in Op /\ \A d \in Client : old(d) \in Op
      BY <2>3, <2>4
    <3> QED BY <3>1, <2>1
  <2>6. op'[c] = new /\ \A d \in Client \ {c} : op'[d] = old(d)
    BY <2>1
  <2>7. ASSUME NEW d \in Client \ {c}
        PROVE  /\ op'[d].pc = op[d].pc /\ op'[d].subj = op[d].subj /\ op'[d].m = op[d].m
               /\ op'[d].rl = op[d].rl /\ op'[d].sees = op[d].sees
               /\ op'[d].overlap <=> (op[d].overlap \/ d \in deletes)
    <3>1. d \in Client /\ op'[d] = old(d)
      BY <2>6
    <3> QED BY <3>1, <2>4, Zenon
  <2> QED BY <2>3, <2>5, <2>6, <2>7
<1>0. /\ op[c].pc = "idle"
      /\ UNCHANGED <<server, man, tag, cacheRL, feature, muRefTag, kept, quiet, degraded>>
  BY DEF StartPut, StartOp, At, hist
<1>2. Typed' /\ StoreOK'
  BY <1>1 DEF IInv, Typed, StoreOK, StartPut, hist
<1>3. OpOK(c)'
  BY <1>0, <1>1, ListIsSubset
  DEF IInv, OpOK, ShapeOK, MutexOK, PutOK, DeleteOK, ListOK,
      PC, Putting, Deleting, Listing, InMutex, Emptying, Fallback
<1>4. ASSUME NEW d \in Client \ {c} PROVE OpOK(d)'
  BY <1>0, <1>1, <1>4, Fields
  DEF IInv, OpOK, ShapeOK, MutexOK, PutOK, DeleteOK, ListOK, OwnKept, OwnQuiet
<1>5. ASSUME NEW d \in Client, NEW e \in Client PROVE OverlapOK(d, e)'
  BY <1>0, <1>1, <1>5, Fields DEF IInv, OverlapOK, Busy, Putting, Deleting
<1> QED BY <1>2, <1>3, <1>4, <1>5 DEF IInv

LEMMA StartDeleteIInv ==
    ASSUME IInv, NEW c \in Client, NEW m \in Referrer, StartDelete(c, m)
    PROVE  IInv'
<1> DEFINE others == Busy(Putting \cup Deleting, Subject[m])
           over == others # {}
<1>1. /\ op' \in [Client -> Op]
      /\ op'[c].pc = "ping" /\ op'[c].subj = Subject[m] /\ op'[c].m = m
      /\ op'[c].overlap <=> over
      /\ \A d \in Client \ {c} :
           /\ op'[d].pc = op[d].pc /\ op'[d].subj = op[d].subj /\ op'[d].m = op[d].m
           /\ op'[d].rl = op[d].rl /\ op'[d].sees = op[d].sees \ {m}
           /\ op'[d].overlap <=> (op[d].overlap \/ d \in others)
  <2> DEFINE new == [Idle EXCEPT !.pc = "ping", !.subj = Subject[m], !.m = m, !.overlap = over]
             old(d) == [op[d] EXCEPT !.overlap = @ \/ d \in others, !.sees = @ \ {m}]
  <2>1. op' = [d \in Client |-> IF d = c THEN new ELSE old(d)]
    BY DEF StartDelete
  <2>2. over \in BOOLEAN /\ \A d \in Client : (op[d].overlap \/ d \in others) \in BOOLEAN
    OBVIOUS
  <2> HIDE DEF others, over
  <2>3. new \in Op /\ new.pc = "ping" /\ new.subj = Subject[m] /\ new.m = m /\ (new.overlap <=> over)
    BY <2>2, IdleFacts, ListIsSubset DEF Idle, Op, PC
  <2>4. ASSUME NEW d \in Client
        PROVE  /\ old(d) \in Op
               /\ old(d).pc = op[d].pc /\ old(d).subj = op[d].subj /\ old(d).m = op[d].m
               /\ old(d).rl = op[d].rl /\ old(d).sees = op[d].sees \ {m}
               /\ old(d).overlap <=> (op[d].overlap \/ d \in others)
    <3> DEFINE b == op[d].overlap \/ d \in others
               left == op[d].sees \ {m}
    <3>1. b \in BOOLEAN /\ op[d] \in Op /\ left \in List
      BY <2>2, Fields, ListIsSubset DEF IInv, Typed
    <3>2. old(d) = [op[d] EXCEPT !.overlap = b, !.sees = left]
      OBVIOUS
    <3> HIDE DEF b, left, old
    <3>3. /\ old(d) \in Op /\ old(d).overlap = b /\ old(d).sees = left
          /\ old(d).pc = op[d].pc /\ old(d).subj = op[d].subj /\ old(d).m = op[d].m
          /\ old(d).rl = op[d].rl
      BY <3>1, <3>2 DEF Op
    <3> QED BY <3>3 DEF b, left
  <2> HIDE DEF new, old
  <2>5. op' \in [Client -> Op]
    <3>1. new \in Op /\ \A d \in Client : old(d) \in Op
      BY <2>3, <2>4
    <3> QED BY <3>1, <2>1
  <2>6. op'[c] = new /\ \A d \in Client \ {c} : op'[d] = old(d)
    BY <2>1
  <2>7. ASSUME NEW d \in Client \ {c}
        PROVE  /\ op'[d].pc = op[d].pc /\ op'[d].subj = op[d].subj /\ op'[d].m = op[d].m
               /\ op'[d].rl = op[d].rl /\ op'[d].sees = op[d].sees \ {m}
               /\ op'[d].overlap <=> (op[d].overlap \/ d \in others)
    <3>1. d \in Client /\ op'[d] = old(d)
      BY <2>6
    <3> QED BY <3>1, <2>4, Zenon
  <2> QED BY <2>3, <2>5, <2>6, <2>7
<1>0. /\ op[c].pc = "idle"
      /\ UNCHANGED <<server, man, tag, feature, muRefTag, degraded>>
      /\ kept' = kept \ {m} /\ quiet' = quiet \ {m} /\ m \in man
  BY DEF StartDelete, StartOp, At, hist
<1>2. Typed' /\ StoreOK'
  BY <1>1, ListIsSubset DEF IInv, Typed, StoreOK, StartDelete, hist
<1>3. OpOK(c)'
  BY <1>0, <1>1, ListIsSubset
  DEF IInv, OpOK, ShapeOK, MutexOK, PutOK, DeleteOK, ListOK,
      PC, Putting, Deleting, Listing, InMutex, Emptying, Fallback
<1>4. ASSUME NEW d \in Client \ {c} PROVE OpOK(d)'
  BY <1>0, <1>1, <1>4, Fields
  DEF IInv, OpOK, ShapeOK, MutexOK, PutOK, DeleteOK, ListOK, OwnKept, OwnQuiet
<1>5. ASSUME NEW d \in Client, NEW e \in Client PROVE OverlapOK(d, e)'
  BY <1>0, <1>1, <1>5, Fields DEF IInv, OverlapOK, Busy, Putting, Deleting
<1> QED BY <1>2, <1>3, <1>4, <1>5 DEF IInv
-----------------------------------------------------------------------------
LEMMA InitIInv == Init => IInv
<1> SUFFICES ASSUME Init PROVE IInv
  OBVIOUS
<1>1. Typed
  BY IdleFacts, ListIsSubset DEF Init, Typed
<1>2. StoreOK
  BY ReferrerAssumption DEF Init, StoreOK
<1>3. ASSUME NEW c \in Client PROVE OpOK(c)
  BY <1>3, IdleFacts, ReferrerAssumption
  DEF Init, OpOK, ShapeOK, MutexOK, PutOK, DeleteOK, ListOK,
      Putting, Deleting, Listing, InMutex, Emptying, Fallback
<1>4. ASSUME NEW c \in Client, NEW d \in Client PROVE OverlapOK(c, d)
  BY <1>4, IdleFacts DEF Init, OverlapOK, Deleting
<1> QED BY <1>1, <1>2, <1>3, <1>4 DEF IInv

LEMMA NextIInv == IInv /\ [Next]_vars => IInv'
<1> SUFFICES ASSUME IInv, [Next]_vars PROVE IInv'
  OBVIOUS
<1>1. CASE UNCHANGED vars
  BY <1>1 DEF vars, hist, IInv, Typed, StoreOK, OpOK, ShapeOK, MutexOK, PutOK, DeleteOK, ListOK,
     OverlapOK, OwnKept, OwnQuiet
<1>2. CASE Expire
  BY <1>2, ExpireIInv
<1>3. ASSUME NEW c \in Client, Start(c) PROVE IInv'
  BY <1>3, StartPutIInv, StartDeleteIInv, StartListIInv DEF Start
<1>4. ASSUME NEW c \in Client, Step(c) PROVE IInv'
  BY <1>4, PutIInv, PutAckIInv, LockIInv, PullIInv, PushIInv, PushAckIInv, PingIInv, DelPullIInv,
     DelTagIInv, PushDummyIInv, DeleteDummyIInv, DelPushIInv, DelManIInv, ListByAPIIInv,
     ListByTagIInv, ListEndIInv
  DEF Step
<1>5. ASSUME NEW c \in Client, Failure(c) PROVE IInv'
  BY <1>5, PutFailsIInv, PushFailsIInv, PingFailsIInv, DelTagFailsIInv, DelPushNotFoundIInv,
     DeleteFailsIInv, ListByAPIFailsIInv, ListFailsIInv
  DEF Failure
<1> QED BY <1>1, <1>2, <1>3, <1>4, <1>5 DEF Next

\* The mutex, the overlaps and what every operation has in its hands stay as
\* IInv says, from the first operation of ManifestPut, ManifestDelete and
\* ReferrerList on.
THEOREM Invariance == Spec => []IInv
BY InitIInv, NextIInv, PTL DEF Spec

\* A referrer whose push succeeded stays in the list of its subject until it is
\* deleted, and ManifestDelete only deletes what the list no longer names, unless
\* it had company or the push of the new list was answered 404.
THEOREM ListKept == Spec => []ListSound
<1>1. ASSUME IInv PROVE ListSound
  <2>1. TypeOK
    BY <1>1, Fields, ListIsSubset DEF IInv, Typed, StoreOK, TypeOK
  <2>2. PushesKept
    BY <1>1, ListIsSubset DEF IInv, Typed, StoreOK, PushesKept, Listed
  <2>3. NoDangling
    BY <1>1 DEF IInv, Typed, OpOK, ShapeOK, DeleteOK, NoDangling, At, PC
  <2> QED BY <2>1, <2>2, <2>3 DEF ListSound
<1> QED BY <1>1, Invariance, PTL

\* A list that ReferrerList returns or leaves in cacheRL shows every referrer
\* whose push was over before the listing began.
THEOREM ListsNotStale == Spec => []ListsSeePuts
<1>1. ASSUME IInv PROVE ListsSeePuts
  BY <1>1 DEF IInv, StoreOK, OpOK, ListOK, ListsSeePuts, At
<1> QED BY <1>1, Invariance, PTL
=============================================================================

---------------------------- MODULE PQueueProofs ----------------------------
(***************************************************************************)
(* Proofs that the queue of internal/pqueue keeps its limit, hands every   *)
(* freed slot on and never leaks one, for every number of callers, every   *)
(* limit, every priority callback and every set of cancelled contexts.     *)
(***************************************************************************)
EXTENDS PQueue, PQueueOpsProofs

\* The invariant the four properties need each other for: the bound and work
\* conservation are only kept by release because an entry is never queued
\* twice nor queued while active, and that in turn because a slot belongs to a
\* caller that is not idle.
IInv ==
    /\ TypeOK
    /\ ActiveBound
    /\ WorkConserving
    /\ SlotOwnership
    /\ QueuedOnce

LEMMA InitIInv == Init => IInv
<1> SUFFICES ASSUME Init PROVE IInv
  OBVIOUS
<1>1. q \in Queue /\ q.active = {} /\ q.queued = <<>>
  BY DEF Init, EmptyQueue, Queue
<1>2. Sound(q)
  BY <1>1, FS_EmptySet, MaxAssumption DEF Sound, Bounded, Conserving, Distinct
<1>3. TypeOK
  BY <1>1 DEF Init, TypeOK, PC
<1>4. SlotOwnership
  BY <1>1 DEF Init, SlotOwnership
<1> QED
  BY <1>1, <1>2, <1>3, <1>4
     DEF IInv, Sound, ActiveBound, WorkConserving, QueuedOnce

\* release(&e), by a caller whose entry is not queued, keeps the invariant.
LEMMA ReleaseStep ==
    ASSUME IInv, NEW e \in Entry, pc[e] \in {"held", "missing"},
           q' = Release(q, e), Return(e)
    PROVE  IInv'
<1>1. q \in Queue /\ Sound(q)
  BY DEF IInv, TypeOK, Sound, ActiveBound, WorkConserving, QueuedOnce
<1>2. e \notin QueuedSet(q)
  BY DEF IInv, QueuedOnce, QueuedSet
<1>3. /\ q' \in Queue /\ Sound(q')
      /\ e \notin q'.active
      /\ q.active \ {e} \subseteq q'.active
      /\ q'.active \subseteq q.active \cup QueuedSet(q)
      /\ QueuedSet(q') = QueuedSet(q) \ q'.active
  BY <1>1, <1>2, ReleaseSound
<1>4. /\ pc' = [pc EXCEPT ![e] = "idle"]
      /\ ctx' = [ctx EXCEPT ![e] = FALSE]
      /\ pc \in [Entry -> PC] /\ ctx \in [Entry -> BOOLEAN]
  BY DEF Return, IInv, TypeOK
<1>5. TypeOK'
  BY <1>3, <1>4 DEF TypeOK, PC
<1>6. \A x \in QueuedSet(q) : pc[x] = "waiting"
  BY DEF IInv, QueuedOnce, QueuedSet
<1>7. SlotOwnership'
  <2>1. q'.active \subseteq Entry
    BY <1>3 DEF Queue
  <2>2. \A x \in q'.active : pc'[x] \in {"held", "waiting", "missing"}
    BY <1>3, <1>4, <1>6, <2>1 DEF IInv, SlotOwnership
  <2>3. \A x \in Entry : pc'[x] = "held" => x \in q'.active
    BY <1>3, <1>4 DEF IInv, SlotOwnership
  <2> QED BY <2>2, <2>3 DEF SlotOwnership
<1>8. \A i \in DOMAIN q'.queued : pc'[q'.queued[i]] = "waiting"
  <2>1. QueuedSet(q') \subseteq Entry
    BY <1>3 DEF Queue, QueuedSet
  <2>2. \A x \in QueuedSet(q') : pc'[x] = "waiting"
    BY <1>2, <1>3, <1>4, <1>6, <2>1
  <2> QED BY <2>2 DEF QueuedSet
<1> QED
  BY <1>3, <1>5, <1>7, <1>8
     DEF IInv, Sound, ActiveBound, WorkConserving, QueuedOnce

LEMMA StepIInv ==
    ASSUME IInv, NEW e \in Entry, Step(e)
    PROVE  IInv'
<1>1. /\ q \in Queue /\ Sound(q)
      /\ pc \in [Entry -> PC] /\ ctx \in [Entry -> BOOLEAN]
  BY DEF IInv, TypeOK, Sound, ActiveBound, WorkConserving, QueuedOnce
<1>2. /\ QueuedSet(q) \subseteq Entry /\ q.active \subseteq Entry
      /\ \A x \in QueuedSet(q) : pc[x] = "waiting" /\ x \notin q.active
  BY <1>1 DEF IInv, QueuedOnce, QueuedSet, Queue, Sound, Distinct
<1> DEFINE Rest ==
        /\ \A x \in q'.active : pc'[x] \in {"held", "waiting", "missing"}
        /\ \A x \in Entry : pc'[x] = "held" => x \in q'.active
        /\ \A x \in QueuedSet(q') : pc'[x] = "waiting"
<1>3. ASSUME q' \in Queue, Sound(q'), pc' \in [Entry -> PC],
             ctx' \in [Entry -> BOOLEAN], Rest
      PROVE  IInv'
  BY <1>3 DEF IInv, TypeOK, SlotOwnership, QueuedOnce, QueuedSet,
              Sound, ActiveBound, WorkConserving
<1>4. CASE CancelContext(e)
  BY <1>4, <1>1 DEF CancelContext, IInv, TypeOK, ActiveBound, WorkConserving,
                    SlotOwnership, QueuedOnce, Sound
<1>5. CASE AcquireNow(e)
  <2>1. e \notin q.active
    BY <1>5 DEF AcquireNow, IInv, SlotOwnership
  <2>2. /\ q' \in Queue /\ Sound(q') /\ q'.queued = <<>>
        /\ q'.active = q.active \cup {e}
    BY <1>1, <1>5, <2>1, EnterSound DEF AcquireNow, Enter, Queue
  <2>3. QueuedSet(q') = {}
    BY <2>2 DEF QueuedSet
  <2>4. pc' = [pc EXCEPT ![e] = "held"] /\ ctx' = ctx
    BY <1>5 DEF AcquireNow
  <2>5. pc' \in [Entry -> PC]
    BY <1>1, <2>4 DEF PC
  <2>6. Rest
    BY <1>1, <1>2, <2>2, <2>3, <2>4 DEF IInv, SlotOwnership
  <2> QED BY <1>1, <1>3, <2>2, <2>4, <2>5, <2>6
<1>6. CASE AcquireWait(e)
  <2>1. e \notin q.active /\ e \notin QueuedSet(q)
    BY <1>2, <1>6 DEF AcquireWait, IInv, SlotOwnership
  <2>2. /\ q' \in Queue /\ Sound(q') /\ q'.active = q.active
        /\ QueuedSet(q') = QueuedSet(q) \cup {e}
    BY <1>1, <1>6, <2>1, EnqueueSound DEF AcquireWait
  <2>3. pc' = [pc EXCEPT ![e] = "waiting"] /\ ctx' = ctx /\ pc[e] = "idle"
    BY <1>6 DEF AcquireWait
  <2>4. pc' \in [Entry -> PC]
    BY <1>1, <2>3 DEF PC
  <2>5. Rest
    BY <1>1, <1>2, <2>2, <2>3 DEF IInv, SlotOwnership
  <2> QED BY <1>1, <1>3, <2>2, <2>3, <2>4, <2>5
<1>7. CASE Granted(e)
  <2>1. /\ pc' = [pc EXCEPT ![e] = "held"] /\ ctx' = ctx /\ q' = q
        /\ e \in q.active
    BY <1>7 DEF Granted
  <2>2. pc' \in [Entry -> PC]
    BY <1>1, <2>1 DEF PC
  <2>3. Rest
    BY <1>1, <1>2, <2>1 DEF IInv, SlotOwnership, QueuedSet
  <2> QED BY <1>1, <1>3, <2>1, <2>2, <2>3
<1>8. CASE AbortQueued(e)
  <2>1. /\ q' \in Queue /\ Sound(q') /\ q'.active = q.active
        /\ QueuedSet(q') \subseteq QueuedSet(q) \ {e}
        /\ e \in QueuedSet(q)
    BY <1>1, <1>8, DropQueuedSound DEF AbortQueued
  <2>2. /\ pc' = [pc EXCEPT ![e] = "idle"]
        /\ ctx' = [ctx EXCEPT ![e] = FALSE]
    BY <1>8 DEF AbortQueued, Return
  <2>3. pc' \in [Entry -> PC] /\ ctx' \in [Entry -> BOOLEAN]
    BY <1>1, <2>2 DEF PC
  <2>4. Rest
    BY <1>1, <1>2, <2>1, <2>2 DEF IInv, SlotOwnership
  <2> QED BY <1>3, <2>1, <2>3, <2>4
<1>9. CASE AbortMissing(e)
  <2>1. /\ pc' = [pc EXCEPT ![e] = "missing"] /\ ctx' = ctx /\ q' = q
        /\ e \notin QueuedSet(q) /\ pc[e] = "waiting"
    BY <1>9 DEF AbortMissing
  <2>2. pc' \in [Entry -> PC]
    BY <1>1, <2>1 DEF PC
  <2>3. QueuedSet(q') = QueuedSet(q)
    BY <2>1 DEF QueuedSet
  <2>4. Rest
    BY <1>1, <1>2, <2>1, <2>3 DEF IInv, SlotOwnership
  <2> QED BY <1>1, <1>3, <2>1, <2>2, <2>4
<1>10. CASE ReleaseMissing(e)
  BY <1>10, ReleaseStep DEF ReleaseMissing
<1>11. CASE Done(e)
  BY <1>11, ReleaseStep DEF Done
<1> QED
  BY <1>4, <1>5, <1>6, <1>7, <1>8, <1>9, <1>10, <1>11 DEF Step

LEMMA NextIInv == IInv /\ [Next]_vars => IInv'
<1> SUFFICES ASSUME IInv, [Next]_vars PROVE IInv'
  OBVIOUS
<1>1. CASE Next
  BY <1>1, StepIInv DEF Next
<1>2. CASE UNCHANGED vars
  BY <1>2 DEF vars, IInv, TypeOK, ActiveBound, WorkConserving, SlotOwnership,
              QueuedOnce, QueuedSet, Sound, Bounded, Conserving, Distinct
<1> QED BY <1>1, <1>2

\* The inductive invariant holds throughout.
THEOREM Invariance == Spec => []IInv
BY InitIInv, NextIInv, PTL DEF Spec

\* The state of queue, callers and contexts is always well formed.
THEOREM TypeCorrect == Spec => []TypeOK
<1>1. IInv => TypeOK
  BY DEF IInv
<1> QED BY Invariance, <1>1, PTL

\* Never more than MaxActive entries are active, whatever the callback picks
\* and whichever contexts are cancelled at whatever moment.
THEOREM LimitKept == Spec => []ActiveBound
<1>1. IInv => ActiveBound
  BY DEF IInv
<1> QED BY Invariance, <1>1, PTL

\* A slot is never free while an entry is queued.
THEOREM SlotsPassedOn == Spec => []WorkConserving
<1>1. IInv => WorkConserving
  BY DEF IInv
<1> QED BY Invariance, <1>1, PTL

\* A slot never outlives the call that owns it, and who holds the release
\* function owns a slot.
THEOREM SlotsOwned == Spec => []SlotOwnership
<1>1. IInv => SlotOwnership
  BY DEF IInv
<1> QED BY Invariance, <1>1, PTL
=============================================================================

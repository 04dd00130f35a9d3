--------------------------- MODULE PQueueOpsProofs ---------------------------
(***************************************************************************)
(* What the critical sections of internal/pqueue do to a sound queue:      *)
(* every one of them leaves a sound queue behind.  These lemmas hold for   *)
(* every limit, every set of entries and every priority callback.          *)
(***************************************************************************)
EXTENDS PQueueOps, FiniteSetTheorems, SequenceTheorems, TLAPS

\* The delete idiom append(s[:i], s[i+1:]...): every element but the i-th
\* stays, in the same order.
LEMMA RemoveAtFacts ==
    ASSUME NEW S, NEW s \in Seq(S), NEW i \in 1 .. Len(s)
    PROVE  /\ RemoveAt(s, i) \in Seq(S)
           /\ Len(RemoveAt(s, i)) = Len(s) - 1
           /\ \A j \in 1 .. (Len(s) - 1) :
                RemoveAt(s, i)[j] = IF j < i THEN s[j] ELSE s[j + 1]
<1> DEFINE a == SubSeq(s, 1, i - 1)
           b == SubSeq(s, i + 1, Len(s))
<1>1. a \in Seq(S) /\ Len(a) = i - 1 /\ \A j \in 1 .. (i - 1) : a[j] = s[j]
  OBVIOUS
<1>2. /\ b \in Seq(S) /\ Len(b) = Len(s) - i
      /\ \A j \in 1 .. (Len(s) - i) : b[j] = s[i + j]
  OBVIOUS
<1>3. RemoveAt(s, i) = a \o b
  BY DEF RemoveAt
<1> HIDE DEF a, b
<1>4. /\ a \o b \in Seq(S)
      /\ Len(a \o b) = Len(a) + Len(b)
      /\ \A j \in 1 .. (Len(a) + Len(b)) :
            (a \o b)[j] = IF j <= Len(a) THEN a[j] ELSE b[j - Len(a)]
  BY <1>1, <1>2, ConcatProperties
<1>5. ASSUME NEW j \in 1 .. (Len(s) - 1)
      PROVE  (a \o b)[j] = IF j < i THEN s[j] ELSE s[j + 1]
  <2>1. CASE j < i
    BY <2>1, <1>1, <1>2, <1>4
  <2>2. CASE ~(j < i)
    <3>1. b[j - (i - 1)] = s[i + (j - (i - 1))]
      BY <2>2, <1>2
    <3> QED BY <2>2, <3>1, <1>1, <1>2, <1>4
  <2> QED BY <2>1, <2>2
<1> QED BY <1>1, <1>2, <1>3, <1>4, <1>5

\* Whatever the callback answers, the chosen index is a valid one.
LEMMA ChosenInRange ==
    ASSUME NEW r \in Queue, r.queued # <<>>
    PROVE  Chosen(r) \in 1 .. Len(r.queued)
<1>1. Len(r.queued) \in Nat \ {0}
  BY EmptySeq DEF Queue
<1>2. \A i : Clamp(i, Len(r.queued)) \in 1 .. Len(r.queued)
  BY <1>1 DEF Clamp
<1> QED BY <1>1, <1>2 DEF Chosen

LEMMA ActiveFinite ==
    ASSUME NEW q \in Queue
    PROVE  IsFiniteSet(q.active) /\ Cardinality(q.active) \in Nat
BY EntryAssumption, FS_Subset, FS_CardinalityType DEF Queue

\* Entering through HasRoom: the newcomer gets a slot below the limit, and
\* only when nobody is queued.
LEMMA EnterSound ==
    ASSUME NEW q \in Queue, Sound(q), NEW e \in Entry, e \notin q.active,
           HasRoom(q)
    PROVE  /\ Enter(q, e) \in Queue
           /\ Sound(Enter(q, e))
           /\ Enter(q, e).queued = <<>>
<1>1. q.queued \in Seq(Entry) /\ Len(q.queued) \in Nat
  BY DEF Queue
<1>2. q.queued = <<>>
  BY <1>1, ActiveFinite, MaxAssumption DEF Sound, Conserving, HasRoom
<1>3. Cardinality(q.active \cup {e}) = Cardinality(q.active) + 1
  BY ActiveFinite, FS_AddElement
<1>4. Cardinality(q.active) < MaxActive
  BY <1>1, ActiveFinite, MaxAssumption DEF HasRoom
<1>5. /\ Enter(q, e) \in Queue
      /\ Enter(q, e).active = q.active \cup {e}
      /\ Enter(q, e).queued = <<>>
  BY <1>2 DEF Enter, Queue
<1> QED
  BY <1>3, <1>4, <1>5, ActiveFinite, MaxAssumption
     DEF Sound, Bounded, Conserving, Distinct

\* Joining the queue: only possible when every slot is taken.
LEMMA EnqueueSound ==
    ASSUME NEW q \in Queue, Sound(q), NEW e \in Entry,
           e \notin q.active, e \notin QueuedSet(q), ~HasRoom(q)
    PROVE  /\ Enqueue(q, e) \in Queue
           /\ Sound(Enqueue(q, e))
           /\ Enqueue(q, e).active = q.active
           /\ QueuedSet(Enqueue(q, e)) = QueuedSet(q) \cup {e}
<1>1. q.queued \in Seq(Entry) /\ Len(q.queued) \in Nat
  BY DEF Queue
<1>2. Cardinality(q.active) = MaxActive
  <2>1. CASE q.queued = <<>>
    BY <2>1, <1>1, ActiveFinite, MaxAssumption DEF HasRoom, Sound, Bounded
  <2> QED BY <2>1 DEF Sound, Conserving
<1>3. /\ Enqueue(q, e) \in Queue
      /\ Enqueue(q, e).active = q.active
      /\ Enqueue(q, e).queued = Append(q.queued, e)
  BY DEF Enqueue, Queue
<1>4. /\ Append(q.queued, e) \in Seq(Entry)
      /\ DOMAIN Append(q.queued, e) = 1 .. (Len(q.queued) + 1)
      /\ \A i \in 1 .. Len(q.queued) : Append(q.queued, e)[i] = q.queued[i]
      /\ Append(q.queued, e)[Len(q.queued) + 1] = e
  BY <1>1
<1>5. \A i \in 1 .. Len(q.queued) : q.queued[i] # e
  BY <1>1 DEF QueuedSet
<1>6. Distinct(Enqueue(q, e))
  BY <1>1, <1>3, <1>4, <1>5 DEF Sound, Distinct
<1>7. QueuedSet(Enqueue(q, e)) = QueuedSet(q) \cup {e}
  BY <1>1, <1>3, <1>4 DEF QueuedSet
<1> QED
  BY <1>2, <1>3, <1>6, <1>7, MaxAssumption DEF Sound, Bounded, Conserving

\* The abort of a queued entry: the entry leaves, some of those behind it may
\* leave with it, nobody's place among the others changes.
LEMMA DropQueuedSound ==
    ASSUME NEW q \in Queue, Sound(q), NEW e \in QueuedSet(q)
    PROVE  /\ DropQueued(q, e) \in Queue
           /\ Sound(DropQueued(q, e))
           /\ DropQueued(q, e).active = q.active
           /\ QueuedSet(DropQueued(q, e)) \subseteq QueuedSet(q) \ {e}
<1> DEFINE i == CHOOSE j \in DOMAIN q.queued : q.queued[j] = e
           s == SubSeq(q.queued, 1, i - 1)
<1>1. /\ q.queued \in Seq(Entry) /\ Len(q.queued) \in Nat
      /\ DOMAIN q.queued = 1 .. Len(q.queued)
  BY DEF Queue
<1>2. i \in 1 .. Len(q.queued) /\ q.queued[i] = e
  BY <1>1 DEF QueuedSet
<1> HIDE DEF i
<1>3. /\ s \in Seq(Entry) /\ Len(s) = i - 1 /\ DOMAIN s = 1 .. (i - 1)
      /\ \A j \in 1 .. (i - 1) : s[j] = q.queued[j]
  BY <1>1, <1>2
<1> HIDE DEF s
<1>4. /\ DropQueued(q, e) \in Queue
      /\ DropQueued(q, e).active = q.active
      /\ DropQueued(q, e).queued = s
  BY <1>3 DEF DropQueued, Queue, i, s
<1>5. QueuedSet(DropQueued(q, e)) \subseteq QueuedSet(q) \ {e}
  BY SMTT(30), <1>1, <1>2, <1>3, <1>4 DEF QueuedSet, Sound, Distinct
<1>6. Distinct(DropQueued(q, e))
  BY SMTT(30), <1>1, <1>2, <1>3, <1>4 DEF Sound, Distinct
<1>7. q.queued # <<>>
  BY <1>1, <1>2
<1> QED
  BY <1>4, <1>5, <1>6, <1>7 DEF Sound, Bounded, Conserving

\* release(prev): prev is out, nobody else loses a slot, a slot that became
\* free while somebody waited has a new owner taken from the queue, and no
\* queued entry disappears.
LEMMA ReleaseSound ==
    ASSUME NEW q \in Queue, Sound(q), NEW e \in Entry, e \notin QueuedSet(q)
    PROVE  /\ Release(q, e) \in Queue
           /\ Sound(Release(q, e))
           /\ e \notin Release(q, e).active
           /\ q.active \ {e} \subseteq Release(q, e).active
           /\ Release(q, e).active \subseteq q.active \cup QueuedSet(q)
           /\ QueuedSet(Release(q, e)) = QueuedSet(q) \ Release(q, e).active
<1> DEFINE r == [q EXCEPT !.active = @ \ {e}]
           i == Chosen(r)
<1>1. /\ q.queued \in Seq(Entry) /\ Len(q.queued) \in Nat
      /\ DOMAIN q.queued = 1 .. Len(q.queued)
      /\ q.active \subseteq Entry
  BY DEF Queue
<1>2. r \in Queue /\ r.active = q.active \ {e} /\ r.queued = q.queued
  BY DEF Queue
<1>3. Release(q, e) =
        IF r.queued = <<>> \/ Cardinality(r.active) >= MaxActive
        THEN r
        ELSE [active |-> r.active \cup {r.queued[i]},
              queued |-> RemoveAt(r.queued, i)]
  BY DEF Release
<1> HIDE DEF r
<1>4. /\ IsFiniteSet(r.active) /\ Cardinality(r.active) \in Nat
      /\ Cardinality(r.active) = IF e \in q.active THEN Cardinality(q.active) - 1
                                                 ELSE Cardinality(q.active)
      /\ Cardinality(q.active) \in Nat
  BY <1>2, ActiveFinite, FS_RemoveElement, FS_CardinalityType
<1>5. CASE r.queued = <<>> \/ Cardinality(r.active) >= MaxActive
  <2>1. Release(q, e) = r
    BY <1>3, <1>5
  <2>2. Bounded(r) /\ Conserving(r)
    BY <1>2, <1>4, <1>5, MaxAssumption DEF Sound, Bounded, Conserving
  <2>3. Distinct(r)
    BY <1>2 DEF Sound, Distinct
  <2>4. QueuedSet(r) = QueuedSet(q) /\ QueuedSet(q) = QueuedSet(q) \ r.active
    BY <1>2 DEF QueuedSet, Sound, Distinct
  <2> QED BY <1>2, <2>1, <2>2, <2>3, <2>4 DEF Sound
<1>6. CASE ~(r.queued = <<>> \/ Cardinality(r.active) >= MaxActive)
  <2>1. i \in 1 .. Len(q.queued)
    BY <1>2, <1>6, ChosenInRange
  <2> HIDE DEF i
  <2> DEFINE x == q.queued[i]
             t == RemoveAt(q.queued, i)
             n == Len(q.queued)
  <2>2. /\ Release(q, e).active = r.active \cup {x}
        /\ Release(q, e).queued = t
        /\ Release(q, e) = [active |-> r.active \cup {x}, queued |-> t]
    BY <1>2, <1>3, <1>6
  <2>3. /\ t \in Seq(Entry) /\ Len(t) = n - 1 /\ DOMAIN t = 1 .. (n - 1)
        /\ \A j \in 1 .. (n - 1) :
              t[j] = IF j < i THEN q.queued[j] ELSE q.queued[j + 1]
    BY <1>1, <2>1, RemoveAtFacts
  <2> HIDE DEF t
  <2>4. x \in Entry /\ x \in QueuedSet(q) /\ x # e /\ x \notin q.active
    BY <1>1, <2>1 DEF QueuedSet, Sound, Distinct
  <2>5. Release(q, e) \in Queue
    BY <1>1, <1>2, <2>2, <2>3, <2>4 DEF Queue
  <2>6. Cardinality(q.active) = MaxActive
    BY <1>2, <1>6 DEF Sound, Conserving
  <2>7. Cardinality(r.active \cup {x}) = MaxActive
    <3>1. Cardinality(r.active \cup {x}) = Cardinality(r.active) + 1
      BY <1>2, <1>4, <2>4, FS_AddElement
    <3> QED BY <3>1, <2>6, <1>4, <1>6, MaxAssumption
  <2>8. Bounded(Release(q, e)) /\ Conserving(Release(q, e))
    BY <2>2, <2>7, MaxAssumption DEF Bounded, Conserving
  <2> DEFINE pos(j) == IF j < i THEN j ELSE j + 1
  <2>9. \A j \in 1 .. (n - 1) :
           pos(j) \in 1 .. n /\ pos(j) # i /\ t[j] = q.queued[pos(j)]
    <3>1. n \in Nat /\ i \in 1 .. n
      BY <1>1, <2>1
    <3> HIDE DEF n, x
    <3> SUFFICES ASSUME NEW j \in 1 .. (n - 1)
                 PROVE  /\ pos(j) \in 1 .. n /\ pos(j) # i
                        /\ t[j] = q.queued[pos(j)]
      OBVIOUS
    <3>2. t[j] = IF j < i THEN q.queued[j] ELSE q.queued[j + 1]
      BY <2>3 DEF n
    <3>3. CASE j < i
      BY <3>1, <3>2, <3>3
    <3>4. CASE ~(j < i)
      BY <3>1, <3>2, <3>4
    <3> QED BY <3>3, <3>4
  <2>10. \A j, k \in 1 .. (n - 1) : pos(j) = pos(k) => j = k
    BY <1>1, <2>1
  <2>11. /\ \A j, k \in 1 .. n : q.queued[j] = q.queued[k] => j = k
         /\ \A j \in 1 .. n : q.queued[j] \notin q.active
    BY <1>1 DEF Sound, Distinct
  <2> HIDE DEF pos, n
  <2>12. \A j \in 1 .. (n - 1) : t[j] # x
    BY <2>1, <2>9, <2>11 DEF n
  <2>13. Distinct(Release(q, e))
    <3>1. \A j, k \in 1 .. (n - 1) : t[j] = t[k] => j = k
      BY <2>9, <2>10, <2>11
    <3>2. \A j \in 1 .. (n - 1) : t[j] \notin q.active
      BY <2>9, <2>11
    <3> QED BY <1>2, <2>2, <2>3, <2>12, <3>1, <3>2 DEF Distinct
  <2>14. QueuedSet(Release(q, e)) = QueuedSet(q) \ {x}
    <3>1. \A j \in 1 .. (n - 1) : \E k \in 1 .. n : t[j] = q.queued[k]
      BY <2>9
    <3>2. \A k \in 1 .. n : k # i => \E j \in 1 .. (n - 1) : t[j] = q.queued[k]
      <4> SUFFICES ASSUME NEW k \in 1 .. n, k # i
                   PROVE  \E j \in 1 .. (n - 1) : t[j] = q.queued[k]
        OBVIOUS
      <4>1. CASE k < i
        BY <4>1, <1>1, <2>1, <2>3 DEF n
      <4>2. CASE k > i
        <5>1. k - 1 \in 1 .. (n - 1) /\ ~(k - 1 < i) /\ (k - 1) + 1 = k
          BY <4>2, <1>1, <2>1 DEF n
        <5>2. t[k - 1] = q.queued[k]
          BY <5>1, <2>3
        <5> QED BY <5>1, <5>2
      <4> QED BY <4>1, <4>2, <1>1, <2>1 DEF n
    <3>3. QueuedSet(q) = {q.queued[k] : k \in 1 .. n}
      BY <1>1 DEF QueuedSet, n
    <3>4. QueuedSet(Release(q, e)) = {t[j] : j \in 1 .. (n - 1)}
      BY <2>2, <2>3 DEF QueuedSet
    <3> QED BY <2>12, <3>1, <3>2, <3>3, <3>4
  <2>15. QueuedSet(q) \ {x} = QueuedSet(q) \ (r.active \cup {x})
    BY <1>2 DEF QueuedSet, Sound, Distinct
  <2> QED
    BY <1>2, <2>2, <2>4, <2>5, <2>8, <2>13, <2>14, <2>15 DEF Sound
<1> QED BY <1>5, <1>6
=============================================================================

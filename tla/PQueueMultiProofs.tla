-------------------------- MODULE PQueueMultiProofs --------------------------
(***************************************************************************)
(* AcquireMulti, proved for any number of queues and callers, any lists of *)
(* queues (with nils and duplicates), any limit and priority callback:     *)
(* first what the clean-up of a list of queues computes, where the loops   *)
(* are followed by induction on their rounds, then the callers.            *)
(***************************************************************************)
EXTENDS PQueueMulti, PQueueOpsProofs, WellFoundedInduction
-----------------------------------------------------------------------------
(* The list of queues (SliceOps).                                          *)

\* A set of numbers that is not empty has a least element.
LEMMA LeastElement ==
    ASSUME NEW T \in SUBSET Nat, T # {}
    PROVE  \E x \in T : \A y \in T : x <= y
<1> DEFINE R == OpToRel(<, Nat)
<1>1. IsWellFoundedOn(R, Nat)
  BY NatLessThanWellFounded
<1>2. \A x, y \in Nat : <<y, x>> \in R <=> y < x
  BY DEF OpToRel
<1> HIDE DEF R
<1>3. PICK x \in T : \A y \in T : ~(<<y, x>> \in R)
  BY <1>1, WFMin
<1>4. ASSUME NEW y \in T PROVE x <= y
  <2>1. x \in Nat /\ y \in Nat /\ ~(y < x)
    BY <1>2, <1>3
  <2> QED BY <2>1
<1> QED BY <1>4

\* Induction on the rounds of a loop that is known to end.
LEMMA Induction ==
    ASSUME NEW N \in Nat, NEW S, 0 \in S, \A n \in 1 .. N : n - 1 \in S => n \in S
    PROVE  0 .. N \subseteq S
<1> SUFFICES ASSUME (0 .. N) \ S # {} PROVE FALSE
  OBVIOUS
<1>1. PICK x \in (0 .. N) \ S : \A y \in (0 .. N) \ S : x <= y
  <2>1. (0 .. N) \ S \in SUBSET Nat
    OBVIOUS
  <2> QED BY <2>1, LeastElement
<1>2. x \in 1 .. N /\ x - 1 \in 0 .. N
  BY <1>1
<1>3. x - 1 \in S
  BY <1>1, <1>2
<1> QED BY <1>1, <1>2, <1>3

\* g[n] is what n of the N rounds of a loop make of a; Inv[n] holds of it.
IsLoop(g, N, a, step, Inv) ==
    /\ g = [n \in 0 .. N |-> IF n = 0 THEN a ELSE step[n][g[n - 1]]]
    /\ \A n \in 0 .. N : g[n] \in Inv[n]

Keeps(N, a, step, Inv) ==
    a \in Inv[0] /\ \A n \in 1 .. N : \A x \in Inv[n - 1] : step[n][x] \in Inv[n]

\* A loop of N rounds, as a recursive function from the number of rounds done to
\* what they computed, is well defined: if every round keeps the invariant Inv.
LEMMA LoopExists ==
    ASSUME NEW N \in Nat, NEW a, NEW step, NEW Inv, Keeps(N, a, step, Inv)
    PROVE  \E g : IsLoop(g, N, a, step, Inv)
<1> DEFINE Is(g, m) == IsLoop(g, m, a, step, Inv)
           S == {m \in 0 .. N : \E g : Is(g, m)}
<1> USE DEF IsLoop, Keeps
<1>1. 0 \in S
  <2> DEFINE g == [n \in 0 .. 0 |-> a]
  <2>1. Is(g, 0)
    OBVIOUS
  <2> HIDE DEF g, Is, IsLoop
  <2> QED BY <2>1
<1>2. ASSUME NEW m \in 1 .. N, m - 1 \in S PROVE m \in S
  <2>1. PICK g : Is(g, m - 1)
    BY <1>2
  <2> DEFINE h == [n \in 0 .. m |-> IF n = m THEN step[m][g[m - 1]] ELSE g[n]]
  <2>2. /\ \A n \in 0 .. (m - 1) : g[n] = IF n = 0 THEN a ELSE step[n][g[n - 1]]
        /\ \A n \in 0 .. (m - 1) : g[n] \in Inv[n]
    BY <2>1
  <2>3. ASSUME NEW n \in 0 .. m
        PROVE  h[n] = (IF n = 0 THEN a ELSE step[n][h[n - 1]]) /\ h[n] \in Inv[n]
    <3>1. CASE n = m
      BY <3>1, <2>2
    <3>2. CASE n # m
      BY <3>2, <2>2
    <3> QED BY <3>1, <3>2
  <2>4. Is(h, m)
    BY <2>3
  <2> HIDE DEF h, Is, IsLoop
  <2> QED BY <2>4
<1>3. 0 .. N \subseteq S
  <2> HIDE DEF S
  <2> QED BY <1>1, <1>2, Induction
<1>4. N \in S
  <2> HIDE DEF S
  <2> QED BY <1>3
<1> QED BY <1>4

LEMMA SameSet ==
    ASSUME NEW r, NEW l,
           \A k \in DOMAIN r : \E n \in DOMAIN l : r[k] = l[n],
           \A k \in DOMAIN l : \E n \in DOMAIN r : r[n] = l[k]
    PROVE  ToSet(r) = ToSet(l)
<1>1. ToSet(r) = {r[k] : k \in DOMAIN r} /\ ToSet(l) = {l[k] : k \in DOMAIN l}
  BY DEF ToSet
<1> QED BY <1>1

DistinctFrom(l, ix) == \A j, k \in ix .. Len(l) : l[j] = l[k] => j = k

\* The statement that removes entry j: nothing but a copy of entry i goes, and the
\* entries before j stay where they are.
IsRound(X, l, ix, j, r) ==
    /\ r \in Seq(X) /\ Len(r) \in (j - 1) .. Len(l)
    /\ \A k \in 1 .. (j - 1) : r[k] = l[k]
    /\ \A k \in j .. Len(r) : r[k] # l[ix]
    /\ DistinctFrom(r, ix + 1)
    /\ ToSet(r) = ToSet(l)

LEMMA RoundFacts ==
    ASSUME NEW X, NEW l \in Seq(X), NEW ix \in 1 .. Len(l), NEW j \in (ix + 1) .. Len(l),
           DistinctFrom(l, ix + 1), \A k \in (j + 1) .. Len(l) : l[k] # l[ix]
    PROVE  IsRound(X, l, ix, j, DedupRound(l, ix, j))
<1> DEFINE r == DedupRound(l, ix, j)
           L == Len(l)
<1> SUFFICES /\ r \in Seq(X) /\ Len(r) \in (j - 1) .. Len(l)
             /\ \A k \in 1 .. (j - 1) : r[k] = l[k]
             /\ \A k \in j .. Len(r) : r[k] # l[ix]
             /\ DistinctFrom(r, ix + 1)
             /\ ToSet(r) = ToSet(l)
  BY Zenon DEF IsRound
<1>0. L \in Nat /\ ix \in Nat /\ j \in Nat /\ ix < j /\ j <= L /\ 1 <= ix /\ Len(l) = L
  OBVIOUS
<1>1. CASE l[ix] # l[j]
  <2>1. r = l
    BY <1>1 DEF DedupRound
  <2>2. \A k \in j .. Len(l) : l[k] # l[ix]
    BY <1>1
  <2> QED BY <2>1, <2>2
<1>2. CASE l[ix] = l[j]
  <2>1. r = SubSeq([l EXCEPT ![j] = l[L]], 1, L - 1)
    <3>1. [l EXCEPT ![j] = l[L]] \in Seq(X) /\ Len([l EXCEPT ![j] = l[L]]) = L
      OBVIOUS
    <3> QED BY <1>2, <3>1 DEF DedupRound, Front, ReplaceAt, Last
  <2>2. /\ r \in Seq(X) /\ Len(r) = L - 1
        /\ \A k \in 1 .. (L - 1) : r[k] = IF k = j THEN l[L] ELSE l[k]
    BY <2>1
  <2> HIDE DEF r, L
  <2>3. ASSUME NEW k \in j .. Len(r) PROVE r[k] # l[ix]
    <3>1. k \in 1 .. (L - 1) /\ k >= j
      BY <1>0, <2>2
    <3>2. CASE k = j
      <4>1. L \in (j + 1) .. Len(l) /\ r[k] = l[L]
        BY <1>0, <2>2, <3>1, <3>2
      <4> QED BY <4>1
    <3>3. CASE k # j
      <4>1. k \in (j + 1) .. Len(l) /\ r[k] = l[k]
        BY <1>0, <2>2, <3>1, <3>3
      <4> QED BY <4>1
    <3> QED BY <3>2, <3>3
  <2>4. DistinctFrom(r, ix + 1)
    <3> SUFFICES ASSUME NEW m \in (ix + 1) .. Len(r), NEW k \in (ix + 1) .. Len(r), r[m] = r[k]
                 PROVE  m = k
      BY DEF DistinctFrom
    <3> DEFINE at(n) == IF n = j THEN L ELSE n
    <3>1. \A n \in (ix + 1) .. Len(r) : at(n) \in (ix + 1) .. L /\ r[n] = l[at(n)]
      BY <1>0, <2>2
    <3>2. at(m) = at(k)
      <4>1. at(m) \in (ix + 1) .. Len(l) /\ at(k) \in (ix + 1) .. Len(l) /\ l[at(m)] = l[at(k)]
        BY <1>0, <3>1
      <4> HIDE DEF at
      <4> QED BY <4>1 DEF DistinctFrom
    <3> QED BY <1>0, <2>2, <3>2
  <2>5. ToSet(r) = ToSet(l)
    <3>1. \A k \in 1 .. (L - 1) : \E n \in 1 .. L : r[k] = l[n]
      BY <1>0, <2>2
    <3>2. \A k \in 1 .. L : \E n \in 1 .. (L - 1) : r[n] = l[k]
      <4> SUFFICES ASSUME NEW k \in 1 .. L PROVE \E n \in 1 .. (L - 1) : r[n] = l[k]
        OBVIOUS
      <4>1. CASE k = j
        BY <4>1, <1>0, <1>2, <2>2
      <4>2. CASE k = L /\ k # j
        BY <4>2, <1>0, <2>2
      <4>3. CASE k # L /\ k # j
        BY <4>3, <1>0, <2>2
      <4> QED BY <4>1, <4>2, <4>3
    <3>3. DOMAIN r = 1 .. (L - 1) /\ DOMAIN l = 1 .. L
      BY <1>0, <2>2
    <3>4. /\ \A k \in DOMAIN r : \E n \in DOMAIN l : r[k] = l[n]
          /\ \A k \in DOMAIN l : \E n \in DOMAIN r : r[n] = l[k]
      BY <3>1, <3>2, <3>3
    <3> QED BY <3>4, SameSet, Zenon
  <2>6. Len(r) \in (j - 1) .. Len(l) /\ \A k \in 1 .. (j - 1) : r[k] = l[k]
    BY SMTT(30), <1>0, <2>2
  <2> QED BY <2>2, <2>3, <2>4, <2>5, <2>6 DEF r
<1> QED BY <1>1, <1>2

\* The inner loop of the dedup: entry i is unlike all entries behind it.
LEMMA RowFacts ==
    ASSUME NEW X, NEW given \in Seq(X), NEW ix \in 1 .. Len(given), DistinctFrom(given, ix + 1)
    PROVE  LET r == DedupRow(given, ix)
           IN  /\ r \in Seq(X) /\ Len(r) \in ix .. Len(given)
               /\ \A k \in 1 .. ix : r[k] = given[k]
               /\ DistinctFrom(r, ix)
               /\ ToSet(r) = ToSet(given)
<1> DEFINE L == Len(given)
           N == L - ix
           body(l, n) == DedupRound(l, ix, L - n + 1)
           Good(l, n) == /\ Len(l) \in (L - n) .. L
                         /\ \A k \in 1 .. (L - n) : l[k] = given[k]
                         /\ \A k \in (L - n + 1) .. Len(l) : l[k] # given[ix]
                         /\ DistinctFrom(l, ix + 1)
                         /\ ToSet(l) = ToSet(given)
           Inv == [n \in 0 .. N |-> {l \in Seq(X) : Good(l, n)}]
           step == [n \in 1 .. N |-> [l \in Inv[n - 1] |-> body(l, n)]]
           loop[n \in 0 .. N] == IF n = 0 THEN given ELSE body(loop[n - 1], n)
<1>1. DedupRow(given, ix) = loop[N]
  BY DEF DedupRow
<1>2. L \in Nat /\ N \in Nat /\ ix \in Nat /\ 1 <= ix /\ ix <= L
  OBVIOUS
<1>3. given \in Inv[0]
  BY <1>2
<1>4. ASSUME NEW n \in 1 .. N, NEW l \in Inv[n - 1] PROVE body(l, n) \in Inv[n]
  <2> DEFINE j == L - n + 1
             r == body(l, n)
  <2>1. n - 1 \in 0 .. N /\ n \in 0 .. N
    BY <1>2
  <2>2. l \in Seq(X) /\ Good(l, n - 1)
    BY <2>1
  <2> HIDE DEF Inv, step, loop
  <2>3. /\ j \in (ix + 1) .. Len(l) /\ L - (n - 1) = j /\ ix \in 1 .. Len(l)
        /\ L - n = j - 1 /\ j \in Nat /\ Len(l) \in Nat
    BY <1>2, <2>2
  <2>4. /\ \A k \in 1 .. j : l[k] = given[k]
        /\ \A k \in (j + 1) .. Len(l) : l[k] # given[ix]
    <3>1. /\ \A k \in 1 .. (L - (n - 1)) : l[k] = given[k]
          /\ \A k \in (L - (n - 1) + 1) .. Len(l) : l[k] # given[ix]
      BY <2>2
    <3> HIDE DEF j
    <3> QED BY <2>3, <3>1
  <2> HIDE DEF j
  <2>5. l[ix] = given[ix]
    <3>1. ix \in 1 .. j
      BY <2>3
    <3> QED BY <2>4, <3>1
  <2>6. /\ r \in Seq(X) /\ Len(r) \in (j - 1) .. Len(l)
        /\ \A k \in 1 .. (j - 1) : r[k] = l[k]
        /\ \A k \in j .. Len(r) : r[k] # l[ix]
        /\ DistinctFrom(r, ix + 1)
        /\ ToSet(r) = ToSet(l)
    <3> HIDE DEF Good
    <3>1. DistinctFrom(l, ix + 1)
      BY <2>2 DEF Good
    <3>2. r = DedupRound(l, ix, j)
      BY DEF j
    <3>3. \A k \in (j + 1) .. Len(l) : l[k] # l[ix]
      BY <2>4, <2>5
    <3>4. l \in Seq(X) /\ ix \in 1 .. Len(l) /\ j \in (ix + 1) .. Len(l)
      BY <2>2, <2>3
    <3> HIDE DEF r
    <3>5. IsRound(X, l, ix, j, DedupRound(l, ix, j))
      BY <3>1, <3>3, <3>4, RoundFacts
    <3>6. IsRound(X, l, ix, j, r)
      BY <3>2, <3>5
    <3> QED BY <3>6, Zenon DEF IsRound
  <2> HIDE DEF r
  <2>7. Good(r, n)
    <3>1. Len(r) \in (L - n) .. L
      BY <1>2, <2>2, <2>3, <2>6
    <3>2. \A k \in 1 .. (j - 1) : r[k] = given[k]
      BY <2>3, <2>4, <2>6
    <3>3. /\ \A k \in j .. Len(r) : r[k] # given[ix]
          /\ L - n + 1 = j /\ L - n = j - 1
      BY <2>3, <2>5, <2>6 DEF j
    <3>4. ToSet(r) = ToSet(given)
      BY <2>2, <2>6
    <3> QED BY <2>6, <3>1, <3>2, <3>3, <3>4
  <2> QED BY <2>1, <2>6, <2>7 DEF r, Inv
<1>5. \E g : g = [n \in 0 .. N |-> IF n = 0 THEN given ELSE body(g[n - 1], n)]
  <2>1. \A n \in 1 .. N : \A x \in Inv[n - 1] : step[n][x] = body(x, n) /\ step[n][x] \in Inv[n]
    BY <1>4
  <2> HIDE DEF Inv, step, body, N
  <2>2. PICK g : IsLoop(g, N, given, step, Inv)
    <3>1. Keeps(N, given, step, Inv)
      BY <1>3, <2>1 DEF Keeps
    <3> QED BY <1>2, <3>1, LoopExists
  <2>3. \A n \in 1 .. N : g[n - 1] \in Inv[n - 1]
    BY <1>2, <2>2 DEF IsLoop
  <2>4. g = [n \in 0 .. N |-> IF n = 0 THEN given ELSE body(g[n - 1], n)]
    <3>1. \A n \in 1 .. N : step[n][g[n - 1]] = body(g[n - 1], n)
      BY <2>1, <2>3
    <3>2. \A n \in 0 .. N : n # 0 => n \in 1 .. N
      BY <1>2
    <3> QED BY <2>2, <3>1, <3>2 DEF IsLoop
  <2> QED BY <2>4
<1>6. loop = [n \in 0 .. N |-> IF n = 0 THEN given ELSE body(loop[n - 1], n)]
  <2> HIDE DEF body, N
  <2> QED BY <1>5 DEF loop
<1>7. loop[N] \in Inv[N]
  <2> DEFINE S == {n \in 0 .. N : loop[n] \in Inv[n]}
  <2> HIDE DEF Inv, body, N, loop
  <2>1. 0 \in S
    BY <1>2, <1>3, <1>6
  <2>2. \A n \in 1 .. N : n - 1 \in S => n \in S
    BY <1>2, <1>4, <1>6
  <2> HIDE DEF S
  <2>3. 0 .. N \subseteq S
    BY <1>2, <2>1, <2>2, Induction
  <2> QED BY <1>2, <2>3 DEF S
<1> DEFINE r == loop[N]
<1>8. r \in Seq(X) /\ Good(r, N)
  <2> HIDE DEF loop
  <2> QED BY <1>2, <1>7
<1> HIDE DEF r, loop
<1>9. DistinctFrom(r, ix)
  <2>1. L - N = ix
    BY <1>2
  <2>2. Len(r) \in Nat /\ r[ix] = given[ix] /\ \A k \in (ix + 1) .. Len(r) : r[k] # r[ix]
    BY <1>2, <1>8, <2>1
  <2>3. DistinctFrom(r, ix + 1)
    BY <1>8
  <2> QED BY <1>2, <2>2, <2>3 DEF DistinctFrom
<1> QED BY <1>1, <1>2, <1>8, <1>9 DEF r

\* The dedup: no entry is left twice, and none is lost.
LEMMA DedupFacts ==
    ASSUME NEW X, NEW given \in Seq(X)
    PROVE  LET r == Dedup(given)
           IN  r \in Seq(X) /\ DistinctFrom(r, 1) /\ ToSet(r) = ToSet(given)
<1> DEFINE L == Len(given)
           N == L - 1
           body(l, n) == DedupRow(l, L - n)
           Good(l, n) == /\ Len(l) \in (L - n) .. L
                         /\ DistinctFrom(l, L - n)
                         /\ ToSet(l) = ToSet(given)
           Inv == [n \in 0 .. N |-> {l \in Seq(X) : Good(l, n)}]
           step == [n \in 1 .. N |-> [l \in Inv[n - 1] |-> body(l, n)]]
           loop[n \in 0 .. N] == IF n = 0 THEN given ELSE body(loop[n - 1], n)
<1>1. CASE given = <<>>
  BY <1>1 DEF Dedup, DistinctFrom
<1> SUFFICES ASSUME given # <<>>
             PROVE  LET r == Dedup(given)
                    IN  r \in Seq(X) /\ DistinctFrom(r, 1) /\ ToSet(r) = ToSet(given)
  BY <1>1
<1>0. Dedup(given) = loop[N]
  BY DEF Dedup
<1>2. L \in Nat /\ N \in Nat
  BY EmptySeq
<1>3. given \in Inv[0]
  BY <1>2 DEF DistinctFrom
<1>4. ASSUME NEW n \in 1 .. N, NEW l \in Inv[n - 1] PROVE body(l, n) \in Inv[n]
  <2> DEFINE ix == L - n
             r == body(l, n)
  <2>1. n - 1 \in 0 .. N /\ n \in 0 .. N
    BY <1>2
  <2>2. l \in Seq(X) /\ Good(l, n - 1)
    BY <2>1
  <2> HIDE DEF Inv, step, loop
  <2>3. L - (n - 1) = ix + 1 /\ ix \in 1 .. Len(l) /\ ix \in Nat /\ Len(l) \in 0 .. L
    BY <1>2, <2>2
  <2>4. DistinctFrom(l, ix + 1)
    <3>1. DistinctFrom(l, L - (n - 1))
      BY <2>2
    <3> QED BY <2>3, <3>1
  <2>5. /\ r \in Seq(X) /\ Len(r) \in ix .. Len(l)
        /\ DistinctFrom(r, ix)
        /\ ToSet(r) = ToSet(l)
    <3>1. r = DedupRow(l, ix)
      OBVIOUS
    <3>2. l \in Seq(X)
      BY <2>2
    <3> HIDE DEF r, ix, Good
    <3> QED BY <2>3, <2>4, <3>1, <3>2, RowFacts
  <2> HIDE DEF r
  <2>6. Good(r, n)
    BY <1>2, <2>2, <2>3, <2>5
  <2> QED BY <2>1, <2>5, <2>6 DEF r, Inv
<1>5. \E g : g = [n \in 0 .. N |-> IF n = 0 THEN given ELSE body(g[n - 1], n)]
  <2>1. \A n \in 1 .. N : \A x \in Inv[n - 1] : step[n][x] = body(x, n) /\ step[n][x] \in Inv[n]
    BY <1>4
  <2> HIDE DEF Inv, step, body, N
  <2>2. PICK g : IsLoop(g, N, given, step, Inv)
    <3>1. Keeps(N, given, step, Inv)
      BY <1>3, <2>1 DEF Keeps
    <3> QED BY <1>2, <3>1, LoopExists
  <2>3. \A n \in 1 .. N : g[n - 1] \in Inv[n - 1]
    BY <1>2, <2>2 DEF IsLoop
  <2>4. g = [n \in 0 .. N |-> IF n = 0 THEN given ELSE body(g[n - 1], n)]
    <3>1. \A n \in 1 .. N : step[n][g[n - 1]] = body(g[n - 1], n)
      BY <2>1, <2>3
    <3>2. \A n \in 0 .. N : n # 0 => n \in 1 .. N
      BY <1>2
    <3> QED BY <2>2, <3>1, <3>2 DEF IsLoop
  <2> QED BY <2>4
<1>6. loop = [n \in 0 .. N |-> IF n = 0 THEN given ELSE body(loop[n - 1], n)]
  <2> HIDE DEF body, N
  <2> QED BY <1>5 DEF loop
<1>7. \A n \in 0 .. N : loop[n] \in Inv[n]
  <2> DEFINE S == {n \in 0 .. N : loop[n] \in Inv[n]}
  <2> HIDE DEF Inv, body, N, loop
  <2>1. 0 \in S
    BY <1>2, <1>3, <1>6
  <2>2. \A n \in 1 .. N : n - 1 \in S => n \in S
    BY <1>2, <1>4, <1>6
  <2> HIDE DEF S
  <2>3. 0 .. N \subseteq S
    BY <1>2, <2>1, <2>2, Induction
  <2> QED BY <2>3 DEF S
<1> DEFINE r == loop[N]
<1>8. r \in Seq(X) /\ Good(r, N) /\ L - N = 1
  <2> HIDE DEF loop
  <2> QED BY <1>2, <1>7
<1> HIDE DEF r, loop
<1> QED BY <1>0, <1>8 DEF r

\* The removal of nils: no other entry is lost.
LEMMA DropNilFacts ==
    ASSUME NEW X, NEW given \in Seq(X)
    PROVE  LET r == DropNil(given)
           IN  r \in Seq(X) /\ ToSet(r) = ToSet(given) \ {Nil}
<1> DEFINE N == Len(given)
           body(l, n) == LET ix == N - n + 1 IN IF l[ix] = Nil THEN RemoveAt(l, ix) ELSE l
           Good(l, n) == /\ Len(l) \in (N - n) .. N
                         /\ \A k \in 1 .. (N - n) : l[k] = given[k]
                         /\ \A k \in (N - n + 1) .. Len(l) : l[k] # Nil
                         /\ ToSet(l) \ {Nil} = ToSet(given) \ {Nil}
           Inv == [n \in 0 .. N |-> {l \in Seq(X) : Good(l, n)}]
           step == [n \in 1 .. N |-> [l \in Inv[n - 1] |-> body(l, n)]]
           loop[n \in 0 .. N] == IF n = 0 THEN given ELSE body(loop[n - 1], n)
<1>0. DropNil(given) = loop[N]
  BY DEF DropNil
<1>2. N \in Nat
  OBVIOUS
<1>3. given \in Inv[0]
  BY <1>2
<1>4. ASSUME NEW n \in 1 .. N, NEW l \in Inv[n - 1] PROVE body(l, n) \in Inv[n]
  <2> DEFINE ix == N - n + 1
             r == body(l, n)
  <2>1. n - 1 \in 0 .. N /\ n \in 0 .. N
    BY <1>2
  <2>2. l \in Seq(X) /\ Good(l, n - 1)
    BY <2>1
  <2> HIDE DEF Inv, step, loop
  <2>3. /\ N - (n - 1) = ix /\ N - n = ix - 1 /\ N - n + 1 = ix
        /\ ix \in 1 .. Len(l) /\ ix \in Nat /\ Len(l) \in 0 .. N
    BY <1>2, <2>2
  <2>4. /\ \A k \in 1 .. ix : l[k] = given[k]
        /\ \A k \in (ix + 1) .. Len(l) : l[k] # Nil
    <3>1. /\ \A k \in 1 .. (N - (n - 1)) : l[k] = given[k]
          /\ \A k \in (N - (n - 1) + 1) .. Len(l) : l[k] # Nil
      BY <2>2
    <3> HIDE DEF ix
    <3> QED BY <2>3, <3>1
  <2>5. r = IF l[ix] = Nil THEN RemoveAt(l, ix) ELSE l
    OBVIOUS
  <2>6. l \in Seq(X) /\ ToSet(l) \ {Nil} = ToSet(given) \ {Nil}
    BY <2>2
  <2> HIDE DEF r, ix, Good, body
  <2>7. /\ r \in Seq(X) /\ Len(r) \in (ix - 1) .. N
        /\ \A k \in 1 .. (ix - 1) : r[k] = given[k]
        /\ \A k \in ix .. Len(r) : r[k] # Nil
        /\ ToSet(r) \ {Nil} = ToSet(given) \ {Nil}
    <3>1. CASE l[ix] # Nil
      <4>1. r = l
        BY <2>5, <3>1
      <4>2. \A k \in ix .. Len(l) : l[k] # Nil
        BY <2>3, <2>4, <3>1
      <4> QED BY <1>2, <2>3, <2>4, <2>6, <4>1, <4>2
    <3>2. CASE l[ix] = Nil
      <4> DEFINE m == Len(l)
      <4>1. m \in Nat /\ DOMAIN l = 1 .. m /\ ix \in 1 .. m
        BY <2>3, <2>6
      <4>2. /\ r \in Seq(X) /\ Len(r) = m - 1 /\ DOMAIN r = 1 .. (m - 1)
            /\ \A j \in 1 .. (m - 1) : r[j] = IF j < ix THEN l[j] ELSE l[j + 1]
        <5>1. r = RemoveAt(l, ix)
          BY <2>5, <3>2
        <5>2. /\ r \in Seq(X) /\ Len(r) = Len(l) - 1
              /\ \A j \in 1 .. (Len(l) - 1) : r[j] = IF j < ix THEN l[j] ELSE l[j + 1]
          BY <2>6, <4>1, <5>1, RemoveAtFacts
        <5> QED BY <5>2
      <4>3. \A k \in ix .. (m - 1) : r[k] # Nil
        BY <2>3, <2>4, <4>1, <4>2
      <4>4. \A k \in 1 .. (ix - 1) : r[k] = given[k]
        BY <2>3, <2>4, <4>1, <4>2
      <4> HIDE DEF m
      <4>5. \A j \in 1 .. (m - 1) : \E k \in 1 .. m : r[j] = l[k]
        BY <2>3, <4>1, <4>2
      <4>6. ASSUME NEW k \in 1 .. m, l[k] # Nil PROVE \E j \in 1 .. (m - 1) : r[j] = l[k]
        <5>1. CASE k < ix
          BY <5>1, <2>3, <4>1, <4>2
        <5>2. CASE k > ix
          <6>1. k - 1 \in 1 .. (m - 1) /\ ~(k - 1 < ix) /\ (k - 1) + 1 = k
            BY <5>2, <2>3, <4>1
          <6>2. r[k - 1] = l[k]
            BY <6>1, <4>2
          <6> QED BY <6>1, <6>2
        <5> QED BY <5>1, <5>2, <2>3, <3>2, <4>1, <4>6
      <4>7. ToSet(r) = {r[j] : j \in 1 .. (m - 1)} /\ ToSet(l) = {l[k] : k \in 1 .. m}
        BY <4>1, <4>2 DEF ToSet
      <4>8. ToSet(r) \ {Nil} = ToSet(l) \ {Nil}
        BY <4>5, <4>6, <4>7
      <4>9. Len(r) \in (ix - 1) .. N
        BY <1>2, <2>3, <4>1, <4>2 DEF m
      <4> QED BY <2>6, <4>2, <4>3, <4>4, <4>8, <4>9
    <3> QED BY <3>1, <3>2
  <2>8. Good(r, n)
    BY <2>3, <2>7 DEF Good
  <2> QED BY <2>1, <2>7, <2>8 DEF r, Inv, body, Good
<1>5. \E g : g = [n \in 0 .. N |-> IF n = 0 THEN given ELSE body(g[n - 1], n)]
  <2>1. \A n \in 1 .. N : \A x \in Inv[n - 1] : step[n][x] = body(x, n) /\ step[n][x] \in Inv[n]
    BY <1>4
  <2> HIDE DEF Inv, step, body, N
  <2>2. PICK g : IsLoop(g, N, given, step, Inv)
    <3>1. Keeps(N, given, step, Inv)
      BY <1>3, <2>1 DEF Keeps
    <3> QED BY <1>2, <3>1, LoopExists
  <2>3. \A n \in 1 .. N : g[n - 1] \in Inv[n - 1]
    BY <1>2, <2>2 DEF IsLoop
  <2>4. g = [n \in 0 .. N |-> IF n = 0 THEN given ELSE body(g[n - 1], n)]
    <3>1. \A n \in 1 .. N : step[n][g[n - 1]] = body(g[n - 1], n)
      BY <2>1, <2>3
    <3>2. \A n \in 0 .. N : n # 0 => n \in 1 .. N
      BY <1>2
    <3> QED BY <2>2, <3>1, <3>2 DEF IsLoop
  <2> QED BY <2>4
<1>6. loop = [n \in 0 .. N |-> IF n = 0 THEN given ELSE body(loop[n - 1], n)]
  <2> HIDE DEF body, N
  <2> QED BY <1>5 DEF loop
<1>7. \A n \in 0 .. N : loop[n] \in Inv[n]
  <2> DEFINE S == {n \in 0 .. N : loop[n] \in Inv[n]}
  <2> HIDE DEF Inv, body, N, loop
  <2>1. 0 \in S
    BY <1>2, <1>3, <1>6
  <2>2. \A n \in 1 .. N : n - 1 \in S => n \in S
    BY <1>2, <1>4, <1>6
  <2> HIDE DEF S
  <2>3. 0 .. N \subseteq S
    BY <1>2, <2>1, <2>2, Induction
  <2> QED BY <2>3 DEF S
<1> DEFINE r == loop[N]
<1>8. r \in Seq(X) /\ Good(r, N) /\ N - N = 0
  <2> HIDE DEF loop
  <2> QED BY <1>2, <1>7
<1> HIDE DEF r, loop
<1>9. Nil \notin ToSet(r)
  BY <1>8 DEF ToSet
<1>10. ToSet(r) = ToSet(given) \ {Nil}
  BY <1>8, <1>9
<1> QED BY <1>0, <1>8, <1>10 DEF r

\* What AcquireMulti works with after the clean-up, whatever list it was given:
\* every queue of the list once, and no nil.  (Twice the same queue, and the call
\* would wait for a slot it holds itself.)
THEOREM ListCleaned ==
    ASSUME NEW X, NEW given \in Seq(X)
    PROVE  LET r == Dedup(DropNil(given))
           IN  /\ r \in Seq(X)
               /\ \A j, k \in 1 .. Len(r) : r[j] = r[k] => j = k
               /\ ToSet(r) = ToSet(given) \ {Nil}
<1> DEFINE d == DropNil(given)
           r == Dedup(d)
<1>1. d \in Seq(X) /\ ToSet(d) = ToSet(given) \ {Nil}
  BY DropNilFacts
<1> HIDE DEF d
<1>2. r \in Seq(X) /\ DistinctFrom(r, 1) /\ ToSet(r) = ToSet(d)
  BY <1>1, DedupFacts
<1> HIDE DEF r
<1> QED BY <1>1, <1>2 DEF DistinctFrom, r, d
-----------------------------------------------------------------------------
(* The callers and their queues.                                           *)

\* How far a caller is, and which of its release functions it therefore has.
CallerOK(p) ==
    /\ \A j, k \in 1 .. Len(list[p]) : list[p][j] = list[p][k] => j = k
    /\ pc[p] # "idle" => ToSet(list[p]) = ToSet(Args[p]) \ {Nil} /\ lockI[p] \in 1 .. Len(list[p])
    /\ done[p] \subseteq 1 .. Len(list[p])
    /\ pc[p] \in {"idle", "lock", "waiting", "missing"} => done[p] = {}
    /\ pc[p] = "try" => /\ i[p] \in 1 .. (Len(list[p]) + 1)
                        /\ done[p] = {lockI[p]} \cup 1 .. (i[p] - 1)
    /\ pc[p] = "undo" => /\ i[p] \in 1 .. Len(list[p]) /\ i[p] # lockI[p]
                         /\ done[p] \subseteq {lockI[p]} \cup 1 .. (i[p] - 1)
    /\ pc[p] = "held" => done[p] = 1 .. Len(list[p])

\* Where p is in queue k.
PlaceOK(p, k) ==
    /\ p \in q[k].active => k \in Holds(p) \cup Wants(p)
    /\ k \in Holds(p) => p \in q[k].active
    /\ p \in QueuedSet(q[k]) => pc[p] = "waiting" /\ Cur(p) = k

IInv ==
    /\ TypeOK
    /\ \A k \in Queues : Sound(q[k])
    /\ \A p \in Entry : CallerOK(p)
    /\ \A p \in Entry, k \in Queues : PlaceOK(p, k)
-----------------------------------------------------------------------------
LEMMA MaxIn ==
    ASSUME NEW n \in Nat, NEW S \in SUBSET (1 .. n), S # {}
    PROVE  Max(S) \in S
<1> DEFINE T == {n - x : x \in S}
<1>0. \A x \in S : x \in Nat /\ n - x \in Nat
  OBVIOUS
<1>1. T \in SUBSET Nat /\ T # {}
  BY <1>0
<1>2. PICK y \in T : \A z \in T : y <= z
  BY <1>1, LeastElement
<1>3. PICK x \in S : y = n - x
  OBVIOUS
<1>4. ASSUME NEW z \in S PROVE x >= z
  <2>1. n - x <= n - z
    BY <1>2, <1>3
  <2> QED BY <1>0, <2>1
<1>5. Max(S) = CHOOSE m \in S : \A z \in S : m >= z
  BY DEF Max
<1> QED BY <1>4, <1>5

\* The other callers do not notice what p does to a queue, but for a slot they are
\* handed while they wait for it, or a place in the queue they lose.
Others(p) ==
    \A e \in Entry \ {p} : /\ pc'[e] = pc[e] /\ list'[e] = list[e] /\ lockI'[e] = lockI[e]
                           /\ i'[e] = i[e] /\ done'[e] = done[e]

LEMMA OthersKept ==
    ASSUME IInv, NEW p \in Entry, Others(p), NEW e \in Entry \ {p}
    PROVE  CallerOK(e)' /\ Holds(e)' = Holds(e) /\ Wants(e)' = Wants(e) /\ Cur(e)' = Cur(e)
<1>1. /\ pc'[e] = pc[e] /\ list'[e] = list[e] /\ lockI'[e] = lockI[e]
      /\ i'[e] = i[e] /\ done'[e] = done[e]
  BY DEF Others
<1>2. CallerOK(e)'
  <2>1. CallerOK(e)
    BY DEF IInv
  <2> QED BY <1>1, <2>1, Zenon DEF CallerOK
<1>3. Cur(e)' = Cur(e) /\ Holds(e)' = Holds(e)
  BY <1>1 DEF Holds, Cur
<1>4. Wants(e)' = Wants(e)
  BY <1>1, <1>3 DEF Wants
<1> QED BY <1>2, <1>3, <1>4

\* p changes its own state only.
LEMMA LocalStep ==
    ASSUME IInv, NEW p \in Entry, Others(p), UNCHANGED q, TypeOK', CallerOK(p)',
           \A k \in Queues : PlaceOK(p, k)'
    PROVE  IInv'
<1>1. ASSUME NEW e \in Entry \ {p}, NEW k \in Queues PROVE PlaceOK(e, k)'
  <2>1. q' = q /\ PlaceOK(e, k) /\ pc'[e] = pc[e]
    BY DEF IInv, Others
  <2> QED BY <2>1, OthersKept DEF PlaceOK
<1>2. \A k \in Queues : Sound(q[k])'
  BY DEF IInv
<1> QED BY <1>1, <1>2, OthersKept DEF IInv

\* p changes the queue k0 into nq, in the way every critical section does.
LEMMA QueueStep ==
    ASSUME IInv, NEW p \in Entry, Others(p), NEW k0 \in Queues, NEW nq \in Queue, Sound(nq),
           q' = [q EXCEPT ![k0] = nq], TypeOK', CallerOK(p)',
           \A k \in Queues : PlaceOK(p, k)',
           nq.active \ {p} \subseteq q[k0].active \cup QueuedSet(q[k0]),
           q[k0].active \ {p} \subseteq nq.active,
           QueuedSet(nq) \ {p} \subseteq QueuedSet(q[k0])
    PROVE  IInv'
<1>1. q'[k0] = nq /\ \A k \in Queues \ {k0} : q'[k] = q[k]
  BY DEF IInv, TypeOK
<1>2. ASSUME NEW e \in Entry \ {p}, NEW k \in Queues PROVE PlaceOK(e, k)'
  <2>1. /\ PlaceOK(e, k) /\ pc'[e] = pc[e]
        /\ Holds(e)' = Holds(e) /\ Wants(e)' = Wants(e) /\ Cur(e)' = Cur(e)
    BY OthersKept DEF IInv, Others
  <2>2. CASE k # k0
    BY <1>1, <2>1, <2>2 DEF PlaceOK, QueuedSet
  <2>3. CASE k = k0
    <3>1. /\ e \in nq.active => e \in q[k].active \/ e \in QueuedSet(q[k])
          /\ e \in q[k].active => e \in nq.active
          /\ e \in QueuedSet(nq) => e \in QueuedSet(q[k])
          /\ q'[k] = nq
      BY <1>1, <2>3
    <3>2. e \in QueuedSet(q[k]) => k \in Wants(e)
      BY <2>1 DEF PlaceOK, Wants
    <3>3. QueuedSet(q[k])' = QueuedSet(nq)
      BY <3>1 DEF QueuedSet
    <3> QED BY <2>1, <3>1, <3>2, <3>3 DEF PlaceOK
  <2> QED BY <2>2, <2>3
<1>3. ASSUME NEW k \in Queues PROVE Sound(q[k])'
  <2>1. CASE k # k0
    BY <1>1, <2>1 DEF IInv, Sound, Bounded, Conserving, Distinct
  <2>2. CASE k = k0
    BY <1>1, <2>2 DEF Sound, Bounded, Conserving, Distinct
  <2> QED BY <2>1, <2>2
<1> QED BY <1>2, <1>3, OthersKept DEF IInv

\* What p has of a queue, read off where p is.
LEMMA Place ==
    ASSUME IInv, NEW p \in Entry
    PROVE  /\ pc[p] # "waiting" => \A k \in Queues : p \notin QueuedSet(q[k])
           /\ pc[p] \in {"idle", "lock"} => \A k \in Queues : p \notin q[k].active
           /\ pc[p] \in {"waiting", "missing"} =>
                \A k \in Queues \ {Cur(p)} : p \notin q[k].active
           /\ pc[p] # "idle" => Cur(p) \in Queues
           /\ \A n \in 1 .. Len(list[p]) : list[p][n] \in Queues
<1>1. \A k \in Queues : PlaceOK(p, k)
  BY DEF IInv
<1>2. pc[p] \in {"idle", "lock", "waiting", "missing"} => Holds(p) = {}
  BY DEF IInv, CallerOK, Holds
<1>3. list[p] \in Seq(Queues) /\ \A n \in 1 .. Len(list[p]) : list[p][n] \in Queues
  BY DEF IInv, TypeOK
<1>4. pc[p] # "idle" => Cur(p) \in Queues
  BY <1>3 DEF IInv, CallerOK, Cur
<1> QED BY <1>1, <1>2, <1>3, <1>4 DEF PlaceOK, Wants

LEMMA BeginIInv ==
    ASSUME IInv, NEW p \in Entry, Begin(p)
    PROVE  IInv'
<1> DEFINE l == Dedup(DropNil(Args[p]))
<1>1. /\ l \in Seq(Queues)
      /\ \A j, k \in 1 .. Len(l) : l[j] = l[k] => j = k
      /\ ToSet(l) = ToSet(Args[p]) \ {Nil}
  <2>1. /\ l \in Seq(Queues \cup {Nil})
        /\ \A j, k \in 1 .. Len(l) : l[j] = l[k] => j = k
        /\ ToSet(l) = ToSet(Args[p]) \ {Nil}
    BY ArgsAssumption, ListCleaned
  <2> HIDE DEF l
  <2>2. \A n \in 1 .. Len(l) : l[n] \in Queues
    <3>1. \A n \in 1 .. Len(l) : l[n] \in Queues \cup {Nil} /\ l[n] \in ToSet(l)
      BY <2>1 DEF ToSet
    <3> QED BY <2>1, <3>1
  <2> QED BY <2>1, <2>2
<1>2. /\ pc[p] = "idle" /\ l # <<>> /\ list' = [list EXCEPT ![p] = l]
      /\ lockI' = [lockI EXCEPT ![p] = 1] /\ pc' = [pc EXCEPT ![p] = "lock"]
      /\ UNCHANGED <<q, i, done, ctx>>
  BY DEF Begin, Set
<1> HIDE DEF l
<1>3. TypeOK' /\ Others(p) /\ list'[p] = l /\ lockI'[p] = 1 /\ pc'[p] = "lock" /\ done'[p] = {}
  BY <1>1, <1>2 DEF IInv, TypeOK, Others, CallerOK, PC
<1>4. CallerOK(p)'
  <2>1. 1 \in 1 .. Len(l)
    BY <1>1, <1>2, EmptySeq
  <2> QED BY <1>1, <1>3, <2>1 DEF CallerOK
<1>5. \A k \in Queues : PlaceOK(p, k)'
  BY <1>2, <1>3, Place DEF PlaceOK, Holds, Wants, QueuedSet
<1> QED BY <1>2, <1>3, <1>4, <1>5, LocalStep

LEMMA CancelContextIInv ==
    ASSUME IInv, NEW p \in Entry, CancelContext(p)
    PROVE  IInv'
<1>1. UNCHANGED <<q, pc, list, lockI, i, done>> /\ ctx' \in [Entry -> BOOLEAN]
  BY DEF CancelContext, Set, IInv, TypeOK
<1>2. TypeOK' /\ Others(p) /\ CallerOK(p)'
  BY <1>1 DEF IInv, TypeOK, Others, CallerOK
<1>3. \A k \in Queues : PlaceOK(p, k)'
  BY <1>1 DEF IInv, PlaceOK, Holds, Wants, Cur, QueuedSet
<1> QED BY <1>1, <1>2, <1>3, LocalStep

\* Acquire succeeded, at once or after a wait.
LEMMA LockedFacts ==
    ASSUME IInv, NEW p \in Entry, pc[p] # "idle", Locked(p), UNCHANGED <<list, lockI, ctx>>,
           q' \in [Queues -> Queue]
    PROVE  /\ TypeOK' /\ Others(p) /\ CallerOK(p)'
           /\ Holds(p)' = {Cur(p)} /\ Wants(p)' = {} /\ pc'[p] = "try"
<1>1. /\ pc'[p] = "try" /\ i'[p] = 1 /\ done'[p] = {lockI[p]} /\ Others(p)
      /\ list'[p] = list[p] /\ lockI'[p] = lockI[p] /\ lockI[p] \in 1 .. Len(list[p])
  BY DEF IInv, TypeOK, CallerOK, Locked, Set, Others
<1>2. TypeOK'
  BY DEF IInv, TypeOK, Locked, Set, PC
<1>3. CallerOK(p)'
  BY <1>1 DEF IInv, TypeOK, CallerOK
<1>4. Holds(p)' = {Cur(p)} /\ Wants(p)' = {}
  BY <1>1 DEF Holds, Wants, Cur
<1> QED BY <1>1, <1>2, <1>3, <1>4

LEMMA LockNowIInv ==
    ASSUME IInv, NEW p \in Entry, LockNow(p)
    PROVE  IInv'
<1> DEFINE k0 == Cur(p)
           nq == Enter(q[k0], p)
<1>1. /\ pc[p] = "lock" /\ HasRoom(q[k0]) /\ q' = [q EXCEPT ![k0] = nq]
      /\ Locked(p) /\ UNCHANGED <<list, lockI, ctx>>
  BY DEF LockNow
<1>2. k0 \in Queues /\ q[k0] \in Queue /\ Sound(q[k0]) /\ p \notin q[k0].active
  BY <1>1, Place DEF IInv, TypeOK
<1>3. /\ nq \in Queue /\ Sound(nq) /\ nq.queued = <<>> /\ nq.active = q[k0].active \cup {p}
  BY <1>1, <1>2, EnterSound DEF Enter, Queue
<1>4. QueuedSet(nq) = {}
  BY <1>3 DEF QueuedSet
<1> HIDE DEF nq
<1>5. q' \in [Queues -> Queue] /\ q'[k0] = nq /\ \A k \in Queues \ {k0} : q'[k] = q[k]
  BY <1>1, <1>2, <1>3 DEF IInv, TypeOK
<1>6. /\ TypeOK' /\ Others(p) /\ CallerOK(p)'
      /\ Holds(p)' = {k0} /\ Wants(p)' = {} /\ pc'[p] = "try"
  BY <1>1, <1>5, LockedFacts
<1>7. ASSUME NEW k \in Queues PROVE PlaceOK(p, k)'
  <2>1. CASE k = k0
    BY <1>3, <1>4, <1>5, <1>6, <2>1 DEF PlaceOK, QueuedSet
  <2>2. CASE k # k0
    BY <1>1, <1>5, <1>6, <2>2, Place DEF PlaceOK, QueuedSet
  <2> QED BY <2>1, <2>2
<1> HIDE DEF k0
<1> QED BY <1>1, <1>2, <1>3, <1>4, <1>6, <1>7, QueueStep

LEMMA LockWaitIInv ==
    ASSUME IInv, NEW p \in Entry, LockWait(p)
    PROVE  IInv'
<1> DEFINE k0 == Cur(p)
           nq == Enqueue(q[k0], p)
<1>1. /\ pc[p] = "lock" /\ ~HasRoom(q[k0]) /\ q' = [q EXCEPT ![k0] = nq]
      /\ pc' = [pc EXCEPT ![p] = "waiting"] /\ UNCHANGED <<list, lockI, i, done, ctx>>
  BY DEF LockWait, Set
<1>2. k0 \in Queues /\ q[k0] \in Queue /\ Sound(q[k0]) /\ p \notin q[k0].active /\ p \notin QueuedSet(q[k0])
  BY <1>1, Place DEF IInv, TypeOK
<1>3. /\ nq \in Queue /\ Sound(nq) /\ nq.active = q[k0].active
      /\ QueuedSet(nq) = QueuedSet(q[k0]) \cup {p}
  BY <1>1, <1>2, EnqueueSound
<1> HIDE DEF nq
<1>4. q' \in [Queues -> Queue] /\ q'[k0] = nq /\ \A k \in Queues \ {k0} : q'[k] = q[k]
  BY <1>1, <1>2, <1>3 DEF IInv, TypeOK
<1>5. TypeOK' /\ Others(p) /\ pc'[p] = "waiting"
  BY <1>1, <1>4 DEF IInv, TypeOK, Others, PC
<1>6. CallerOK(p)' /\ Holds(p)' = Holds(p) /\ Cur(p)' = k0
  <2>1. CallerOK(p)'
    BY ZenonT(60), <1>1, <1>5 DEF IInv, CallerOK
  <2>2. Holds(p)' = Holds(p) /\ Cur(p)' = k0
    BY <1>1 DEF Holds, Cur
  <2> QED BY <2>1, <2>2
<1>7. ASSUME NEW k \in Queues PROVE PlaceOK(p, k)'
  <2>1. PlaceOK(p, k) /\ p \notin q[k].active /\ p \notin QueuedSet(q[k])
    BY <1>1, Place DEF IInv
  <2>2. CASE k = k0
    BY <1>2, <1>3, <1>4, <1>5, <1>6, <2>1, <2>2 DEF PlaceOK, QueuedSet, Wants
  <2>3. CASE k # k0
    BY <1>4, <1>5, <1>6, <2>1, <2>3 DEF PlaceOK, QueuedSet
  <2> QED BY <2>2, <2>3
<1> HIDE DEF k0
<1> QED BY <1>1, <1>2, <1>3, <1>5, <1>6, <1>7, QueueStep

LEMMA GrantedIInv ==
    ASSUME IInv, NEW p \in Entry, Granted(p)
    PROVE  IInv'
<1>1. /\ pc[p] = "waiting" /\ p \in q[Cur(p)].active
      /\ Locked(p) /\ UNCHANGED <<q, list, lockI, ctx>>
  BY DEF Granted
<1>2. q' \in [Queues -> Queue]
  BY <1>1 DEF IInv, TypeOK
<1>3. /\ TypeOK' /\ Others(p) /\ CallerOK(p)'
      /\ Holds(p)' = {Cur(p)} /\ Wants(p)' = {} /\ pc'[p] = "try"
  BY <1>1, <1>2, LockedFacts
<1>4. ASSUME NEW k \in Queues PROVE PlaceOK(p, k)'
  <2>1. q'[k] = q[k] /\ Sound(q[k]) /\ PlaceOK(p, k)
    BY <1>1 DEF IInv
  <2>2. p \in QueuedSet(q[k]) => p \notin q[k].active
    BY <2>1 DEF Sound, Distinct, QueuedSet
  <2>3. k # Cur(p) => p \notin q[k].active
    BY <1>1, Place
  <2> QED BY <1>1, <1>3, <2>1, <2>2, <2>3 DEF PlaceOK, QueuedSet
<1> QED BY <1>1, <1>3, <1>4, LocalStep

\* Acquire failed: AcquireMulti returns and holds nothing.
LEMMA FailFacts ==
    ASSUME IInv, NEW p \in Entry, Fail(p), q' \in [Queues -> Queue], pc[p] \in {"waiting", "missing"}
    PROVE  /\ TypeOK' /\ Others(p) /\ CallerOK(p)'
           /\ Holds(p)' = {} /\ Wants(p)' = {} /\ pc'[p] = "idle"
<1>1. /\ pc'[p] = "idle" /\ Others(p) /\ done'[p] = {} /\ list'[p] = list[p]
  BY DEF IInv, TypeOK, CallerOK, Fail, Set, Others
<1>2. TypeOK'
  BY DEF IInv, TypeOK, Fail, Set, PC
<1>3. CallerOK(p)'
  BY <1>1 DEF IInv, CallerOK
<1>4. Holds(p)' = {} /\ Wants(p)' = {}
  BY <1>1 DEF Holds, Wants
<1> QED BY <1>1, <1>2, <1>3, <1>4

LEMMA AbortQueuedIInv ==
    ASSUME IInv, NEW p \in Entry, AbortQueued(p)
    PROVE  IInv'
<1> DEFINE k0 == Cur(p)
           nq == DropQueued(q[k0], p)
<1>1. /\ pc[p] = "waiting" /\ p \in QueuedSet(q[k0]) /\ q' = [q EXCEPT ![k0] = nq] /\ Fail(p)
  BY DEF AbortQueued
<1>2. k0 \in Queues /\ q[k0] \in Queue /\ Sound(q[k0])
  BY <1>1, Place DEF IInv, TypeOK
<1>3. /\ nq \in Queue /\ Sound(nq) /\ nq.active = q[k0].active
      /\ QueuedSet(nq) \subseteq QueuedSet(q[k0]) \ {p}
  BY <1>1, <1>2, DropQueuedSound
<1> HIDE DEF nq
<1>4. q' \in [Queues -> Queue] /\ q'[k0] = nq /\ \A k \in Queues \ {k0} : q'[k] = q[k]
  BY <1>1, <1>2, <1>3 DEF IInv, TypeOK
<1>5. /\ TypeOK' /\ Others(p) /\ CallerOK(p)'
      /\ Holds(p)' = {} /\ Wants(p)' = {} /\ pc'[p] = "idle"
  BY <1>1, <1>4, FailFacts
<1>6. ASSUME NEW k \in Queues PROVE p \notin q'[k].active /\ p \notin QueuedSet(q'[k])
  <2>1. CASE k = k0
    <3>1. p \notin q[k0].active
      BY <1>1, <1>2 DEF Sound, Distinct, QueuedSet
    <3> QED BY <1>3, <1>4, <2>1, <3>1
  <2>2. CASE k # k0
    <3>1. PlaceOK(p, k)
      BY DEF IInv
    <3> QED BY <1>1, <1>4, <2>2, <3>1, Place DEF PlaceOK
  <2> QED BY <2>1, <2>2
<1>7. \A k \in Queues : PlaceOK(p, k)'
  BY <1>5, <1>6 DEF PlaceOK, QueuedSet
<1> HIDE DEF k0
<1> QED BY <1>1, <1>2, <1>3, <1>5, <1>7, QueueStep

LEMMA AbortMissingIInv ==
    ASSUME IInv, NEW p \in Entry, AbortMissing(p)
    PROVE  IInv'
<1>1. /\ pc[p] = "waiting" /\ p \notin QueuedSet(q[Cur(p)])
      /\ pc' = [pc EXCEPT ![p] = "missing"] /\ UNCHANGED <<q, list, lockI, i, done, ctx>>
  BY DEF AbortMissing, Set
<1>2. TypeOK' /\ Others(p) /\ CallerOK(p)' /\ pc'[p] = "missing"
  <2>1. TypeOK' /\ Others(p) /\ pc'[p] = "missing"
    BY <1>1 DEF IInv, TypeOK, Others, PC
  <2> QED BY <1>1, <2>1 DEF IInv, CallerOK
<1>3. Holds(p)' = Holds(p) /\ Cur(p)' = Cur(p)
  BY <1>1 DEF Holds, Cur
<1>4. ASSUME NEW k \in Queues PROVE PlaceOK(p, k)'
  <2>1. PlaceOK(p, k) /\ q'[k] = q[k]
    BY <1>1 DEF IInv
  <2> QED BY <1>1, <1>2, <1>3, <2>1 DEF PlaceOK, Wants, QueuedSet
<1> QED BY <1>1, <1>2, <1>4, LocalStep

\* A release of a slot p has, or had: nobody else loses one, and the one that may
\* get it waits for it.
LEMMA ReleaseStep ==
    ASSUME IInv, NEW p \in Entry, NEW k0 \in Queues, pc[p] # "waiting",
           q' = [q EXCEPT ![k0] = Release(@, p)]
    PROVE  /\ q' \in [Queues -> Queue] /\ Sound(q'[k0])
           /\ q'[k0].active \ {p} \subseteq q[k0].active \cup QueuedSet(q[k0])
           /\ q[k0].active \ {p} \subseteq q'[k0].active
           /\ QueuedSet(q'[k0]) \subseteq QueuedSet(q[k0])
           /\ p \notin q'[k0].active
           /\ \A k \in Queues \ {k0} : q'[k] = q[k]
           /\ \A k \in Queues : p \notin QueuedSet(q'[k])
           /\ q' = [q EXCEPT ![k0] = q'[k0]] /\ q'[k0] \in Queue
<1> DEFINE nq == Release(q[k0], p)
<1>1. q[k0] \in Queue /\ Sound(q[k0]) /\ p \notin QueuedSet(q[k0])
  BY Place DEF IInv, TypeOK
<1>2. /\ nq \in Queue
      /\ Sound(nq)
      /\ p \notin nq.active
      /\ q[k0].active \ {p} \subseteq nq.active
      /\ nq.active \subseteq q[k0].active \cup QueuedSet(q[k0])
      /\ QueuedSet(nq) = QueuedSet(q[k0]) \ nq.active
  BY <1>1, ReleaseSound
<1>3. q' = [q EXCEPT ![k0] = nq]
  OBVIOUS
<1> HIDE DEF nq
<1>4. q' \in [Queues -> Queue] /\ q'[k0] = nq /\ \A k \in Queues \ {k0} : q'[k] = q[k]
  BY <1>2, <1>3 DEF IInv, TypeOK
<1>5. ASSUME NEW k \in Queues PROVE p \notin QueuedSet(q'[k])
  <2>1. p \notin QueuedSet(q[k])
    BY Place
  <2> QED BY <1>2, <1>4, <2>1
<1> QED BY <1>2, <1>3, <1>4, <1>5

LEMMA ReleaseMissingIInv ==
    ASSUME IInv, NEW p \in Entry, ReleaseMissing(p)
    PROVE  IInv'
<1> DEFINE k0 == Cur(p)
<1>1. pc[p] = "missing" /\ q' = [q EXCEPT ![k0] = Release(@, p)] /\ Fail(p)
  BY DEF ReleaseMissing
<1>2. k0 \in Queues
  BY <1>1, Place
<1>3. /\ q' \in [Queues -> Queue] /\ Sound(q'[k0])
      /\ q'[k0].active \ {p} \subseteq q[k0].active \cup QueuedSet(q[k0])
      /\ q[k0].active \ {p} \subseteq q'[k0].active
      /\ QueuedSet(q'[k0]) \subseteq QueuedSet(q[k0])
      /\ p \notin q'[k0].active
      /\ \A k \in Queues \ {k0} : q'[k] = q[k]
      /\ \A k \in Queues : p \notin QueuedSet(q'[k])
      /\ q' = [q EXCEPT ![k0] = q'[k0]] /\ q'[k0] \in Queue
  BY <1>1, <1>2, ReleaseStep
<1>4. /\ TypeOK' /\ Others(p) /\ CallerOK(p)'
      /\ Holds(p)' = {} /\ Wants(p)' = {} /\ pc'[p] = "idle"
  BY <1>1, <1>3, FailFacts
<1>5. ASSUME NEW k \in Queues PROVE PlaceOK(p, k)'
  <2>1. p \notin q'[k].active
    BY <1>1, <1>3, Place
  <2> QED BY <1>3, <1>4, <2>1 DEF PlaceOK, QueuedSet
<1> HIDE DEF k0
<1> DEFINE nq == q'[k0]
<1>6. /\ nq \in Queue /\ Sound(nq) /\ q' = [q EXCEPT ![k0] = nq]
      /\ nq.active \ {p} \subseteq q[k0].active \cup QueuedSet(q[k0])
      /\ q[k0].active \ {p} \subseteq nq.active
      /\ QueuedSet(nq) \ {p} \subseteq QueuedSet(q[k0])
  BY <1>3
<1> HIDE DEF nq
<1> QED BY <1>2, <1>4, <1>5, <1>6, QueueStep

\* p goes on to where it has the same release functions, and no wait.
LEMMA MoveOn ==
    ASSUME IInv, NEW p \in Entry, NEW to \in {"try", "undo", "held", "cleanup"},
           pc[p] \in {"try", "undo", "held", "cleanup"}, pc' = [pc EXCEPT ![p] = to],
           UNCHANGED <<q, list, done>>, TypeOK', Others(p), CallerOK(p)'
    PROVE  IInv'
<1>1. Holds(p)' = Holds(p) /\ Wants(p)' = {} /\ Wants(p) = {} /\ pc'[p] = to
  BY DEF Holds, Wants, IInv, TypeOK
<1>2. ASSUME NEW k \in Queues PROVE PlaceOK(p, k)'
  <2>1. PlaceOK(p, k) /\ q'[k] = q[k]
    BY DEF IInv
  <2> QED BY <1>1, <2>1 DEF PlaceOK, QueuedSet
<1> QED BY <1>2, LocalStep

LEMMA TryIInv ==
    ASSUME IInv, NEW p \in Entry, Try(p)
    PROVE  IInv'
<1>0. /\ pc[p] = "try" /\ i[p] <= Len(list[p]) /\ UNCHANGED <<list, lockI, ctx>>
  BY DEF Try
<1>1. /\ i[p] \in 1 .. Len(list[p]) /\ done[p] = {lockI[p]} \cup 1 .. (i[p] - 1)
      /\ lockI[p] \in 1 .. Len(list[p]) /\ list[p] \in Seq(Queues) /\ Len(list[p]) \in Nat
      /\ \A j, k \in 1 .. Len(list[p]) : list[p][j] = list[p][k] => j = k
      /\ ToSet(list[p]) = ToSet(Args[p]) \ {Nil}
  <2>1. list[p] \in Seq(Queues) /\ Len(list[p]) \in Nat
    BY DEF IInv, TypeOK
  <2>2. /\ i[p] \in 1 .. (Len(list[p]) + 1) /\ done[p] = {lockI[p]} \cup 1 .. (i[p] - 1)
        /\ lockI[p] \in 1 .. Len(list[p])
        /\ \A j, k \in 1 .. Len(list[p]) : list[p][j] = list[p][k] => j = k
        /\ ToSet(list[p]) = ToSet(Args[p]) \ {Nil}
    BY <1>0 DEF IInv, CallerOK
  <2>3. i[p] \in 1 .. Len(list[p])
    BY <1>0, <2>1, <2>2
  <2> QED BY <2>1, <2>2, <2>3
<1> DEFINE k0 == list[p][i[p]]
<1>2. CASE i[p] = lockI[p] /\ i' = Set(i, p, i[p] + 1) /\ UNCHANGED <<q, pc, done>>
  <2>1. TypeOK' /\ Others(p) /\ i'[p] = i[p] + 1 /\ pc' = [pc EXCEPT ![p] = "try"]
    BY <1>0, <1>1, <1>2 DEF IInv, TypeOK, Others, Set
  <2>2. CallerOK(p)'
    BY <1>0, <1>1, <1>2, <2>1 DEF IInv, CallerOK
  <2> QED BY <1>0, <1>2, <2>1, <2>2, MoveOn
<1>3. CASE /\ i[p] # lockI[p] /\ ~HasRoom(q[k0]) /\ pc' = Set(pc, p, "undo")
           /\ UNCHANGED <<q, i, done>>
  <2>1. TypeOK' /\ Others(p) /\ pc' = [pc EXCEPT ![p] = "undo"] /\ pc'[p] = "undo"
    BY <1>0, <1>3 DEF IInv, TypeOK, Others, Set, PC
  <2>2. CallerOK(p)'
    BY <1>0, <1>1, <1>3, <2>1 DEF IInv, CallerOK
  <2> QED BY <1>0, <1>3, <2>1, <2>2, MoveOn
<1>4. CASE /\ i[p] # lockI[p] /\ HasRoom(q[k0])
           /\ q' = [q EXCEPT ![k0] = Enter(@, p)]
           /\ done' = Set(done, p, done[p] \cup {i[p]})
           /\ i' = Set(i, p, i[p] + 1)
           /\ UNCHANGED pc
  <2> DEFINE nq == Enter(q[k0], p)
  <2>1. k0 \in Queues /\ k0 \notin Holds(p)
    BY SMTT(30), <1>1, <1>4 DEF Holds
  <2>2. /\ q[k0] \in Queue /\ Sound(q[k0]) /\ PlaceOK(p, k0) /\ p \notin q[k0].active
    BY <1>0, <2>1 DEF IInv, TypeOK, PlaceOK, Wants
  <2>3. /\ nq \in Queue /\ Sound(nq) /\ nq.queued = <<>> /\ nq.active = q[k0].active \cup {p}
    BY <1>4, <2>2, EnterSound DEF Enter, Queue
  <2>4. QueuedSet(nq) = {} /\ q' = [q EXCEPT ![k0] = nq]
    BY <1>4, <2>3 DEF QueuedSet
  <2> HIDE DEF nq
  <2>5. q' \in [Queues -> Queue] /\ q'[k0] = nq /\ \A k \in Queues \ {k0} : q'[k] = q[k]
    BY <2>1, <2>3, <2>4 DEF IInv, TypeOK
  <2>6. /\ TypeOK' /\ Others(p) /\ i'[p] = i[p] + 1 /\ done'[p] = done[p] \cup {i[p]}
        /\ pc'[p] = "try"
    BY <1>0, <1>1, <1>4, <2>5 DEF IInv, TypeOK, Others, Set
  <2>7. CallerOK(p)'
    <3>1. done'[p] = {lockI[p]} \cup 1 .. (i[p] + 1 - 1) /\ done'[p] \subseteq 1 .. Len(list[p])
      BY <1>1, <2>6
    <3> QED BY <1>0, <1>1, <2>6, <3>1 DEF CallerOK
  <2>8. Holds(p)' = Holds(p) \cup {k0} /\ Wants(p)' = {}
    <3>1. list'[p] = list[p]
      BY <1>0
    <3> QED BY <2>6, <3>1 DEF Holds, Wants
  <2>9. ASSUME NEW k \in Queues PROVE PlaceOK(p, k)'
    <3>1. PlaceOK(p, k) /\ Wants(p) = {}
      BY <1>0 DEF IInv, Wants
    <3>2. CASE k = k0
      BY <2>3, <2>4, <2>5, <2>8, <3>2 DEF PlaceOK, QueuedSet
    <3>3. CASE k # k0
      BY <1>0, <2>5, <2>6, <2>8, <3>1, <3>3 DEF PlaceOK, QueuedSet
    <3> QED BY <3>2, <3>3
  <2> HIDE DEF k0
  <2> QED BY <2>1, <2>3, <2>4, <2>6, <2>7, <2>9, QueueStep
<1> QED BY <1>0, <1>2, <1>3, <1>4 DEF Try

LEMMA AllAcquiredIInv ==
    ASSUME IInv, NEW p \in Entry, AllAcquired(p)
    PROVE  IInv'
<1>1. /\ pc[p] = "try" /\ i[p] > Len(list[p]) /\ pc' = [pc EXCEPT ![p] = "held"]
      /\ UNCHANGED <<q, list, lockI, i, done, ctx>>
  BY DEF AllAcquired, Set
<1>2. TypeOK' /\ Others(p) /\ pc'[p] = "held"
  BY <1>1 DEF IInv, TypeOK, Others, PC
<1>3. done[p] = 1 .. Len(list[p])
  <2>1. /\ Len(list[p]) \in Nat /\ i[p] \in 1 .. (Len(list[p]) + 1)
        /\ done[p] = {lockI[p]} \cup 1 .. (i[p] - 1) /\ lockI[p] \in 1 .. Len(list[p])
    BY <1>1 DEF IInv, TypeOK, CallerOK
  <2>2. i[p] - 1 = Len(list[p])
    BY <1>1, <2>1
  <2> QED BY <2>1, <2>2
<1>4. CallerOK(p)'
  BY <1>1, <1>2, <1>3 DEF IInv, CallerOK
<1> QED BY <1>1, <1>2, <1>4, MoveOn

\* One release function of p is called.
LEMMA GiveBack ==
    ASSUME IInv, NEW p \in Entry, pc[p] \in {"undo", "cleanup"}, NEW n \in done[p],
           q' = [q EXCEPT ![list[p][n]] = Release(@, p)],
           done' = [done EXCEPT ![p] = done[p] \ {n}], UNCHANGED <<pc, list, lockI, i, ctx>>
    PROVE  IInv'
<1> DEFINE k0 == list[p][n]
           nq == q'[k0]
<1>1. /\ done[p] \subseteq 1 .. Len(list[p]) /\ n \in 1 .. Len(list[p])
      /\ \A j, k \in 1 .. Len(list[p]) : list[p][j] = list[p][k] => j = k
  BY DEF IInv, CallerOK
<1>2. k0 \in Queues
  BY <1>1, Place
<1>3. /\ q' \in [Queues -> Queue] /\ Sound(nq) /\ nq \in Queue /\ q' = [q EXCEPT ![k0] = nq]
      /\ nq.active \ {p} \subseteq q[k0].active \cup QueuedSet(q[k0])
      /\ q[k0].active \ {p} \subseteq nq.active
      /\ QueuedSet(nq) \subseteq QueuedSet(q[k0])
      /\ p \notin nq.active
      /\ \A k \in Queues \ {k0} : q'[k] = q[k]
      /\ \A k \in Queues : p \notin QueuedSet(q'[k])
  BY ZenonT(60), <1>2, ReleaseStep
<1>4. /\ TypeOK' /\ Others(p) /\ done'[p] = done[p] \ {n} /\ list'[p] = list[p] /\ pc'[p] = pc[p]
  BY <1>3 DEF IInv, TypeOK, Others
<1>5. CallerOK(p)'
  BY <1>1, <1>4 DEF IInv, CallerOK
<1>6. Holds(p)' = Holds(p) \ {k0} /\ Wants(p)' = {} /\ Wants(p) = {}
  BY <1>1, <1>4 DEF Holds, Wants
<1>7. ASSUME NEW k \in Queues PROVE PlaceOK(p, k)'
  <2>1. PlaceOK(p, k)
    BY DEF IInv
  <2>2. CASE k = k0
    BY <1>3, <1>6, <2>2 DEF PlaceOK, QueuedSet
  <2>3. CASE k # k0
    BY <1>3, <1>6, <2>1, <2>3 DEF PlaceOK, QueuedSet
  <2> QED BY <2>2, <2>3
<1>8. QueuedSet(nq) \ {p} \subseteq QueuedSet(q[k0])
  BY <1>3
<1> HIDE DEF k0, nq
<1> QED BY <1>2, <1>3, <1>4, <1>5, <1>7, <1>8, QueueStep

LEMMA UndoIInv ==
    ASSUME IInv, NEW p \in Entry, Undo(p)
    PROVE  IInv'
<1>1. Len(list[p]) \in Nat /\ UndoList(p) \in SUBSET (1 .. Len(list[p])) /\ UndoList(p) \subseteq done[p]
  BY DEF IInv, TypeOK, CallerOK, UndoList
<1>2. Max(UndoList(p)) \in done[p]
  BY <1>1, MaxIn DEF Undo
<1> DEFINE n == Max(UndoList(p))
<1>3. /\ pc[p] = "undo" /\ q' = [q EXCEPT ![list[p][n]] = Release(@, p)]
      /\ done' = [done EXCEPT ![p] = done[p] \ {n}] /\ UNCHANGED <<pc, list, lockI, i, ctx>>
  BY DEF Undo, Set
<1> HIDE DEF n
<1> QED BY <1>2, <1>3, GiveBack DEF n

LEMMA CleanupOneIInv ==
    ASSUME IInv, NEW p \in Entry, CleanupOne(p)
    PROVE  IInv'
<1>1. Len(list[p]) \in Nat /\ done[p] \in SUBSET (1 .. Len(list[p]))
  BY DEF IInv, TypeOK, CallerOK
<1>2. Max(done[p]) \in done[p]
  BY <1>1, MaxIn DEF CleanupOne
<1> DEFINE n == Max(done[p])
<1>3. /\ pc[p] = "cleanup" /\ q' = [q EXCEPT ![list[p][n]] = Release(@, p)]
      /\ done' = [done EXCEPT ![p] = done[p] \ {n}] /\ UNCHANGED <<pc, list, lockI, i, ctx>>
  BY DEF CleanupOne, Set
<1> HIDE DEF n
<1> QED BY <1>2, <1>3, GiveBack DEF n

\* Whatever a failed attempt acquired is given back before the next wait.
LEMMA RetryIInv ==
    ASSUME IInv, NEW p \in Entry, Retry(p)
    PROVE  IInv'
<1>1. /\ pc[p] = "undo" /\ UndoList(p) = {} /\ lockI' = [lockI EXCEPT ![p] = i[p]]
      /\ pc' = [pc EXCEPT ![p] = "lock"] /\ UNCHANGED <<q, list, i, done, ctx>>
  BY DEF Retry, Set
<1>2. done[p] = {}
  <2>1. /\ i[p] \in 1 .. Len(list[p]) /\ i[p] # lockI[p] /\ lockI[p] \in 1 .. Len(list[p])
        /\ done[p] \subseteq {lockI[p]} \cup 1 .. (i[p] - 1)
    BY <1>1 DEF IInv, CallerOK
  <2>2. \A n \in done[p] : n < i[p] \/ (n = lockI[p] /\ lockI[p] > i[p])
    BY <2>1
  <2> QED BY <1>1, <2>2 DEF UndoList
<1>3. TypeOK' /\ Others(p) /\ pc'[p] = "lock" /\ lockI'[p] = i[p]
  BY <1>1 DEF IInv, TypeOK, Others, PC
<1>4. CallerOK(p)'
  BY SMTT(30), <1>1, <1>2, <1>3 DEF IInv, CallerOK
<1>5. Holds(p) = {} /\ Wants(p) = {} /\ Holds(p)' = {} /\ Wants(p)' = {}
  BY <1>1, <1>2, <1>3 DEF Holds, Wants
<1>6. ASSUME NEW k \in Queues PROVE PlaceOK(p, k)'
  <2>1. PlaceOK(p, k) /\ q'[k] = q[k]
    BY <1>1 DEF IInv
  <2> QED BY <1>1, <1>5, <2>1 DEF PlaceOK, QueuedSet
<1> QED BY <1>1, <1>3, <1>4, <1>6, LocalStep

LEMMA CleanupIInv ==
    ASSUME IInv, NEW p \in Entry, Cleanup(p)
    PROVE  IInv'
<1>1. /\ pc[p] = "held" /\ pc' = [pc EXCEPT ![p] = "cleanup"]
      /\ UNCHANGED <<q, list, lockI, i, done, ctx>>
  BY DEF Cleanup, Set
<1>2. TypeOK' /\ Others(p) /\ pc'[p] = "cleanup"
  BY <1>1 DEF IInv, TypeOK, Others, PC
<1>3. CallerOK(p)'
  BY <1>1, <1>2 DEF IInv, CallerOK
<1> QED BY <1>1, <1>2, <1>3, MoveOn

LEMMA FinishIInv ==
    ASSUME IInv, NEW p \in Entry, Finish(p)
    PROVE  IInv'
<1>1. /\ pc[p] = "cleanup" /\ done[p] = {} /\ pc' = [pc EXCEPT ![p] = "idle"]
      /\ ctx' = [ctx EXCEPT ![p] = FALSE] /\ UNCHANGED <<q, list, lockI, i, done>>
  BY DEF Finish, Set
<1>2. TypeOK' /\ Others(p) /\ pc'[p] = "idle"
  BY <1>1 DEF IInv, TypeOK, Others, PC
<1>3. CallerOK(p)'
  BY <1>1, <1>2 DEF IInv, CallerOK
<1>4. Holds(p) = {} /\ Wants(p) = {} /\ Holds(p)' = {} /\ Wants(p)' = {}
  BY <1>1, <1>2 DEF Holds, Wants
<1>5. ASSUME NEW k \in Queues PROVE PlaceOK(p, k)'
  <2>1. PlaceOK(p, k) /\ q'[k] = q[k]
    BY <1>1 DEF IInv
  <2> QED BY <1>1, <1>4, <2>1 DEF PlaceOK, QueuedSet
<1> QED BY <1>1, <1>2, <1>3, <1>5, LocalStep
-----------------------------------------------------------------------------
LEMMA InitIInv == Init => IInv
<1> SUFFICES ASSUME Init PROVE IInv
  OBVIOUS
<1>1. EmptyQueue \in Queue /\ EmptyQueue.active = {} /\ EmptyQueue.queued = <<>>
  BY DEF EmptyQueue, Queue
<1>2. TypeOK
  BY <1>1 DEF Init, TypeOK, PC
<1>3. Sound(EmptyQueue) /\ QueuedSet(EmptyQueue) = {}
  BY <1>1, FS_EmptySet, MaxAssumption DEF Sound, Bounded, Conserving, Distinct, QueuedSet
<1>4. ASSUME NEW p \in Entry PROVE CallerOK(p) /\ \A k \in Queues : PlaceOK(p, k)
  <2>1. pc[p] = "idle" /\ list[p] = <<>> /\ done[p] = {} /\ \A k \in Queues : q[k] = EmptyQueue
    BY DEF Init
  <2>2. CallerOK(p)
    BY <2>1 DEF CallerOK
  <2> QED BY <1>1, <1>3, <2>1, <2>2 DEF PlaceOK, Holds, Wants
<1> QED BY <1>2, <1>3, <1>4 DEF Init, IInv

LEMMA NextIInv == IInv /\ [Next]_vars => IInv'
<1> SUFFICES ASSUME IInv, [Next]_vars PROVE IInv'
  OBVIOUS
<1>1. CASE UNCHANGED vars
  BY <1>1 DEF vars, IInv, TypeOK, CallerOK, PlaceOK, Holds, Wants, Cur, QueuedSet,
     Sound, Bounded, Conserving, Distinct
<1>2. ASSUME NEW p \in Entry, Begin(p) \/ CancelContext(p) PROVE IInv'
  BY <1>2, BeginIInv, CancelContextIInv
<1>3. ASSUME NEW p \in Entry, Step(p) PROVE IInv'
  BY <1>3, LockNowIInv, LockWaitIInv, GrantedIInv, AbortQueuedIInv, AbortMissingIInv,
     ReleaseMissingIInv, TryIInv, AllAcquiredIInv, UndoIInv, RetryIInv, CleanupIInv,
     CleanupOneIInv, FinishIInv
  DEF Step
<1> QED BY <1>1, <1>2, <1>3 DEF Next

\* The callers of AcquireMulti and the queues stay as IInv says, through waits,
\* failed tries, cancellations and clean-ups in any order.
THEOREM Invariance == Spec => []IInv
BY InitIInv, NextIInv, PTL DEF Spec

\* AcquireMulti neither leaks nor shares a slot, waits only while it holds none (the
\* reason two copies in opposite directions cannot wait for each other), and ends
\* with a slot of every queue of its list or of none.
THEOREM MultiSound == Spec => []SlotsSound
<1>1. ASSUME IInv PROVE SlotsSound
  <2>1. TypeOK
    BY <1>1 DEF IInv
  <2>2. SlotsAccounted
    <3>1. \A k \in Queues : q[k].active \subseteq Entry
      BY <2>1 DEF TypeOK, Queue
    <3> QED BY <1>1, <3>1 DEF IInv, PlaceOK, SlotsAccounted
  <2>3. NoHoldAndWait
    BY <1>1 DEF IInv, CallerOK, NoHoldAndWait
  <2>4. AllOrNothing
    <3>1. ASSUME NEW p \in Entry, pc[p] = "held"
          PROVE  Holds(p) = {x \in ToSet(Args[p]) : x # Nil} /\ \A k \in Holds(p) : p \in q[k].active
      <4>1. done[p] = 1 .. Len(list[p]) /\ ToSet(list[p]) = ToSet(Args[p]) \ {Nil}
        BY <1>1, <3>1 DEF IInv, CallerOK
      <4>2. list[p] \in Seq(Queues) /\ DOMAIN list[p] = 1 .. Len(list[p])
        BY <2>1 DEF TypeOK
      <4>3. Holds(p) = ToSet(list[p]) /\ Holds(p) \subseteq Queues
        BY <4>1, <4>2 DEF Holds, ToSet
      <4> QED BY <1>1, <4>1, <4>3 DEF IInv, PlaceOK
    <3>2. ASSUME NEW p \in Entry, pc[p] = "idle" PROVE \A k \in Queues : p \notin q[k].active
      BY <1>1, <3>2, Place
    <3> QED BY <3>1, <3>2 DEF AllOrNothing
  <2> QED BY <2>1, <2>2, <2>3, <2>4 DEF SlotsSound
<1> QED BY <1>1, Invariance, PTL
=============================================================================

------------------------------- MODULE ReqMeta -------------------------------
(***************************************************************************)
(* internal/reqmeta: DataNext, the callback every throttle queue uses to   *)
(* pick the request that gets the next free slot.  The aim of the code: at *)
(* least one small request in flight, half of the others the largest       *)
(* blobs, the rest in the order of arrival.                                *)
(***************************************************************************)
EXTENDS Integers, Sequences, FiniteSets, SequencesExt

CONSTANTS
    Data,       \* Data[e]: the kind and the size of request e
    SmallLimit  \* smallLimit, 4 MiB in the code

Unknown == 0
Head_   == 1
Manifest == 2
Query   == 3
Blob    == 4

Kind == {Unknown, Head_, Manifest, Query, Blob}

ASSUME DataAssumption ==
    \A e \in DOMAIN Data : Data[e].kind \in Kind /\ Data[e].size \in Int

ASSUME SmallLimitAssumption == SmallLimit \in Nat

IsSmall(e) == Data[e].kind # Blob /\ Data[e].size <= SmallLimit

\* The largest queued blob (0 when there is none with a positive size).
LargeSize(queued) ==
    LET sizes == {Data[queued[i]].size :
                    i \in {j \in DOMAIN queued : Data[queued[j]].kind = Blob}}
    IN  Max(sizes \cup {0})

\* 0-based index of the first queued blob of that size.
LargeIndex(queued) ==
    Min({i \in DOMAIN queued : /\ Data[queued[i]].kind = Blob
                               /\ Data[queued[i]].size = LargeSize(queued)}) - 1

\* An active blob counts as large above 90% of the largest queued one.
IsLarge(e, largeSize) ==
    /\ Data[e].kind = Blob
    /\ largeSize > 0
    /\ Data[e].size >= (largeSize * 9) \div 10

\* Mutant: a known kind does not take the place of an unknown one.
BetterMutant(cur, best) ==
    \/ cur.kind # Unknown /\ cur.kind < best.kind
    \/ /\ cur.kind = best.kind
       /\ cur.size > 0
       /\ cur.size < best.size \/ best.size <= 0

\* One round of the loop that looks for the best small entry: does cur take
\* the place of the best one so far?
Better(cur, best) ==
    \/ cur.kind # Unknown /\ (best.kind = Unknown \/ cur.kind < best.kind)
    \/ /\ cur.kind = best.kind
       /\ cur.size > 0
       /\ cur.size < best.size \/ best.size <= 0

\* 0-based index of the best small queued entry, -1 when there is none.
BestSmall(queued) ==
    LET Pick(best, i) ==
          IF /\ IsSmall(queued[i])
             /\ best = 0 \/ Better(Data[queued[i]], Data[queued[best]])
          THEN i ELSE best
    IN  FoldLeftDomain(Pick, 0, queued) - 1


DataNext(queued, active) ==
    LET largeGoal == Cardinality(active) \div 2
        largeSize == IF largeGoal > 0 THEN LargeSize(queued) ELSE 0
        small     == {e \in active : IsSmall(e)}
        large     == {e \in active : IsLarge(e, largeSize)}
    IN  CASE queued = <<>> -> -1
          [] queued # <<>> /\ active # {} /\ small = {} /\ BestSmall(queued) >= 0
               -> BestSmall(queued)
          [] OTHER
               -> IF largeSize > 0 /\ Cardinality(large) < largeGoal
                  THEN LargeIndex(queued) ELSE 0
=============================================================================

------------------------------ MODULE SliceOps ------------------------------
(***************************************************************************)
(* The in-place clean-up of a list of locks that pqueue.AcquireMulti and   *)
(* muset.Lock start with: both would wait for themselves if the same lock  *)
(* were in the list twice.  The loops of the code are recursive functions  *)
(* from the number of rounds to the list after them; they all count down.  *)
(***************************************************************************)
EXTENDS Integers, Sequences, SequencesExt

CONSTANT Nil    \* a nil pointer in the list

\* AcquireMulti drops nil queues (an unthrottled host has none).
DropNil(list) ==
    LET loop[n \in 0 .. Len(list)] ==
            IF n = 0 THEN list
            ELSE LET i == Len(list) - n + 1
                 IN  IF loop[n - 1][i] = Nil THEN RemoveAt(loop[n - 1], i) ELSE loop[n - 1]
    IN  loop[Len(list)]

\* One round: entry j, a duplicate of entry i, is overwritten by the last
\* entry and the list shrinks by one.
DedupRound(list, i, j) ==
    IF list[i] = list[j] THEN Front(ReplaceAt(list, j, Last(list))) ELSE list

\* The inner loop compares entry i with all those behind it ...
DedupRow(list, i) ==
    LET loop[n \in 0 .. (Len(list) - i)] ==
            IF n = 0 THEN list ELSE DedupRound(loop[n - 1], i, Len(list) - n + 1)
    IN  loop[Len(list) - i]

\* ... and the outer one does so for every entry but the last.
Dedup(list) ==
    LET loop[n \in 0 .. (Len(list) - 1)] ==
            IF n = 0 THEN list ELSE DedupRow(loop[n - 1], Len(list) - n)
    IN  IF list = <<>> THEN list ELSE loop[Len(list) - 1]
=============================================================================

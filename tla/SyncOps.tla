------------------------------ MODULE SyncOps ------------------------------
(* The lists regsync works with: filters and the difference of two lists.   *)
EXTENDS Integers, Sequences, FiniteSets, SequencesExt

\* (external) registries and layouts list their tags in order.
Sorted(tags) == SetToSortSeq(tags, <)

\* filterList: allow and deny are lists of patterns, a pattern the set of names
\* it matches.  Names stay in order; an empty allow list allows every name.
FilterList(allow, deny, names) ==
    SelectSeq(names, LAMBDA x :
        /\ allow = <<>> \/ \E i \in DOMAIN allow : x \in allow[i]
        /\ \A i \in DOMAIN deny : x \notin deny[i])

\* The source tags without those of the target: both lists are walked from their
\* ends, which finds every common tag when both are sorted.
MissingOf(sList, tList) ==
    LET rest[i \in 0 .. Len(sList), k \in 0 .. Len(tList)] ==
          IF i = 0 THEN <<>>
          ELSE IF k = 0 THEN SubSeq(sList, 1, i)
          ELSE IF sList[i] = tList[k] THEN rest[i - 1, k - 1]
          ELSE IF sList[i] < tList[k] THEN rest[i, k - 1]
          ELSE Append(rest[i - 1, k], sList[i])
    IN  rest[Len(sList), Len(tList)]
=============================================================================

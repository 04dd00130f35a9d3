-------------------------------- MODULE Cache -------------------------------
(***************************************************************************)
(* internal/cache: entries are dropped when there are too many of them or  *)
(* when they have not been used for a while.                               *)
(*                                                                         *)
(* A cache c holds for every key the time it was last used, its timer      *)
(* ("none", "fired" or "armed", and the time it fires at), the time, and   *)
(* the prunes that run on their own: the timer's, once it has fired, and   *)
(* those of Get.  Every operation holds the mutex, and time may stand      *)
(* still between two of them.  The key just set (where no other was used   *)
(* at the same time) and the times of the entries dropped are kept for the *)
(* properties.                                                             *)
(***************************************************************************)
EXTENDS Integers, Sequences, FiniteSets, SequencesExt

\* New: a tenth more age and a tenth fewer entries, both rounded down.
New(age, count) == [minAge |-> age, maxAge |-> age + (age \div 10), maxCount |-> count, minCount |-> (count * 9) \div 10]

NoTimer == [state |-> "none", at |-> 0]
Armed(t) == [state |-> "armed", at |-> t]

Empty == [used |-> [k \in {} |-> 0], timer |-> NoTimer, now |-> 0, pruning |-> 0, set |-> "", dropped |-> {}]

KeysOf(c) == DOMAIN c.used
OnlyKeys(c, S) == [k \in S |-> c.used[k]]

\* The sort of pruneLocked leaves the order of keys with one time open.
SortedKeys(c) == {s \in SetToSeqs(KeysOf(c)) : \A i, j \in DOMAIN s : i < j => c.used[s[i]] <= c.used[s[j]]}

\* Not what the code does: one too many goes.
GoesToo(c, conf, keys, i) == i <= Len(keys) - conf.minCount + 1 \/ c.used[keys[i]] < c.now - conf.minAge

Goes(c, conf, keys, i) == i <= Len(keys) - conf.minCount \/ c.used[keys[i]] < c.now - conf.minAge

\* pruneLocked: the oldest ones beyond minCount, and the stale ones.
PruneIn(c, conf, keys) ==
    LET kept == {i \in DOMAIN keys : \E j \in 1 .. i : ~Goes(c, conf, keys, j)}
        left == {keys[i] : i \in kept}
        next == c.used[keys[CHOOSE i \in kept : \A j \in kept : i <= j]]
    IN  [c EXCEPT !.used = OnlyKeys(c, left), !.dropped = {c.used[k] : k \in KeysOf(c) \ left},
                  !.timer = IF left = {} THEN NoTimer ELSE Armed(next + conf.maxAge)]

PruneLocked(c, conf) == {PruneIn(c, conf, keys) : keys \in SortedKeys(c)}

Quiet(c) == [c EXCEPT !.set = "", !.dropped = {}]

Delete(c, k) ==
    LET left == KeysOf(c) \ {k}
    IN  [Quiet(c) EXCEPT !.used = OnlyKeys(c, left), !.timer = IF left = {} THEN NoTimer ELSE @]

Set(c, conf, k) ==
    LET s == [c EXCEPT !.used = [j \in KeysOf(c) \cup {k} |-> IF j = k THEN c.now ELSE c.used[j]],
                       !.set = IF \E j \in KeysOf(c) \ {k} : c.used[j] = c.now THEN "" ELSE k, !.dropped = {}]
    IN  IF Cardinality(KeysOf(s)) > conf.maxCount THEN PruneLocked(s, conf)
        ELSE {[s EXCEPT !.timer = IF @ = NoTimer THEN Armed(c.now + conf.maxAge) ELSE @]}

Found(c, conf, k) == k \in KeysOf(c) /\ c.used[k] + conf.minAge >= c.now

\* A stale entry is not returned, and starts a prune of its own.
Get(c, conf, k) ==
    IF Found(c, conf, k) THEN [Quiet(c) EXCEPT !.used[k] = c.now]
    ELSE [Quiet(c) EXCEPT !.pruning = IF k \in KeysOf(c) THEN @ + 1 ELSE @]

\* A prune that Get or the timer has started.
Prune(c, conf) == {[p EXCEPT !.pruning = @ - 1] : p \in PruneLocked(Quiet(c), conf)}

Due(c) == c.timer.state = "armed" /\ c.timer.at <= c.now

\* Time passes; a timer that is due starts a prune.
Tick(c) == [Quiet(c) EXCEPT !.now = @ + 1]
Fire(c) == [Quiet(c) EXCEPT !.pruning = @ + 1, !.timer.state = "fired"]

\* What the callers and the runtime may do next; pending prunes and time are bounded.
Steps(c, conf, keys, maxTime, maxPruning) ==
    UNION {Set(c, conf, k) \cup {Delete(c, k)} \cup (IF c.pruning < maxPruning THEN {Get(c, conf, k)} ELSE {}) : k \in keys}
    \cup (IF c.pruning > 0 THEN Prune(c, conf) ELSE {})
    \cup (IF Due(c) THEN IF c.pruning < maxPruning THEN {Fire(c)} ELSE {}
          ELSE IF c.now < maxTime THEN {Tick(c)} ELSE {})
-----------------------------------------------------------------------------
(* What it should do.                                                      *)

Bounded(c, conf) == Cardinality(KeysOf(c)) <= conf.maxCount

\* No entry is forgotten: a prune is on its way by the time the oldest is stale.
PruneComes(c, conf) ==
    KeysOf(c) /= {} => c.pruning > 0 \/ (c.timer.state = "armed" /\ \A k \in KeysOf(c) : c.timer.at <= c.used[k] + conf.maxAge)

\* What is dropped was not used after what is kept.
OldestDropped(c) == \A t \in c.dropped, k \in KeysOf(c) : t <= c.used[k]

\* The entry just set is there, if the cache may hold two and no other was used at the very same time.
NewestKept(c, conf) ==
    c.set /= "" /\ conf.maxCount >= 2 => Found(c, conf, c.set)
=============================================================================

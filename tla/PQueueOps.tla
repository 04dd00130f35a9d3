------------------------------ MODULE PQueueOps ------------------------------
(***************************************************************************)
(* The queue of internal/pqueue as a value, and what each critical section *)
(* of its methods does to that value.                                      *)
(*                                                                         *)
(* A queue is a record: "active" holds the entries that own one of the     *)
(* slots, "queued" the entries that wait, oldest first.  The code keeps    *)
(* active as a slice, but nothing depends on its order (reqmeta.DataNext   *)
(* only counts it), so it is a set here.  The slice of channels "wait"     *)
(* runs parallel to "queued"; the channel of an entry is closed at the     *)
(* very moment the entry moves to active, so a closed channel is exactly   *)
(* "the waiter is in active".                                              *)
(***************************************************************************)
EXTENDS Integers, Sequences, FiniteSets, SequencesExt

CONSTANTS
    Entry,          \* the entries (*T pointers): one per outstanding call
    MaxActive,      \* Opts.Max: the number of slots
    NextEntry(_, _) \* Opts.Next: 0-based index of the queued entry to release,
                    \* given the queued sequence and the set of active entries

ASSUME MaxAssumption == MaxActive \in Nat \ {0}   \* New replaces Max <= 0 by 1

ASSUME EntryAssumption == IsFiniteSet(Entry)

Queue == [active : SUBSET Entry, queued : Seq(Entry)]

EmptyQueue == [active |-> {}, queued |-> <<>>]

QueuedSet(q) == {q.queued[i] : i \in DOMAIN q.queued}

\* Mutant: off by one at the limit.
HasRoomMutant(q) == Cardinality(q.active) + Len(q.queued) <= MaxActive

\* The test Acquire and TryAcquire share: a newcomer may not overtake the
\* entries already queued.
HasRoom(q) == Cardinality(q.active) + Len(q.queued) < MaxActive

Enter(q, e) == [q EXCEPT !.active = @ \cup {e}]

Enqueue(q, e) == [q EXCEPT !.queued = Append(@, e)]

\* Mutant: the slot of the entry is cleared but kept.
DropQueuedMutant(q, e) ==
    [q EXCEPT !.queued = [j \in DOMAIN @ |-> IF @[j] = e THEN "nil" ELSE @[j]]]

\* The scan of Acquire after its context is done, entry found at index i.
\* The guard len(q.queued) >= i+1 holds for every i of the range, so the code
\* always takes the branch that cuts the slice at i: the entry goes, and with
\* it every entry queued behind it.
DropQueued(q, e) ==
    LET i == CHOOSE j \in DOMAIN q.queued : q.queued[j] = e
    IN  [q EXCEPT !.queued = SubSeq(@, 1, i - 1)]

\* 1-based position of the entry release hands the slot to: the callback is
\* only asked when there is a choice, and its answer is forced into range.
Clamp(i, n) ==
    IF i \in 0 .. (n - 1) THEN i + 1 ELSE IF i < 0 THEN 1 ELSE n

\* Mutant: the newest entry instead of the one the callback names.
ChosenMutant(q) == Len(q.queued)

Chosen(q) ==
    IF Len(q.queued) > 1
    THEN Clamp(NextEntry(q.queued, q.active), Len(q.queued))
    ELSE 1

\* Mutant: a freed slot is not handed on.
ReleaseMutant(q, prev) == [q EXCEPT !.active = @ \ {prev}]

\* release: remove prev from active (a no-op when it is not there) and, if
\* somebody waits and a slot is free, hand that slot over.
Release(q, prev) ==
    LET r == [q EXCEPT !.active = @ \ {prev}]
    IN  IF r.queued = <<>> \/ Cardinality(r.active) >= MaxActive
        THEN r
        ELSE [active |-> r.active \cup {r.queued[Chosen(r)]},
              queued |-> RemoveAt(r.queued, Chosen(r))]
-----------------------------------------------------------------------------
\* What every reachable queue satisfies; the modules that use queues state it
\* of their own.
Bounded(q) == Cardinality(q.active) <= MaxActive

Conserving(q) == q.queued # <<>> => Cardinality(q.active) = MaxActive

Distinct(q) ==
    /\ \A i, j \in DOMAIN q.queued : q.queued[i] = q.queued[j] => i = j
    /\ \A i \in DOMAIN q.queued : q.queued[i] \notin q.active

Sound(q) == Bounded(q) /\ Conserving(q) /\ Distinct(q)
=============================================================================

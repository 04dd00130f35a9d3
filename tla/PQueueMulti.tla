----------------------------- MODULE PQueueMulti -----------------------------
(***************************************************************************)
(* pqueue.AcquireMulti: callers that need a slot of several queues at once *)
(* (a blob copy needs one of the source and one of the target registry),   *)
(* among callers that need only one.  A caller waits for one queue and     *)
(* only tries the others; when a try fails it gives everything back and    *)
(* waits for the queue it failed on.                                       *)
(*                                                                         *)
(* Every step is one critical section of one queue's mutex.  The entry of  *)
(* a caller in a queue is the caller itself: AcquireMulti never has two    *)
(* entries in the same queue.  While it holds the transaction, requests    *)
(* made with the returned context pass checkContext without touching a     *)
(* queue (or fail, for a queue outside of the transaction), so they are    *)
(* not steps of this module.                                               *)
(***************************************************************************)
EXTENDS PQueueOps, SliceOps

CONSTANTS
    Queues,     \* the queues of the registries in use
    Args,       \* Args[p]: the list p passes, with nils and duplicates
    Cancellable \* the callers whose context may be cancelled

ASSUME ArgsAssumption == Args \in [Entry -> Seq(Queues \cup {Nil})]

VARIABLES
    q,      \* q[k]: the queue k
    pc,     \* where each caller is
    list,   \* qList after the clean-up
    lockI,  \* the index the caller waits on
    i,      \* the loop index
    done,   \* doneList: the indices for which a release function is held
    ctx     \* ctx[p]: the context of p's call is done

vars == <<q, pc, list, lockI, i, done, ctx>>

(* "idle"    : before the call, or after it returned an error or was       *)
(*             cleaned up                                                  *)
(* "lock"    : about to Acquire list[lockI]                                *)
(* "waiting" : in the select of that Acquire                               *)
(* "missing" : Acquire saw ctx.Done() and no queued entry, release to run  *)
(* "try"     : in the loop of TryAcquire calls                             *)
(* "undo"    : a try failed at index i, giving everything back             *)
(* "held"    : the call returned, the transaction is open                  *)
(* "cleanup" : the returned function is releasing the queues               *)
PC == {"idle", "lock", "waiting", "missing", "try", "undo", "held", "cleanup"}

Init ==
    /\ q = [k \in Queues |-> EmptyQueue]
    /\ pc = [p \in Entry |-> "idle"]
    /\ list = [p \in Entry |-> <<>>]
    /\ lockI = [p \in Entry |-> 1]
    /\ i = [p \in Entry |-> 1]
    /\ done = [p \in Entry |-> {}]
    /\ ctx = [p \in Entry |-> FALSE]

Set(f, p, v) == [f EXCEPT ![p] = v]

Cur(p) == list[p][lockI[p]]

CancelContext(p) ==
    /\ p \in Cancellable
    /\ ~ctx[p]
    /\ ctx' = Set(ctx, p, TRUE)
    /\ UNCHANGED <<q, pc, list, lockI, i, done>>


\* The call starts.  An empty list is a no-op and never leaves "idle".
Begin(p) ==
    /\ pc[p] = "idle"
    /\ Dedup(DropNil(Args[p])) # <<>>
    /\ list' = Set(list, p, Dedup(DropNil(Args[p])))
    /\ lockI' = Set(lockI, p, 1)
    /\ pc' = Set(pc, p, "lock")
    /\ UNCHANGED <<q, i, done, ctx>>

Locked(p) ==
    /\ pc' = Set(pc, p, "try")
    /\ i' = Set(i, p, 1)
    /\ done' = Set(done, p, {lockI[p]})

LockNow(p) ==
    /\ pc[p] = "lock"
    /\ HasRoom(q[Cur(p)])
    /\ q' = [q EXCEPT ![Cur(p)] = Enter(@, p)]
    /\ Locked(p)
    /\ UNCHANGED <<list, lockI, ctx>>

LockWait(p) ==
    /\ pc[p] = "lock"
    /\ ~HasRoom(q[Cur(p)])
    /\ q' = [q EXCEPT ![Cur(p)] = Enqueue(@, p)]
    /\ pc' = Set(pc, p, "waiting")
    /\ UNCHANGED <<list, lockI, i, done, ctx>>

Granted(p) ==
    /\ pc[p] = "waiting"
    /\ p \in q[Cur(p)].active
    /\ Locked(p)
    /\ UNCHANGED <<q, list, lockI, ctx>>

\* Acquire fails: AcquireMulti returns its error, holding nothing.
Fail(p) ==
    /\ pc' = Set(pc, p, "idle")
    /\ ctx' = Set(ctx, p, FALSE)
    /\ UNCHANGED <<list, lockI, i, done>>

AbortQueued(p) ==
    /\ pc[p] = "waiting"
    /\ ctx[p]
    /\ p \in QueuedSet(q[Cur(p)])
    /\ q' = [q EXCEPT ![Cur(p)] = DropQueued(@, p)]
    /\ Fail(p)

AbortMissing(p) ==
    /\ pc[p] = "waiting"
    /\ ctx[p]
    /\ p \notin QueuedSet(q[Cur(p)])
    /\ pc' = Set(pc, p, "missing")
    /\ UNCHANGED <<q, list, lockI, i, done, ctx>>

\* Mutant: the slot granted while the context was cancelled is not released.
ReleaseMissingMutant(p) ==
    /\ pc[p] = "missing"
    /\ Fail(p)
    /\ UNCHANGED q

ReleaseMissing(p) ==
    /\ pc[p] = "missing"
    /\ q' = [q EXCEPT ![Cur(p)] = Release(@, p)]
    /\ Fail(p)

\* One TryAcquire of the loop.  The index waited on is skipped.
Try(p) ==
    /\ pc[p] = "try"
    /\ i[p] <= Len(list[p])
    /\ \/ /\ i[p] = lockI[p]
          /\ i' = Set(i, p, i[p] + 1)
          /\ UNCHANGED <<q, pc, done>>
       \/ /\ i[p] # lockI[p]
          /\ HasRoom(q[list[p][i[p]]])
          /\ q' = [q EXCEPT ![list[p][i[p]]] = Enter(@, p)]
          /\ done' = Set(done, p, done[p] \cup {i[p]})
          /\ i' = Set(i, p, i[p] + 1)
          /\ UNCHANGED pc
       \/ /\ i[p] # lockI[p]
          /\ ~HasRoom(q[list[p][i[p]]])
          /\ pc' = Set(pc, p, "undo")
          /\ UNCHANGED <<q, i, done>>
    /\ UNCHANGED <<list, lockI, ctx>>


AllAcquired(p) ==
    /\ pc[p] = "try"
    /\ i[p] > Len(list[p])
    /\ pc' = Set(pc, p, "held")
    /\ UNCHANGED <<q, list, lockI, i, done, ctx>>


\* The release functions the clean-up of a failed attempt still has to call:
\* the one waited on if it lies beyond the failed index, and those below the
\* failed index.  They are called from the highest index down.
UndoList(p) ==
    {n \in done[p] : n < i[p] \/ (n = lockI[p] /\ lockI[p] > i[p])}

Undo(p) ==
    /\ pc[p] = "undo"
    /\ UndoList(p) # {}
    /\ LET n == Max(UndoList(p))
       IN  /\ q' = [q EXCEPT ![list[p][n]] = Release(@, p)]
           /\ done' = Set(done, p, done[p] \ {n})
    /\ UNCHANGED <<pc, list, lockI, i, ctx>>

\* The next round waits on the index that failed.
Retry(p) ==
    /\ pc[p] = "undo"
    /\ UndoList(p) = {}
    /\ lockI' = Set(lockI, p, i[p])
    /\ pc' = Set(pc, p, "lock")
    /\ UNCHANGED <<q, list, i, done, ctx>>

\* The cleanup function: qList is cleared, then the release functions are
\* called in reverse order.
Cleanup(p) ==
    /\ pc[p] = "held"
    /\ pc' = Set(pc, p, "cleanup")
    /\ UNCHANGED <<q, list, lockI, i, done, ctx>>

CleanupOne(p) ==
    /\ pc[p] = "cleanup"
    /\ done[p] # {}
    /\ q' = [q EXCEPT ![list[p][Max(done[p])]] = Release(@, p)]
    /\ done' = Set(done, p, done[p] \ {Max(done[p])})
    /\ UNCHANGED <<pc, list, lockI, i, ctx>>

Finish(p) ==
    /\ pc[p] = "cleanup"
    /\ done[p] = {}
    /\ pc' = Set(pc, p, "idle")
    /\ ctx' = Set(ctx, p, FALSE)
    /\ UNCHANGED <<q, list, lockI, i, done>>

Step(p) ==
    \/ LockNow(p) \/ LockWait(p) \/ Granted(p)
    \/ AbortQueued(p) \/ AbortMissing(p) \/ ReleaseMissing(p)
    \/ Try(p) \/ AllAcquired(p) \/ Undo(p) \/ Retry(p)
    \/ Cleanup(p) \/ CleanupOne(p) \/ Finish(p)

Next == \E p \in Entry : Begin(p) \/ CancelContext(p) \/ Step(p)

Spec == Init /\ [][Next]_vars

\* Every caller keeps running once it called AcquireMulti, and a transaction is
\* closed eventually ("The returned function must be called").
FairSpec == Spec /\ \A p \in Entry : WF_vars(Step(p))
-----------------------------------------------------------------------------
TypeOK ==
    /\ q \in [Queues -> Queue]
    /\ pc \in [Entry -> PC]
    /\ list \in [Entry -> Seq(Queues)]
    /\ lockI \in [Entry -> Nat] /\ i \in [Entry -> Nat]
    /\ done \in [Entry -> SUBSET Nat]
    /\ ctx \in [Entry -> BOOLEAN]

\* The queues p has a release function of.
Holds(p) == {list[p][n] : n \in done[p]}

\* The queues p waits for, with its slot possibly granted already.
Wants(p) == IF pc[p] \in {"waiting", "missing"} THEN {Cur(p)} ELSE {}

\* No queue exceeds its limit or leaves a slot free in front of a waiter, and
\* the slots are accounted for: whoever is active in a queue holds its release
\* function or is about to learn of the slot; and no release function stands
\* for a slot that is gone.
SlotsAccounted ==
    \A k \in Queues :
        /\ Sound(q[k])
        /\ \A p \in q[k].active : k \in Holds(p) \cup Wants(p)
        /\ \A p \in Entry : k \in Holds(p) => p \in q[k].active

\* The reason AcquireMulti cannot deadlock: whoever waits holds nothing.
NoHoldAndWait == \A p \in Entry : pc[p] \in {"lock", "waiting", "missing"} => done[p] = {}

\* An open transaction owns a slot of every queue of the list, and a caller that
\* is back (with an error, or after the cleanup) owns none.
AllOrNothing ==
    \A p \in Entry :
        /\ pc[p] = "held" => /\ Holds(p) = {x \in ToSet(Args[p]) : x # Nil}
                             /\ \A k \in Holds(p) : p \in q[k].active
        /\ pc[p] = "idle" => \A k \in Queues : p \notin q[k].active

\* The state of AcquireMulti: slots accounted for, nothing held while waiting, and all or nothing owned.
SlotsSound == TypeOK /\ SlotsAccounted /\ NoHoldAndWait /\ AllOrNothing

\* As long as no context is cancelled, every single wait of AcquireMulti ends:
\* those ahead never wait while they hold.  (The number of rounds has no bound.)
WaitEnds ==
    [](\A p \in Entry : ~ctx[p]) =>
        \A p \in Entry : pc[p] = "waiting" ~> pc[p] # "waiting"
=============================================================================

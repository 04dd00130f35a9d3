------------------------------- MODULE PQueue -------------------------------
(***************************************************************************)
(* One queue of internal/pqueue shared by the callers in Entry.  A caller  *)
(* has at most one outstanding call, so it stands for the pointer &e of    *)
(* that call.  Each action is one critical section of the mutex q.mu, or   *)
(* one branch of the select in Acquire.                                    *)
(***************************************************************************)
EXTENDS PQueueOps

CONSTANT Cancellable    \* the callers whose context may be cancelled

ASSUME CancellableAssumption == Cancellable \subseteq Entry

VARIABLES
    q,      \* the queue
    pc,     \* where each caller is
    ctx     \* ctx[e]: the context of e's call is done

vars == <<q, pc, ctx>>

(* "idle"    : outside of the package                                      *)
(* "waiting" : in the select of Acquire                                    *)
(* "missing" : the scan after ctx.Done() did not find the entry, the lock  *)
(*             is given up and release(&e) is still to run                 *)
(* "held"    : Acquire or TryAcquire returned a release function           *)
PC == {"idle", "waiting", "missing", "held"}

Init ==
    /\ q = EmptyQueue
    /\ pc = [e \in Entry |-> "idle"]
    /\ ctx = [e \in Entry |-> FALSE]

\* A call returns: the next call of this caller brings a fresh context.
Return(e) ==
    /\ pc' = [pc EXCEPT ![e] = "idle"]
    /\ ctx' = [ctx EXCEPT ![e] = FALSE]

\* The environment cancels the context of a caller.
CancelContext(e) ==
    /\ e \in Cancellable
    /\ ~ctx[e]
    /\ ctx' = [ctx EXCEPT ![e] = TRUE]
    /\ UNCHANGED <<q, pc>>

\* Acquire with a slot free; the context is not looked at on this path.
\* TryAcquire with a slot free does the same, and without one it returns nil
\* and changes nothing.
AcquireNow(e) ==
    /\ pc[e] = "idle"
    /\ HasRoom(q)
    /\ q' = Enter(q, e)
    /\ pc' = [pc EXCEPT ![e] = "held"]
    /\ UNCHANGED ctx

\* Acquire at the limit: join the queue and wait.
AcquireWait(e) ==
    /\ pc[e] = "idle"
    /\ ~HasRoom(q)
    /\ q' = Enqueue(q, e)
    /\ pc' = [pc EXCEPT ![e] = "waiting"]
    /\ UNCHANGED ctx

\* Acquire, select branch "<-w": the channel is closed, the slot is ours.
Granted(e) ==
    /\ pc[e] = "waiting"
    /\ e \in q.active
    /\ pc' = [pc EXCEPT ![e] = "held"]
    /\ UNCHANGED <<q, ctx>>

\* Acquire, select branch "<-ctx.Done()", entry found among the queued ones.
AbortQueued(e) ==
    /\ pc[e] = "waiting"
    /\ ctx[e]
    /\ e \in QueuedSet(q)
    /\ q' = DropQueued(q, e)
    /\ Return(e)

\* Mutant: an entry that is not found is taken to be gone for good.
AbortMissingMutant(e) ==
    /\ pc[e] = "waiting"
    /\ ctx[e]
    /\ e \notin QueuedSet(q)
    /\ Return(e)
    /\ UNCHANGED q

\* Acquire, select branch "<-ctx.Done()", entry not found.
AbortMissing(e) ==
    /\ pc[e] = "waiting"
    /\ ctx[e]
    /\ e \notin QueuedSet(q)
    /\ pc' = [pc EXCEPT ![e] = "missing"]
    /\ UNCHANGED <<q, ctx>>

\* ... and the release that follows in a critical section of its own.
ReleaseMissing(e) ==
    /\ pc[e] = "missing"
    /\ q' = Release(q, e)
    /\ Return(e)

\* The caller runs the release function it was given.
Done(e) ==
    /\ pc[e] = "held"
    /\ q' = Release(q, e)
    /\ Return(e)

Step(e) ==
    \/ CancelContext(e)
    \/ AcquireNow(e)
    \/ AcquireWait(e)
    \/ Granted(e)
    \/ AbortQueued(e)
    \/ AbortMissing(e)
    \/ ReleaseMissing(e)
    \/ Done(e)

Next == \E e \in Entry : Step(e)

Spec == Init /\ [][Next]_vars

\* A caller that was handed a slot wakes up, a caller whose context is done
\* leaves, and the job behind every slot ends (the release function "must be
\* called when the queued job completes").  Nobody is forced to call Acquire.
Fairness ==
    \A e \in Entry :
        /\ WF_vars(Granted(e))
        /\ WF_vars(AbortQueued(e) \/ AbortMissing(e))
        /\ WF_vars(ReleaseMissing(e))
        /\ WF_vars(Done(e))

FairSpec == Spec /\ Fairness
-----------------------------------------------------------------------------
TypeOK ==
    /\ q \in Queue
    /\ pc \in [Entry -> PC]
    /\ ctx \in [Entry -> BOOLEAN]

\* The limit is never exceeded: whatever Acquire, TryAcquire, release and the
\* context race hand out, at most MaxActive entries are active.
ActiveBound == Bounded(q)

\* No slot stays free while somebody is queued: release and the abort path
\* always pass a freed slot on (otherwise nobody would ever wake the queue).
WorkConserving == Conserving(q)

\* Slots are neither leaked nor shared: an active entry is a caller that holds
\* its release function, has a closed channel to notice, or is on its way to
\* give the slot back; and whoever holds a release function owns a slot.
SlotOwnership ==
    /\ \A e \in q.active : pc[e] \in {"held", "waiting", "missing"}
    /\ \A e \in Entry : pc[e] = "held" => e \in q.active

\* An entry is queued at most once, only by a caller that waits, and never
\* while it is active.
QueuedOnce ==
    /\ Distinct(q)
    /\ \A i \in DOMAIN q.queued : pc[q.queued[i]] = "waiting"

\* What the comments of Acquire promise ("adds a new entry to the queue and
\* returns once it is ready", "context abort, remove queued entry"): a caller
\* in the select of Acquire is still queued, or a slot has been given to it.
NoWaiterLost ==
    \A e \in Entry : pc[e] = "waiting" => e \in q.active \cup QueuedSet(q)

\* As long as no context is cancelled, every call of Acquire returns with a slot.
\* Acquire cannot promise this of every callback: one that prefers new entries
\* starves an old one.  It is checked for DataNext, which comes back to the oldest
\* entry when enough small and large ones are in flight.
\* (A cancelled caller takes those behind it out of the queue, see
\* NoWaiterLost.)
NoStarvation ==
    [](\A e \in Entry : ~ctx[e]) =>
        \A e \in Entry : pc[e] = "waiting" ~> pc[e] = "held"
=============================================================================

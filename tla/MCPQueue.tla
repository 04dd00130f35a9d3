------------------------------ MODULE MCPQueue ------------------------------
(***************************************************************************)
(* Instances of PQueue whose callback is reqmeta.DataNext, and what that   *)
(* callback makes of the queue.                                            *)
(***************************************************************************)
EXTENDS PQueue, ReqMeta

CONSTANTS h, m, u, b1, b2, b3

\* Small requests (two of one kind and different sizes, and one of unknown kind,
\* so that each clause of the choice among them decides) and blobs, one of which
\* (b3) is far smaller than the others and so is only ever picked as the oldest.
MCData ==
    [e \in Entry |->
        CASE e = h  -> [kind |-> Head_,    size |-> 1]
          [] e = m  -> [kind |-> Head_,    size |-> 3]
          [] e = u  -> [kind |-> Unknown,  size |-> 2]
          [] e = b1 -> [kind |-> Blob,     size |-> 20]
          [] e = b3 -> [kind |-> Blob,     size |-> 3]
          [] OTHER  -> [kind |-> Blob,     size |-> 19]]

MCNextEntry(queued, active) == DataNext(queued, active)
-----------------------------------------------------------------------------
Small(s) == {i \in DOMAIN s : IsSmall(s[i])}

\* The order the comment of DataNext describes ("one with a better Kind (Head >
\* Manifest > Query)", "one with the same kind but smaller request", "first one
\* found"), as a comparison of two positions: unknown kinds last, unknown sizes
\* last, earlier arrivals first.
Precedes(s, i, j) ==
    LET rank(k) == IF Data[s[k]].kind = Unknown THEN Blob ELSE Data[s[k]].kind
        size(k) == IF Data[s[k]].size <= 0 THEN SmallLimit + 1 ELSE Data[s[k]].size
    IN  \/ rank(i) < rank(j)
        \/ rank(i) = rank(j) /\ size(i) < size(j)
        \/ rank(i) = rank(j) /\ size(i) = size(j) /\ i < j

\* The entry a step of release hands a slot to, when it does.
HandedOver == QueuedSet(q) \cap q'.active

\* The choice keeps a small request in flight next to the others whenever one is
\* to be had, and takes the least one of the documented order: the one pass of
\* the loop over the queued entries finds it.
OneSmallInFlight ==
    [][\A e \in HandedOver :
         LET others == q'.active \ {e}
         IN  others # {} /\ Small(q.queued) # {} =>
               \/ \E o \in others : IsSmall(o)
               \/ \E i \in Small(q.queued) :
                     /\ e = q.queued[i]
                     /\ \A j \in Small(q.queued) : j # i => Precedes(q.queued, i, j)]_vars

\* Large blobs never crowd out the old requests: the choice only departs from the
\* oldest request for a small one when no small one was in flight, or for a blob
\* when fewer than half of the requests in flight were as large as that blob.
OvertakingIsBounded ==
    [][\A e \in HandedOver :
         LET others == q'.active \ {e}
         IN  e # q.queued[1] =>
               IF IsSmall(e)
               THEN \A o \in others : ~IsSmall(o)
               ELSE 2 * Cardinality({o \in others : /\ Data[o].kind = Blob
                                                    /\ Data[o].size >= Data[e].size})
                    < Cardinality(others)]_vars

\* DataNext keeps to the order it documents, and large blobs do not crowd out the rest.
PriorityKept == OneSmallInFlight /\ OvertakingIsBounded
=============================================================================

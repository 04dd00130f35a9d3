---------------------------- MODULE MCPQueueMulti ----------------------------
(* Two registries and four callers: copies in both directions (one with the *)
(* same registry named twice and one with a nil in its list) and requests    *)
(* that need only one registry.  Queues release their oldest entry.          *)
EXTENDS PQueueMulti

CONSTANTS a, b, p1, p2, p3, p4

MCArgs ==
    [p \in Entry |-> CASE p = p1 -> <<a, b, a>>
                       [] p = p2 -> <<b, Nil, a>>
                       [] p = p3 -> <<b>>
                       [] OTHER  -> <<a, a>>]

MCOldest(queued, active) == 0
=============================================================================

------------------------------- MODULE MCJobs -------------------------------
(* regsync and regbot on two steps.  The second step of regsync copies the  *)
(* image of one platform, and waits for the rate limit of the source.       *)
EXTENDS Jobs

CONSTANTS s1, s2, s3

Setup(p, m, par, list) == [program |-> p, mode |-> m, parallel |-> par, steps |-> list]

MCSetups ==
    {Setup("regsync", m, TRUE, <<s1, s2>>) : m \in {"once", "missing"}} \cup
    {Setup("regsync", m, FALSE, <<s1, s2>>) : m \in {"once", "check"}} \cup
    {Setup("regsync", "server", TRUE, <<s3, s>>) : s \in {s1, s2}} \cup
    {Setup("regbot", m, TRUE, <<s1, s2>>) : m \in {"once", "server"}}

\* The tags of s2 have a digest in common until one of them moves on.
MCAllow == [s \in Steps |-> IF s = s1 THEN <<{2}, {1, 2}>> ELSE <<>>]
MCDeny == [s \in Steps |-> IF s = s1 THEN <<{2}>> ELSE <<>>]
MCRecopy == [s \in Steps |-> IF s = s1 THEN "referrers" ELSE "no"]
MCFirstVersion == <<1, 1>>
MCFirstTarget == <<1, 0>>
=============================================================================

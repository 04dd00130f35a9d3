------------------------------ MODULE MCOCIDir ------------------------------
(* Image m, index ix that lists m, and artifact x with subject m.           *)
EXTENDS OCIDir, TLC

CONSTANTS m, ix, x, b1, b2, t1, t2, c1, c2

MCChildren == (ix :> {m}) @@ [n \in Manifest |-> {}]
MCLayers == (m :> {b1}) @@ (x :> {b1, b2}) @@ [n \in Manifest |-> {}]
MCSubject == (x :> m) @@ [n \in Manifest |-> None]

Symmetry == Permutations({c1, c2}) \cup Permutations({t1, t2})
=============================================================================

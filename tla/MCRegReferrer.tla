--------------------------- MODULE MCRegReferrer ---------------------------
(* Two artifacts with the same subject.                                    *)
EXTENDS RegReferrer

CONSTANTS subj, art1, art2, c1, c2

MCSubject == [m \in {art1, art2} |-> subj]
=============================================================================

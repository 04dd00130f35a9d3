------------------------------- MODULE MCAuth -------------------------------
(* A pull, a DELETE in the same repository, for which the registry wants an *)
(* action that reghttp does not name, and a listing of the catalog share    *)
(* the handlers of a host.                                                  *)
EXTENDS Auth

CONSTANTS pull, del, catalog

MCNeed ==
    [r \in Request |->
        CASE r = pull    -> [repo |-> "a", acts |-> {"pull"}]
          [] r = del     -> [repo |-> "a", acts |-> {"delete"}]
          [] r = catalog -> [repo |-> "catalog", acts |-> {"*"}]]

MCDockerScope ==
    [r \in Request |-> [repo |-> "a", acts |-> IF r = del THEN {"pull", "push"} ELSE {"pull"}]]
=============================================================================

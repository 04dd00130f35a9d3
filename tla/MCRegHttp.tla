----------------------------- MODULE MCRegHttp -----------------------------
(* A registry with one mirror; one plain request and one upload.            *)
EXTENDS RegHttp, TLC

CONSTANTS reg, mir, r1, r2

MCPriority == (reg :> 5) @@ (mir :> 10)
=============================================================================

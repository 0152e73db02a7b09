------------------------------- MODULE MCEdge -------------------------------
(* Three requests on one counter: two share a process, all share a process id. *)
EXTENDS Edge, TLC
CONSTANTS r1, r2, r3, p1, p2
MCProc == (r1 :> p1) @@ (r2 :> p1) @@ (r3 :> p2)
MCPid == (p1 :> 1) @@ (p2 :> 1)
Symmetry == Permutations({r1, r2})
=============================================================================

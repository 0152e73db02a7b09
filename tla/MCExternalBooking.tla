-------------------------- MODULE MCExternalBooking --------------------------
(* Two operations of one pair of agents, in opposite roles. *)
EXTENDS ExternalBooking, TLC
CONSTANTS a1, a2, o1, o2
MCHost == (o1 :> a1) @@ (o2 :> a2)
MCPeer == (o1 :> a2) @@ (o2 :> a1)
Symmetry == Permutations(Workers)
=============================================================================

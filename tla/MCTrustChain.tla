----------------------------- MODULE MCTrustChain -----------------------------
(* One agent, of an account or a booking page; the second deployment has another guarantor key. *)
EXTENDS TrustChain, TLC
CONSTANTS g1, g2
MCGuarantorKey == <<g1, g2>>
Symmetry == Permutations(Workers) \union Permutations(Keys)
=============================================================================

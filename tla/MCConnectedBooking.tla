------------------------- MODULE MCConnectedBooking -------------------------
(* Small instances of ConnectedBooking: three agents, two operations whose  *)
(* roles each configuration chooses, and overlapping slots.                 *)
EXTENDS ConnectedBooking, TLC

CONSTANTS a, b, c, o1, o2, s1, s2, w1, w2

OneOp == {o1}
TwoOps == {o1, o2}

\* o2 is the same pair with the roles exchanged.
ReversedHost == o1 :> a @@ o2 :> b
ReversedPeer == o1 :> b @@ o2 :> a
\* b is the guest of one operation and the host of the other: a stale reading
\* of either side's calendar would let them overlap.
ChainHost == o1 :> a @@ o2 :> b
ChainPeer == o1 :> b @@ o2 :> c
\* A single operation.
SingleHost == o1 :> a
SinglePeer == o1 :> b

AllOverlap == Slots \X Slots
WorkerSymmetry == Permutations(Workers)
\* Every slot overlaps every slot, so slots are interchangeable too.
WorkerAndSlotSymmetry == WorkerSymmetry \union Permutations(Slots)
=============================================================================

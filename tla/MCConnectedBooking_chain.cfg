SPECIFICATION Spec
CONSTANTS
  a = a
  b = b
  c = c
  o1 = o1
  o2 = o2
  s1 = s1
  s2 = s2
  w1 = w1
  w2 = w2
  NoOp = NoOp
  NoSlot = NoSlot
  Agents = {a, b, c}
  Ops <- TwoOps
  Host <- ChainHost
  Peer <- ChainPeer
  Slots = {s1}
  Workers = {w1, w2}
  Overlap <- AllOverlap
  MaxRev = 1
  MaxDisturbed = 2
SYMMETRY WorkerSymmetry
INVARIANTS NoDoubleBooking OneOpenOperationPerAgent
CHECK_DEADLOCK FALSE

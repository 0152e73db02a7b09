SPECIFICATION Spec
CONSTANTS
  a1 = a1
  a2 = a2
  o1 = o1
  o2 = o2
  Agents = {a1, a2}
  Ops = {o1, o2}
  Slots = {s1}
  Host <- MCHost
  Peer <- MCPeer
  NoOp = NoOp
  NoSlot = NoSlot
  Workers = {w1, w2}
  NoStage = NoStage
  MaxRev = 5
  MaxDisturbed = 3
SYMMETRY Symmetry
INVARIANTS SubmittedAtMostOnce RefusedHasNoAppointment PairAppointedOnce
PROPERTIES KeepsPromise
CHECK_DEADLOCK FALSE

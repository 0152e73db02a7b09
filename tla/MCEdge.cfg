SPECIFICATION Spec
CONSTANTS
  r1 = r1
  r2 = r2
  r3 = r3
  p1 = p1
  p2 = p2
  Requests = {r1, r2, r3}
  Procs = {p1, p2}
  Proc <- MCProc
  Pid <- MCPid
  Max = 2
  Window = 1
  MaxPending = 2
  Chunk = 1
  MaxEvents = 2
  MaxTime = 1
SYMMETRY Symmetry
INVARIANTS TypeOK LimitHolds FeedIsWhole
CHECK_DEADLOCK FALSE

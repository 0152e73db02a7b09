SPECIFICATION Spec
CONSTANTS
  g1 = g1
  g2 = g2
  Agents = {a1}
  Keys = {k1, k2}
  NoKey = NoKey
  GuarantorKey <- MCGuarantorKey
  NextKey = NextKey
  RogueKey = RogueKey
  Workers = {w1, w2}
  MaxTime = 1
  MaxDeploys = 1
  MaxFailures = 1
SYMMETRY Symmetry
INVARIANTS TypeOK RecordsAreOfOnePiece AcceptedIsVouchedFor RefusedForACause LabReportPasses
CHECK_DEADLOCK FALSE

SPECIFICATION Spec
CONSTANTS
  Days = 2
  Starts <- MCStarts
  Zones <- MCZones
  BusyLists <- MCBusyLists
  Tastes <- MCTastes
  Lists <- MCLists
  Pages <- MCPages
  Kinds <- MCKinds
  Minutes = {0, 6, 9}
  Claims = {"hour", "lunch"}
  MaxHistory = 4
  MaxSample = 3
INVARIANTS ChoiceIsRight LearnedIsEvidenced
CHECK_DEADLOCK FALSE

SPECIFICATION Spec
CONSTANTS
  Calls = {c1, c2, c3}
  Cost = 2
  Limit = 5
  MaxHeld = 3
  MaxTries = 2
  MaxMonth = 2
SYMMETRY CallSymmetry
INVARIANTS TypeOK BooksBalance MonthlyBillWithinLimit SentCallsAreAccountedFor
CHECK_DEADLOCK FALSE

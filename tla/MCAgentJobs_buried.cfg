SPECIFICATION FairSpec
CONSTANTS
  Workers = {w1}
  Messages = {m1, m2}
  NoId = NoId
  MaxAttempts = 2
  MaxReceives = 4
  MaxStarts = 1
  MaxDisturbed = 4
PROPERTIES PendingIsReported
CHECK_DEADLOCK FALSE

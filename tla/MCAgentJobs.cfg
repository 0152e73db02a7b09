SPECIFICATION FairSpec
CONSTANTS
  Workers = {w1, w2}
  Messages = {m1, m2, m3}
  NoId = NoId
  MaxAttempts = 2
  MaxReceives = 3
  MaxStarts = 2
  MaxDisturbed = 2
INVARIANTS TypeOK OneWorkerActs OutcomeIsTrue WorkingJobHasMessage
PROPERTIES JobEnds
CHECK_DEADLOCK FALSE

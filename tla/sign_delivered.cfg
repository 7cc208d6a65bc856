CONSTANTS
  MaxId = 1
  Ids <- MCIds
  Networks <- MCParties
  NumParties = 2
  Thresholds = {2}
  QueueCapacity = 1
  Nil = Nil
  MaxDealings = 1
  MaxRounds = 1
  SleepCovers = TRUE
  SendersWait = FALSE
  MaxSessions = 1
  KeyFirst = TRUE
SPECIFICATION Spec
INVARIANTS DeliveredNonceIsFound
CHECK_DEADLOCK FALSE

CONSTANTS
  MaxId = 1
  Ids <- MCIds
  Networks <- MCParties
  NumParties = 2
  Thresholds = {2}
  QueueCapacity = 1
  Nil = Nil
  MaxDealings = 2
  MaxRounds = 3
  SleepCovers = TRUE
  SendersWait = FALSE
  MaxSessions = 3
  KeyFirst = TRUE
SPECIFICATION Spec
INVARIANTS RetryInv NonceOfOneSession OnlyFirstSessionFails
PROPERTIES RetrySigns ImplementsSigningService
CHECK_DEADLOCK FALSE

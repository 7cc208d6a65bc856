CONSTANTS
  MaxId = 1
  Ids <- MCIds
  Networks <- MCParties
  NumParties = 2
  Thresholds = {2}
  QueueCapacity = 1
  Nil = Nil
  MaxDealings = 1
  MaxRounds = 1
  SleepCovers = FALSE
  SendersWait = FALSE
SPECIFICATION DKGSpec
INVARIANTS KeyShareComplete
CHECK_DEADLOCK FALSE

CONSTANTS
  MaxId = 2
  Ids <- MCIds
  Networks <- MCParties
  NumParties = 3
  Thresholds = {2}
  QueueCapacity = 1
  Nil = Nil
  MaxDealings = 2
  MaxRounds = 2
  SleepCovers = TRUE
  SendersWait = TRUE
  MaxSessions = 2
  KeyFirst = TRUE
SPECIFICATION Spec
INVARIANTS DemoInv TimelyDemoSucceeds KeyOfOneDealing NonceOfOneSession
PROPERTIES ImplementsSigningService
CHECK_DEADLOCK FALSE
